# Verification of the SPY market agent

The program researches a daily SPY strategy and, at the end of a long chain of
reviews, submits paper orders to Alpaca. It is a set of Python packages run from
command lines. There is no server loop: what makes it hard is that every
command is a separate process, that several may run at once, and that each one
leaves rows or files from which the next decides what it may still do. The
questions worth a model are therefore of one kind: *can commands that overlap,
fail, die, are repeated or come late bring the durable state into a shape that
the next command misreads?*

Paths below are relative to `src/src/spy_market_agent/`; documents are under
`src/docs/` and `src/reviews/`.

## 1. Inventory

| Component | State it keeps | Operations | What makes it correct |
|---|---|---|---|
| Paper execution service (`execution/service.py`) | none of its own | `submit_approved_order`, `reconcile_by_client_order_id` | one submission per symbol and session; an order that may be live is never written off; the kill switch is honoured; the caller is told the truth |
| Paper ledger (`execution/repository.py`, `persistence/schema.py`) | attempts, events, kill switch (SQLite) | `reserve_attempt`, `record_receipt`, `mark_submission_unknown`, `mark_failure`, `set_paper_execution_kill_switch` | status and event change together; final statuses are final |
| Alpaca adapter (`execution/alpaca_paper.py`) | none; the broker's orders and positions | clock, account, positions, orders, lookup, submit | answers and exceptions are classified so that uncertainty stays uncertainty |
| Confirmed execution, phase 6 (`phase6_execution`) | exclusive claim and guard files, outcomes, reports | submission and reconciliation workflow | an authorization is used once; one outcome chain per authorization, true to the ledger |
| Dataset store (`market_data/storage.py`, `pipeline.py`) | three files per dataset | `write_dataset`, `verify_manifest_artifacts` | a success verifies; a failure leaves no trace; a complete dataset is not touched |
| Provider and canonicalization (`market_data/*`) | none | fetch, normalize, check sessions | parsed bars are the provider's |
| Shadow runner and persistence (`shadow/runner.py`, `persistence.py`) | runs, snapshots, events, alerts (SQLite) | reserve, finalize, reject, mark failed | one observer per dataset; rows agree with the status; nothing is resumed automatically |
| Shadow schedule (`shadow/schedule_ops.py`) | none; reads the runs | `evaluate_scheduled_observation`, `run_due_observation` | due sessions are observed once, missed ones are surfaced |
| Benchmark workflow (`benchmark/pipeline.py`, `artifacts.py`, `verification.py`) | one directory of JSON artifacts per benchmark | prepare, run-validation, finalize-lock, run-final-test, verify, audit replay | the final test is evaluated once, after validation, lock and access record; evidence is immutable |
| Backtesting engine, costs, risk rules (`backtesting`, `risk`) | portfolio of a run in progress | one pass over the sessions | cash and shares conserve; every order passed the rules; the result passes its own audit |
| Labels, features, splits (`datasets`, `features`) | none | pure functions of the bars | no label or feature reaches past its partition |
| Training, selection, evaluation, signals (`modeling`, `strategies`) | none; records in the caller's hands | train, select, refit, `evaluate_locked_model_on_test`, signals | each call gets the data and the runtime of the one before; what is traded is what was evaluated |
| V1 artifact database (`persistence/repositories.py`) | insert-once rows of several tables (SQLite) | save, load and list of every artifact, schema initialization | an artifact is whole or absent, never replaced; answers are true |
| Research development (`research/folds.py`, `calibration.py`, `phase2_isolation.py`, `evaluation.py`, `selection.py`, `runner.py`) | one directory of artifacts per campaign | slices of the data, folds, fits, rankings, campaign | windows are purged; the benchmark's final test is not read; an index covers one consistent run; a promotion is earned |
| Validation engine and memory (`research/validation_*`) | decisions, graveyard, reports | `run_validation_workflow` | a missing or failed gate never passes; a rejection is buried |
| Intelligence, supervision, paper operations (`intelligence/axiom_*`, `supervision`, `paper_ops`) | append-only memories of checksummed records | sessions, assessments, reviews, dispositions, readiness, authorizations, recovery cases | every record rests on a stored lineage; no authority without a human's assent |
| Phase 7 (`phase7_validation`) | sessions, guards of dates, observations, safety evidence, assessments, reports | observation workflow, safety recording, reporting | one observation per date; reports cover everything and replay; readiness is earned |
| API, dashboard, settings, AI contracts | none | reads | not state-changing |

**Interactions.** Acquisition writes datasets; shadow observation and the
benchmark read them. The V1 pipeline (labels, features, splits, training,
signals, risk, backtest) hands immutable records from stage to stage and saves
them in the V1 database; an approved instruction of that database is what the
paper service submits. Phase 6 wraps one call of the paper service between two
passages through its audit memory, on the strength of an authorization that
`paper_ops` issued after supervision of what `intelligence` proposed. Nothing is
called back; components share only the SQLite files, the artifact directories
and the broker.

**Hard behaviours.** Two processes between the same look and the same write
(reservation of a session, exclusive files, check-then-replace stores); values
read before a reservation and used after it (positions, clock, kill switch); a
load that reads ten tables one by one; data, splits or a scikit-learn version
that change between two calls of one evaluation; windows that are off by one; a
submission whose answer is lost, late or overtaken by a reconciliation; a process
that dies between two files or two transactions; a handler whose own write fails;
a repetition of what was already done. `PROJECT.json` lists them one by one under
`hazards`, each at the line where it bites.

## 2. Modules

| Module | Models | Size of a step |
|---|---|---|
| `PaperExecution` | service, ledger, adapter, and the broker as the service sees it | one ledger transaction or one broker request |
| `SubmissionPromise` | what a caller may rely on: an abstract specification with no calls, faults or ledger | |
| `ConfirmedExecution` | the phase 6 workflows, composed with `PaperExecution`, which it extends | one file operation others can see, or one step of the service |
| `DatasetStore` | `write_dataset` and what it reads back | one operation on one file |
| `ShadowObservation` | runner, persistence and schedule | one transaction, or one statement of the schema script |
| `BenchmarkStages` | the four benchmark commands over one directory, verification and replay | the look at a path, the replacement of the path, the read-back |
| `Backtest` | engine, costs, risk rules, metrics and the audit of the result | one session, or one row of the audit |
| `EvidenceGates` | the gates of the validation engine and of the decision support | operators |
| `Governance` | the chain of records from a validation decision to an authorization | one record or report: check, load the lineage, write, reload |
| `PilotValidation` | phase 7 over the outcomes and reports of phase 6 | one file operation or one listing |
| `SupervisedData` | labels, features, their alignment, the chronological split | operators |
| `ModelSelection` | training, selection, lock, refit, evaluation, signals and their validators | operators |
| `WalkForward` | the benchmark's split, the research isolation, folds, calibration split, fit scopes | operators |
| `ModelPipeline` | the V1 chain as a caller drives it | one call |
| `ResearchCampaign` | the development campaign and its directory, after `ModelPipeline` in the same interpreter, over `WalkForward` | one candidate over all folds, one ranking, one artifact |
| `ArtifactPromise` | what the V1 database promises: an abstract specification with no tables, transactions or faults | |
| `ArtifactDatabase` | the V1 repository and its schema | one table's statements, or one SELECT |
| `*Proofs` | theorems about the module they extend; `ExecutionProofs` about `PaperExecution` and `ConfirmedExecution`, `ResearchCampaignProofs` about `ModelPipeline` too, `BacktestProofs` about `Backtest` and `ArtifactDatabase` | |
| `MC*` | constants and symmetry for TLC | |

Definitions named `X_Y` (for example `SessionAvailable_ByClientId`) are variants
of the definition `X`, each with one plausible mistake. They are not part of any
specification; `PROJECT.json` pairs them with the property that detects them.

### PaperExecution

`Calls` are slots for concurrent invocations, each a process of its own. `attempt`
is the status column of `paper_execution_attempts`, `trail` the event table,
`killSwitch` the control row. `pc[c]` names the next thing a call does; the
phases follow the text of `submit_approved_order`: local gates, kill switch,
positions, open orders (`PassGates` to `PassOpenOrders`, any of which may refuse,
`Refuse`), `Reserve` (`BEGIN IMMEDIATE`, uniqueness of symbol and session), lookup
by `client_order_id`, clock refresh, final kill-switch gate, `Send`, and the
handlers for acceptance, rejection and anything else (`NoUsableReply`), each of
which ends in one ledger transaction that may be refused or fail (`RecordReceipt`,
`Mark`). `StartReconcile` to `RecordReconciled` are the second entry point.

The broker is external and modelled from how the adapter uses it: `wire` holds
requests under way, which may arrive late, be rejected or get lost; `reply` is
what the broker would answer; `ExternalOrder` is another installation using the
same client id with another order (`alien`); `Fill` and the end of a session
(`Tick`) move `shares` and expire DAY orders. The clock is a finite sequence of
instants with the session that is open at each. `Crash` frees a slot at any point.

`sent`, `submitted` and `sawDisengaged` are read by properties only.

### SubmissionPromise

Orders are claimed (one per session), sent, arrive or are refused, and get a
verdict, "live" or "dead", once; "live" only if the broker has the order, "dead"
only if it was refused or not sent, and then it never will be. `PaperExecution`
implements it (`KeepsPromise`) under the mapping: claimed = has a row, verdict =
group of the status.

### ConfirmedExecution

A workflow run uses the slot of the service with its name while in stage
`serve`; the steps of `PaperExecution` are steps of the composition, and the
invariants proved there are proved here of the same variables. `artifact` records
that an exclusive file may exist *empty*, between `os.open` and the write
(`memory.py:518-524`). `Claim`/`WriteClaim` are `claim_submission`; `Conclude` is
the bridge's classification of results and exceptions; `CheckOutcome`, `Guard`,
`WriteGuard`, `RecordOutcome` are `record_outcome`; `WriteReport` the report. Every
write may fail, every run may die. The faults are counted together with those of
the service.

### DatasetStore

All acquisitions are of unchanged content and so share their paths; they differ
in the time of retrieval, which raw snapshot and manifest contain (`Stamp`).
`Probe` is the look at which files exist, then for each artifact `Check` (exists?),
`Compare` or `Write`, and `Confirm` (read back); `Reload` verifies the whole;
`CleanUp` and `Unlink` remove what was created. The initial states have no dataset
or a complete one. `settled`, `overlapped`, `found` and `left` are observations.

### ShadowObservation

`run`, `snapshots`, `events`, `alerts` are the tables; a run is identified by its
dataset. `Direct` and `Decide` are the two ways in (`run_observation`, and the
schedule's decision, which as a preview stops there); then schema creation,
`Reserve`, and `RecordRejection` for a repeat or `Finalize` for an observation,
with `MarkFailed` as the handler. `Tick` completes a session. `surfaced` and
`answered` observe what schedule decisions told the operator.

### BenchmarkStages

`disk` maps each artifact to its content. `Plan` is the order in which each
command writes; the evaluation of the final test is an item of the last plan.
`Begin` makes a command's checks (`May`), each artifact then goes through `Look`,
`Swap` (temporary file and `os.replace`) and `Confirm`. `Verified` and
`Replayable` are what verification and audit replay accept; a temporary file left
behind (`litter`) makes verification refuse. Access and completion records carry
a token, the time they contain, so that two runs' records can differ. `raced`
observes that two final tests overlapped.

### Backtest

`Trade` is one turn of the loop of `_run_validated_signal_backtest`: propose an
order (`_propose_order`, sized by `maximum_affordable_buy_quantity`), judge it
(`evaluate_order_risk`, which computes the costs on its own), fill it, mark to the
close. `rows` keeps what the four record frames keep of a session. Targets and
prices are arbitrary inputs, so the signal policy is any policy. `Measure` is
`calculate_backtest_metrics` with its checks, `AuditRow` one turn of
`_validate_backtest_audit_replay`, with the checks on the reconstructed records
that this row needs; an exception of the run ends in `failed`, one of the audit in
`refuted`. The engine computes with exact decimals, the records hold floats
(`decimal_to_float`, here `Recorded`), and the audit compares within a tolerance
(`Near`). A fill is compared amount by amount (`Amounts`: price, notional, commission,
slippage, total, change, cash), as written against as reconstructed (`Readable`) and as
reconstructed against what the replay would have filled (`FillStands`), and so are an
order's estimates and a decision's projections (`OrderStands`, `RecordStands`). One
`Tolerance` stands for the 1e-8 of these comparisons and for the 1e-9 with which
`models.py:1279-1312` checks market value and equity of the portfolio frame: those two
identities are exact where prices are floats. Integers stand for decimals in a unit in which every product of a price
and two rates is exact. Left out: sessions and dates, lineage and checksums, the
ratios (returns, drawdown, turnover), and decimals of more than 28 digits.

### Governance

Every record embeds its parent and its name derives from its content, so a record
*is* its lineage here: the sequence of entries from the validation decision down.
`Reads` is the store's read with the strictness of the kind of file (canonical
bytes for some, equal JSON for others), `LoadX` the load of each registry, which
loads the parents as well. `Record` is what all `record_*` methods do. A write
under a content-derived name is one step, because every writer writes the same
bytes; the validation report, whose name comes from the decision alone, keeps the
store's look and replace (`LookForValidationReport`, `ReplaceValidationReport`).
Workers may die, and stored files may be lost, altered or reformatted (`Damage`).
The gates are in `EvidenceGates`: which thresholds are missing, which fail, and
the verdict; `PolicyHolds` states the same without gates, for the properties.

### PilotValidation

`chain` and `executions` are what phase 6 recorded and reported. A date is
claimed by an exclusive file that is empty until it is filled (`ClaimDay`,
`FillGuard`), then the observation is stored. Assessment and report list the
safety evidence, then the observations, then write; `handed` keeps what a caller
got and what was stored when its assessment began.

### SupervisedData, ModelSelection, WalkForward, ModelPipeline

Constructors are sets, empty where the code raises. A feature is the sessions it
was computed from, a label its sign and the sessions it read, an estimator what it
was fitted on and a table of scores. The caller of `ModelPipeline` holds one
artifact at a time and passes it on together with any batch, costs and split it has
lying around; between two calls scikit-learn may be upgraded. `Train`,
`FitLocked`, `Evaluate`, `BuildSignals` are the V1 chain. `ran` and `fits` observe
which versions computed and what was fitted on what. `Choose` has equality where the
code has a tolerance of 1e-12: metrics are integers in units far larger than that.
A batch comes with the manifest it was verified against, so the lineage check of the
isolation (`phase2_isolation.py:381-416`) cannot fail and `ExclusionBoundaries` has no
guard for it.

### ResearchCampaign

The directory of a campaign is named after its data, configuration and runtime, so
one identity (`study`) is followed and `directory` holds what its runs have left.
`StartCampaign` derives the slice, the dataset and the folds; `EvaluateAblation`,
`SelectFeatures`, `EvaluateModel`, `RankModels`, `EvaluateVariant` and `Decide` are
the stages, with the order of `_compare_candidates` as a tuple (`Key`), the
preference for simpler candidates (`Preferred`) and the promotion gates
(`PromotionAllowed`); `WriteArtifact` writes the next of the ten artifacts, or
refuses to. How a candidate scores on a fold is a table, because fits are
deterministic; which folds it completed is not: `EvaluateFolds` lets any of them
fail in an accident. `Interrupt` ends a run anywhere, and another may be started
with the same or another `created_at`. `Content` keeps of each artifact what it says
about the results: which folds a candidate completed and the final selection are in
`classification_results`, how often each model failed in `hyperparameter_trials`, and
in `selection_report` medians (of the calibrations only the losses) and whether there
is a promotion, not of what. Medians are kept in halves of a unit.

### ArtifactDatabase, ArtifactPromise

A table holds, for a run id, the rows of some artifact or none. A save is one
deferred transaction: its first insert takes the write lock, each table is a step
(`Insert`), keys and foreign keys are checked as SQLite does (`TakesKey`,
`LacksParent`), then `Commit`. A load reads table by table with no transaction
around it (`ReadBase`, `ReadTable`) and rebuilds the artifact (`Rebuild`), which
depends on the installed scikit-learn. `Busy` is the busy timeout, `Fail` an error
or a death. The promise has one artifact under a kind and run id; the refinement
maps it to the rows if they are complete and belong together, and to something the
promise does not know otherwise (`Stored`).

## 3. Runs

`tlc -workers 2 -config <cfg> <module>`; every passing run ends within three
minutes. Symmetry is used on call slots only, which no action tells apart, and
in no run that checks liveness.

| Run | Instance | States | Shows |
|---|---|---|---|
| `one` | one buy, two calls, two faults, a foreign order under the same id | 276 000 | `KillSwitchHonoured`, `ResultIsTruthful`, `TrailRetracesAttempt`, `KeepsPromise` (`SubmissionPromise`), `ReconciliationConverges` |
| `apart` | a buy, and in the next session a buy and a sell; prompt delivery; the adapter as it is | 592 000 | `OneSubmissionPerSession`, `LongOnlyOnePosition`, `ArrivesInItsSession` |
| `runs` | two authorizations of one order, two runs, one fault | 873 000 | `OutcomeChain`, `AuditIsTruthful`, `SingleUse` |
| `store` | two acquisitions at different times, three faults | 173 000 | `SuccessVerifies`, `FailureLeavesNoTrace`, `CompleteIsUntouched` |
| `shadow` | one dataset, two calls, two failing transactions, one crash | 314 000 | `AuditMatchesLifecycle`, `OneFailureNeverStrands`, `AnswerIsTruthful`, `NoAutomaticResume` |
| `gap` | three datasets over four sessions, one failure | violated | a missed session is never listed |
| `stages` | two processes, two faults or crashes, any commands any number of times | 1 774 000 | `EvaluatedOnce`, `EvaluationIsGuarded`, `CompletionIsReplayable` |
| `backtest` | up to four sessions, three opens, two closes, six cost assumptions | 844 000 | `TargetIsReached`, `ChecksNeverTrip`, `MetricsAddUp`, `ClearRunsPassAudit` |
| `governance` | three validation cases, two briefs, two pairs, two workers, five workflows, one damaged file | 728 000 | `AuthorityNeedsAssent`, `WrittenOntoVerifiedLineage`, `HandedReportsStand`, `RejectionIsBuried` |
| `pilot` | two dates, one authorization, two workers, three calls, one death | 2 761 000 | `OneObservationPerDate`, `ReportsStand`, `ReadinessIsEarned` |
| `pipeline` | two batches, seven splits, two costs, two thresholds, five skills, one upgrade; then a campaign: four parents of 29 to 33 sessions, one to three folds, a score table each, three feature sets, four models, two timestamps, an interruption, an accident | 135 000 | `NoLookAhead`, `OneRuntime`, `RefitOnSelectionData`, `DevelopmentNeverReadsTheFinalTest`, `IndexedEvidenceReplays`, `PromotionIsEarned` |
| `database` | two run ids, two batches, two model runs and a backtest, two calls, one fault, one upgrade | 40 200 | `KeepsPromise` (`ArtifactPromise`), `NoStrandedLock` |

Every module states a type invariant, `TypeOK` or `...TypeOK`. Those of the two
execution modules, of `DatasetStore`, `ShadowObservation`, `BenchmarkStages`,
`PilotValidation`, `ArtifactDatabase` and `Governance` are proved for all instances,
alone or as part of the inductive invariant, and are not listed in the
configurations again; those of `Backtest`, `ModelPipeline` and `ResearchCampaign`
hold in the instances above and are left to whoever changes a module.

**Bounds.** Calls are slots that are reused, so two slots allow any number of
invocations, two at a time; every race found in this code is between two
processes. Two faults let a handler's own write fail, or a crash follow a
failure; three in `store` let an attempt fail, fail to clean up and another
crash. `apart` has four instants: two in the first session, of which the approval
covers one, an evening, and the next session; that is the least in which an order
can outlive its approval or its session and the next session's calls can meet its
remains. `stages` needs no bound on commands: the directory and the token of the
last access bound the states. `shadow` has two sessions and a lag of one, so an
observation can be early, on time or late. `backtest` has four sessions, so that
cash which has been through an entry and an exit, and is no longer a round number,
sizes another entry and pays for another exit; one open is above the initial cash;
the costs include none at all and ones that take all the proceeds of a sale; floats
are four units apart, so that rounding happens in most records.
`governance` has one case with every value exactly at its threshold, one just
below, and one with a degradation that cannot be computed; five workflows are one
chain to the authorization, or a shorter chain and one that races with it. `pilot`
requires two dates, so that readiness can be reached; its order may be unknown,
reconciled, or never placed. In `pipeline` warm-up, label horizon and folds are
shrunk together, keeping their relations (the horizon is the purge); the splits
include legal ones, ones that overlap and ones whose partitions leave too little,
and the four parents give one, two and three folds, with and without a remainder of
the fold step. The score tables have candidates that are even, close,
lucky on one fold and torn between folds, so that each feature set comes to be
selected, candidates with and without calibration are promoted, and a simpler one is
preferred; two folds are the minimum to rank, so a candidate can fall short of it. `database` has an artifact for every kind, a backtest whose orders were all
rejected, and two batches whose times sort differently as text. Where the proofs below apply, the
bounds do not matter.

**Prompt delivery.** `LongOnlyOnePosition` and `ArrivesInItsSession` hold only if
a request does not travel across an instant of the clock: the code reads the clock
right before it submits and cannot do more. `PromptDelivery` states the
assumption; the other runs do without it.

**Fairness.** Safety runs assume none. `FairSpec` lets a process that is not
killed go on: a SQLite transaction waits a few seconds for the lock and then
raises; a lookup changes nothing, so one that hangs can be interrupted and counts
as one that raised. It does not promise that a submission is ever answered
(`Waiting`).
`PatientSpec` adds an operator who finishes with one result before the next call
and who, when a reconciliation can be started again and again, starts one. That
is the procedure the documents prescribe for an unknown outcome; nothing in the
code retries by itself. Faults are finite in number, so they end.

**Deadlock** is checked everywhere except where a bounded number of calls come to
their end: `store`, `backtest`, `governance`, `pilot` and `pipeline`.

### What the violated run shows

`gap` states a sentence of the documents, quoted with its line in `PROJECT.json`:
missed sessions are surfaced. A decision that found sessions missed is lost when
its observation fails, and the failed run then counts as the new starting point.

### Deviations that the models contain and no run reports

Execution:

* `alpaca_paper.py:197` turns every SDK exception into an unknown submission, so
  the status `rejected` is not reachable with this adapter
  (`AdapterReportsRejection`), though the failure matrix of
  `V2_PHASE_05_PRODUCTION_PAPER_OPERATION_SPEC.md:394` says "Record rejected". The
  error is on the safe side; the attempt stays unresolved for ever.
* When a reconciliation has resolved the attempt in the meantime,
  `mark_submission_unknown` is refused inside the handler of a timeout; the bridge
  (`bridge.py:216`) takes the resulting error for a block, and a blocked outcome
  admits no reconciliation outcome. The ledger is right, the audit memory is not:
  that is why `AuditIsTruthful` says nothing of "blocked".
* The final kill-switch gate catches ledger errors; a database that cannot be
  opened raises another one, so the attempt stays reserved instead of being
  blocked (`service.py:379`). Nothing was sent, and `NoLiveOrderWrittenOff` holds.

Data, benchmark and backtest:

* The identity of a dataset comes from its content, its bytes from content and
  time, so a second acquisition of the same content meets a conflict
  (`storage.py:243`; "Idempotent repeat execution",
  `V2_PHASE_01_REAL_SPY_DATA_SPEC.md:168`).
* The benchmark's access record is written by look and replace, so of two racing
  final tests both may evaluate (`artifacts.py:164`; "exactly once per benchmark
  identity", `V2_PHASE_02_REAL_HISTORICAL_BENCHMARK_SPEC.md:470`). `EvaluatedOnce`
  carries the proviso.
* Overlapping acquisitions may replace each other's files between look and rename
  (`storage.py:266`); the properties of `DatasetStore` therefore carry the proviso
  of no overlap, except `CompleteIsUntouched`.
* A crash between opening and writing an exclusive file leaves it empty, and it
  counts as a claim (`memory.py:518-524`).
* The reconciliation workflow moves the ledger before it looks whether an unknown
  submission is stored (`reporting.py:438-452`), so the ledger may be reconciled
  with no outcome to show for it.
* The audit of a backtest sizes every entry again, from cash read back from floats
  (`models.py:2158`). When exact cash is within rounding of a whole number of
  shares, engine and audit may disagree by one share, and a correct run is refused.
  When it is within rounding of what trading one share is charged, they may reject
  the entry for different reasons, `leverage_forbidden` or
  `maximum_position_exceeded` (`rules.py:243-248`), which the audit compares
  (`models.py:1742`). Such runs are reached in `backtest`; `ClearRunsPassAudit` says
  there are no others.
* Repeating a completed benchmark command rewrites the index with its earlier
  stage, after which the directory no longer verifies; the evidence stays.

Learning and persistence:

* The cost assumptions of the labels are no part of the lineage that a lock is
  checked against: a model selected on labels of one cost may be refitted and
  evaluated on labels of another (`training.py:258`). `RefitOnSelectionData` speaks
  of batch and sessions for that reason.
* Nothing in V1 keeps a caller from evaluating a locked model twice.
* `created_at` is stored as text without a zero fraction, and sorted as text: of two
  batches of one second the earlier may be served as the latest
  (`repositories.py:146`, `serialization.py:77`; `TextAfter`).
* A feature set none of whose folds completes ends the campaign, because
  `ablation_status` needs its median (`evaluation.py:414`), though trials are under
  "record_and_continue" (`runner.py:312`) and "Failed, neutral, and harmful ablations
  must remain visible" (`V2_PHASE_03_WALK_FORWARD_RESEARCH_SPEC.md:322`).
* Feature sets are ranked without a minimum of completed folds (`evaluation.py:426`),
  so one may be selected on the folds it happened to complete; medians of models and
  variants too are taken over different folds. `PromotionIsEarned` compares models
  only when the uncalibrated rerun completed the folds of the first evaluation.
* `created_at` is not part of a campaign's identity but of its manifest
  (`runner.py:582`): the same campaign started with another timestamp, or
  with other folds failing, meets a conflict in the directory of the first.
* After a scikit-learn upgrade stored model runs and backtests are still listed and
  no longer load ("unreadable").

Governance and phase 7:

* Two validations of one decision with different evidence race for the report's name
  (`research/artifacts.py:127`), so the report one of them handed out may be gone.
  `HandedReportsStand` excepts that report.
* Several dispositions of one review item may coexist, and a later dismissal does not
  withdraw an authorization that rests on an earlier "observed".
* A date whose guard was created by a process that died before filling it can never
  be observed; one order may be attested under several dates; an observation of an
  unknown submission stays unresolved when the order is reconciled later.

## 4. Proofs

`tlapm <module>`; every theorem holds for any values of the constants that satisfy
the named assumption of its module (`ConstantsAssumption`,
`AuthorizationAssumption`, `StoreAssumption`, `ShadowAssumption`,
`BenchmarkAssumption`, `PilotAssumption`, `ArtifactAssumption`,
`GovernanceAssumption`, and for what data reaches in `ResearchCampaignProofs`
`DataAssumption`, `FoldAssumption`, `PipelineAssumption` and `CampaignAssumption`,
for what is promoted `ScoreAssumption` as well, for `BacktestProofs`
`BacktestAssumption`).
These are typing conditions: no bound on the sizes of sets, and faults, crashes and
clock instants may be any natural number.
`DataAssumption` says that an exit comes after its entry, `FoldAssumption` that the
global warm-up (252 rows) is no shorter than the trailing one (20) and that a fold
trains and requires at least one row,
`PipelineAssumption` that a checksum identifies its batch; market rows, bounds,
window sizes and the order of a batch's sessions are otherwise arbitrary.
`ScoreAssumption` says that columns and complexities are counted and that a fold a
candidate completed has all its metrics, in units of which any integer will do.
`ArtifactAssumption` also says that an artifact is one the writer accepts (no row
without the row it refers to), and `GovernanceAssumption` that validation cases and
briefs have the fields and ranges their loaders require.

Four theorems have further hypotheses, which are stated in them:
`ArrivesInTime` needs `PromptDelivery` (no request travels across an instant of the
clock: the code cannot do more than read the clock right before it submits);
`LongOnly` needs that, `SessionsAreIntervals` (a market session is not interrupted)
and that nobody else trades the account (`ExternalOrders = {}`, which the documents
require of the operator). The run `apart` checks both properties under these
conditions. `ChecksStand` and `AuditPasses` need `WithinTolerance`: the
tolerance of the checks is at least `Edge`, a grain for each share of the largest
position and two more, because the audit compares the cash after a fill as read back
with a fill from the cash it has itself, and each of the two is half of that off; and
after slippage and commission a share sold brings at least one and a half grains. A check that compares a rounded price times a quantity with
the rounded product cannot hold for every quantity under one grain and one tolerance.
(The code allows 1e-12 of the value, or 1e-8 absolutely (`models.py:1007`), between
floats that are 1e-16 of it apart, so it has four orders of magnitude in reserve.) The run
`backtest` meets the condition, with a rounding large enough for the edge to be
reached.

The files are extended as one reads them: first the invariant, then one lemma per
action (or per group of actions that do the same to it), then the theorems.

**`ExecutionProofs`**, first part: the service, alone

* `TypeCorrectness`, `AtMostOneSubmission`, `WrittenOffIsDead`, `PositiveIsBacked`,
  `TerminalStaysTerminal`, `Implementation`. None of these is inductive: that a
  session sees one submission depends on where calls stand. `IInv` adds that a session
  belongs to one order with a row (`OneClaim`); that a call between reservation and
  submission holds its row and has sent nothing (`UnsentHoldsRow`) and is the only
  such call of its order (`SoleUnsent`); that requests precede arrivals and answers
  (`RepliesFollowRequests`); and that what a call is about to write is true of the
  broker already (`RejectionsReal`, `OrdersBacked`). `Implementation` then shows
  that every step is one of `SubmissionPromise` or changes nothing of it.
* `KillSwitchIsHonoured`, by `SwitchSeen`: a call past its last look has seen the
  switch disengaged since its reservation.
* `TrailIsComplete`, by `Trails`: the trail of an order is determined by its status,
  up to the two ways to get there; so no reachable trail has a gap or a second end.
* `AnswersAreTruthful`, by `Senders` and `Told`: what a call is about to answer is in
  the ledger, or a reconciliation has put there what the answer allows; and the
  ledger moves only forward.
* `ArrivesInTime`, by `InTime`: what is on the wire was sent at this instant, which
  the clock check admitted.
* `LongOnly`, by `PositionInv`: shares held and orders working together are nought or
  one. The position is read early and used late; that is enough because in an open
  session only the order that reserved it can trade, so that while the session lasts
  the position stays as it was seen.

**`ExecutionProofs`**, second part: the workflow with the service inside it

* `AuthorizationUsedOnce`, by `CInv`: the run that created the claim file is the only
  one that may delegate (`SoleClaim`), the claim is written before and nothing was
  delegated until then (`ClaimedFirst`), and a service call that may still send was
  delegated for that order (`SendersDelegated`). The steps of the service enter
  through one lemma on what they do to their slot.
* `OutcomesAreChained`, by `GInv`: each guard file is filled by the run that created
  it (`SoleRecorder`) and stays (`GuardsStand`), a run past its check still has room for
  its outcome, and a reconciliation was checked against an unknown submission that
  nobody adds to (`StillRecordable`, `ReconciliationsFollow`).
* `ConfirmedInvariance`, `WorkflowKeepsPromise`: the invariants of the service hold in
  the composition as well, and so does its refinement of `SubmissionPromise`.
* `AuditMemoryIsTruthful`, by `AInv`: from the answer of the service over the
  classification to the stored outcome, what a run carries agrees with the ledger,
  then and later (`Answered`, `UnknownSettles`, `RecordsHold`). For an unknown
  submission "later" needs `Settled`: no call is left that could write its order off.

**`DatasetStoreProofs`** — `StoreTypeCorrectness`; `CompleteStaysUntouched`, by `SInv`:
every attempt begun since the dataset was complete has seen every file it has
looked for, so it has created nothing and has nothing to clean up. `SuccessStays`
and `FailureIsClean`, by `AInv`: an attempt that is alone knows the disk, which is
what it found and what it has written since (`Progress`).

**`ShadowObservationProofs`** — `ShadowTypeCorrectness`, `OneObserver`,
`NothingIsResumed`, `TerminalRunsStay`, by `IInv`: who observes a dataset holds its
reservation (`HoldsReservation`), which is what makes the absence of a rival
inductive, because a reservation is only made where there is no run. `RowsAgree`,
`AnswersStayTrue` and `NoSingleFailureStrands`, by `AInv`: the rows of a dataset are
those of its status (`AuditOf`), who refuses a repeat saw the run that is its reason
(`Grounds`), and without a crash an abandoned reservation has cost two faults, an
abandoned schema one (`FaultsCounted`).

**`BenchmarkStagesProofs`** — `BenchmarkTypeCorrectness`, `AtMostOneEvaluation`,
`GuardedEvaluation`, `StoredEvidenceStays`. `BInv` has a part that holds however
commands race (`Evidence`: access is stored before the evaluation, what a command
checked when it began still holds, an evaluation leaves its record) and one for
behaviours without racing final tests (`Solitude`: one final test at a time, none
evaluated before it, no record appears between its look and its write).
`CompletionCanBeAudited`, by `RInv`: a command has stored what lies before the item
it is at (`Passed`), in the bytes it drafted (`OwnBytes`) and for the access it
recorded (`OwnAccess`), and every stored artifact rests on those before it (`Rests`).

**`PilotValidationProofs`** — `InvariantHolds`, `TypeCorrect`, `DateHasOneObservation`,
`EvidenceIsKept`, `HandedReportsLoad`, `ReadyIsEarned`. `PInv`: a guard file is absent,
empty or names one observation; who is to fill it created it and is alone (`SoleFiller`);
every stored observation is the one its guard names; a reporting call has listed at
least what was stored when it began. Each step lets the stores grow (`Grows`), and
that carries every fact about stored evidence; a listing is compared with the stores
at two moments, and readiness is judged on the listing.

**`BacktestProofs`**, first part: the backtest

* `BooksBalance`, `BacktestTypeCorrect`, `StrategyIsServed`, by `BookInv`: each record
  is what the engine does with a target and two prices in the portfolio of the record
  before (`RowFollows`), and portfolio and metrics are those of the records. From it
  follow: an exit that can be built is approved, an entry is approved if and only if
  it is affordable, and otherwise the sizing proposed one share (`Sizing`,
  `EntryJudged`, `ExitJudged`).
* `MetricsExplained`, for any number of sessions and any spacing of floats. The
  commission divides without rest (`Prices`), so a fill moves cash and position by
  exactly its reported cost (`FillCost`), a session moves the equity by what the
  positions gained and that (`SessionGain`), and the totals follow by induction over
  the rows (`Accounts`), each reported cost being half a grain off (`Rounded`).
  The totals are a recursive function over the rows in their order (`Total`).
* `ChecksStand`, while `WithinTolerance`: each recorded number is at most half a grain
  off, so a recorded price times a quantity is off by half a grain per share and each
  check by that and at most two grains more, which the tolerance covers. No fill
  leaves debt on paper: an entry off the edge leaves more than the rounding takes, and
  so does the sale of one share.
* `AuditPasses`, while `WithinTolerance`, by `AuditInv`: the cash with which the
  audit goes on is within rounding of the engine's (`Tracks`) after every session,
  because each fill is read back from what the engine recorded of it and not computed
  from the audit's last; so errors do not add up. Off both edges the replay asks for
  the order that was recorded (`EntryChecked`, `ExitChecked`), and then every amount of
  order, decision and fill agrees within the tolerance (`OrderChecked`, `FillsAgree`).

**`BacktestProofs`**, second part: the database — `InvariantHolds`, `NoLockIsStranded`,
`RepositoryKeepsPromise`. `DInv`: the write lock is taken with the first table, whose
key refuses a run id that is stored; so what the writer has inserted is all there is
of its artifact (`WriterOK`), and no later table can refuse it. Committed is the whole
of an artifact or nothing (`WholeOK`), and it is never replaced; so a load that
found its first row finds the others, although its statements share no transaction.
The refinement follows: the commit is the step of the promise, all other steps of a
save change nothing of it.

**`GovernanceProofs`** — `InvariantHolds`, `TypeCorrect`, `AuthorityIsEarned`,
`RecordsStandOnVerifiedLineage`, `ReportsKeepStanding`, `RejectionsAreBuried`. `VInv`:
stored records, work under way and reports handed out are lineages in which each record
follows from the one before by the code's rule (`WellBuilt`, `Follows`); a rejection is
buried before it is reported (`BuriedFirst`). The lemmas say what a
write may do: it adds a record under its own name or puts a report in the place of
another, and what was readable before remains so, unless it rests on that other
report (`PutKeeps`); the policy of the validation engine and the grounds of a brief
follow from the records' contents (`ValidatedKeepsPolicy`, `PresentedIsSound`).

**`ResearchCampaignProofs`**, first part: what is computed and stored — over
`CampaignSpec`, the V1 chain and then a campaign in the same interpreter.
`OneRuntimeComputes`, by `RuntimeOfLock`: everything so far was computed by one version, which is that of the lock in the caller's hands, and each
constructor compares it with the interpreter's before it computes. `EvidenceReplays`,
by `EvidenceInv`: a run writes its artifacts in order (`InOrder`), each was compared
with the directory's or put there (`AsStored`), and its result artifacts say what
its decision was made from (`Decided`); so who writes the index has compared
everything under it, its own or an interrupted run's. `PromotionsBeatBaselines`
follows: a promotion beats the baselines, the training prevalence included, in the
stored figures. These three need no assumption at all.

**`ResearchCampaignProofs`**, second part: what data reaches

* `NothingLooksAhead`, `RefittedOnItsSelection` and `DevelopmentStaysApart`, by
  `DataInv`. A comparison in the caller's hands was made on the sessions of one batch
  that its bounds select, and a bundle's estimator has read nothing after the
  validation window (`Learned`); the folds of a campaign are those its dataset was
  divided into (`FoldsOK`); that dataset is isolated from a final test of its own
  parent (`ApartOK`).
* The lemmas follow the constructors upwards. A mask (`Where`) keeps exactly the rows
  asked for, in their order (`WhereMask` and what follows it); so a feature frame is
  trailing, a label window is in exit order, and two frames aligned on the same
  sessions have equal sessions. A partition is labelled on the sessions its bounds
  select whatever its costs are, reads nothing after its window and scores nothing
  before it. The purge of a fold and the inner purge of a calibration split make every
  fit end before the rows that are scored with it.
* That development stays apart compares two computations on the same batch: the
  split that the isolation rebuilds with its own labels and costs, and the one that the
  benchmark makes. Both see the same prediction sessions (they depend on the
  sessions of the batch and on nothing else), on which the phase 2 layout is unique.
* The order of rows is an induction over the length of a frame. The library's induction
  theorem takes an operator, but its theorem on well-founded relations takes a set:
  `SetInduction` is derived from that, and the recursive definition in `Where` is a
  function, not a `RECURSIVE` operator.

**`ResearchCampaignProofs`**, third part: what is promoted — `PromotionsAreEarned`,
by `RankingInv`.

* Sorting. A ranking is `Sorted` by a strict total order: at place n, the one with
  n - 1 before it. `Places` shows that each place is taken (ranks differ, and an
  injection of a finite set into as many places is onto), `Lexicographic` that keys
  of integers are so ordered. (`SetToSortSeq` of the community modules describes the
  same sequence by a `CHOOSE` among all of them, which the provers cannot open.)
* Sums. The keys are integers because the medians are, and those because
  `SumFunctionOnSet`, a fold over a set, of integers is an integer: `TallyExists`
  unfolds its recursive function by induction on the size of subsets.
* Steps. `Weighed`: what is in memory comes from evaluations of the candidates in
  their order, on some folds; the ranking was made of the models; the first variant is
  the first of the ranking, evaluated once more without calibration.
  `RankingReported`: the stored results hold that ranking.
* The decision compares the calibrations of one model only (`DecisionEarned`). That
  model discriminates best; on the same folds its uncalibrated rerun is equal to it;
  the first of the variants is no worse than the rerun, and who is preferred among
  them is within the tolerance of the first. `PromotionEarned` takes this to the
  directory at the moment the index is written.

**Only model-checked.** `ReconciliationConverges`: liveness under fairness,
`ENABLED`, is out of reach of the prover. All other properties that the runs check are
theorems, except the one that is violated.

## 5. Plan

Modelled is what submits orders, what leaves durable evidence under concurrency,
the accounting of the backtest, the way from data to a judged model, its storage,
and the chain of reviews that ends in the authorizations `ConfirmedExecution`
consumes and the pilot counts; every safety property the passing runs check is also
proved. Left is the liveness of reconciliation, which only TLC can check.

**Not modelled, and not to be:** floating-point statistics (metrics, calibration,
regimes, scenario studies) and scikit-learn estimators, which are numerical and
out of TLC's reach; parsing of provider and SDK objects beyond "usable or not";
report rendering; the read-only API and the dashboard, which change no state;
settings parsing; the AI analyst contracts, which no other code uses.
