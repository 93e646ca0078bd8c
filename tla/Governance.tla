----------------------------- MODULE Governance ------------------------------
(***************************************************************************)
(* The append-only chain of records that leads from a validated research   *)
(* candidate to a paper submission authorization: research/validation_*,   *)
(* intelligence/axiom_*, supervision and paper_ops, all written into one   *)
(* experiment directory of the research artifact store.                    *)
(*                                                                         *)
(* Every record embeds its parent and is stored under a name derived from  *)
(* its content, so a record is modelled as its lineage: the sequence of    *)
(* [kind, pick] entries from the Phase 2 decision down to itself.  Its     *)
(* parent is its front.  The validation report is the exception: its name  *)
(* comes from the decision, its content also from the evidence supplied.   *)
(*                                                                         *)
(* Workers are processes, each running one workflow at a time.  A step is  *)
(* one record_/write_ call: check the content, load and verify the whole   *)
(* parent lineage, write, reload.  A write of a content-addressed name is  *)
(* one step, because every writer of the name writes the same bytes; the   *)
(* validation report keeps the store's two steps, look and replace.        *)
(*                                                                         *)
(* Faults: a process dies between two steps; a stored file is lost,        *)
(* altered, or rewritten with the same JSON in other bytes.                *)
(***************************************************************************)
EXTENDS EvidenceGates, Sequences

CONSTANTS
  Workers,
  Cases, CaseData,       \* validation cases and what each contains
  Briefs, BriefData,     \* intelligence briefs and what each contains
  Pairs, PairData,       \* instruction and approval pairs
  AttemptStates,         \* attempt states a caller may report
  MaxRuns,               \* bound: workflows started
  MaxDamage              \* bound: files damaged

ASSUME GovernanceAssumption ==
  /\ MaxRuns \in Nat /\ MaxDamage \in Nat
  /\ CaseData \in [Cases -> ValidationCase]
  /\ BriefData \in [Briefs -> IntelligenceBrief]

VARIABLES
  files,   \* what is stored: name -> [holds: the record, bytes: its condition]
  work,    \* each worker's workflow and the record it stands on
  handed,  \* report artifacts that workflows have returned to their callers
  runs, damage
\* Observation, read by properties only.
VARIABLE spoiled \* names that were ever damaged

vars == <<files, work, handed, runs, damage, spoiled>>

Entry(k, p) == [kind |-> k, pick |-> p]
Last(r) == r[Len(r)]
Up(r, n) == SubSeq(r, 1, Len(r) - n)
Lineage(r) == {SubSeq(r, 1, i) : i \in 1..Len(r)}

\* How deep in a lineage a kind of record lies.
Depth ==
  [decision |-> 1, verdict_report |-> 2, graveyard |-> 2, session |-> 2, evidence |-> 3,
   assessment |-> 4, report |-> 5, supervision |-> 6, review |-> 7, disposition |-> 8,
   supervision_report |-> 9, readiness_session |-> 10, readiness |-> 11, recovery |-> 12,
   execution_session |-> 12, readiness_report |-> 13, authorization |-> 13]

\* The pick of r's ancestor of kind k (validators compare embedded copies).
PickOf(r, k) == r[Depth[k]].pick

JsonKinds == {"decision", "graveyard", "session", "evidence", "assessment", "supervision",
              "review", "disposition", "execution_session", "authorization"}
StrictKinds == {"readiness_session", "readiness", "recovery"}  \* bytes are compared
ReportKinds == {"verdict_report", "report", "supervision_report", "readiness_report"}
Kinds == JsonKinds \cup StrictKinds \cup ReportKinds

\* The file name a record is stored under.
Name(r) ==
  IF Last(r).kind = "verdict_report" THEN Append(Up(r, 1), Entry("verdict_report", "any"))
  ELSE r

----------------------------------------------------------------------------
(* The artifact store.                                                     *)

Stored(r) == Name(r) \in DOMAIN files
SameBytes(r) == files[Name(r)] = [holds |-> r, bytes |-> "exact"]

\* read_json and model validation accept the record's own file.
Reads(r) ==
  /\ Stored(r)
  /\ files[Name(r)].holds = r
  /\ \/ files[Name(r)].bytes = "exact"
     \/ files[Name(r)].bytes = "reformatted" /\ Last(r).kind \in JsonKinds

\* The whole lineage is readable.
Loads(r) == \A a \in Lineage(r) : Reads(a)

WriteAllowed(r) == Stored(r) => SameBytes(r)

Put(r) ==
  [n \in DOMAIN files \cup {Name(r)} |->
     IF n = Name(r) THEN [holds |-> r, bytes |-> "exact"] ELSE files[n]]

----------------------------------------------------------------------------
(* What each load_ function reads: its own record and, through the parent's *)
(* loader, every record above it.                                           *)

LoadDecision(r) == Reads(r)

LoadIntelligenceSession(r) == Reads(r) /\ LoadDecision(Up(r, 1))
LoadEvidence(r) == Reads(r) /\ LoadIntelligenceSession(Up(r, 1))
LoadAssessment_NoParent(r) == Reads(r)
LoadAssessment(r) == Reads(r) /\ LoadEvidence(Up(r, 1))
LoadIntelligenceReport(r) == Reads(r) /\ LoadAssessment(Up(r, 1))

LoadSupervisedSession(r) == Reads(r) /\ LoadIntelligenceReport(Up(r, 1))
LoadReviewItem(r) == Reads(r) /\ LoadSupervisedSession(Up(r, 1))
LoadDisposition(r) == Reads(r) /\ LoadReviewItem(Up(r, 1))
LoadSupervisionReport(r) == Reads(r) /\ LoadDisposition(Up(r, 1))

LoadReadinessSession(r) == Reads(r) /\ LoadSupervisionReport(Up(r, 1))
LoadReadiness(r) == Reads(r) /\ LoadReadinessSession(Up(r, 1))
LoadRecoveryCase(r) == Reads(r) /\ LoadReadiness(Up(r, 1))

LoadExecutionSession(r) == Reads(r) /\ LoadReadiness(Up(r, 1))

----------------------------------------------------------------------------
(* Checks of the builders and validators.                                  *)

CaseVerdict(r) == EvaluateValidationCase(CaseData[r[1].pick])

AssessedVerdict(r) == EvaluateDecisionSupport(CaseVerdict(r), BriefData[PickOf(r, "evidence")])

ReviewStatusFor(verdict) ==
  IF verdict = "present_for_human_review" THEN "pending_human_review"
  ELSE "non_reviewable_abstention"

Dispositions == {"observed", "deferred", "dismissed", "abstention_acknowledged"}

DispositionFits(status, d) ==
  (status = "non_reviewable_abstention") <=> (d = "abstention_acknowledged")

OutcomeForSession(status, d) ==
  IF status = "pending_human_review" /\ d = "observed"
  THEN "offline_readiness_only" ELSE "blocked"

RecoveryClass(a) ==
  CASE a \in {"reserved", "submission_unknown"} -> "reconciliation_required"
    [] a \in {"accepted", "broker_existing_order_found", "reconciled"} -> "no_action_terminal"
    [] a \in {"blocked", "rejected"} -> "blocked"
    [] OTHER -> "invalid_state"

\* A client order reference is only valid with a state that needs a lookup.
RecoveryAllowed(a, referenceGiven) ==
  /\ RecoveryClass(a) # "invalid_state"
  /\ referenceGiven => RecoveryClass(a) = "reconciliation_required"

LegacyPairBinds(p) ==
  /\ PairData[p].approved
  /\ PairData[p].matches
  /\ PairData[p].created < PairData[p].approvedAt
  /\ PairData[p].approvedAt < PairData[p].expires

----------------------------------------------------------------------------
(* The records a builder makes of its parent.                              *)

Child(r, kind, pick) == Append(r, Entry(kind, pick))

DecisionRecord(c) == <<Entry("decision", c)>>
GraveyardEntry(r) == Child(r, "graveyard", "failed_gates")
ValidationReport(r, form) == Child(r, "verdict_report", form)

IntelligenceSession(r) == Child(r, "session", "human_requested")
IntelligenceEvidence(r, b) == Child(r, "evidence", b)
Assessment(r) == Child(r, "assessment", AssessedVerdict(r))
IntelligenceReport(r) == Child(r, "report", "md")

SupervisedSession(r, claim) == Child(r, "supervision", claim)
ReviewItem(r) == Child(r, "review", ReviewStatusFor(PickOf(r, "supervision")))
Disposition(r, d) == Child(r, "disposition", d)
SupervisionReport(r) == Child(r, "supervision_report", "md")

ReadinessSession(r, claim) == Child(r, "readiness_session", claim)
Readiness(r) ==
  Child(r, "readiness", OutcomeForSession(PickOf(r, "review"), PickOf(r, "readiness_session")))
RecoveryCase(r, a) == Child(r, "recovery", a)
ReadinessReport(r) == Child(r, "readiness_report", "md")

ExecutionSession(r) == Child(r, "execution_session", "human_requested")
Authorization(r, p) == Child(r, "authorization", p)

----------------------------------------------------------------------------
(* Workers.                                                                *)

Idle == [flow |-> "none", at |-> <<>>, looked |-> FALSE]
Flows == {"none", "validate", "intelligence", "supervise", "ready", "submit"}

Start(w, flow, at) ==
  /\ work[w] = Idle
  /\ runs < MaxRuns
  /\ runs' = runs + 1
  /\ work' = [work EXCEPT ![w] = [flow |-> flow, at |-> at, looked |-> FALSE]]
  /\ UNCHANGED <<files, handed, damage, spoiled>>

\* A failing workflow clears away the record it stands on.
Raise_CleansUp(w) ==
  /\ work' = [work EXCEPT ![w] = Idle]
  /\ files' = [n \in DOMAIN files \ {work[w].at} |-> files[n]]
  /\ UNCHANGED <<handed, runs, damage, spoiled>>

Raise(w) ==
  /\ work' = [work EXCEPT ![w] = Idle]
  /\ UNCHANGED <<files, handed, runs, damage, spoiled>>

On(w, flow, kind) == work[w].flow = flow /\ work[w].at # <<>> /\ Last(work[w].at).kind = kind

\* One record_ or write_ call of r: allowed is what its builder and its
\* validators require of the content, parent what must load first.
Record(w, r, allowed, parent, final) ==
  LET done == allowed /\ parent /\ WriteAllowed(r) IN
  IF done
  THEN /\ files' = Put(r)
       /\ work' = [work EXCEPT ![w] = IF final THEN Idle ELSE [@ EXCEPT !.at = r]]
       /\ handed' = IF final THEN handed \cup {r} ELSE handed
       /\ UNCHANGED <<runs, damage, spoiled>>
  ELSE Raise(w)

----------------------------------------------------------------------------
(* Phase 2: run_validation_workflow.                                       *)

RunValidation(w) == Start(w, "validate", <<>>)

RecordDecision(w) ==
  /\ work[w].flow = "validate" /\ work[w].at = <<>>
  /\ \E c \in Cases : Record(w, DecisionRecord(c), TRUE, TRUE, FALSE)

Buried_AnyFailure(r) == CaseVerdict(r) # "validated_research_candidate"
Buried(r) == CaseVerdict(r) = "rejected"

\* Only a rejected decision enters the graveyard, and only a stored one.
RecordGraveyardEntry(w) ==
  /\ On(w, "validate", "decision") /\ ~work[w].looked
  /\ Buried(work[w].at)
  /\ LET entry == GraveyardEntry(work[w].at) IN
     IF LoadDecision(work[w].at) /\ WriteAllowed(entry)
     THEN /\ files' = Put(entry)
          /\ work' = [work EXCEPT ![w].looked = TRUE]
          /\ UNCHANGED <<handed, runs, damage, spoiled>>
     ELSE Raise(w)

\* The supplied evidence is rendered, or none was supplied.  The decision
\* must equal a fresh evaluation of what is rendered.
ReportForms(c) ==
  {"with_evidence"} \cup
  (IF /\ CaseData[c].robustGates = {} /\ ~CaseData[c].resamplingGate.set
      /\ CaseData[c].robustness.given \/ CaseData[c].resampling.given
   THEN {"without_evidence"} ELSE {})

ReportRendered(w, form) ==
  form = "with_evidence" => EvidenceIsBound(CaseData[work[w].at[1].pick])

\* write_bytes looks at the path ...
LookForValidationReport(w) ==
  /\ On(w, "validate", "decision")
  /\ Buried(work[w].at) => work[w].looked
  /\ \E form \in ReportForms(work[w].at[1].pick) :
       LET r == ValidationReport(work[w].at, form) IN
       \/ /\ ReportRendered(w, form)
          /\ Stored(r) /\ SameBytes(r)
          /\ handed' = handed \cup {r}
          /\ work' = [work EXCEPT ![w] = Idle]
          /\ UNCHANGED <<files, runs, damage, spoiled>>
       \/ /\ ReportRendered(w, form)
          /\ ~Stored(r)
          /\ work' = [work EXCEPT ![w].at = r]
          /\ UNCHANGED <<files, handed, runs, damage, spoiled>>
       \/ /\ ~ReportRendered(w, form) \/ (Stored(r) /\ ~SameBytes(r))
          /\ Raise(w)

\* ... and replaces whatever is there by then.
ReplaceValidationReport(w) ==
  /\ On(w, "validate", "verdict_report")
  /\ files' = Put(work[w].at)
  /\ handed' = handed \cup {work[w].at}
  /\ work' = [work EXCEPT ![w] = Idle]
  /\ UNCHANGED <<runs, damage, spoiled>>

----------------------------------------------------------------------------
(* Phase 3: run_intelligence_os_workflow over a decision a caller holds.   *)

RunIntelligence(w) ==
  \E r \in handed : Last(r).kind = "verdict_report" /\ Start(w, "intelligence", Up(r, 1))

RecordIntelligenceSession(w) ==
  /\ On(w, "intelligence", "decision")
  /\ Record(w, IntelligenceSession(work[w].at),
            CaseVerdict(work[w].at) = "validated_research_candidate",
            LoadDecision(work[w].at), FALSE)

RecordEvidence(w) ==
  /\ On(w, "intelligence", "session")
  /\ \E b \in Briefs : Record(w, IntelligenceEvidence(work[w].at, b), TRUE,
                            LoadIntelligenceSession(work[w].at), FALSE)

RecordAssessment(w) ==
  /\ On(w, "intelligence", "evidence")
  /\ Record(w, Assessment(work[w].at), TRUE, LoadEvidence(work[w].at), FALSE)

WriteIntelligenceReport(w) ==
  /\ On(w, "intelligence", "assessment")
  /\ Record(w, IntelligenceReport(work[w].at), TRUE, LoadAssessment(work[w].at), TRUE)

----------------------------------------------------------------------------
(* Phase 4: run_supervised_operations_workflow over a report artifact.     *)
(* The artifact is the caller's: the verdict it names is only a claim      *)
(* until load_intelligence_report has compared it with the assessment.     *)

RunSupervision(w) ==
  \E r \in handed : Last(r).kind = "report" /\ Start(w, "supervise", r)

ClaimedVerdictHolds(r, claim) == claim = PickOf(r, "assessment")

RecordSupervisedSession(w) ==
  /\ On(w, "supervise", "report")
  /\ \E claim \in {"present_for_human_review", "abstain"} :
       Record(w, SupervisedSession(work[w].at, claim), ClaimedVerdictHolds(work[w].at, claim),
              LoadIntelligenceReport(work[w].at), FALSE)

RecordReviewItem(w) ==
  /\ On(w, "supervise", "supervision")
  /\ Record(w, ReviewItem(work[w].at), TRUE, LoadSupervisedSession(work[w].at), FALSE)

RecordDisposition(w) ==
  /\ On(w, "supervise", "review")
  /\ \E d \in Dispositions :
       Record(w, Disposition(work[w].at, d), DispositionFits(PickOf(work[w].at, "review"), d),
              LoadReviewItem(work[w].at), FALSE)

WriteSupervisionReport(w) ==
  /\ On(w, "supervise", "disposition")
  /\ Record(w, SupervisionReport(work[w].at), TRUE, LoadDisposition(work[w].at), TRUE)

----------------------------------------------------------------------------
(* Phase 5: run_paper_readiness_workflow over a supervision report.        *)

RunReadiness(w) ==
  \E r \in handed : Last(r).kind = "supervision_report" /\ Start(w, "ready", r)

ClaimedDispositionHolds(r, claim) == claim = PickOf(r, "disposition")

RecordReadinessSession(w) ==
  /\ On(w, "ready", "supervision_report")
  /\ \E claim \in Dispositions :
       Record(w, ReadinessSession(work[w].at, claim), ClaimedDispositionHolds(work[w].at, claim),
              LoadSupervisionReport(work[w].at), FALSE)

RecordReadiness(w) ==
  /\ On(w, "ready", "readiness_session")
  /\ Record(w, Readiness(work[w].at), TRUE, LoadReadinessSession(work[w].at), FALSE)

RecordRecoveryCase(w) ==
  /\ On(w, "ready", "readiness")
  /\ \E a \in AttemptStates, reference \in BOOLEAN :
       Record(w, RecoveryCase(work[w].at, a), RecoveryAllowed(a, reference),
              LoadReadiness(work[w].at), FALSE)

WriteReadinessReport(w) ==
  /\ On(w, "ready", "recovery")
  /\ Record(w, ReadinessReport(work[w].at), TRUE, LoadRecoveryCase(work[w].at), TRUE)

----------------------------------------------------------------------------
(* Phase 6, up to the authorization (ConfirmedExecution takes it from      *)
(* there): run_paper_submission_workflow over a readiness assessment.      *)

RunSubmission(w) ==
  \E r \in handed : Last(r).kind = "readiness_report" /\ Start(w, "submit", Up(r, 2))

RecordExecutionSession(w) ==
  /\ On(w, "submit", "readiness")
  /\ Record(w, ExecutionSession(work[w].at),
            PickOf(work[w].at, "readiness") = "offline_readiness_only",
            LoadReadiness(work[w].at), FALSE)

RecordAuthorization(w) ==
  /\ On(w, "submit", "execution_session")
  /\ \E p \in Pairs : Record(w, Authorization(work[w].at, p), LegacyPairBinds(p),
                           LoadExecutionSession(work[w].at), TRUE)

----------------------------------------------------------------------------
(* Faults.                                                                 *)

Die(w) == work[w] # Idle /\ Raise(w)

Damage(n) ==
  /\ damage < MaxDamage
  /\ damage' = damage + 1
  /\ spoiled' = spoiled \cup {n}
  /\ \/ files' = [m \in DOMAIN files \ {n} |-> files[m]]
     \/ \E b \in {"altered", "reformatted"} : files' = [files EXCEPT ![n].bytes = b]
  /\ UNCHANGED <<work, handed, runs>>

Init ==
  /\ files = <<>>
  /\ work = [w \in Workers |-> Idle]
  /\ handed = {}
  /\ runs = 0 /\ damage = 0
  /\ spoiled = {}

Step(w) ==
  \/ RunValidation(w) \/ RecordDecision(w) \/ RecordGraveyardEntry(w)
  \/ LookForValidationReport(w) \/ ReplaceValidationReport(w)
  \/ RunIntelligence(w) \/ RecordIntelligenceSession(w) \/ RecordEvidence(w)
  \/ RecordAssessment(w) \/ WriteIntelligenceReport(w)
  \/ RunSupervision(w) \/ RecordSupervisedSession(w) \/ RecordReviewItem(w)
  \/ RecordDisposition(w) \/ WriteSupervisionReport(w)
  \/ RunReadiness(w) \/ RecordReadinessSession(w) \/ RecordReadiness(w)
  \/ RecordRecoveryCase(w) \/ WriteReadinessReport(w)
  \/ RunSubmission(w) \/ RecordExecutionSession(w) \/ RecordAuthorization(w)
  \/ Die(w)

Next == (\E w \in Workers : Step(w)) \/ (\E n \in DOMAIN files : Damage(n))

Spec == Init /\ [][Next]_vars

----------------------------------------------------------------------------
(* Properties.                                                             *)

\* Type correctness.
TypeOK ==
  /\ \A n \in DOMAIN files :
       /\ files[n].bytes \in {"exact", "altered", "reformatted"}
       /\ n = Name(files[n].holds)
       /\ Last(n).kind \in Kinds /\ Len(n) = Depth[Last(n).kind]
  /\ \A w \in Workers : work[w].flow \in Flows /\ work[w].looked \in BOOLEAN
  /\ runs \in 0..MaxRuns /\ damage \in 0..MaxDamage
  /\ damage = 0 => spoiled = {}

Contents == {files[n].holds : n \in DOMAIN files}

\* What a validated candidate must have, stated without the engine's gates:
\* every stage evidenced, every threshold measured and kept.
Within(v, low, high) ==
  v # Absent /\ (low = Absent \/ low <= v) /\ (high = Absent \/ v <= high)

PolicyHolds(c) ==
  /\ RequiredStages \subseteq c.evidenced
  /\ \A t \in c.metrics : Within(t.value, t.minimum, t.maximum)
  /\ \A t \in c.robustGates :
       /\ t.stage \in c.robustness.bound
       /\ t.coverage # Absent => Within(c.robustness.coverage, t.coverage, Absent)
       /\ t.absolute # Absent => Within(c.robustness.absolute, Absent, t.absolute)
       /\ t.relative # Absent => Within(c.robustness.relative, Absent, t.relative)
  /\ c.resamplingGate.set =>
       /\ c.resampling.bound
       /\ Within(c.resampling.loss, Absent, c.resamplingGate.loss)
       /\ Within(c.resampling.breach, Absent, c.resamplingGate.breach)

\* Authority rests on human assent: every stored authorization, and every
\* readiness that would allow one, descends from a case that keeps its whole
\* policy, a brief without a weak spot, and a review a human marked observed.
\* An abstention, a dismissal or a claimed verdict never gets there.
AuthorityNeedsAssent ==
  \A r \in Contents :
    \/ Last(r).kind = "authorization"
    \/ Last(r).kind = "readiness" /\ Last(r).pick = "offline_readiness_only"
    => LET b == BriefData[PickOf(r, "evidence")] IN
       /\ PolicyHolds(CaseData[r[1].pick])
       /\ b.quality = "verified" /\ b.eligible
       /\ b.dimensions \subseteq {"available"}
       /\ b.degradation = {"stable"}
       /\ b.scenarios = {[calibration |-> "calibrated", decision |-> "high_evidence"]}
       /\ PickOf(r, "disposition") = "observed"

\* A record is only ever written onto a lineage that loads at that moment:
\* damage to any ancestor stops the chain above it.
WrittenOntoVerifiedLineage ==
  [][\A n \in DOMAIN files' \ DOMAIN files :
       LET r == files'[n].holds IN
       Last(r).kind = "verdict_report" \/ \A a \in Lineage(r) \ {r} : Reads(a)]_vars

\* What a caller was handed keeps loading, whatever other workers do, as
\* long as no file it rests on was damaged.  The validation report is left
\* out: see the race between look and replace.
HandedReportsStand ==
  \A r \in handed :
    Last(r).kind # "verdict_report" /\ Lineage(r) \cap spoiled = {} => Loads(r)

\* A caller that was told of a rejection finds the strategy in the
\* graveyard, and nothing but a rejected decision is ever buried.
RejectionIsBuried ==
  /\ \A r \in handed :
       LET entry == Append(Up(r, 1), Entry("graveyard", "failed_gates")) IN
       /\ Last(r).kind = "verdict_report" /\ CaseVerdict(r) = "rejected"
       /\ entry \notin spoiled
       => entry \in Contents
  /\ \A r \in Contents : Last(r).kind = "graveyard" => CaseVerdict(r) = "rejected"
=============================================================================
