---------------------------- MODULE BenchmarkStages ----------------------------
(***************************************************************************)
(* The benchmark workflow (benchmark/pipeline.py, artifacts.py,            *)
(* verification.py): prepare, run-validation, finalize-lock and            *)
(* run-final-test leave their artifacts in one directory per benchmark,    *)
(* each command deciding from the files it finds whether it may proceed.   *)
(* The final test is to be evaluated once, whatever fails.                 *)
(*                                                                         *)
(* A step is the look at an artifact's path, the creation of its temporary *)
(* file included, the replacement of the path, or the read-back; reading a *)
(* directory (an index, a verification) is one step.                       *)
(* Abstracted: artifacts a command writes one after the other and that are *)
(* only ever read together are one; results are functions of the lock, so  *)
(* a recomputation yields the same bytes; the runtime is the locked one    *)
(* and commands carry the acknowledgements they ask for, since they refuse *)
(* otherwise before they touch anything.                                   *)
(***************************************************************************)
EXTENDS Naturals, Sequences, FiniteSets

CONSTANTS
  Calls,     \* processes that may be at work at a time
  MaxFaults  \* bound: failing writes or evaluations, and crashes

ASSUME BenchmarkAssumption == MaxFaults \in Nat

\* inputs: feed record, eligibility and split; validation: results, baselines
\* and selected model; details: cost, regime and backtest results.
Prepared == {"inputs", "lock", "lockSum", "report", "index"}
Validated == Prepared \cup {"validation", "readiness"}
Locked == Validated \cup {"finalLock"}
Completed == Locked \cup {"access", "results", "details", "completion"}
Artifacts == Completed

StageArtifacts == [prepare |-> Prepared, validation |-> Validated,
                   finalize |-> Locked, final |-> Completed]
Stages == DOMAIN StageArtifacts

\* Variant: the access is recorded with the results.
Plan_AccessLate ==
  [prepare |-> <<"inputs", "lock", "lockSum", "report", "index">>,
   validation |-> <<"validation", "readiness", "report", "index">>,
   finalize |-> <<"finalLock", "index">>,
   final |-> <<"evaluation", "access", "results", "details", "completion", "report", "index">>]

\* Variant: completion is recorded before the last results.
Plan_CompletionEarly ==
  [prepare |-> <<"inputs", "lock", "lockSum", "report", "index">>,
   validation |-> <<"validation", "readiness", "report", "index">>,
   finalize |-> <<"finalLock", "index">>,
   final |-> <<"access", "evaluation", "results", "completion", "details", "report", "index">>]

\* What each command does, in order.
Plan ==
  [prepare |-> <<"inputs", "lock", "lockSum", "report", "index">>,
   validation |-> <<"validation", "readiness", "report", "index">>,
   finalize |-> <<"finalLock", "index">>,
   final |-> <<"access", "evaluation", "results", "details", "completion", "report", "index">>]

VARIABLES
  disk,   \* content of each artifact's path
  litter, \* a temporary file was left behind
  pc,     \* where each call stands
  stage,  \* the command it executes
  at,     \* how far it is in its plan
  draft,  \* the bytes it is about to write
  token,  \* the time its access record carries
  clock,
  faults
\* Observations, read by properties only.
VARIABLES
  evaluations, \* times the final test was evaluated, audits apart
  raced        \* a final test began while another was at work

files == <<disk, litter>>
vars == <<files, pc, stage, at, draft, token, clock, faults, evaluations, raced>>

Absent == [kind |-> "absent"]
Fixed == [kind |-> "fixed"]
Report(s) == [kind |-> "report", stage |-> s]
Access(t) == [kind |-> "access", token |-> t]
Completion(t) == [kind |-> "completion", token |-> t]
Index(s, listed) == [kind |-> "index", stage |-> s, listed |-> listed]

Present(d) == {k \in Artifacts : d[k] # Absent}

Init ==
  /\ disk = [k \in Artifacts |-> Absent]
  /\ litter = FALSE
  /\ pc = [c \in Calls |-> "idle"]
  /\ stage = [c \in Calls |-> "prepare"]
  /\ at = [c \in Calls |-> 1]
  /\ draft = [c \in Calls |-> Absent]
  /\ token = [c \in Calls |-> 0]
  /\ clock = 0 /\ faults = 0
  /\ evaluations = 0
  /\ raced = FALSE

Fault == faults < MaxFaults /\ faults' = faults + 1

Go(c, phase) == pc' = [pc EXCEPT ![c] = phase]

\* A command returns or raises.
End(c) ==
  /\ Go(c, "idle")
  /\ at' = [at EXCEPT ![c] = 1] /\ draft' = [draft EXCEPT ![c] = Absent]

Busy == {c \in Calls : pc[c] # "idle"}
\* A temporary file lies in the directory.
Untidy == litter \/ \E c \in Calls : pc[c] = "swap"

\* What benchmark verification accepts: the artifacts of the declared stage,
\* no others, unchanged since they were listed, the evidence consistent.
Verified(d) ==
  /\ {"lock", "lockSum", "index"} \subseteq Present(d) /\ ~Untidy
  /\ Present(d) = StageArtifacts[d["index"].stage]
  /\ \A e \in d["index"].listed : d[e[1]] = e[2]
  /\ d["index"].stage = "final" => d["completion"].token = d["access"].token

\* What an audit replay accepts.
Replayable(d) ==
  /\ Completed \ {"lockSum", "report", "index"} \subseteq Present(d)
  /\ d["completion"].token = d["access"].token

-----------------------------------------------------------------------------
\* Variant: the lock is finalized without a complete validation.
May_Unvalidated(s) ==
  CASE s = "prepare" -> TRUE
    [] s = "validation" -> Verified(disk)
    [] s = "finalize" -> {"lock", "validation"} \subseteq Present(disk)
    [] s = "final" -> /\ {"lock", "finalLock"} \subseteq Present(disk)
                      /\ {"access", "results"} \cap Present(disk) = {}

\* The checks a command makes before it writes.
May(s) ==
  CASE s = "prepare" -> TRUE
    [] s = "validation" -> Verified(disk)
    [] s = "finalize" -> {"lock", "validation", "readiness"} \subseteq Present(disk)
    [] s = "final" -> /\ {"lock", "finalLock"} \subseteq Present(disk)
                      /\ {"access", "results"} \cap Present(disk) = {}

Begin(c, s) ==
  /\ pc[c] = "idle"
  /\ raced' = (raced \/ (s = "final" /\ \E b \in Busy : stage[b] = "final"))
  /\ IF May(s)
       THEN /\ Go(c, "look")
            /\ stage' = [stage EXCEPT ![c] = s]
            /\ IF s = "final"
                 THEN clock' = clock + 1 /\ token' = [token EXCEPT ![c] = clock + 1]
                 ELSE UNCHANGED <<clock, token>>
       ELSE UNCHANGED <<pc, stage, clock, token>>
  /\ UNCHANGED <<files, at, draft, faults, evaluations>>

Doing(c) == Plan[stage[c]][at[c]]

Payload(c, k) ==
  CASE k = "access" -> Access(token[c])
    [] k = "completion" -> Completion(token[c])
    [] k = "report" -> Report(stage[c])
    [] k = "index" -> Index(stage[c], {<<a, disk[a]>> : a \in Present(disk) \ {"index"}})
    [] OTHER -> Fixed

Replaceable(c, k) == k = "index" \/ (k = "report" /\ stage[c] # "prepare")

\* The next item of the plan; a command that has done everything returns.
Advance(c) ==
  IF at[c] = Len(Plan[stage[c]]) THEN End(c)
  ELSE /\ Go(c, "look")
       /\ at' = [at EXCEPT ![c] = @ + 1] /\ draft' = [draft EXCEPT ![c] = Absent]

\* write_bytes: equal bytes are left alone, others are refused unless the
\* artifact may be replaced.  An index cannot list a temporary file.
Look(c) ==
  LET k == Doing(c) IN
  /\ pc[c] = "look" /\ k # "evaluation"
  /\ IF k = "index" /\ Untidy THEN End(c)
     ELSE IF disk[k] = Payload(c, k) THEN Advance(c)
     ELSE IF disk[k] # Absent /\ ~Replaceable(c, k) THEN End(c)
     ELSE /\ Go(c, "swap") /\ draft' = [draft EXCEPT ![c] = Payload(c, k)]
          /\ UNCHANGED at
  /\ UNCHANGED <<files, stage, token, clock, faults, evaluations, raced>>

\* The temporary file replaces the path, whatever it holds by now.
Swap(c) ==
  /\ pc[c] = "swap"
  /\ \/ /\ disk' = [disk EXCEPT ![Doing(c)] = draft[c]]
        /\ Go(c, "confirm") /\ UNCHANGED <<at, draft, faults>>
     \/ Fault /\ End(c) /\ UNCHANGED disk
  /\ UNCHANGED <<litter, stage, token, clock, evaluations, raced>>

Confirm(c) ==
  /\ pc[c] = "confirm"
  /\ IF disk[Doing(c)] = draft[c] THEN Advance(c) ELSE End(c)
  /\ UNCHANGED <<files, stage, token, clock, faults, evaluations, raced>>

\* The final-test labels are loaded and the locked model is evaluated.
Evaluate(c) ==
  /\ pc[c] = "look" /\ Doing(c) = "evaluation"
  /\ evaluations' = evaluations + 1
  /\ \/ Advance(c) /\ UNCHANGED faults
     \/ Fault /\ End(c)
  /\ UNCHANGED <<files, stage, token, clock, raced>>

\* A process dies, perhaps leaving its temporary file; another may be started.
Crash(c) ==
  /\ pc[c] # "idle" /\ Fault
  /\ litter' = (litter \/ pc[c] = "swap")
  /\ End(c)
  /\ UNCHANGED <<disk, stage, token, clock, evaluations, raced>>

Next ==
  \E c \in Calls :
    \/ \E s \in Stages : Begin(c, s)
    \/ Look(c) \/ Swap(c) \/ Confirm(c) \/ Evaluate(c) \/ Crash(c)

Spec == Init /\ [][Next]_vars

-----------------------------------------------------------------------------
(***************************************************************************)
(* Properties.                                                             *)
(***************************************************************************)

Versioned == {"access", "completion", "report", "index"}
Fits(k, content) == content = Absent \/ IF k \in Versioned THEN content.kind = k
                                                         ELSE content = Fixed

\* The variables hold values of the expected kind; a call is within its plan
\* and holds bytes that fit the artifact it is about to write, and only a
\* final test evaluates.
TypeOK ==
  /\ disk = [k \in Artifacts |-> disk[k]] /\ \A k \in Artifacts : Fits(k, disk[k])
  /\ pc \in [Calls -> {"idle", "look", "swap", "confirm"}]
  /\ stage \in [Calls -> Stages]
  /\ at \in [Calls -> Nat] /\ \A c \in Calls : at[c] \in 1..Len(Plan[stage[c]])
  /\ \A c \in Calls : pc[c] = "idle" => at[c] = 1
  /\ \A c \in Calls : Doing(c) = "evaluation" => stage[c] = "final"
  /\ draft = [c \in Calls |-> draft[c]]
  /\ \A c \in Calls : IF pc[c] \in {"swap", "confirm"}
                        THEN Doing(c) \in Artifacts /\ draft[c] # Absent /\ Fits(Doing(c), draft[c])
                        ELSE draft[c] = Absent
  /\ token \in [Calls -> Nat] /\ clock \in Nat
  /\ faults \in 0..MaxFaults /\ evaluations \in Nat
  /\ litter \in BOOLEAN /\ raced \in BOOLEAN

\* Unless two final tests race, the final test is evaluated once, whatever
\* fails or dies and whichever commands are repeated
\* (V2_PHASE_02_REAL_HISTORICAL_BENCHMARK_SPEC.md: "evaluate the final test
\* exactly once per benchmark identity").
EvaluatedOnce == ~raced => evaluations <= 1

\* However calls race, the labels of the final test are not looked at before
\* a complete validation, the final lock and an access record are stored
\* (V2_PHASE_02_BENCHMARK_POLICY.md, "Final-Test Access Policy").
EvaluationIsGuarded ==
  evaluations > 0 =>
    {"lock", "validation", "readiness", "finalLock", "access"} \subseteq Present(disk)

\* Unless final tests race, a stored completion record can be audited: the
\* artifacts it covers are all there and unchanged, whichever commands have
\* been repeated, interrupted or overlapped since.
CompletionIsReplayable ==
  disk["completion"] # Absent /\ ~raced => Replayable(disk)

\* Evidence is never changed or withdrawn by a later command, by a repeated or
\* an overlapping one ("never overwritten"), final tests that race apart.
EvidenceIsImmutable ==
  [][\A k \in Artifacts \ {"report", "index"} :
       disk[k] # Absent /\ ~raced => disk'[k] = disk[k]]_vars
=============================================================================
