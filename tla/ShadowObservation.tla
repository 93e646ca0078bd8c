--------------------------- MODULE ShadowObservation ---------------------------
(***************************************************************************)
(* Shadow observation runs (shadow/runner.py, persistence.py,              *)
(* schedule_ops.py): an operator observes a verified dataset, directly or  *)
(* through the schedule; the SQLite database keeps one run per dataset,    *)
(* its snapshot of the input, its health events and its alerts.            *)
(*                                                                         *)
(* A run is identified by the dataset it observes: the time of observation *)
(* and the provider's finalization are not part of its identity.           *)
(*                                                                         *)
(* A step is one transaction, or one statement of the schema script, which *)
(* SQLite commits one by one.  Covered: reservation, rejection of repeats, *)
(* finalization, failure, the schedule's decision, failing transactions,   *)
(* crashes, concurrent calls.                                              *)
(* Abstracted: a dataset's bars (only its latest session counts and it has *)
(* passed verification), time (the latest completed session), repeated     *)
(* rows of one code, databases of another program or version.              *)
(***************************************************************************)
EXTENDS Naturals, FiniteSets, FiniteSetsExt

CONSTANTS
  Calls,        \* processes that may be at work at a time
  Datasets,
  SessionOf,    \* [Datasets -> sessions]: the latest session of each
  DirectRuns,   \* observations are also started past the schedule
  LastSession,  \* bound: sessions are 1..LastSession, consecutive
  MaxLag,       \* bound: sessions an observation may be late
  MaxFailures,  \* bound: transactions that fail
  MaxCrashes    \* bound: processes that die

Sessions == 1..LastSession

ASSUME ShadowAssumption ==
  /\ LastSession \in Nat /\ MaxLag \in Nat /\ MaxFailures \in Nat /\ MaxCrashes \in Nat
  /\ SessionOf \in [Datasets -> Sessions]
  /\ DirectRuns \in BOOLEAN

VARIABLES
  schema,    \* of the database file: none, empty, partial, whole
  run,       \* lifecycle status of each dataset's run
  snapshots, \* datasets with a stored input snapshot
  events,    \* health events, <<dataset, code>>
  alerts,    \* alerts, <<dataset, code>>
  now,       \* the latest completed session
  pc,        \* where each call stands
  job,       \* what it was asked to do, and the sessions it found missed
  result,    \* what it reported
  failures, crashes
\* Observations, read by properties only.
VARIABLES
  surfaced,  \* sessions some schedule decision listed as missed
  answered   \* the latest session a schedule decision was returned for

stored == <<run, snapshots, events, alerts>>
told == <<surfaced, answered>>
vars == <<schema, stored, now, pc, job, result, failures, crashes, told>>

Terminal == {"completed", "blocked", "failed"}
Phases == {"idle", "schema", "create", "fill", "reserve", "reject", "finalize", "fail"}

NoJob == [dataset |-> "none", asOf |-> 0, final |-> FALSE, scheduled |-> FALSE,
          missed |-> {}, code |-> "none"]

Init ==
  /\ schema = "none"
  /\ run = [d \in Datasets |-> "none"]
  /\ snapshots = {} /\ events = {} /\ alerts = {}
  /\ now = 0
  /\ pc = [c \in Calls |-> "idle"]
  /\ job = [c \in Calls |-> NoJob]
  /\ result = [c \in Calls |-> "none"]
  /\ failures = 0 /\ crashes = 0
  /\ surfaced = {} /\ answered = 0

Go(c, phase) == pc' = [pc EXCEPT ![c] = phase]
Target(c) == job[c].dataset

Tell(j) ==
  /\ surfaced' = surfaced \cup j.missed
  /\ answered' = IF j.asOf > answered THEN j.asOf ELSE answered

\* Of an ended call only the dataset it was about is kept.
Leave(c, d) == job' = [job EXCEPT ![c] = [NoJob EXCEPT !.dataset = d]]

\* A call returns; only one that does so with a decision tells what was missed.
Return(c, code) ==
  /\ Go(c, "idle") /\ Leave(c, Target(c))
  /\ result' = [result EXCEPT ![c] = code]
  /\ IF job[c].scheduled THEN Tell(job[c]) ELSE UNCHANGED told

\* A call raises.
Raise(c, code) ==
  /\ Go(c, "idle") /\ Leave(c, Target(c))
  /\ result' = [result EXCEPT ![c] = code]
  /\ UNCHANGED told

Failure == failures < MaxFailures /\ failures' = failures + 1

-----------------------------------------------------------------------------
\* Why the data of job j are not fit for observation.
Reasons(j) ==
  {r \in {"incomplete_session", "provider_not_finalized", "stale_data"} :
     \/ r = "incomplete_session" /\ j.asOf < SessionOf[j.dataset]
     \/ r = "provider_not_finalized" /\ ~j.final
     \/ r = "stale_data" /\ SessionOf[j.dataset] < j.asOf}

\* Of these codes, and of duplicate_run, recovery_required and
\* unexpected_configuration, those that raise an alert.
AlertCodes == {"provider_not_finalized", "stale_data", "duplicate_run", "recovery_required",
               "unexpected_configuration"}

Log(d, codes) == events' = events \cup ({d} \X codes)
Alert(d, codes) == alerts' = alerts \cup ({d} \X codes)

\* Sessions between the latest earlier one with a terminal run and session s
\* that no run is recorded for.
Missed(s) ==
  LET prior == {SessionOf[d] : d \in {e \in Datasets : run[e] \in Terminal /\ SessionOf[e] < s}}
      recorded == {SessionOf[d] : d \in {e \in Datasets : run[e] # "none"}}
  IN  IF prior = {} THEN {} ELSE {t \in Sessions : Max(prior) < t /\ t < s} \ recorded

\* The schedule's decision on dataset d, for the latest session completed at
\* the time of observation.
State(d, asOf, final) ==
  LET current == IF SessionOf[d] = asOf THEN run[d] ELSE "none"
  IN  CASE current \in Terminal -> "already_processed"
        [] current = "reserved" -> "needs_recovery"
        [] current = "none" /\ final /\ SessionOf[d] = asOf -> "due"
        [] OTHER -> "not_due"

Free(c, d, asOf) ==
  /\ pc[c] = "idle"
  /\ SessionOf[d] <= now
  /\ asOf <= now /\ now <= asOf + MaxLag

Request(d, asOf, final, scheduled, missed) ==
  [dataset |-> d, asOf |-> asOf, final |-> final, scheduled |-> scheduled,
   missed |-> missed, code |-> "none"]

\* run_observation, called without the schedule.
Direct(c, d, asOf, final) ==
  /\ DirectRuns /\ Free(c, d, asOf)
  /\ Go(c, "schema")
  /\ job' = [job EXCEPT ![c] = Request(d, asOf, final, FALSE, {})]
  /\ result' = [result EXCEPT ![c] = "none"]
  /\ UNCHANGED <<schema, stored, now, failures, crashes, told>>

\* The schedule's decision; a database file without its tables refuses it.
\* A preview ends here, and so does a run that is not due.
Decide(c, d, asOf, final, preview) ==
  LET j == Request(d, asOf, final, TRUE, Missed(asOf))
      state == State(d, asOf, final)
  IN  /\ Free(c, d, asOf)
      /\ IF schema \in {"empty", "partial"}
           THEN /\ result' = [result EXCEPT ![c] = "error"]
                /\ Leave(c, d) /\ UNCHANGED <<pc, told>>
           ELSE IF preview \/ state # "due"
           THEN /\ result' = [result EXCEPT ![c] = state]
                /\ Leave(c, d) /\ Tell(j) /\ UNCHANGED pc
           ELSE /\ result' = [result EXCEPT ![c] = "none"]
                /\ job' = [job EXCEPT ![c] = j] /\ Go(c, "schema") /\ UNCHANGED told
      /\ UNCHANGED <<schema, stored, now, failures, crashes>>

-----------------------------------------------------------------------------
\* Opening the database creates the file; its tables are listed.
LookSchema(c) ==
  /\ pc[c] = "schema"
  /\ schema' = IF schema = "none" THEN "empty" ELSE schema
  /\ CASE schema = "whole" -> Go(c, "reserve") /\ UNCHANGED <<job, result, told>>
       [] schema = "partial" -> Raise(c, "error")
       [] OTHER -> Go(c, "create") /\ UNCHANGED <<job, result, told>>
  /\ UNCHANGED <<stored, now, failures, crashes>>

\* The first statement of the script fails if the table exists by now.
CreateSchema(c) ==
  /\ pc[c] = "create"
  /\ \/ /\ schema = "empty"
        /\ schema' = "partial" /\ Go(c, "fill")
        /\ UNCHANGED <<job, result, failures, told>>
     \/ /\ schema # "empty" /\ Raise(c, "error")
        /\ UNCHANGED <<schema, failures>>
     \/ Failure /\ Raise(c, "error") /\ UNCHANGED schema
  /\ UNCHANGED <<stored, now, crashes>>

FillSchema(c) ==
  /\ pc[c] = "fill"
  /\ \/ /\ schema' = "whole" /\ Go(c, "reserve")
        /\ UNCHANGED <<job, result, failures, told>>
     \/ Failure /\ Raise(c, "error") /\ UNCHANGED schema
  /\ UNCHANGED <<stored, now, crashes>>

-----------------------------------------------------------------------------
\* Variant: a reservation nobody finished is taken over.
Reserve_Resume(c) ==
  LET d == Target(c) IN
  /\ pc[c] = "reserve"
  /\ IF run[d] \in {"none", "reserved"}
       THEN run' = [run EXCEPT ![d] = "reserved"] /\ Go(c, "finalize") /\ UNCHANGED job
       ELSE Go(c, "reject") /\ job' = [job EXCEPT ![c].code = "duplicate_run"] /\ UNCHANGED run
  /\ UNCHANGED <<schema, snapshots, events, alerts, now, result, failures, crashes, told>>

Reserve(c) ==
  LET d == Target(c) IN
  /\ pc[c] = "reserve"
  /\ \/ /\ run[d] = "none"
        /\ run' = [run EXCEPT ![d] = "reserved"]
        /\ Go(c, "finalize")
        /\ UNCHANGED <<job, result, failures, told>>
     \/ /\ run[d] # "none"
        /\ job' = [job EXCEPT ![c].code =
                     IF run[d] = "reserved" THEN "recovery_required" ELSE "duplicate_run"]
        /\ Go(c, "reject")
        /\ UNCHANGED <<run, result, failures, told>>
     \/ Failure /\ Raise(c, "error") /\ UNCHANGED run
  /\ UNCHANGED <<schema, snapshots, events, alerts, now, crashes>>

\* The audit of a refused repeat.
RecordRejection(c) ==
  LET d == Target(c) IN
  /\ pc[c] = "reject"
  /\ \/ /\ Log(d, {job[c].code}) /\ Alert(d, {job[c].code})
        /\ Raise(c, job[c].code) /\ UNCHANGED failures
     \/ Failure /\ Raise(c, "error") /\ UNCHANGED <<events, alerts>>
  /\ UNCHANGED <<schema, run, snapshots, now, crashes>>

\* Variant: the status is set, its snapshot and audit are not.
Finalize_StatusOnly(c) ==
  /\ pc[c] = "finalize"
  /\ run' = [run EXCEPT ![Target(c)] = IF Reasons(job[c]) = {} THEN "completed" ELSE "blocked"]
  /\ Return(c, run'[Target(c)])
  /\ UNCHANGED <<schema, snapshots, events, alerts, now, failures, crashes>>

\* Variant: a transaction that fails ends the call.
Finalize_NoHandler(c) ==
  /\ pc[c] = "finalize" /\ Failure
  /\ Raise(c, "error")
  /\ UNCHANGED <<schema, stored, now, crashes>>

\* Evaluate, then store status, snapshot, events and alerts in a transaction.
Finalize(c) ==
  LET d == Target(c)
      reasons == Reasons(job[c])
      outcome == IF reasons = {} THEN "completed" ELSE "blocked"
  IN  /\ pc[c] = "finalize"
      /\ \/ /\ run[d] = "reserved"
            /\ run' = [run EXCEPT ![d] = outcome]
            /\ snapshots' = snapshots \cup {d}
            /\ Log(d, reasons \cup {"model_not_approved"}
                      \cup (IF reasons = {} THEN {"fresh_data"} ELSE {}))
            /\ Alert(d, reasons \cap AlertCodes)
            /\ Return(c, outcome) /\ UNCHANGED failures
         \/ /\ IF run[d] = "reserved" THEN Failure ELSE UNCHANGED failures
            /\ Go(c, "fail")
            /\ UNCHANGED <<stored, job, result, told>>
      /\ UNCHANGED <<schema, now, crashes>>

\* Variant: a failure that cannot be recorded is reported as recorded.
MarkFailed_Quiet(c) ==
  /\ pc[c] = "fail" /\ Failure
  /\ Raise(c, "failed")
  /\ UNCHANGED <<schema, stored, now, crashes>>

\* The failure is recorded unless the run is no longer reserved.
MarkFailed(c) ==
  LET d == Target(c) IN
  /\ pc[c] = "fail"
  /\ \/ /\ IF run[d] = "reserved"
             THEN /\ run' = [run EXCEPT ![d] = "failed"]
                  /\ Log(d, {"unexpected_configuration"})
                  /\ Alert(d, {"unexpected_configuration"})
             ELSE UNCHANGED <<run, events, alerts>>
        /\ Raise(c, "failed") /\ UNCHANGED failures
     \/ Failure /\ Raise(c, "error") /\ UNCHANGED <<run, events, alerts>>
  /\ UNCHANGED <<schema, snapshots, now, crashes>>

-----------------------------------------------------------------------------
\* A process dies; another may be started in its place.
Crash(c) ==
  /\ pc[c] # "idle" /\ crashes < MaxCrashes
  /\ crashes' = crashes + 1
  /\ Raise(c, "error")
  /\ UNCHANGED <<schema, stored, now, failures>>

\* The next session completes.
Tick ==
  /\ now < LastSession
  /\ now' = now + 1
  /\ UNCHANGED <<schema, stored, pc, job, result, failures, crashes, told>>

Next ==
  \/ Tick
  \/ \E c \in Calls :
       \/ \E d \in Datasets, asOf \in 0..LastSession, final \in BOOLEAN :
            \/ Direct(c, d, asOf, final)
            \/ \E preview \in BOOLEAN : asOf > 0 /\ Decide(c, d, asOf, final, preview)
       \/ LookSchema(c) \/ CreateSchema(c) \/ FillSchema(c)
       \/ Reserve(c) \/ RecordRejection(c) \/ Finalize(c) \/ MarkFailed(c)
       \/ Crash(c)

Spec == Init /\ [][Next]_vars

-----------------------------------------------------------------------------
(***************************************************************************)
(* Properties.                                                             *)
(***************************************************************************)

Codes == AlertCodes \cup {"incomplete_session", "model_not_approved", "fresh_data"}

\* The variables hold values of the expected kind, and no call gets past the
\* initialization unless the tables are all there.
TypeOK ==
  /\ schema \in {"none", "empty", "partial", "whole"}
  /\ run \in [Datasets -> Terminal \cup {"none", "reserved"}]
  /\ snapshots \subseteq Datasets
  /\ events \subseteq Datasets \X Codes
  /\ alerts \subseteq Datasets \X AlertCodes
  /\ now \in 0..LastSession
  /\ pc \in [Calls -> Phases]
  /\ \A c \in Calls : pc[c] \in {"reserve", "reject", "finalize", "fail"} => schema = "whole"
  /\ failures \in 0..MaxFailures /\ crashes \in 0..MaxCrashes
  /\ surfaced \subseteq Sessions /\ answered \in 0..LastSession

Observes(c, d) == pc[c] \in {"finalize", "fail"} /\ Target(c) = d
CodesOf(table, d) == {code \in Codes : <<d, code>> \in table}

\* However calls overlap and fail, the rows of a run agree with its status: a
\* snapshot and a verdict if and only if it was finalized, a verdict that is
\* fresh or has reasons but never both, and the failure event and alert if and
\* only if it failed (finalize_run and mark_failed roll back as a whole).
AuditMatchesLifecycle ==
  \A d \in Datasets :
    LET logged == CodesOf(events, d)
        blocking == {"incomplete_session", "provider_not_finalized", "stale_data"}
    IN  /\ d \in snapshots <=> run[d] \in {"completed", "blocked"}
        /\ "fresh_data" \in logged <=> run[d] = "completed"
        /\ logged \cap blocking # {} <=> run[d] = "blocked"
        /\ "unexpected_configuration" \in logged <=> run[d] = "failed"
        /\ CodesOf(alerts, d) = logged \cap AlertCodes
        /\ run[d] = "none" => logged = {}

\* Two calls never observe one dataset: of any number that find no run, one
\* reserves it (reserve_run, inside BEGIN IMMEDIATE).
SoleObserver ==
  \A d \in Datasets : Cardinality({c \in Calls : Observes(c, d)}) <= 1

\* A reservation whose call is gone stays as it is and no later call works on
\* it (V2_PHASE_04_REAL_TIME_SHADOW_MODE_SPEC.md: "incomplete reservation
\* requires recovery").
NoAutomaticResume ==
  [][\A d \in Datasets :
       run[d] = "reserved" /\ (\A c \in Calls : ~Observes(c, d)) =>
         run'[d] = "reserved" /\ \A c \in Calls : ~Observes(c, d)']_vars

\* A terminal run keeps its status, its snapshot and its audit rows, whatever
\* repeats, retries and schedule runs follow.
TerminalIsFinal ==
  [][\A d \in Datasets : run[d] \in Terminal =>
       /\ run'[d] = run[d]
       /\ d \in snapshots => d \in snapshots'
       /\ CodesOf(events, d) \subseteq CodesOf(events, d)'
       /\ CodesOf(alerts, d) \subseteq CodesOf(alerts, d)']_vars

\* It takes a crash or a second failure to leave a reservation nobody works
\* on, and some fault to leave a database nobody can open (the handler of
\* run_observation, which calls mark_failed).
OneFailureNeverStrands ==
  crashes = 0 =>
    /\ failures <= 1 =>
         \A d \in Datasets : run[d] = "reserved" => \E c \in Calls : Observes(c, d)
    /\ failures = 0 /\ schema = "partial" => \E c \in Calls : pc[c] = "fill"

\* What a call reported is what the database holds, and a refusal has left its
\* event and its alert.
AnswerIsTruthful ==
  \A c \in Calls : LET d == Target(c) IN
    /\ result[c] \in Terminal => run[d] = result[c]
    /\ result[c] \in {"already_processed", "duplicate_run"} => run[d] \in Terminal
    /\ result[c] \in {"needs_recovery", "recovery_required"} => run[d] # "none"
    /\ result[c] \in {"duplicate_run", "recovery_required"} =>
         <<d, result[c]>> \in events \cap alerts

\* V2_PHASE_04_REAL_TIME_SHADOW_MODE_SPEC.md: "missed shadow-operation
\* sessions are surfaced": a session after the first observed one that
\* schedule decisions have passed without a run was listed by some decision.
MissedIsSurfaced ==
  LET ended == {SessionOf[d] : d \in {e \in Datasets : run[e] \in Terminal}}
      recorded == {SessionOf[d] : d \in {e \in Datasets : run[e] # "none"}}
  IN  ended # {} => (Min(ended) + 1 .. answered - 1) \ recorded \subseteq surfaced
=============================================================================
