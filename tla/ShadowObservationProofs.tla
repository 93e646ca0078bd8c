------------------------ MODULE ShadowObservationProofs ------------------------
(***************************************************************************)
(* Theorems about ShadowObservation, for any calls, datasets and bounds:   *)
(* types, one observer per dataset, no resumed reservation, terminal runs  *)
(* that stay; and, with a second invariant, rows that agree with their     *)
(* run, answers that stay true, no reservation stranded by one failure.    *)
(***************************************************************************)
EXTENDS ShadowObservation, FiniteSetTheorems, TLAPS

Statuses == Terminal \cup {"none", "reserved"}
Rejections == {"duplicate_run", "recovery_required"}

Jobs == [dataset : Datasets \cup {"none"}, asOf : 0..LastSession, final : BOOLEAN,
         scheduled : BOOLEAN, missed : SUBSET Sessions, code : Rejections \cup {"none"}]

\* A call at work has a dataset, and one that refuses has its reason.
JobOK ==
  /\ job \in [Calls -> Jobs]
  /\ \A c \in Calls : pc[c] # "idle" => Target(c) \in Datasets
  /\ \A c \in Calls : pc[c] = "reject" => job[c].code \in Rejections

\* Who observes has reserved: this makes "one observer" inductive, since a
\* reservation is only made where there is no run.
HoldsReservation ==
  \A c \in Calls, d \in Datasets : Observes(c, d) => run[d] = "reserved"

\* SoleObserver without cardinalities.
NoRival ==
  \A b, c \in Calls, d \in Datasets : Observes(b, d) /\ Observes(c, d) => b = c

IInv == TypeOK /\ JobOK /\ HoldsReservation /\ NoRival

-----------------------------------------------------------------------------
\* What the schedule finds missed are sessions.
LEMMA MissedAreSessions == \A s : Missed(s) \subseteq Sessions
  BY DEF Missed

\* The job kept of an ended call is well formed.
LEMMA LeftIsJob ==
  ASSUME NEW d \in Datasets \cup {"none"}
  PROVE  [NoJob EXCEPT !.dataset = d] \in Jobs
  <1>1. NoJob \in Jobs
    BY ShadowAssumption DEF ShadowAssumption, NoJob, Jobs
  <1> QED
    BY <1>1 DEF Jobs

\* A call that returns or raises is idle, stays well formed and disturbs no
\* other call.
LEMMA EndedCall ==
  ASSUME IInv, NEW c \in Calls, pc[c] # "idle", NEW d \in Datasets, Target(c) = d,
         Go(c, "idle"), Leave(c, Target(c))
  PROVE  /\ pc' \in [Calls -> Phases] /\ job' \in [Calls -> Jobs]
         /\ pc'[c] = "idle"
         /\ \A b \in Calls : b # c => pc'[b] = pc[b] /\ job'[b] = job[b]
  BY LeftIsJob DEF IInv, TypeOK, JobOK, Go, Leave, Phases

\* A call that goes on with its dataset.
LEMMA MovedCall ==
  ASSUME IInv, NEW c \in Calls, NEW phase \in Phases, Go(c, phase), UNCHANGED job
  PROVE  /\ pc' \in [Calls -> Phases] /\ job' \in [Calls -> Jobs]
         /\ pc'[c] = phase
         /\ \A b \in Calls : b # c => pc'[b] = pc[b]
         /\ \A b \in Calls : job'[b] = job[b]
  BY DEF IInv, TypeOK, JobOK, Go

\* What a decision tells are sessions.
LEMMA ToldIsTyped ==
  ASSUME TypeOK, NEW j \in Jobs, Tell(j)
  PROVE  surfaced' \subseteq Sessions /\ answered' \in 0..LastSession
  BY DEF TypeOK, Tell, Jobs

\* So are those a returning call tells.
LEMMA ReturnedIsTyped ==
  ASSUME IInv, NEW c \in Calls, NEW code, Return(c, code)
  PROVE  surfaced' \subseteq Sessions /\ answered' \in 0..LastSession
  BY ToldIsTyped DEF IInv, TypeOK, JobOK, Return, told

-----------------------------------------------------------------------------
\* The initial state satisfies the invariant.
LEMMA InitIInv == Init => IInv
  <1> SUFFICES ASSUME Init PROVE IInv
    OBVIOUS
  <1>1. NoJob \in Jobs
    BY ShadowAssumption DEF ShadowAssumption, NoJob, Jobs
  <1>2. TypeOK
    BY ShadowAssumption DEF ShadowAssumption, Init, TypeOK, Phases, Terminal
  <1>3. JobOK
    BY <1>1 DEF Init, JobOK
  <1>4. HoldsReservation /\ NoRival
    BY DEF Init, HoldsReservation, NoRival, Observes
  <1> QED
    BY <1>2, <1>3, <1>4 DEF IInv

\* An idle call that takes on a job, or ends with the schedule's answer,
\* disturbs nothing.
LEMMA StartIInv ==
  ASSUME IInv, NEW c \in Calls, pc[c] = "idle",
         pc' \in [Calls -> Phases], pc'[c] \in {"idle", "schema"},
         job' \in [Calls -> Jobs], job'[c].dataset \in Datasets,
         \A b \in Calls : b # c => pc'[b] = pc[b] /\ job'[b] = job[b],
         surfaced' \subseteq Sessions, answered' \in 0..LastSession,
         UNCHANGED <<schema, stored, now, failures, crashes>>
  PROVE  IInv'
  <1>1. TypeOK'
    BY DEF IInv, TypeOK, stored
  <1>2. JobOK'
    BY DEF IInv, JobOK, Target
  <1>3. HoldsReservation' /\ NoRival'
    BY DEF IInv, HoldsReservation, NoRival, Observes, Target, stored
  <1> QED
    BY <1>1, <1>2, <1>3 DEF IInv

\* A call that ends, whatever it leaves of the run it worked on, as long as
\* other datasets' runs stay and its own changes only if it held it.
LEMMA EndIInv ==
  ASSUME IInv, NEW c \in Calls, pc[c] # "idle",
         Go(c, "idle"), Leave(c, Target(c)),
         run' \in [Datasets -> Statuses],
         \A d \in Datasets : run'[d] # run[d] => Observes(c, d),
         snapshots' \subseteq Datasets, events' \subseteq Datasets \X Codes,
         alerts' \subseteq Datasets \X AlertCodes,
         surfaced' \subseteq Sessions, answered' \in 0..LastSession,
         schema' \in {"none", "empty", "partial", "whole"}, schema = "whole" => schema' = "whole",
         failures' \in 0..MaxFailures, crashes' \in 0..MaxCrashes,
         now' = now
  PROVE  IInv'
  <1>1. Target(c) \in Datasets
    BY DEF IInv, JobOK
  <1>2. /\ pc' \in [Calls -> Phases] /\ job' \in [Calls -> Jobs]
        /\ pc'[c] = "idle"
        /\ \A b \in Calls : b # c => pc'[b] = pc[b] /\ job'[b] = job[b]
    BY <1>1, EndedCall
  <1>3. TypeOK'
    BY <1>2 DEF IInv, TypeOK, Statuses
  <1>4. JobOK'
    BY <1>2 DEF IInv, JobOK, Target
  <1>5. HoldsReservation' /\ NoRival'
    BY <1>2 DEF IInv, HoldsReservation, NoRival, Observes, Target
  <1> QED
    BY <1>3, <1>4, <1>5 DEF IInv

-----------------------------------------------------------------------------
\* Reasons and audit codes are among the codes of the tables.
LEMMA ReasonsAreCodes == \A j : Reasons(j) \subseteq Codes
  BY DEF Reasons, Codes, AlertCodes

\* Rows written for a dataset and known codes keep the event table typed.
LEMMA LogTyped ==
  ASSUME TypeOK, NEW d \in Datasets, NEW codes \in SUBSET Codes, Log(d, codes)
  PROVE  events' \subseteq Datasets \X Codes
  BY DEF TypeOK, Log

\* The same for the alert table.
LEMMA AlertTyped ==
  ASSUME TypeOK, NEW d \in Datasets, NEW codes \in SUBSET AlertCodes, Alert(d, codes)
  PROVE  alerts' \subseteq Datasets \X AlertCodes
  BY DEF TypeOK, Alert

\* Counting a failure stays within its bound.
LEMMA FailureTyped ==
  ASSUME TypeOK, Failure
  PROVE  failures' \in 0..MaxFailures
  BY ShadowAssumption DEF ShadowAssumption, TypeOK, Failure

\* A call that raises after a failed transaction, or dies, changes nothing.
LEMMA RaiseIInv ==
  ASSUME IInv, NEW c \in Calls, pc[c] # "idle", NEW code, Raise(c, code),
         UNCHANGED <<stored, now>>,
         schema' \in {"none", "empty", "partial", "whole"}, schema = "whole" => schema' = "whole",
         failures' \in 0..MaxFailures, crashes' \in 0..MaxCrashes
  PROVE  IInv'
  <1> USE DEF Raise, stored, told
  <1>1. Go(c, "idle") /\ Leave(c, Target(c))
    OBVIOUS
  <1>2. run' \in [Datasets -> Statuses] /\ \A d \in Datasets : run'[d] = run[d]
    BY DEF IInv, TypeOK, Statuses
  <1>3. /\ snapshots' \subseteq Datasets /\ events' \subseteq Datasets \X Codes
        /\ alerts' \subseteq Datasets \X AlertCodes
        /\ surfaced' \subseteq Sessions /\ answered' \in 0..LastSession
        /\ now' = now
    BY DEF IInv, TypeOK
  <1> QED
    BY <1>1, <1>2, <1>3, EndIInv

\* A call that goes on before it observes anything.
LEMMA MoveIInv ==
  ASSUME IInv, NEW c \in Calls, pc[c] # "idle",
         NEW phase \in Phases \ {"idle", "reject", "finalize", "fail"}, Go(c, phase),
         UNCHANGED <<job, stored, now, failures, crashes, told>>,
         schema' \in {"none", "empty", "partial", "whole"}, schema = "whole" => schema' = "whole",
         phase = "reserve" => schema' = "whole"
  PROVE  IInv'
  <1>1. /\ pc' \in [Calls -> Phases] /\ job' \in [Calls -> Jobs]
        /\ pc'[c] = phase
        /\ \A b \in Calls : b # c => pc'[b] = pc[b]
        /\ \A b \in Calls : job'[b] = job[b]
    BY MovedCall
  <1>2. TypeOK'
    BY <1>1 DEF IInv, TypeOK, stored, told
  <1>3. JobOK'
    BY <1>1 DEF IInv, JobOK, Target
  <1>4. HoldsReservation' /\ NoRival'
    BY <1>1 DEF IInv, HoldsReservation, NoRival, Observes, Target, stored
  <1> QED
    BY <1>2, <1>3, <1>4 DEF IInv

-----------------------------------------------------------------------------
(* One lemma per action: it preserves the invariant. *)

\* run_observation begins past the schedule.
LEMMA DirectStep ==
  ASSUME IInv, NEW c \in Calls, NEW d \in Datasets, NEW asOf \in 0..LastSession,
         NEW final \in BOOLEAN, Direct(c, d, asOf, final)
  PROVE  IInv'
  <1> DEFINE j == Request(d, asOf, final, FALSE, {})
  <1>1. j \in Jobs /\ j.dataset = d
    BY DEF Request, Jobs
  <1> HIDE DEF j
  <1>2. /\ pc[c] = "idle" /\ pc' = [pc EXCEPT ![c] = "schema"]
        /\ job' = [job EXCEPT ![c] = j]
        /\ UNCHANGED <<schema, stored, now, failures, crashes, told>>
    BY DEF Direct, Free, Go, j
  <1>3. /\ pc' \in [Calls -> Phases] /\ pc'[c] = "schema"
        /\ job' \in [Calls -> Jobs] /\ job'[c].dataset \in Datasets
        /\ \A b \in Calls : b # c => pc'[b] = pc[b] /\ job'[b] = job[b]
        /\ surfaced' \subseteq Sessions /\ answered' \in 0..LastSession
    BY <1>1, <1>2 DEF IInv, TypeOK, JobOK, Phases, told
  <1> QED
    BY <1>2, <1>3, StartIInv

\* The schedule answers, or begins a run.
LEMMA DecideStep ==
  ASSUME IInv, NEW c \in Calls, NEW d \in Datasets, NEW asOf \in 0..LastSession,
         NEW final \in BOOLEAN, NEW preview \in BOOLEAN, Decide(c, d, asOf, final, preview)
  PROVE  IInv'
  <1> DEFINE j == Request(d, asOf, final, TRUE, Missed(asOf))
             k == [NoJob EXCEPT !.dataset = d]
  <1>1. j \in Jobs /\ j.dataset = d
    BY MissedAreSessions DEF Request, Jobs
  <1>2. k \in Jobs
    BY LeftIsJob
  <1>3. k.dataset = d
    BY DEF NoJob
  <1> HIDE DEF j, k
  <1>4. /\ pc[c] = "idle"
        /\ UNCHANGED <<schema, stored, now, failures, crashes>>
        /\ \/ job' = [job EXCEPT ![c] = k] /\ UNCHANGED <<pc, told>>
           \/ job' = [job EXCEPT ![c] = k] /\ Tell(j) /\ UNCHANGED pc
           \/ job' = [job EXCEPT ![c] = j] /\ Go(c, "schema") /\ UNCHANGED told
    BY DEF Decide, Free, Leave, j, k
  <1>5. /\ pc' \in [Calls -> Phases] /\ pc'[c] \in {"idle", "schema"}
        /\ job' \in [Calls -> Jobs] /\ job'[c].dataset \in Datasets
        /\ \A b \in Calls : b # c => pc'[b] = pc[b] /\ job'[b] = job[b]
    BY <1>1, <1>2, <1>3, <1>4 DEF IInv, TypeOK, JobOK, Phases, Go
  <1>6. surfaced' \subseteq Sessions /\ answered' \in 0..LastSession
    BY <1>1, <1>4, ToldIsTyped DEF IInv, TypeOK, told
  <1> QED
    BY <1>4, <1>5, <1>6, StartIInv

\* The tables are looked at.
LEMMA LookSchemaStep ==
  ASSUME IInv, NEW c \in Calls, LookSchema(c)
  PROVE  IInv'
  <1>1. /\ schema' \in {"none", "empty", "partial", "whole"}
        /\ schema = "whole" => schema' = "whole"
        /\ pc[c] # "idle"
        /\ failures' \in 0..MaxFailures /\ crashes' \in 0..MaxCrashes
        /\ UNCHANGED <<stored, now, failures, crashes>>
    BY DEF IInv, TypeOK, LookSchema
  <1>2. CASE Raise(c, "error")
    BY <1>1, <1>2, RaiseIInv
  <1>3. CASE Go(c, "reserve") /\ schema = "whole" /\ UNCHANGED <<job, told>>
    BY <1>1, <1>3, MoveIInv DEF Phases
  <1>4. CASE Go(c, "create") /\ UNCHANGED <<job, told>>
    BY <1>1, <1>4, MoveIInv DEF Phases
  <1> QED
    BY <1>2, <1>3, <1>4 DEF LookSchema

\* The first table is created.
LEMMA CreateSchemaStep ==
  ASSUME IInv, NEW c \in Calls, CreateSchema(c)
  PROVE  IInv'
  <1>1. pc[c] # "idle" /\ UNCHANGED <<stored, now, crashes>> /\ crashes' \in 0..MaxCrashes
    BY DEF IInv, TypeOK, CreateSchema
  <1>2. CASE /\ schema = "empty" /\ schema' = "partial" /\ Go(c, "fill")
             /\ UNCHANGED <<job, failures, told>>
    BY <1>1, <1>2, MoveIInv DEF Phases
  <1>3. CASE Raise(c, "error") /\ UNCHANGED <<schema, failures>>
    BY <1>1, <1>3, RaiseIInv DEF IInv, TypeOK
  <1>4. CASE Failure /\ Raise(c, "error") /\ UNCHANGED schema
    BY <1>1, <1>4, RaiseIInv, FailureTyped DEF IInv, TypeOK
  <1> QED
    BY <1>2, <1>3, <1>4 DEF CreateSchema

\* The other tables are created.
LEMMA FillSchemaStep ==
  ASSUME IInv, NEW c \in Calls, FillSchema(c)
  PROVE  IInv'
  <1>1. pc[c] # "idle" /\ UNCHANGED <<stored, now, crashes>> /\ crashes' \in 0..MaxCrashes
    BY DEF IInv, TypeOK, FillSchema
  <1>2. CASE schema' = "whole" /\ Go(c, "reserve") /\ UNCHANGED <<job, failures, told>>
    BY <1>1, <1>2, MoveIInv DEF Phases
  <1>3. CASE Failure /\ Raise(c, "error") /\ UNCHANGED schema
    BY <1>1, <1>3, RaiseIInv, FailureTyped DEF IInv, TypeOK
  <1> QED
    BY <1>2, <1>3 DEF FillSchema

\* reserve_run: the new observer is alone, since there was no run and who
\* observes holds a reservation.
LEMMA ReserveStep ==
  ASSUME IInv, NEW c \in Calls, Reserve(c)
  PROVE  IInv'
  <1> DEFINE d == Target(c)
  <1>1. d \in Datasets /\ schema = "whole" /\ pc[c] = "reserve"
    BY DEF IInv, TypeOK, JobOK, Reserve
  <1> HIDE DEF d
  <1>2. UNCHANGED <<schema, snapshots, events, alerts, now, crashes>>
    BY DEF Reserve
  <1>3. CASE /\ run[d] = "none" /\ run' = [run EXCEPT ![d] = "reserved"]
             /\ Go(c, "finalize") /\ UNCHANGED <<job, failures, told>>
    <2>1. /\ pc' \in [Calls -> Phases] /\ job' \in [Calls -> Jobs]
          /\ pc'[c] = "finalize"
          /\ \A b \in Calls : b # c => pc'[b] = pc[b]
          /\ \A b \in Calls : job'[b] = job[b]
      BY <1>3, MovedCall DEF Phases
    <2>2. TypeOK'
      BY <1>1, <1>2, <1>3, <2>1 DEF IInv, TypeOK, told
    <2>3. JobOK'
      BY <1>1, <2>1 DEF IInv, JobOK, Target, d
    <2>4. \A b \in Calls : b # c => ~Observes(b, d)
      BY <1>1, <1>3 DEF IInv, HoldsReservation
    <2>5. HoldsReservation'
      BY <1>1, <1>3, <2>1, <2>4 DEF IInv, TypeOK, HoldsReservation, Observes, Target, d
    <2>6. NoRival'
      BY <1>1, <1>3, <2>1, <2>4 DEF IInv, NoRival, Observes, Target, d
    <2> QED
      BY <2>2, <2>3, <2>5, <2>6 DEF IInv
  <1>4. CASE /\ job' = [job EXCEPT ![c].code =
                          IF run[d] = "reserved" THEN "recovery_required" ELSE "duplicate_run"]
             /\ Go(c, "reject") /\ UNCHANGED <<run, failures, told>>
    <2>1. /\ job' \in [Calls -> Jobs]
          /\ job'[c].code \in Rejections
          /\ job'[c].dataset = job[c].dataset
          /\ \A b \in Calls : b # c => job'[b] = job[b]
      BY <1>4 DEF IInv, JobOK, Jobs, Rejections
    <2>2. /\ pc' \in [Calls -> Phases] /\ pc'[c] = "reject"
          /\ \A b \in Calls : b # c => pc'[b] = pc[b]
      BY <1>4 DEF IInv, TypeOK, Go, Phases
    <2>3. TypeOK'
      BY <1>1, <1>2, <1>4, <2>2 DEF IInv, TypeOK, told
    <2>4. JobOK'
      BY <1>1, <2>1, <2>2 DEF IInv, JobOK, Target, d
    <2>5. HoldsReservation' /\ NoRival'
      BY <1>4, <2>1, <2>2 DEF IInv, HoldsReservation, NoRival, Observes, Target
    <2> QED
      BY <2>3, <2>4, <2>5 DEF IInv
  <1>5. CASE Failure /\ Raise(c, "error") /\ UNCHANGED run
    <2>1. crashes' \in 0..MaxCrashes /\ schema' = "whole" /\ UNCHANGED stored
      BY <1>1, <1>2, <1>5 DEF IInv, TypeOK, stored
    <2> QED
      BY <1>1, <1>2, <1>5, <2>1, RaiseIInv, FailureTyped DEF IInv
  <1> QED
    BY <1>3, <1>4, <1>5 DEF Reserve, d

\* record_retry_rejection touches no run.
LEMMA RecordRejectionStep ==
  ASSUME IInv, NEW c \in Calls, RecordRejection(c)
  PROVE  IInv'
  <1> DEFINE d == Target(c)
  <1>1. d \in Datasets /\ job[c].code \in Rejections /\ pc[c] # "idle"
    BY DEF IInv, JobOK, RecordRejection
  <1>2. /\ UNCHANGED <<schema, run, snapshots, now, crashes>>
        /\ crashes' \in 0..MaxCrashes
        /\ schema' \in {"none", "empty", "partial", "whole"}
    BY DEF IInv, TypeOK, RecordRejection
  <1> HIDE DEF d
  <1>3. CASE /\ Log(d, {job[c].code}) /\ Alert(d, {job[c].code})
             /\ Raise(c, job[c].code) /\ UNCHANGED failures
    <2>1. {job[c].code} \subseteq Codes /\ {job[c].code} \subseteq AlertCodes
      BY <1>1 DEF Codes, AlertCodes, Rejections
    <2>2. events' \subseteq Datasets \X Codes /\ alerts' \subseteq Datasets \X AlertCodes
      BY <1>1, <1>3, <2>1, LogTyped, AlertTyped DEF IInv
    <2>3. /\ run' \in [Datasets -> Statuses] /\ \A e \in Datasets : run'[e] = run[e]
          /\ snapshots' \subseteq Datasets /\ failures' \in 0..MaxFailures
          /\ surfaced' \subseteq Sessions /\ answered' \in 0..LastSession
          /\ Go(c, "idle") /\ Leave(c, Target(c))
      BY <1>2, <1>3 DEF IInv, TypeOK, Statuses, Raise, told
    <2> QED
      BY <1>1, <1>2, <2>2, <2>3, EndIInv
  <1>4. CASE Failure /\ Raise(c, "error") /\ UNCHANGED <<events, alerts>>
    BY <1>1, <1>2, <1>4, RaiseIInv, FailureTyped DEF IInv, stored
  <1> QED
    BY <1>3, <1>4 DEF RecordRejection, d

\* finalize_run touches the run of its caller only.
LEMMA FinalizeStep ==
  ASSUME IInv, NEW c \in Calls, Finalize(c)
  PROVE  IInv'
  <1> DEFINE d == Target(c)
             reasons == Reasons(job[c])
             outcome == IF reasons = {} THEN "completed" ELSE "blocked"
             logged == reasons \cup {"model_not_approved"}
                         \cup (IF reasons = {} THEN {"fresh_data"} ELSE {})
  <1>1. d \in Datasets /\ pc[c] = "finalize" /\ Observes(c, d)
    BY DEF IInv, JobOK, Finalize, Observes
  <1>2. UNCHANGED <<schema, now, crashes>> /\ crashes' \in 0..MaxCrashes
    BY DEF IInv, TypeOK, Finalize
  <1>3. outcome \in Statuses
    BY DEF Statuses, Terminal
  <1>4. logged \subseteq Codes
    BY ReasonsAreCodes DEF Codes
  <1> HIDE DEF d, reasons, outcome, logged
  <1>5. CASE /\ run' = [run EXCEPT ![d] = outcome]
             /\ snapshots' = snapshots \cup {d}
             /\ Log(d, logged) /\ Alert(d, reasons \cap AlertCodes)
             /\ Return(c, outcome) /\ UNCHANGED failures
    <2>1. events' \subseteq Datasets \X Codes
      BY <1>1, <1>4, <1>5, LogTyped DEF IInv
    <2>2. alerts' \subseteq Datasets \X AlertCodes
      BY <1>1, <1>5, AlertTyped DEF IInv
    <2>3. surfaced' \subseteq Sessions /\ answered' \in 0..LastSession
      BY <1>5, ReturnedIsTyped
    <2>4. /\ run' \in [Datasets -> Statuses]
          /\ \A e \in Datasets : run'[e] # run[e] => Observes(c, e)
          /\ snapshots' \subseteq Datasets
      BY <1>1, <1>3, <1>5 DEF IInv, TypeOK, Statuses
    <2>5. /\ Go(c, "idle") /\ Leave(c, Target(c)) /\ failures' \in 0..MaxFailures
          /\ schema' \in {"none", "empty", "partial", "whole"}
      BY <1>2, <1>5 DEF IInv, TypeOK, Return
    <2> QED
      BY <1>1, <1>2, <2>1, <2>2, <2>3, <2>4, <2>5, EndIInv
  <1>6. CASE /\ \/ Failure
                \/ UNCHANGED failures
             /\ Go(c, "fail") /\ UNCHANGED <<stored, job, told>>
    <2>1. /\ pc' \in [Calls -> Phases] /\ job' \in [Calls -> Jobs]
          /\ pc'[c] = "fail"
          /\ \A b \in Calls : b # c => pc'[b] = pc[b]
          /\ \A b \in Calls : job'[b] = job[b]
      BY <1>6, MovedCall DEF Phases
    <2>2. failures' \in 0..MaxFailures
      BY <1>6, FailureTyped DEF IInv, TypeOK
    <2>3. TypeOK'
      BY <1>1, <1>2, <1>6, <2>1, <2>2 DEF IInv, TypeOK, stored, told
    <2>4. JobOK'
      BY <1>1, <2>1 DEF IInv, JobOK, Target, d
    <2>5. HoldsReservation' /\ NoRival'
      BY <1>1, <1>6, <2>1 DEF IInv, HoldsReservation, NoRival, Observes, Target, stored
    <2> QED
      BY <2>3, <2>4, <2>5 DEF IInv
  <1> QED
    BY <1>5, <1>6 DEF Finalize, d, reasons, outcome, logged

\* mark_failed touches the run of its caller only.
LEMMA MarkFailedStep ==
  ASSUME IInv, NEW c \in Calls, MarkFailed(c)
  PROVE  IInv'
  <1> DEFINE d == Target(c)
  <1>1. d \in Datasets /\ pc[c] # "idle" /\ Observes(c, d)
    BY DEF IInv, JobOK, MarkFailed, Observes
  <1>2. /\ UNCHANGED <<schema, snapshots, now, crashes>>
        /\ crashes' \in 0..MaxCrashes
        /\ schema' \in {"none", "empty", "partial", "whole"}
    BY DEF IInv, TypeOK, MarkFailed
  <1> HIDE DEF d
  <1>3. CASE /\ IF run[d] = "reserved"
                  THEN /\ run' = [run EXCEPT ![d] = "failed"]
                       /\ Log(d, {"unexpected_configuration"})
                       /\ Alert(d, {"unexpected_configuration"})
                  ELSE UNCHANGED <<run, events, alerts>>
             /\ Raise(c, "failed") /\ UNCHANGED failures
    <2>1. {"unexpected_configuration"} \subseteq Codes
          /\ {"unexpected_configuration"} \subseteq AlertCodes
      BY DEF Codes, AlertCodes
    <2>2. events' \subseteq Datasets \X Codes /\ alerts' \subseteq Datasets \X AlertCodes
      BY <1>1, <1>3, <2>1, LogTyped, AlertTyped DEF IInv, TypeOK
    <2>3. /\ run' \in [Datasets -> Statuses]
          /\ \A e \in Datasets : run'[e] # run[e] => Observes(c, e)
      BY <1>1, <1>3 DEF IInv, TypeOK, Statuses, Terminal
    <2>4. /\ snapshots' \subseteq Datasets /\ failures' \in 0..MaxFailures
          /\ surfaced' \subseteq Sessions /\ answered' \in 0..LastSession
          /\ Go(c, "idle") /\ Leave(c, Target(c))
      BY <1>2, <1>3 DEF IInv, TypeOK, Raise, told
    <2> QED
      BY <1>1, <1>2, <2>2, <2>3, <2>4, EndIInv
  <1>4. CASE Failure /\ Raise(c, "error") /\ UNCHANGED <<run, events, alerts>>
    BY <1>1, <1>2, <1>4, RaiseIInv, FailureTyped DEF IInv, stored
  <1> QED
    BY <1>3, <1>4 DEF MarkFailed, d

\* A call dies.
LEMMA CrashStep ==
  ASSUME IInv, NEW c \in Calls, Crash(c)
  PROVE  IInv'
  <1>1. /\ pc[c] # "idle" /\ Raise(c, "error") /\ UNCHANGED <<stored, now>>
        /\ failures' \in 0..MaxFailures /\ crashes' \in 0..MaxCrashes
        /\ schema' = schema /\ schema' \in {"none", "empty", "partial", "whole"}
    BY ShadowAssumption DEF ShadowAssumption, IInv, TypeOK, Crash
  <1> QED
    BY <1>1, RaiseIInv

\* A session completes.
LEMMA TickStep ==
  ASSUME IInv, Tick
  PROVE  IInv'
  <1>1. TypeOK'
    BY ShadowAssumption DEF ShadowAssumption, IInv, TypeOK, Tick, stored, told
  <1>2. JobOK'
    BY DEF IInv, JobOK, Tick, Target
  <1>3. HoldsReservation' /\ NoRival'
    BY DEF IInv, HoldsReservation, NoRival, Observes, Target, Tick, stored
  <1> QED
    BY <1>1, <1>2, <1>3 DEF IInv

\* Nothing happens.
LEMMA StutterStep ==
  ASSUME IInv, UNCHANGED vars
  PROVE  IInv'
  <1>1. TypeOK'
    BY DEF IInv, TypeOK, vars, stored, told
  <1>2. JobOK'
    BY DEF IInv, JobOK, vars, Target
  <1>3. HoldsReservation' /\ NoRival'
    BY DEF IInv, HoldsReservation, NoRival, Observes, Target, vars, stored
  <1> QED
    BY <1>1, <1>2, <1>3 DEF IInv

\* Every step preserves the invariant.
LEMMA NextIInv == IInv /\ [Next]_vars => IInv'
  <1> SUFFICES ASSUME IInv, [Next]_vars PROVE IInv'
    OBVIOUS
  <1> QED
    BY DirectStep, DecideStep, LookSchemaStep, CreateSchemaStep, FillSchemaStep, ReserveStep,
       RecordRejectionStep, FinalizeStep, MarkFailedStep, CrashStep, TickStep, StutterStep
    DEF Next

\* The invariant holds in every reachable state.
LEMMA AlwaysIInv == Spec => []IInv
  BY InitIInv, NextIInv, PTL DEF Spec

-----------------------------------------------------------------------------
(* The theorems. *)

\* Every reachable state of a shadow database and the calls at work on it is
\* well typed, and no call gets past initialization without all the tables.
THEOREM ShadowTypeCorrectness == Spec => []TypeOK
  BY AlwaysIInv, PTL DEF IInv

\* However many calls overlap, one at most observes a dataset (reserve_run).
THEOREM OneObserver == Spec => []SoleObserver
  <1>1. ASSUME NoRival PROVE SoleObserver
    <2> SUFFICES ASSUME NEW d \in Datasets
                 PROVE  Cardinality({c \in Calls : Observes(c, d)}) <= 1
      BY DEF SoleObserver
    <2> DEFINE S == {c \in Calls : Observes(c, d)}
    <2>1. CASE S = {}
      BY <2>1, FS_EmptySet
    <2>2. CASE S # {}
      <3>1. PICK c \in S : TRUE
        BY <2>2
      <3>2. S = {c}
        BY <1>1, <3>1 DEF NoRival
      <3>3. Cardinality(S) = 1
        BY <3>2, FS_Singleton
      <3> QED
        BY <3>3
    <2> QED
      BY <2>1, <2>2
  <1> QED
    BY <1>1, AlwaysIInv, PTL DEF IInv

\* A step that touches a run, or makes a call its observer, is the step of a
\* call that observes it already, or reserves it where there was none.
LEMMA TouchedByObserver ==
  ASSUME IInv, [Next]_vars, NEW d \in Datasets, \A c \in Calls : ~Observes(c, d),
         run[d] # "none"
  PROVE  run'[d] = run[d] /\ \A c \in Calls : ~Observes(c, d)'
  <1> USE DEF IInv, TypeOK, JobOK, Observes, Target, stored
  <1>1. CASE UNCHANGED vars \/ Tick
    BY <1>1 DEF vars, Tick
  <1>2. ASSUME NEW c \in Calls, NEW e \in Datasets, NEW asOf \in 0..LastSession,
               NEW final \in BOOLEAN,
               Direct(c, e, asOf, final)
                 \/ \E preview \in BOOLEAN : Decide(c, e, asOf, final, preview)
        PROVE  run'[d] = run[d] /\ \A b \in Calls : ~Observes(b, d)'
    <2>1. UNCHANGED run /\ pc[c] = "idle"
      BY <1>2 DEF Direct, Decide, Free
    <2>2. /\ \A b \in Calls : b # c => pc'[b] = pc[b] /\ job'[b] = job[b]
          /\ pc'[c] \in {"idle", "schema"}
      BY <1>2, <2>1 DEF Direct, Decide, Go, Leave
    <2> QED
      BY <2>1, <2>2
  <1>3. ASSUME NEW c \in Calls,
               LookSchema(c) \/ CreateSchema(c) \/ FillSchema(c) \/ RecordRejection(c) \/ Crash(c)
        PROVE  run'[d] = run[d] /\ \A b \in Calls : ~Observes(b, d)'
    <2>1. UNCHANGED run
      BY <1>3 DEF LookSchema, CreateSchema, FillSchema, RecordRejection, Crash
    <2>2. /\ \A b \in Calls : b # c => pc'[b] = pc[b] /\ job'[b] = job[b]
          /\ pc'[c] \in {"idle", "create", "fill", "reserve"}
      BY <1>3 DEF LookSchema, CreateSchema, FillSchema, RecordRejection, Crash, Go, Leave, Raise
    <2> QED
      BY <2>1, <2>2
  <1>4. ASSUME NEW c \in Calls, Reserve(c)
        PROVE  run'[d] = run[d] /\ \A b \in Calls : ~Observes(b, d)'
    <2>1. /\ \A b \in Calls : b # c => pc'[b] = pc[b] /\ job'[b] = job[b]
          /\ pc'[c] \in {"idle", "reject", "finalize"}
          /\ pc'[c] = "finalize" => run[Target(c)] = "none" /\ job'[c] = job[c]
          /\ run' = run \/ (run[Target(c)] = "none" /\ run' = [run EXCEPT ![Target(c)] = "reserved"])
      BY <1>4 DEF Reserve, Go, Leave, Raise
    <2> QED
      BY <2>1
  <1>5. ASSUME NEW c \in Calls, Finalize(c) \/ MarkFailed(c)
        PROVE  run'[d] = run[d] /\ \A b \in Calls : ~Observes(b, d)'
    <2>1. Target(c) # d
      BY <1>5 DEF Finalize, MarkFailed
    <2>2. run' = run \/ \E s \in Statuses : run' = [run EXCEPT ![Target(c)] = s]
      BY <1>5 DEF Finalize, MarkFailed, Statuses, Terminal
    <2>3. /\ \A b \in Calls : b # c => pc'[b] = pc[b] /\ job'[b] = job[b]
          /\ pc'[c] \in {"idle", "fail"}
          /\ pc'[c] = "fail" => job'[c] = job[c]
      BY <1>5 DEF Finalize, MarkFailed, Go, Leave, Raise, Return
    <2> QED
      BY <2>1, <2>2, <2>3
  <1> QED
    BY <1>1, <1>2, <1>3, <1>4, <1>5 DEF Next

\* A reservation that lost its call is left alone by every later call
\* (reserve_run refuses it with recovery_required).
THEOREM NothingIsResumed == Spec => NoAutomaticResume
  <1>1. ASSUME IInv, [Next]_vars
        PROVE  [\A d \in Datasets :
                  run[d] = "reserved" /\ (\A c \in Calls : ~Observes(c, d)) =>
                    run'[d] = "reserved" /\ \A c \in Calls : ~Observes(c, d)']_vars
    BY <1>1, TouchedByObserver
  <1> QED
    BY <1>1, AlwaysIInv, PTL DEF Spec, NoAutomaticResume

\* Snapshots and audit rows are only ever added.
LEMMA RowsAreKept ==
  ASSUME IInv, [Next]_vars
  PROVE  snapshots \subseteq snapshots' /\ events \subseteq events' /\ alerts \subseteq alerts'
  <1> DEFINE Kept == /\ snapshots \subseteq snapshots'
                     /\ events \subseteq events' /\ alerts \subseteq alerts'
  <1>1. UNCHANGED vars \/ Tick => Kept
    BY DEF vars, Tick, stored
  <1>2. ASSUME NEW c \in Calls, NEW d \in Datasets, NEW asOf \in 0..LastSession,
               NEW final \in BOOLEAN,
               Direct(c, d, asOf, final)
                 \/ \E preview \in BOOLEAN : Decide(c, d, asOf, final, preview)
        PROVE  Kept
    BY <1>2 DEF Direct, Decide, stored
  <1>3. ASSUME NEW c \in Calls,
               LookSchema(c) \/ CreateSchema(c) \/ FillSchema(c) \/ Reserve(c) \/ Crash(c)
        PROVE  Kept
    BY <1>3 DEF LookSchema, CreateSchema, FillSchema, Reserve, Crash, stored
  <1>4. ASSUME NEW c \in Calls, RecordRejection(c) \/ Finalize(c) \/ MarkFailed(c)
        PROVE  Kept
    BY <1>4 DEF RecordRejection, Finalize, MarkFailed, Log, Alert, stored
  <1> QED
    BY <1>1, <1>2, <1>3, <1>4 DEF Next

\* A terminal run keeps its status, its snapshot and its audit rows.
THEOREM TerminalRunsStay == Spec => TerminalIsFinal
  <1>1. ASSUME IInv, [Next]_vars, NEW d \in Datasets, run[d] \in Terminal
        PROVE  run'[d] = run[d]
    <2>1. \A c \in Calls : ~Observes(c, d)
      BY <1>1 DEF IInv, HoldsReservation, Terminal
    <2>2. run[d] # "none"
      BY <1>1 DEF Terminal
    <2> QED
      BY <1>1, <2>1, <2>2, TouchedByObserver
  <1>2. ASSUME IInv, [Next]_vars, NEW d \in Datasets
        PROVE  /\ d \in snapshots => d \in snapshots'
               /\ CodesOf(events, d) \subseteq CodesOf(events, d)'
               /\ CodesOf(alerts, d) \subseteq CodesOf(alerts, d)'
    BY <1>2, RowsAreKept DEF CodesOf
  <1>3. ASSUME IInv, [Next]_vars
        PROVE  [\A d \in Datasets : run[d] \in Terminal =>
                  /\ run'[d] = run[d]
                  /\ d \in snapshots => d \in snapshots'
                  /\ CodesOf(events, d) \subseteq CodesOf(events, d)'
                  /\ CodesOf(alerts, d) \subseteq CodesOf(alerts, d)']_vars
    BY <1>1, <1>2, <1>3
  <1> QED
    BY <1>3, AlwaysIInv, PTL DEF Spec, TerminalIsFinal

-----------------------------------------------------------------------------
(***************************************************************************)
(* The audit rows, the answers and the faults.  A refusal still has its    *)
(* ground when it is recorded, an answer is about a dataset, and a call    *)
(* that records a failure has met one.                                     *)
(***************************************************************************)

Blocking == {"incomplete_session", "provider_not_finalized", "stale_data"}

AuditOf(d) ==
  /\ d \in snapshots <=> run[d] \in {"completed", "blocked"}
  /\ "fresh_data" \in CodesOf(events, d) <=> run[d] = "completed"
  /\ CodesOf(events, d) \cap Blocking # {} <=> run[d] = "blocked"
  /\ "unexpected_configuration" \in CodesOf(events, d) <=> run[d] = "failed"
  /\ CodesOf(alerts, d) = CodesOf(events, d) \cap AlertCodes
  /\ run[d] = "none" => CodesOf(events, d) = {}

\* A call refuses a repeat because of the run it found.
Grounds ==
  \A c \in Calls : pc[c] = "reject" =>
    /\ run[Target(c)] # "none"
    /\ job[c].code = "duplicate_run" => run[Target(c)] \in Terminal

TruthOf(c) ==
  /\ result[c] \in Terminal => run[Target(c)] = result[c]
  /\ result[c] \in {"already_processed", "duplicate_run"} => run[Target(c)] \in Terminal
  /\ result[c] \in {"needs_recovery", "recovery_required"} => run[Target(c)] # "none"
  /\ result[c] \in {"duplicate_run", "recovery_required"} =>
       <<Target(c), result[c]>> \in events \cap alerts

Answers ==
  /\ result = [c \in Calls |-> result[c]]
  /\ \A c \in Calls : result[c] # "none" => Target(c) \in Datasets
  /\ \A c \in Calls : TruthOf(c)

\* Without a crash, who records a failure has met a fault, an abandoned
\* reservation has cost two, an abandoned initialization one.
FaultsCounted ==
  crashes = 0 =>
    /\ \A c \in Calls : pc[c] = "fail" => failures >= 1
    /\ \A d \in Datasets : run[d] = "reserved" =>
         failures >= 2 \/ \E c \in Calls : Observes(c, d)
    /\ schema = "partial" => failures >= 1 \/ \E c \in Calls : pc[c] = "fill"

AInv == (\A d \in Datasets : AuditOf(d)) /\ Grounds /\ Answers /\ FaultsCounted

\* A run is reserved where there is none, and ends once, by its observer.
Forward ==
  \A d \in Datasets :
    \/ run'[d] = run[d]
    \/ run[d] = "none" /\ run'[d] = "reserved"
    \/ run[d] = "reserved" /\ run'[d] \in Terminal

\* Rows written for a dataset are the codes it gets, and no other dataset's.
LEMMA LoggedCodes ==
  \A d \in Datasets, codes \in SUBSET Codes : \A table :
    /\ CodesOf(table \cup ({d} \X codes), d) = CodesOf(table, d) \cup codes
    /\ \A e \in Datasets : e # d => CodesOf(table \cup ({d} \X codes), e) = CodesOf(table, e)
  BY DEF CodesOf

\* What a call that keeps its answer said stays true.
LEMMA TruthStays ==
  ASSUME Forward, Answers, snapshots \subseteq snapshots', events \subseteq events',
         alerts \subseteq alerts', NEW c \in Calls,
         result'[c] = result[c], job'[c].dataset = job[c].dataset
  PROVE  TruthOf(c)' /\ (result'[c] # "none" => Target(c)' \in Datasets)
  <1>1. Target(c)' = Target(c) /\ (result[c] # "none" => Target(c) \in Datasets) /\ TruthOf(c)
    BY DEF Target, Answers
  <1>2. CASE result[c] = "none"
    BY <1>2 DEF TruthOf, Terminal
  <1>3. CASE Target(c) \in Datasets
    <2>1. run[Target(c)] \in Terminal => run'[Target(c)] = run[Target(c)]
      BY <1>3 DEF Forward, Terminal
    <2>2. run[Target(c)] # "none" => run'[Target(c)] # "none"
      BY <1>3 DEF Forward, Terminal
    <2> QED
      BY <1>1, <1>3, <2>1, <2>2 DEF TruthOf, Terminal
  <1> QED
    BY <1>1, <1>2, <1>3

\* So does the ground of a refusal.
LEMMA GroundStays ==
  ASSUME Forward, Grounds, JobOK, NEW c \in Calls, pc[c] = "reject", job'[c] = job[c]
  PROVE  /\ run'[Target(c)'] # "none"
         /\ job'[c].code = "duplicate_run" => run'[Target(c)'] \in Terminal
  <1>1. Target(c)' = Target(c) /\ Target(c) \in Datasets
    BY DEF Target, JobOK
  <1> QED
    BY <1>1 DEF Grounds, Forward, Terminal

\* The initial state satisfies the invariant.
LEMMA InitAInv == Init => AInv
  <1> SUFFICES ASSUME Init PROVE AInv
    OBVIOUS
  <1>1. \A d \in Datasets : AuditOf(d)
    BY DEF Init, AuditOf, CodesOf, Blocking
  <1>2. Grounds /\ FaultsCounted
    BY DEF Init, Grounds, FaultsCounted
  <1>3. Answers
    BY DEF Init, Answers, TruthOf, Terminal
  <1> QED
    BY <1>1, <1>2, <1>3 DEF AInv

\* A call that answers or begins past stored rows: the others keep theirs.
LEMMA AnswersStep ==
  ASSUME IInv, Answers, Forward, NEW c \in Calls,
         snapshots \subseteq snapshots', events \subseteq events', alerts \subseteq alerts',
         result' = result \/ \E code : result' = [result EXCEPT ![c] = code],
         \A b \in Calls : b # c => job'[b] = job[b],
         TruthOf(c)', result'[c] # "none" => Target(c)' \in Datasets
  PROVE  Answers'
  <1>1. result' = [b \in Calls |-> result'[b]] /\ \A b \in Calls : b # c => result'[b] = result[b]
    BY DEF Answers
  <1>2. ASSUME NEW b \in Calls, b # c
        PROVE  TruthOf(b)' /\ (result'[b] # "none" => Target(b)' \in Datasets)
    BY <1>1, <1>2, TruthStays
  <1> QED
    BY <1>1, <1>2 DEF Answers

\* Faults stay counted when neither an observer nor an initializer acts.
LEMMA FaultsStay ==
  ASSUME IInv, FaultsCounted, NEW c \in Calls, pc[c] \notin {"finalize", "fail", "fill"},
         pc'[c] \notin {"finalize", "fail"},
         \A b \in Calls : b # c => pc'[b] = pc[b] /\ job'[b] = job[b],
         UNCHANGED <<run, crashes>>, failures' \in {failures, failures + 1},
         schema' = "partial" => schema = "partial" \/ pc'[c] = "fill"
  PROVE  FaultsCounted'
  <1> SUFFICES ASSUME crashes = 0
               PROVE  /\ \A b \in Calls : pc'[b] = "fail" => failures' >= 1
                      /\ \A d \in Datasets : run'[d] = "reserved" =>
                           failures' >= 2 \/ \E b \in Calls : Observes(b, d)'
                      /\ schema' = "partial" => failures' >= 1 \/ \E b \in Calls : pc'[b] = "fill"
    BY DEF FaultsCounted
  <1>1. failures \in Nat /\ failures' >= failures
    BY ShadowAssumption DEF ShadowAssumption, IInv, TypeOK
  <1>2. \A b \in Calls, d \in Datasets : Observes(b, d) => Observes(b, d)'
    BY DEF Observes, Target
  <1>3. \A b \in Calls : pc[b] = "fill" => pc'[b] = "fill"
    OBVIOUS
  <1> QED
    BY <1>1, <1>2, <1>3 DEF FaultsCounted

\* A step of a call that leaves the stored rows alone and neither refuses a
\* repeat nor has a failure to record.
LEMMA QuietKeepsAudit ==
  ASSUME IInv, AInv, NEW c \in Calls, UNCHANGED stored, pc'[c] # "reject",
         \A b \in Calls : b # c => pc'[b] = pc[b] /\ job'[b] = job[b],
         result' = result \/ \E code : result' = [result EXCEPT ![c] = code],
         TruthOf(c)', result'[c] # "none" => Target(c)' \in Datasets, FaultsCounted'
  PROVE  AInv'
  <1>1. Forward
    BY DEF Forward, stored
  <1>2. \A d \in Datasets : AuditOf(d)'
    BY DEF AInv, AuditOf, stored, CodesOf
  <1>3. Answers'
    BY <1>1, AnswersStep DEF AInv, stored
  <1>4. Grounds'
    BY <1>1, GroundStays DEF AInv, IInv, Grounds
  <1> QED
    BY <1>2, <1>3, <1>4 DEF AInv

\* A call that reports an error, or goes on without an answer.
LEMMA ErrorIsTrue ==
  ASSUME NEW c \in Calls, result'[c] \in {"none", "error", "due", "not_due"}
  PROVE  TruthOf(c)'
  BY DEF TruthOf, Terminal

LEMMA RaiseKeepsAudit ==
  ASSUME IInv, AInv, NEW c \in Calls, pc[c] # "idle", Raise(c, "error"),
         UNCHANGED stored, FaultsCounted'
  PROVE  AInv'
  <1>1. Target(c) \in Datasets
    BY DEF IInv, JobOK
  <1>2. /\ pc'[c] = "idle"
        /\ \A b \in Calls : b # c => pc'[b] = pc[b] /\ job'[b] = job[b]
    BY <1>1, EndedCall DEF Raise
  <1>3. result' = [result EXCEPT ![c] = "error"] /\ result'[c] = "error"
    BY DEF Raise, AInv, Answers
  <1>4. Target(c)' = Target(c)
    BY DEF Raise, Leave, Target, IInv, JobOK, NoJob
  <1> QED
    BY <1>1, <1>2, <1>3, <1>4, ErrorIsTrue, QuietKeepsAudit

\* Going on keeps the earlier answer, if any.
LEMMA MoveKeepsAudit ==
  ASSUME IInv, AInv, NEW c \in Calls, pc[c] # "idle",
         NEW phase \in Phases \ {"reject"}, Go(c, phase),
         UNCHANGED <<stored, job, result>>, FaultsCounted'
  PROVE  AInv'
  <1>1. pc'[c] = phase /\ \A b \in Calls : b # c => pc'[b] = pc[b] /\ job'[b] = job[b]
    BY MovedCall
  <1>2. TruthOf(c)' /\ (result'[c] # "none" => Target(c)' \in Datasets)
    <2>1. Target(c)' = Target(c) /\ UNCHANGED <<run, events, alerts, result>>
      BY DEF Target, stored
    <2> QED
      BY <2>1 DEF AInv, Answers, TruthOf
  <1> QED
    BY <1>1, <1>2, QuietKeepsAudit

\* A call begins past the schedule: it has no answer yet.
LEMMA DirectKeepsAudit ==
  ASSUME IInv, AInv, NEW c \in Calls, NEW d \in Datasets, NEW asOf \in 0..LastSession,
         NEW final \in BOOLEAN, Direct(c, d, asOf, final)
  PROVE  AInv'
  <1>1. /\ pc[c] = "idle" /\ pc'[c] = "schema"
        /\ \A b \in Calls : b # c => pc'[b] = pc[b] /\ job'[b] = job[b]
        /\ result' = [result EXCEPT ![c] = "none"] /\ result'[c] = "none"
        /\ UNCHANGED <<stored, schema, failures, crashes>>
    BY DEF Direct, Free, Go, IInv, TypeOK, JobOK, AInv, Answers
  <1>2. FaultsCounted'
    BY <1>1, FaultsStay DEF AInv, stored
  <1> QED
    BY <1>1, <1>2, ErrorIsTrue, QuietKeepsAudit

\* The schedule answers from the run it finds.
LEMMA DecideKeepsAudit ==
  ASSUME IInv, AInv, NEW c \in Calls, NEW d \in Datasets, NEW asOf \in 0..LastSession,
         NEW final \in BOOLEAN, NEW preview \in BOOLEAN, Decide(c, d, asOf, final, preview)
  PROVE  AInv'
  <1> DEFINE s == State(d, asOf, final)
             j == Request(d, asOf, final, TRUE, Missed(asOf))
             k == [NoJob EXCEPT !.dataset = d]
  <1>1. /\ s = "already_processed" => run[d] \in Terminal
        /\ s = "needs_recovery" => run[d] # "none"
        /\ s \in {"already_processed", "needs_recovery", "due", "not_due"}
    BY DEF State, Terminal
  <1>2. j.dataset = d /\ k.dataset = d
    BY DEF Request, NoJob
  <1> HIDE DEF s, j, k
  <1>3. /\ pc[c] = "idle" /\ UNCHANGED <<stored, schema, failures, crashes>>
        /\ \/ /\ result' = [result EXCEPT ![c] = "error"]
              /\ job' = [job EXCEPT ![c] = k] /\ UNCHANGED pc
           \/ /\ result' = [result EXCEPT ![c] = s]
              /\ job' = [job EXCEPT ![c] = k] /\ UNCHANGED pc
           \/ /\ result' = [result EXCEPT ![c] = "none"]
              /\ job' = [job EXCEPT ![c] = j] /\ Go(c, "schema")
    BY DEF Decide, Free, Leave, s, j, k
  <1>4. /\ pc'[c] \in {"idle", "schema"}
        /\ \A b \in Calls : b # c => pc'[b] = pc[b] /\ job'[b] = job[b]
        /\ result'[c] \in {"error", "none", s}
        /\ \E code : result' = [result EXCEPT ![c] = code]
        /\ Target(c)' = d
    BY <1>2, <1>3 DEF IInv, TypeOK, JobOK, AInv, Answers, Go, Target
  <1>5. FaultsCounted'
    BY <1>3, <1>4, FaultsStay DEF AInv, stored
  <1>6. TruthOf(c)'
    BY <1>1, <1>3, <1>4 DEF TruthOf, Terminal, stored
  <1> QED
    BY <1>3, <1>4, <1>5, <1>6, QuietKeepsAudit

\* The tables are looked at, created and filled.
LEMMA SchemaKeepsAudit ==
  ASSUME IInv, AInv, NEW c \in Calls, LookSchema(c) \/ CreateSchema(c) \/ FillSchema(c)
  PROVE  AInv'
  <1>1. pc[c] # "idle" /\ UNCHANGED stored
    BY DEF LookSchema, CreateSchema, FillSchema
  <1>2. Target(c) \in Datasets
    BY <1>1 DEF IInv, JobOK
  <1>3. ASSUME Raise(c, "error")
        PROVE  pc'[c] = "idle" /\ \A b \in Calls : b # c => pc'[b] = pc[b] /\ job'[b] = job[b]
    BY <1>1, <1>2, <1>3, EndedCall DEF Raise
  <1>4. ASSUME NEW phase \in Phases, Go(c, phase), UNCHANGED job
        PROVE  pc'[c] = phase /\ \A b \in Calls : b # c => pc'[b] = pc[b] /\ job'[b] = job[b]
    BY <1>1, <1>2, <1>4, MovedCall
  <1>5. failures \in Nat
    BY ShadowAssumption DEF ShadowAssumption, IInv, TypeOK
  <1>6. CASE LookSchema(c)
    <2>1. FaultsCounted'
      <3>1. pc[c] = "schema" /\ UNCHANGED <<run, failures, crashes>>
            /\ (schema' = "partial" => schema = "partial")
        BY <1>6 DEF LookSchema, stored
      <3>2. /\ pc'[c] \notin {"finalize", "fail"}
            /\ \A b \in Calls : b # c => pc'[b] = pc[b] /\ job'[b] = job[b]
        BY <1>3, <1>4, <1>6 DEF LookSchema, Phases
      <3> QED
        BY <3>1, <3>2, FaultsStay DEF AInv
    <2> QED
      BY <1>1, <1>6, <2>1, RaiseKeepsAudit, MoveKeepsAudit DEF LookSchema, Phases
  <1>7. CASE CreateSchema(c)
    <2>1. FaultsCounted'
      <3>1. pc[c] = "create" /\ UNCHANGED <<run, crashes>> /\ failures' \in {failures, failures + 1}
        BY <1>7 DEF CreateSchema, Failure, stored
      <3>2. /\ pc'[c] \notin {"finalize", "fail"}
            /\ schema' = "partial" => schema = "partial" \/ pc'[c] = "fill"
            /\ \A b \in Calls : b # c => pc'[b] = pc[b] /\ job'[b] = job[b]
        BY <1>3, <1>4, <1>7 DEF CreateSchema, Phases
      <3> QED
        BY <3>1, <3>2, FaultsStay DEF AInv
    <2> QED
      BY <1>1, <1>7, <2>1, RaiseKeepsAudit, MoveKeepsAudit DEF CreateSchema, Phases
  <1>8. CASE FillSchema(c)
    <2>1. FaultsCounted'
      <3>1. /\ pc[c] = "fill" /\ UNCHANGED <<run, crashes>>
            /\ pc'[c] \in {"idle", "reserve"}
            /\ \A b \in Calls : b # c => pc'[b] = pc[b] /\ job'[b] = job[b]
            /\ \/ schema' = "whole" /\ failures' = failures
               \/ failures' = failures + 1
        BY <1>3, <1>4, <1>8 DEF FillSchema, Failure, Phases, stored
      <3>2. \A b \in Calls, d \in Datasets : Observes(b, d) => Observes(b, d)'
        BY <3>1 DEF Observes, Target
      <3> QED
        BY <1>5, <3>1, <3>2 DEF AInv, FaultsCounted
    <2> QED
      BY <1>1, <1>8, <2>1, RaiseKeepsAudit, MoveKeepsAudit DEF FillSchema, Phases
  <1> QED
    BY <1>6, <1>7, <1>8

\* reserve_run: a reservation that is made is observed, and a refusal has
\* found the run it refuses for.
LEMMA ReserveKeepsAudit ==
  ASSUME IInv, AInv, NEW c \in Calls, Reserve(c)
  PROVE  AInv'
  <1> DEFINE d == Target(c)
  <1>1. /\ d \in Datasets /\ pc[c] = "reserve"
        /\ UNCHANGED <<schema, snapshots, events, alerts, crashes>>
        /\ failures' \in {failures, failures + 1}
    BY DEF IInv, JobOK, Reserve, Failure
  <1> HIDE DEF d
  <1>2. CASE /\ run[d] = "none" /\ run' = [run EXCEPT ![d] = "reserved"]
             /\ Go(c, "finalize") /\ UNCHANGED <<job, result, failures>>
    <2>1. /\ pc'[c] = "finalize"
          /\ \A b \in Calls : b # c => pc'[b] = pc[b]
          /\ \A b \in Calls : job'[b] = job[b]
      BY <1>2, MovedCall DEF Phases
    <2>2. run'[d] = "reserved" /\ \A e \in Datasets : e # d => run'[e] = run[e]
      BY <1>1, <1>2 DEF IInv, TypeOK
    <2>3. Forward
      BY <1>2, <2>2 DEF Forward
    <2>4. ASSUME NEW e \in Datasets PROVE AuditOf(e)'
      BY <1>1, <1>2, <2>2 DEF AInv, AuditOf, CodesOf, Blocking
    <2>5. Grounds'
      BY <2>1, <2>3, GroundStays DEF AInv, IInv, Grounds
    <2>6. Answers'
      <3>1. \A b \in Calls : TruthOf(b)' /\ (result'[b] # "none" => Target(b)' \in Datasets)
        BY <1>1, <1>2, <2>3, TruthStays DEF AInv
      <3> QED
        BY <1>2, <3>1 DEF AInv, Answers
    <2>7. FaultsCounted'
      <3>1. /\ \A e \in Datasets : e = d => Observes(c, e)'
            /\ \A b \in Calls, e \in Datasets : Observes(b, e) => Observes(b, e)'
        BY <1>1, <1>2, <2>1 DEF Observes, Target, d
      <3>2. \A b \in Calls : (pc'[b] = "fail" => pc[b] = "fail") /\ (pc[b] = "fill" => pc'[b] = "fill")
        BY <1>1, <2>1
      <3>3. \A e \in Datasets : run'[e] = "reserved" => e = d \/ run[e] = "reserved"
        BY <2>2
      <3>4. UNCHANGED <<schema, failures, crashes>>
        BY <1>1, <1>2
      <3>5. \A e \in Datasets : e = d => \E b \in Calls : Observes(b, e)'
        BY <3>1
      <3>6. \A e \in Datasets : (\E b \in Calls : Observes(b, e)) => \E b \in Calls : Observes(b, e)'
        BY <3>1
      <3>7. (\E b \in Calls : pc[b] = "fill") => \E b \in Calls : pc'[b] = "fill"
        BY <3>2
      <3>8. FaultsCounted
        BY DEF AInv
      <3> QED
        BY <3>2, <3>3, <3>4, <3>5, <3>6, <3>7, <3>8 DEF FaultsCounted
    <2> QED
      BY <2>4, <2>5, <2>6, <2>7 DEF AInv
  <1>3. CASE /\ run[d] # "none" /\ Go(c, "reject")
             /\ job' = [job EXCEPT ![c].code =
                          IF run[d] = "reserved" THEN "recovery_required" ELSE "duplicate_run"]
             /\ UNCHANGED <<run, result, failures>>
    <2>1. /\ pc'[c] = "reject" /\ job'[c].dataset = job[c].dataset
          /\ job'[c].code = "duplicate_run" => run[d] \in Terminal
          /\ \A b \in Calls : b # c => pc'[b] = pc[b] /\ job'[b] = job[b]
      BY <1>1, <1>3 DEF IInv, TypeOK, JobOK, Jobs, Go, Terminal
    <2>2. Forward
      BY <1>3 DEF Forward
    <2>3. \A e \in Datasets : AuditOf(e)'
      BY <1>1, <1>3 DEF AInv, AuditOf, CodesOf
    <2>4. Grounds'
      <3>1. Target(c)' = d
        BY <2>1 DEF Target, d
      <3> QED
        BY <1>3, <2>1, <2>2, <3>1, GroundStays DEF AInv, IInv, Grounds
    <2>5. Answers'
      <3>1. \A b \in Calls : TruthOf(b)' /\ (result'[b] # "none" => Target(b)' \in Datasets)
        BY <1>1, <1>3, <2>1, <2>2, TruthStays DEF AInv
      <3> QED
        BY <1>3, <3>1 DEF AInv, Answers
    <2>6. FaultsCounted'
      BY <1>1, <1>3, <2>1, FaultsStay DEF AInv
    <2> QED
      BY <2>3, <2>4, <2>5, <2>6 DEF AInv
  <1>4. CASE Failure /\ Raise(c, "error") /\ UNCHANGED run
    <2>1. /\ pc'[c] = "idle"
          /\ \A b \in Calls : b # c => pc'[b] = pc[b] /\ job'[b] = job[b]
      BY <1>1, <1>4, EndedCall DEF Raise, d
    <2>2. FaultsCounted'
      BY <1>1, <1>4, <2>1, FaultsStay DEF AInv
    <2> QED
      BY <1>1, <1>4, <2>2, RaiseKeepsAudit DEF stored
  <1> QED
    BY <1>2, <1>3, <1>4 DEF Reserve, d

\* record_retry_rejection: event and alert are written together, for a run
\* that exists.
LEMMA RejectionKeepsAudit ==
  ASSUME IInv, AInv, NEW c \in Calls, RecordRejection(c)
  PROVE  AInv'
  <1> DEFINE d == Target(c)
             code == job[c].code
  <1>1. /\ d \in Datasets /\ code \in Rejections /\ pc[c] = "reject"
        /\ run[d] # "none" /\ (code = "duplicate_run" => run[d] \in Terminal)
        /\ UNCHANGED <<schema, run, snapshots, crashes>>
        /\ failures' \in {failures, failures + 1}
    BY DEF IInv, JobOK, AInv, Grounds, RecordRejection, Failure
  <1> HIDE DEF d, code
  <1>2. Raise(c, code) \/ Raise(c, "error")
    BY DEF RecordRejection, code
  <1>3. /\ pc'[c] = "idle"
        /\ \A b \in Calls : b # c => pc'[b] = pc[b] /\ job'[b] = job[b]
    BY <1>1, <1>2, EndedCall DEF Raise, d
  <1>4. FaultsCounted'
    BY <1>1, <1>3, FaultsStay DEF AInv
  <1>5. CASE Log(d, {code}) /\ Alert(d, {code}) /\ Raise(c, code)
    <2>1. Forward /\ events \subseteq events' /\ alerts \subseteq alerts'
      BY <1>1, <1>5 DEF Forward, Log, Alert
    <2>2. /\ {code} \in SUBSET Codes /\ code \in AlertCodes
          /\ code \notin Blocking \cup {"fresh_data", "unexpected_configuration"}
      BY <1>1 DEF Codes, AlertCodes, Rejections, Blocking
    <2> DEFINE codes == {code}
    <2>6. events' = events \cup ({d} \X codes) /\ alerts' = alerts \cup ({d} \X codes)
      BY <1>5 DEF Log, Alert
    <2>7. d \in Datasets /\ codes \in SUBSET Codes
      BY <1>1, <2>2
    <2> HIDE DEF codes
    <2>3. ASSUME NEW e \in Datasets PROVE AuditOf(e)'
      <3>1. CASE e = d
        <4>1. /\ CodesOf(events', d) = CodesOf(events, d) \cup codes
              /\ CodesOf(alerts', d) = CodesOf(alerts, d) \cup codes
          BY <2>6, <2>7, LoggedCodes
        <4> QED
          BY <1>1, <2>2, <3>1, <4>1 DEF AInv, AuditOf, codes
      <3>2. CASE e # d
        <4>1. /\ CodesOf(events', e) = CodesOf(events, e)
              /\ CodesOf(alerts', e) = CodesOf(alerts, e)
          <5>1. \A table : CodesOf(table \cup ({d} \X codes), e) = CodesOf(table, e)
            BY <2>7, <3>2, LoggedCodes
          <5> QED
            BY <2>6, <5>1
        <4> QED
          BY <1>1, <4>1 DEF AInv, AuditOf
      <3> QED
        BY <3>1, <3>2
    <2>4. Grounds'
      BY <1>3, <2>1, GroundStays DEF AInv, IInv, Grounds
    <2>5. Answers'
      <3>1. result' = [result EXCEPT ![c] = code] /\ result'[c] = code
        BY <1>5 DEF Raise, AInv, Answers
      <3>2. Target(c)' = d
        BY <1>5 DEF Raise, Leave, Target, IInv, JobOK, NoJob, d
      <3>3. <<d, code>> \in events' \cap alerts'
        BY <1>5 DEF Log, Alert
      <3>4. TruthOf(c)'
        BY <1>1, <3>1, <3>2, <3>3 DEF TruthOf, Rejections, Terminal
      <3> QED
        BY <1>1, <1>3, <2>1, <3>1, <3>2, <3>4, AnswersStep DEF AInv
    <2> QED
      BY <1>4, <2>3, <2>4, <2>5 DEF AInv
  <1>6. CASE Raise(c, "error") /\ UNCHANGED <<events, alerts>>
    BY <1>1, <1>4, <1>6, RaiseKeepsAudit DEF stored
  <1> QED
    BY <1>5, <1>6 DEF RecordRejection, d, code

\* The step that ends a reserved run, with its rows: one transaction.
LEMMA EndRunKeepsAudit ==
  ASSUME IInv, AInv, NEW c \in Calls, pc[c] \in {"finalize", "fail"},
         NEW outcome \in Terminal, NEW codes \in SUBSET Codes,
         run[Target(c)] = "reserved", run' = [run EXCEPT ![Target(c)] = outcome],
         snapshots' = IF outcome = "failed" THEN snapshots ELSE snapshots \cup {Target(c)},
         Log(Target(c), codes), Alert(Target(c), codes \cap AlertCodes),
         "fresh_data" \in codes <=> outcome = "completed",
         codes \cap Blocking # {} <=> outcome = "blocked",
         "unexpected_configuration" \in codes <=> outcome = "failed",
         Go(c, "idle"), Leave(c, Target(c)), result' = [result EXCEPT ![c] = outcome],
         UNCHANGED <<schema, failures, crashes>>
  PROVE  AInv'
  <1> DEFINE d == Target(c)
  <1>1. d \in Datasets /\ Observes(c, d)
    BY DEF IInv, JobOK, Observes
  <1>2. /\ pc'[c] = "idle"
        /\ \A b \in Calls : b # c => pc'[b] = pc[b] /\ job'[b] = job[b]
    BY <1>1, EndedCall
  <1>3. Target(c)' = d
    BY DEF Leave, Target, IInv, JobOK, NoJob
  <1> HIDE DEF d
  <1>4. run'[d] = outcome /\ \A e \in Datasets : e # d => run'[e] = run[e]
    BY <1>1 DEF IInv, TypeOK, d
  <1>5. /\ Forward /\ snapshots \subseteq snapshots'
        /\ events \subseteq events' /\ alerts \subseteq alerts'
    BY <1>4 DEF Forward, Log, Alert, d
  <1>6. ASSUME NEW e \in Datasets PROVE AuditOf(e)'
    <2>1. /\ codes \cap AlertCodes \in SUBSET Codes
          /\ events' = events \cup ({d} \X codes)
          /\ alerts' = alerts \cup ({d} \X (codes \cap AlertCodes))
      BY DEF Log, Alert, d
    <2>2. CASE e = d
      <3>1. /\ CodesOf(events', d) = CodesOf(events, d) \cup codes
            /\ CodesOf(alerts', d) = CodesOf(alerts, d) \cup (codes \cap AlertCodes)
        BY <1>1, <2>1, LoggedCodes
      <3>2. /\ d \in snapshots' <=> outcome # "failed"
            /\ "fresh_data" \notin CodesOf(events, d) /\ CodesOf(events, d) \cap Blocking = {}
            /\ "unexpected_configuration" \notin CodesOf(events, d)
            /\ CodesOf(alerts, d) = CodesOf(events, d) \cap AlertCodes
        BY <1>1 DEF AInv, AuditOf, d
      <3> QED
        BY <1>4, <2>2, <3>1, <3>2 DEF AuditOf, Terminal
    <2>3. CASE e # d
      <3>1. /\ CodesOf(events', e) = CodesOf(events, e)
            /\ CodesOf(alerts', e) = CodesOf(alerts, e)
        BY <1>1, <2>1, <2>3, LoggedCodes
      <3> QED
        BY <1>4, <2>3, <3>1 DEF AInv, AuditOf, d
    <2> QED
      BY <2>2, <2>3
  <1>7. Grounds'
    BY <1>2, <1>5, GroundStays DEF AInv, IInv, Grounds
  <1>8. Answers'
    <2>1. result'[c] = outcome
      BY DEF AInv, Answers
    <2>2. TruthOf(c)'
      BY <1>3, <1>4, <2>1 DEF TruthOf, Terminal
    <2> QED
      BY <1>1, <1>2, <1>3, <1>5, <2>2, AnswersStep DEF AInv
  <1>9. FaultsCounted'
    <2>1. \A b \in Calls, e \in Datasets : e # d /\ Observes(b, e) => Observes(b, e)'
      BY <1>2 DEF Observes, Target, d
    <2>2. run'[d] # "reserved"
      BY <1>4 DEF Terminal
    <2>3. \A b \in Calls : (pc'[b] = "fail" => pc[b] = "fail") /\ (pc[b] = "fill" => pc'[b] = "fill")
      BY <1>2
    <2> QED
      BY <1>4, <2>1, <2>2, <2>3 DEF AInv, FaultsCounted
  <1> QED
    BY <1>6, <1>7, <1>8, <1>9 DEF AInv

\* finalize_run: the verdict is fresh or has reasons; a finalization that
\* does not happen leaves a failure to record, and has met one.
LEMMA FinalizeKeepsAudit ==
  ASSUME IInv, AInv, NEW c \in Calls, Finalize(c)
  PROVE  AInv'
  <1> DEFINE d == Target(c)
             reasons == Reasons(job[c])
             outcome == IF reasons = {} THEN "completed" ELSE "blocked"
             codes == reasons \cup {"model_not_approved"}
                        \cup (IF reasons = {} THEN {"fresh_data"} ELSE {})
  <1>1. d \in Datasets /\ pc[c] = "finalize" /\ run[d] = "reserved" /\ UNCHANGED <<schema, crashes>>
    BY DEF IInv, JobOK, HoldsReservation, Observes, Finalize
  <1>2. reasons \subseteq Blocking
    BY DEF Reasons, Blocking
  <1> HIDE DEF reasons
  <1>3. CASE /\ run' = [run EXCEPT ![d] = outcome] /\ snapshots' = snapshots \cup {d}
             /\ Log(d, codes) /\ Alert(d, reasons \cap AlertCodes)
             /\ Return(c, outcome) /\ UNCHANGED failures
    <2>1. /\ codes \in SUBSET Codes /\ reasons \cap AlertCodes = codes \cap AlertCodes
          /\ outcome \in Terminal /\ outcome # "failed"
          /\ "fresh_data" \in codes <=> outcome = "completed"
          /\ codes \cap Blocking # {} <=> outcome = "blocked"
          /\ "unexpected_configuration" \notin codes
      BY <1>2 DEF Codes, AlertCodes, Blocking, Terminal
    <2>2. /\ Go(c, "idle") /\ Leave(c, d) /\ result' = [result EXCEPT ![c] = outcome]
      BY <1>3 DEF Return
    <2> HIDE DEF codes, outcome
    <2> QED
      BY <1>1, <1>3, <2>1, <2>2, EndRunKeepsAudit
  <1>4. CASE Failure /\ Go(c, "fail") /\ UNCHANGED <<stored, job, result, told>>
    <2>1. /\ pc'[c] = "fail" /\ \A b \in Calls : b # c => pc'[b] = pc[b]
          /\ \A b \in Calls : job'[b] = job[b]
      BY <1>1, <1>4, MovedCall DEF Phases
    <2>2. failures \in Nat /\ failures' = failures + 1
      BY <1>4, ShadowAssumption DEF ShadowAssumption, IInv, TypeOK, Failure
    <2>3. \A b \in Calls, e \in Datasets : Observes(b, e) => Observes(b, e)'
      BY <1>1, <2>1 DEF Observes, Target
    <2>4. FaultsCounted'
      BY <1>1, <1>4, <2>1, <2>2, <2>3 DEF AInv, FaultsCounted, stored
    <2> QED
      BY <1>1, <1>4, <2>4, MoveKeepsAudit DEF Phases
  <1> QED
    BY <1>1, <1>3, <1>4 DEF Finalize, d, reasons, outcome, codes

\* mark_failed: its own failure is the second one.
LEMMA MarkFailedKeepsAudit ==
  ASSUME IInv, AInv, NEW c \in Calls, MarkFailed(c)
  PROVE  AInv'
  <1> DEFINE d == Target(c)
             codes == {"unexpected_configuration"}
  <1>1. d \in Datasets /\ pc[c] = "fail" /\ run[d] = "reserved"
        /\ UNCHANGED <<schema, snapshots, crashes>>
    BY DEF IInv, JobOK, HoldsReservation, Observes, MarkFailed
  <1>2. CASE /\ run' = [run EXCEPT ![d] = "failed"]
             /\ Log(d, codes) /\ Alert(d, codes)
             /\ Raise(c, "failed") /\ UNCHANGED failures
    <2>1. /\ codes \in SUBSET Codes /\ codes \cap AlertCodes = codes /\ codes \cap Blocking = {}
          /\ "fresh_data" \notin codes /\ "unexpected_configuration" \in codes
          /\ "failed" \in Terminal
      BY DEF Codes, AlertCodes, Blocking, Terminal
    <2>2. Go(c, "idle") /\ Leave(c, d) /\ result' = [result EXCEPT ![c] = "failed"]
      BY <1>2 DEF Raise
    <2> HIDE DEF codes
    <2> QED
      BY <1>1, <1>2, <2>1, <2>2, EndRunKeepsAudit
  <1>3. CASE Failure /\ Raise(c, "error") /\ UNCHANGED <<run, events, alerts>>
    <2>1. /\ pc'[c] = "idle"
          /\ \A b \in Calls : b # c => pc'[b] = pc[b] /\ job'[b] = job[b]
      BY <1>1, <1>3, EndedCall DEF Raise
    <2>2. failures \in Nat /\ failures' = failures + 1
      BY <1>3, ShadowAssumption DEF ShadowAssumption, IInv, TypeOK, Failure
    <2>3. crashes = 0 => failures' >= 2
      BY <1>1, <2>2 DEF AInv, FaultsCounted
    <2>4. FaultsCounted'
      BY <1>1, <2>1, <2>2, <2>3 DEF AInv, FaultsCounted
    <2> QED
      BY <1>1, <1>3, <2>4, RaiseKeepsAudit DEF stored
  <1> QED
    BY <1>1, <1>2, <1>3 DEF MarkFailed, d, codes

\* A crash is counted; a session completes; nothing happens.
LEMMA CrashKeepsAudit ==
  ASSUME IInv, AInv, NEW c \in Calls, Crash(c)
  PROVE  AInv'
  <1>1. pc[c] # "idle" /\ Raise(c, "error") /\ UNCHANGED stored
    BY DEF Crash
  <1>2. crashes' # 0
    BY ShadowAssumption DEF ShadowAssumption, IInv, TypeOK, Crash
  <1>3. FaultsCounted'
    BY <1>2 DEF FaultsCounted
  <1> QED
    BY <1>1, <1>3, RaiseKeepsAudit

LEMMA IdleKeepsAudit ==
  ASSUME AInv, Tick \/ UNCHANGED vars
  PROVE  AInv'
  <1>1. UNCHANGED <<schema, run, snapshots, events, alerts, pc, job, result, failures, crashes>>
    BY DEF Tick, vars, stored
  <1>2. \A d \in Datasets : AuditOf(d)'
    BY <1>1 DEF AInv, AuditOf, CodesOf
  <1>3. Grounds'
    BY <1>1 DEF AInv, Grounds, Target
  <1>4. Answers'
    BY <1>1 DEF AInv, Answers, TruthOf, Target
  <1>5. FaultsCounted'
    BY <1>1 DEF AInv, FaultsCounted, Observes, Target
  <1> QED
    BY <1>2, <1>3, <1>4, <1>5 DEF AInv

\* Every step preserves the audit, in every reachable state.
LEMMA AlwaysAInv == Spec => []AInv
  <1>1. IInv /\ AInv /\ [Next]_vars => AInv'
    BY DirectKeepsAudit, DecideKeepsAudit, SchemaKeepsAudit, ReserveKeepsAudit,
       RejectionKeepsAudit, FinalizeKeepsAudit, MarkFailedKeepsAudit, CrashKeepsAudit,
       IdleKeepsAudit
    DEF Next
  <1> QED
    BY <1>1, InitAInv, AlwaysIInv, PTL DEF Spec

-----------------------------------------------------------------------------
(* Their theorems. *)

\* The rows of every run agree with its status, however calls overlap, fail
\* and die (finalize_run, mark_failed, record_retry_rejection: one
\* transaction each).
THEOREM RowsAgree == Spec => []AuditMatchesLifecycle
  <1>1. AInv => AuditMatchesLifecycle
    BY DEF AInv, AuditOf, AuditMatchesLifecycle, Blocking
  <1> QED
    BY <1>1, AlwaysAInv, PTL

\* Without a crash, no single failing transaction strands a reservation, and
\* none at all is needed for a database that opens (run_observation's handler).
THEOREM NoSingleFailureStrands == Spec => []OneFailureNeverStrands
  <1>1. IInv /\ AInv => OneFailureNeverStrands
    BY ShadowAssumption
    DEF ShadowAssumption, IInv, TypeOK, AInv, FaultsCounted, OneFailureNeverStrands
  <1> QED
    BY <1>1, AlwaysIInv, AlwaysAInv, PTL

\* What any call has reported is what the database holds from then on.
THEOREM AnswersStayTrue == Spec => []AnswerIsTruthful
  <1>1. AInv => AnswerIsTruthful
    BY DEF AInv, Answers, TruthOf, AnswerIsTruthful
  <1> QED
    BY <1>1, AlwaysAInv, PTL
=============================================================================
