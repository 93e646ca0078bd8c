------------------------- MODULE BenchmarkStagesProofs -------------------------
(***************************************************************************)
(* Theorems about BenchmarkStages, for any number of processes and faults: *)
(* types, one evaluation of the final test unless final tests race, no     *)
(* evaluation before validation, lock and access record, evidence that     *)
(* stays, completions that can be audited.                                 *)
(***************************************************************************)
EXTENDS BenchmarkStages, TLAPS

AtWork(c, s) == pc[c] # "idle" /\ stage[c] = s
Stored(k) == disk[k] # Absent

\* Past its first item a final test has stored an access record.
AccessFirst ==
  \A c \in Calls : AtWork(c, "final") /\ (at[c] > 1 \/ pc[c] = "confirm") => Stored("access")

\* An evaluation leaves evidence that later final tests find.
EvaluationIsRecorded == evaluations > 0 => Stored("access") /\ Stored("finalLock")

Alone ==
  ~raced => \A b, c \in Calls : AtWork(b, "final") /\ AtWork(c, "final") => b = c

\* A final test that has yet to evaluate is the first.
NotYet ==
  ~raced => \A c \in Calls : AtWork(c, "final") /\ at[c] <= 2 => evaluations = 0

\* What the commands checked when they began still holds.
ChecksHold ==
  /\ \A c \in Calls : AtWork(c, "finalize") =>
       Stored("lock") /\ Stored("validation") /\ Stored("readiness")
  /\ \A c \in Calls : AtWork(c, "final") => Stored("finalLock")
  /\ Stored("finalLock") => Stored("lock") /\ Stored("validation") /\ Stored("readiness")

\* Nobody has stored a record between a final test's look and its writing.
StillAbsent ==
  ~raced => \A c \in Calls :
    pc[c] = "swap" /\ Doing(c) \in {"access", "completion"} => disk[Doing(c)] = Absent

Evidence == AccessFirst /\ EvaluationIsRecorded /\ ChecksHold
Solitude == Alone /\ NotYet /\ StillAbsent /\ EvaluatedOnce
BInv == TypeOK /\ Evidence /\ Solitude

-----------------------------------------------------------------------------
(* Facts about the plans. *)

\* The commands.
LEMMA StagesAre == Stages = {"prepare", "validation", "finalize", "final"}
  BY DEF Stages, StageArtifacts

\* What the plans do in which place.
LEMMA PlanFacts ==
  /\ \A s \in Stages : Len(Plan[s]) \in Nat /\ Len(Plan[s]) >= 1
  /\ \A s \in Stages : \A i \in 1..Len(Plan[s]) :
       /\ Plan[s][i] \in Artifacts \cup {"evaluation"}
       /\ Plan[s][i] = "access" <=> s = "final" /\ i = 1
       /\ Plan[s][i] = "evaluation" <=> s = "final" /\ i = 2
       /\ Plan[s][i] = "completion" => s = "final" /\ i > 2
       /\ Plan[s][i] = "finalLock" => s = "finalize"
  <1> USE DEF Plan, Artifacts, Completed, Locked, Validated, Prepared
  <1>1. /\ Len(Plan["prepare"]) = 5 /\ Len(Plan["validation"]) = 4
        /\ Len(Plan["finalize"]) = 2 /\ Len(Plan["final"]) = 7
    OBVIOUS
  <1>2. \A i \in 1..5 : /\ Plan["prepare"][i] \in Artifacts
                        /\ Plan["prepare"][i] \notin {"access", "completion", "finalLock"}
    OBVIOUS
  <1>3. \A i \in 1..4 : /\ Plan["validation"][i] \in Artifacts
                        /\ Plan["validation"][i] \notin {"access", "completion", "finalLock"}
    OBVIOUS
  <1>4. \A i \in 1..2 : /\ Plan["finalize"][i] \in Artifacts
                        /\ Plan["finalize"][i] \notin {"access", "completion"}
    OBVIOUS
  <1>5. /\ Plan["final"][1] = "access" /\ Plan["final"][2] = "evaluation"
        /\ \A i \in 3..7 : /\ Plan["final"][i] \in Artifacts
                           /\ Plan["final"][i] \notin {"access", "finalLock"}
    OBVIOUS
  <1>6. "evaluation" \notin Artifacts /\ "access" \in Artifacts
    OBVIOUS
  <1> QED
    BY <1>1, <1>2, <1>3, <1>4, <1>5, <1>6, StagesAre

\* Names of artifacts that the proofs mention.
LEMMA NamedArtifacts ==
  {"lock", "validation", "readiness", "finalLock", "access", "completion", "report", "index"}
    \subseteq Artifacts
  BY DEF Artifacts, Completed, Locked, Validated, Prepared

\* No content is taken for an absent file.
LEMMA ContentsAreStored ==
  /\ Fixed # Absent
  /\ \A t : Access(t) # Absent /\ Completion(t) # Absent /\ Report(t) # Absent
  /\ \A s, l : Index(s, l) # Absent
  <1>1. Absent.kind = "absent" /\ Fixed.kind = "fixed"
    BY DEF Absent, Fixed
  <1>2. \A t : Access(t).kind = "access" /\ Completion(t).kind = "completion"
               /\ Report(t).kind = "report"
    BY DEF Access, Completion, Report
  <1>3. \A s, l : Index(s, l).kind = "index"
    BY DEF Index
  <1> QED
    BY <1>1, <1>2, <1>3

\* What a command writes fits the artifact and is not an absent file.
LEMMA PayloadFits ==
  ASSUME NEW c, NEW k \in Artifacts
  PROVE  Payload(c, k) # Absent /\ Fits(k, Payload(c, k))
  <1>1. \A t : Access(t).kind = "access" /\ Completion(t).kind = "completion"
               /\ Report(t).kind = "report"
    BY DEF Access, Completion, Report
  <1>2. \A s, l : Index(s, l).kind = "index"
    BY DEF Index
  <1> QED
    BY <1>1, <1>2, ContentsAreStored DEF Payload, Fits, Versioned

-----------------------------------------------------------------------------
(* Steps of a single call. *)

\* The other calls stay where they are.
Others(c) ==
  \A b \in Calls : b # c => /\ pc'[b] = pc[b] /\ at'[b] = at[b] /\ draft'[b] = draft[b]
                            /\ stage'[b] = stage[b]

\* Where a call may be.
Place ==
  /\ pc \in [Calls -> {"idle", "look", "swap", "confirm"}]
  /\ stage \in [Calls -> Stages]
  /\ at \in [Calls -> Nat] /\ \A c \in Calls : at[c] \in 1..Len(Plan[stage[c]])
  /\ \A c \in Calls : pc[c] = "idle" => at[c] = 1
  /\ draft = [c \in Calls |-> draft[c]]

Ended(c) == pc'[c] = "idle" /\ draft'[c] = Absent
Moved(c) == /\ pc[c] \in {"look", "confirm"} /\ pc'[c] = "look" /\ draft'[c] = Absent
            /\ at'[c] = at[c] + 1

\* A command that ends.
LEMMA EndEffect ==
  ASSUME TypeOK, NEW c \in Calls, End(c), UNCHANGED stage
  PROVE  Place' /\ Others(c) /\ Ended(c)
  <1>1. /\ pc' = [pc EXCEPT ![c] = "idle"] /\ at' = [at EXCEPT ![c] = 1]
        /\ draft' = [draft EXCEPT ![c] = Absent]
    BY DEF End, Go
  <1>2. pc' \in [Calls -> {"idle", "look", "swap", "confirm"}] /\ at' \in [Calls -> Nat]
    BY <1>1 DEF TypeOK
  <1>3. \A b \in Calls : at'[b] \in 1..Len(Plan[stage'[b]])
    BY <1>1, PlanFacts DEF TypeOK
  <1>4. draft' = [b \in Calls |-> draft'[b]] /\ \A b \in Calls : pc'[b] = "idle" => at'[b] = 1
    BY <1>1 DEF TypeOK
  <1>5. Others(c) /\ Ended(c)
    BY <1>1 DEF TypeOK, Others, Ended
  <1> QED
    BY <1>2, <1>3, <1>4, <1>5 DEF TypeOK, Place

\* A command that goes on to its next item.
LEMMA AdvanceEffect ==
  ASSUME TypeOK, NEW c \in Calls, pc[c] \in {"look", "confirm"}, Advance(c), UNCHANGED stage
  PROVE  Place' /\ Others(c) /\ (Ended(c) \/ Moved(c))
  <1>1. CASE End(c)
    BY <1>1, EndEffect
  <1>2. CASE /\ at[c] # Len(Plan[stage[c]]) /\ Go(c, "look")
             /\ at' = [at EXCEPT ![c] = @ + 1] /\ draft' = [draft EXCEPT ![c] = Absent]
    <2>1. pc' \in [Calls -> {"idle", "look", "swap", "confirm"}] /\ at' \in [Calls -> Nat]
      BY <1>2 DEF TypeOK, Go
    <2>2. \A b \in Calls : at'[b] \in 1..Len(Plan[stage'[b]])
      BY <1>2, PlanFacts DEF TypeOK
    <2>3. draft' = [b \in Calls |-> draft'[b]] /\ \A b \in Calls : pc'[b] = "idle" => at'[b] = 1
      BY <1>2 DEF TypeOK, Go
    <2>4. Others(c) /\ Moved(c)
      BY <1>2 DEF TypeOK, Others, Moved, Go
    <2> QED
      BY <2>1, <2>2, <2>3, <2>4 DEF TypeOK, Place
  <1> QED
    BY <1>1, <1>2 DEF Advance

Scalars ==
  /\ token \in [Calls -> Nat] /\ clock \in Nat
  /\ faults \in 0..MaxFaults /\ evaluations \in Nat
  /\ litter \in BOOLEAN /\ raced \in BOOLEAN

Bytes(c) ==
  IF pc[c] \in {"swap", "confirm"}
    THEN Doing(c) \in Artifacts /\ draft[c] # Absent /\ Fits(Doing(c), draft[c])
    ELSE draft[c] = Absent

DiskOK == disk = [k \in Artifacts |-> disk[k]] /\ \A k \in Artifacts : Fits(k, disk[k])

\* TypeOK by its parts.
LEMMA TypeParts ==
  TypeOK <=> DiskOK /\ Place /\ Scalars /\ \A c \in Calls : Bytes(c)
  <1>1. Place => \A c \in Calls : Doing(c) = "evaluation" => stage[c] = "final"
    BY PlanFacts DEF Place, Doing
  <1> QED
    BY <1>1 DEF TypeOK, DiskOK, Place, Scalars, Bytes

\* The same for the next state.
LEMMA TypePartsNext ==
  ASSUME DiskOK', Place', Scalars', \A c \in Calls : Bytes(c)'
  PROVE  TypeOK'
  <1>1. \A c \in Calls : Doing(c)' = "evaluation" => stage'[c] = "final"
    BY PlanFacts DEF Place, Doing
  <1> QED
    BY <1>1 DEF TypeOK, DiskOK, Place, Scalars, Bytes

\* The bytes of other calls stay typed.
LEMMA OthersBytes ==
  ASSUME \A b \in Calls : Bytes(b), NEW c \in Calls, Others(c), Bytes(c)'
  PROVE  \A b \in Calls : Bytes(b)'
  BY DEF Bytes, Others, Doing

\* A call that ends, or goes on from an item it has not to evaluate, having
\* found or stored it, touches nothing that the invariant is about.
LEMMA QuietStep ==
  ASSUME BInv, NEW c \in Calls, Place', Scalars', Others(c),
         UNCHANGED <<disk, stage, evaluations, raced>>,
         Ended(c) \/ (Moved(c) /\ Doing(c) # "evaluation" /\ (Doing(c) = "access" => Stored("access")))
  PROVE  BInv'
  <1>1. Bytes(c)'
    BY DEF Bytes, Ended, Moved
  <1>2. TypeOK'
    <2>1. DiskOK' /\ \A b \in Calls : Bytes(b)
      BY TypeParts DEF BInv, DiskOK
    <2>2. \A b \in Calls : Bytes(b)'
      BY <1>1, <2>1, OthersBytes
    <2> QED
      BY <2>1, <2>2, TypePartsNext
  <1>3. Place /\ Place'
    BY TypeParts DEF BInv
  <1>4. \A b \in Calls : \A s : AtWork(b, s)' => AtWork(b, s)
    BY DEF AtWork, Others, Ended, Moved
  <1>5. Moved(c) /\ stage[c] = "final" => at[c] # 2 /\ (at[c] = 1 => Stored("access"))
    <2>1. stage[c] \in Stages /\ at[c] \in 1..Len(Plan[stage[c]])
      BY <1>3 DEF Place
    <2>2. Ended(c) => ~Moved(c)
      BY DEF Ended, Moved
    <2> QED
      BY <2>1, <2>2, PlanFacts DEF Doing
  <1>6. AccessFirst'
    BY SMTT(30), <1>3, <1>4, <1>5 DEF BInv, Evidence, AccessFirst, AtWork, Stored, Others, Ended, Moved, Place
  <1>7. EvaluationIsRecorded' /\ ChecksHold'
    BY <1>4 DEF BInv, Evidence, EvaluationIsRecorded, ChecksHold, Stored
  <1>8. Alone' /\ EvaluatedOnce'
    BY <1>4 DEF BInv, Solitude, Alone, EvaluatedOnce
  <1>9. NotYet'
    <2> SUFFICES ASSUME ~raced', NEW b \in Calls, AtWork(b, "final")', at'[b] <= 2
                 PROVE  evaluations' = 0
      BY DEF NotYet
    <2>1. AtWork(b, "final") /\ ~raced
      BY <1>4
    <2>2. at[b] <= 2
      <3>1. CASE b = c
        BY <1>3, <3>1 DEF AtWork, Ended, Moved, Place
      <3>2. CASE b # c
        BY <3>2 DEF Others
      <3> QED
        BY <3>1, <3>2
    <2> QED
      BY <2>1, <2>2 DEF BInv, Solitude, NotYet
  <1>10. StillAbsent'
    BY DEF BInv, Solitude, StillAbsent, Others, Ended, Moved, Doing
  <1> QED
    BY <1>2, <1>6, <1>7, <1>8, <1>9, <1>10 DEF BInv, Evidence, Solitude

-----------------------------------------------------------------------------
(* One lemma per action: it preserves the invariant. *)

\* An empty directory and no process at work.
LEMMA InitBInv == Init => BInv
  <1> SUFFICES ASSUME Init PROVE BInv
    OBVIOUS
  <1>1. DiskOK
    BY DEF Init, DiskOK, Fits
  <1>2. Place
    BY StagesAre, PlanFacts DEF Init, Place
  <1>3. Scalars
    <2>1. /\ token \in [Calls -> Nat] /\ clock \in Nat
          /\ faults \in 0..MaxFaults /\ evaluations \in Nat
      BY BenchmarkAssumption DEF BenchmarkAssumption, Init
    <2>2. litter \in BOOLEAN /\ raced \in BOOLEAN
      BY Zenon DEF Init
    <2> QED
      BY <2>1, <2>2 DEF Scalars
  <1>7. \A c \in Calls : Bytes(c)
    BY DEF Init, Bytes
  <1>4. TypeOK
    BY <1>1, <1>2, <1>3, <1>7, TypeParts
  <1>5. Evidence
    BY NamedArtifacts DEF Init, Evidence, AccessFirst, EvaluationIsRecorded, ChecksHold, AtWork,
       Stored
  <1>6. Solitude
    BY DEF Init, Solitude, Alone, NotYet, StillAbsent, EvaluatedOnce, AtWork
  <1> QED
    BY <1>4, <1>5, <1>6 DEF BInv

\* A command that refuses, or begins: a final test only where there is no
\* access record, hence no evaluation.
LEMMA BeginStep ==
  ASSUME BInv, NEW c \in Calls, NEW s \in Stages, Begin(c, s)
  PROVE  BInv'
  <1>1. /\ pc[c] = "idle" /\ UNCHANGED <<disk, litter, at, draft, faults, evaluations>>
        /\ raced' = (raced \/ (s = "final" /\ \E b \in Busy : stage[b] = "final"))
    BY DEF Begin, files
  <1>2. Place /\ Scalars /\ DiskOK /\ \A b \in Calls : Bytes(b)
    BY TypeParts DEF BInv
  <1>3. Scalars'
    BY <1>2 DEF Begin, Scalars, files
  <1>4. DiskOK'
    BY <1>1, <1>2 DEF DiskOK
  <1>5. CASE UNCHANGED <<pc, stage>>
    <2>1. Place' /\ \A b \in Calls : Bytes(b)'
      BY <1>1, <1>2, <1>5 DEF Place, Bytes, Doing
    <2>2. TypeOK'
      BY <1>3, <1>4, <2>1, TypePartsNext
    <2>3. Evidence'
      BY <1>1, <1>5 DEF BInv, Evidence, AccessFirst, EvaluationIsRecorded, ChecksHold, AtWork, Stored
    <2>4. Solitude'
      BY <1>1, <1>5 DEF BInv, Solitude, Alone, NotYet, StillAbsent, EvaluatedOnce, AtWork, Doing
    <2> QED
      BY <2>2, <2>3, <2>4 DEF BInv
  <1>6. CASE /\ May(s) /\ pc' = [pc EXCEPT ![c] = "look"]
             /\ stage' = [stage EXCEPT ![c] = s]
    <2>1. /\ pc'[c] = "look" /\ stage'[c] = s /\ Others(c)
          /\ pc' \in [Calls -> {"idle", "look", "swap", "confirm"}]
          /\ stage' \in [Calls -> Stages]
      BY <1>1, <1>2, <1>6 DEF Place, Others
    <2>2. at[c] = 1
      BY <1>1, <1>2 DEF Place
    <2>3. Place'
      BY <1>1, <1>2, <1>6, <2>1, <2>2, PlanFacts DEF Place
    <2>4. Bytes(c)'
      BY <1>1, <1>2, <2>1 DEF Bytes
    <2>5. TypeOK'
      BY <1>2, <1>3, <1>4, <2>1, <2>3, <2>4, OthersBytes, TypePartsNext
    <2>6. AccessFirst' /\ EvaluationIsRecorded'
      BY <1>1, <2>1, <2>2
      DEF BInv, Evidence, AccessFirst, EvaluationIsRecorded, AtWork, Stored, Others
    <2>7. /\ s = "finalize" => Stored("lock") /\ Stored("validation") /\ Stored("readiness")
          /\ s = "final" => Stored("finalLock") /\ ~Stored("access")
      BY <1>6, NamedArtifacts DEF May, Present, Stored
    <2>8. ChecksHold'
      BY <1>1, <2>1, <2>7 DEF BInv, Evidence, ChecksHold, AtWork, Stored, Others
    <2>9. Alone'
      BY <1>1, <2>1 DEF BInv, Solitude, Alone, AtWork, Others, Busy
    <2>10. s = "final" => evaluations = 0
      BY <1>2, <2>7 DEF BInv, Evidence, EvaluationIsRecorded, Scalars
    <2>11. NotYet'
      BY <1>1, <2>1, <2>10 DEF BInv, Solitude, NotYet, AtWork, Others
    <2>12. StillAbsent' /\ EvaluatedOnce'
      BY <1>1, <2>1 DEF BInv, Solitude, StillAbsent, EvaluatedOnce, Doing, Others
    <2> QED
      BY <2>5, <2>6, <2>8, <2>9, <2>11, <2>12 DEF BInv, Evidence, Solitude
  <1> QED
    BY <1>5, <1>6 DEF Begin, Go

\* write_bytes looks: it ends, goes on, or has its bytes ready; unless final
\* tests race nobody else is about to store the same record.
LEMMA LookStep ==
  ASSUME BInv, NEW c \in Calls, Look(c)
  PROVE  BInv'
  <1> DEFINE k == Doing(c)
  <1>1. /\ pc[c] = "look" /\ k # "evaluation"
        /\ UNCHANGED <<disk, stage, evaluations, raced, litter, token, clock, faults>>
    BY DEF Look, files
  <1>2. Place /\ Scalars /\ DiskOK /\ (\A b \in Calls : Bytes(b)) /\ TypeOK
    BY TypeParts DEF BInv
  <1>3. Scalars'
    BY <1>1, <1>2 DEF Scalars
  <1>4. k \in Artifacts
    BY <1>1, <1>2, PlanFacts DEF Place, Doing
  <1> HIDE DEF k
  <1>5. CASE End(c)
    BY <1>1, <1>2, <1>3, <1>5, EndEffect, QuietStep
  <1>6. CASE disk[k] = Payload(c, k) /\ Advance(c)
    <2>1. Stored(k)
      BY <1>4, <1>6, PayloadFits DEF Stored
    <2>2. Place' /\ Others(c) /\ (Ended(c) \/ Moved(c))
      BY <1>1, <1>2, <1>6, AdvanceEffect
    <2> QED
      BY <1>1, <1>3, <2>1, <2>2, QuietStep DEF k
  <1>7. CASE /\ disk[k] = Absent \/ Replaceable(c, k)
             /\ Go(c, "swap") /\ draft' = [draft EXCEPT ![c] = Payload(c, k)] /\ UNCHANGED at
    <2>1. /\ pc'[c] = "swap" /\ draft'[c] = Payload(c, k) /\ Others(c) /\ at'[c] = at[c]
          /\ stage'[c] = stage[c]
      BY <1>1, <1>2, <1>7 DEF Place, Others, Go
    <2>2. Place'
      BY <1>1, <1>2, <1>7 DEF Place, Go
    <2>3. Bytes(c)'
      BY <1>1, <1>4, <1>7, <2>1, PayloadFits DEF Bytes, Doing, k
    <2>4. DiskOK'
      BY <1>1, <1>2 DEF DiskOK
    <2>5. TypeOK'
      BY <1>2, <1>3, <2>1, <2>2, <2>3, <2>4, OthersBytes, TypePartsNext
    <2>6. \A b \in Calls : \A s : AtWork(b, s)' => AtWork(b, s)
      BY <1>1, <2>1 DEF AtWork, Others
    <2>7. Evidence'
      BY <1>1, <2>1, <2>6 DEF BInv, Evidence, AccessFirst, EvaluationIsRecorded, ChecksHold, AtWork,
         Stored, Others
    <2>8. Alone' /\ NotYet' /\ EvaluatedOnce'
      BY <1>1, <2>1, <2>6 DEF BInv, Solitude, Alone, NotYet, EvaluatedOnce, AtWork, Others
    <2>9. k \in {"access", "completion"} => disk[k] = Absent
      BY <1>7 DEF Replaceable
    <2>10. StillAbsent'
      BY <1>1, <2>1, <2>9 DEF BInv, Solitude, StillAbsent, Doing, Others, k
    <2> QED
      BY <2>5, <2>7, <2>8, <2>10 DEF BInv, Solitude
  <1> QED
    BY <1>5, <1>6, <1>7 DEF Look, k

\* The read-back after a replacement.
LEMMA ConfirmStep ==
  ASSUME BInv, NEW c \in Calls, Confirm(c)
  PROVE  BInv'
  <1>1. /\ pc[c] = "confirm"
        /\ UNCHANGED <<disk, stage, evaluations, raced, litter, token, clock, faults>>
    BY DEF Confirm, files
  <1>2. Scalars /\ Bytes(c) /\ TypeOK
    BY TypeParts DEF BInv
  <1>3. Scalars'
    BY <1>1, <1>2 DEF Scalars
  <1>4. CASE End(c)
    BY <1>1, <1>2, <1>3, <1>4, EndEffect, QuietStep
  <1>5. CASE disk[Doing(c)] = draft[c] /\ Advance(c)
    <2>1. Doing(c) \in Artifacts /\ Stored(Doing(c))
      BY <1>1, <1>2, <1>5 DEF Bytes, Stored
    <2>2. Doing(c) # "evaluation"
      BY <2>1 DEF Artifacts, Completed, Locked, Validated, Prepared
    <2>3. Place' /\ Others(c) /\ (Ended(c) \/ Moved(c))
      BY <1>1, <1>2, <1>5, AdvanceEffect
    <2> QED
      BY <1>1, <1>3, <2>1, <2>2, <2>3, QuietStep
  <1> QED
    BY <1>4, <1>5 DEF Confirm

\* The replacement stores something, a final lock only after a validation.
LEMMA SwapStep ==
  ASSUME BInv, NEW c \in Calls, Swap(c)
  PROVE  BInv'
  <1> DEFINE k == Doing(c)
  <1>1. /\ pc[c] = "swap"
        /\ UNCHANGED <<stage, evaluations, raced, litter, token, clock>>
    BY DEF Swap
  <1>2. Place /\ Scalars /\ DiskOK /\ (\A b \in Calls : Bytes(b)) /\ TypeOK
    BY TypeParts DEF BInv
  <1>3. k \in Artifacts /\ draft[c] # Absent /\ Fits(k, draft[c])
    BY <1>1, <1>2 DEF Bytes
  <1>4. /\ stage[c] \in Stages /\ at[c] \in 1..Len(Plan[stage[c]]) /\ at[c] \in Nat
    BY <1>2 DEF Place
  <1>5. /\ k = "access" <=> stage[c] = "final" /\ at[c] = 1
        /\ k = "completion" => stage[c] = "final"
        /\ k = "finalLock" => stage[c] = "finalize"
    BY <1>4, PlanFacts DEF Doing
  <1> HIDE DEF k
  <1>6. CASE Fault /\ End(c) /\ UNCHANGED disk
    <2>1. Scalars'
      BY <1>1, <1>2, <1>6, BenchmarkAssumption DEF BenchmarkAssumption, Scalars, Fault
    <2> QED
      BY <1>1, <1>2, <1>6, <2>1, EndEffect, QuietStep
  <1>7. CASE /\ disk' = [disk EXCEPT ![k] = draft[c]]
             /\ Go(c, "confirm") /\ UNCHANGED <<at, draft, faults>>
    <2>1. /\ pc'[c] = "confirm" /\ Others(c) /\ Place'
          /\ at'[c] = at[c] /\ stage'[c] = stage[c] /\ draft'[c] = draft[c]
      BY <1>1, <1>2, <1>7 DEF Place, Others, Go
    <2>2. Scalars' /\ Bytes(c)'
      BY <1>1, <1>2, <1>3, <1>7, <2>1 DEF Scalars, Bytes, Doing, k
    <2>3. /\ disk'[k] = draft[c]
          /\ \A a \in Artifacts : a # k => disk'[a] = disk[a]
      BY <1>2, <1>3, <1>7 DEF DiskOK
    <2>4. DiskOK'
      BY <1>2, <1>3, <1>7, <2>3 DEF DiskOK
    <2>5. TypeOK'
      BY <1>2, <2>1, <2>2, <2>4, OthersBytes, TypePartsNext
    <2>6. /\ \A a \in Artifacts : Stored(a) => Stored(a)'
          /\ \A a \in Artifacts : a = k => Stored(a)'
      BY <1>3, <2>3 DEF Stored
    <2>7. \A b \in Calls : \A s : AtWork(b, s)' <=> AtWork(b, s)
      BY <1>1, <2>1 DEF AtWork, Others
    <2>8. AccessFirst'
      <3> SUFFICES ASSUME NEW b \in Calls, AtWork(b, "final")', at'[b] > 1 \/ pc'[b] = "confirm"
                   PROVE  Stored("access")'
        BY DEF AccessFirst
      <3>1. CASE b = c
        BY <1>4, <1>5, <2>1, <2>6, <2>7, <3>1, NamedArtifacts
        DEF BInv, Evidence, AccessFirst, AtWork
      <3>2. CASE b # c
        BY <2>1, <2>6, <2>7, <3>2, NamedArtifacts DEF BInv, Evidence, AccessFirst, Others
      <3> QED
        BY <3>1, <3>2
    <2>9. EvaluationIsRecorded'
      BY <1>1, <2>6, NamedArtifacts DEF BInv, Evidence, EvaluationIsRecorded
    <2>10. ChecksHold'
      <3>1. k = "finalLock" => Stored("lock") /\ Stored("validation") /\ Stored("readiness")
        BY <1>1, <1>5 DEF BInv, Evidence, ChecksHold, AtWork
      <3>2. Stored("finalLock")' => k = "finalLock" \/ Stored("finalLock")
        BY <2>3, NamedArtifacts DEF Stored
      <3> QED
        BY <2>6, <2>7, <3>1, <3>2, NamedArtifacts DEF BInv, Evidence, ChecksHold
    <2>11. Alone' /\ EvaluatedOnce'
      BY <1>1, <2>7 DEF BInv, Solitude, Alone, EvaluatedOnce
    <2>12. NotYet'
      BY <1>1, <1>7, <2>7 DEF BInv, Solitude, NotYet
    <2>13. StillAbsent'
      <3> SUFFICES ASSUME ~raced', NEW b \in Calls, pc'[b] = "swap",
                          Doing(b)' \in {"access", "completion"}
                   PROVE  disk'[Doing(b)'] = Absent
        BY DEF StillAbsent
      <3>1. b # c /\ pc[b] = "swap" /\ Doing(b)' = Doing(b) /\ ~raced
        BY <1>1, <2>1 DEF Others, Doing
      <3>2. disk[Doing(b)] = Absent
        BY <3>1 DEF BInv, Solitude, StillAbsent
      <3>3. AtWork(b, "final")
        BY <1>2, <3>1, PlanFacts DEF AtWork, Place, Doing
      <3>4. ~AtWork(c, "final")
        BY <3>1, <3>3 DEF BInv, Solitude, Alone
      <3>5. k # Doing(b)
        BY <1>1, <1>5, <3>1, <3>4 DEF AtWork
      <3> QED
        BY <2>3, <3>1, <3>2, <3>5, NamedArtifacts
    <2> QED
      BY <2>5, <2>8, <2>9, <2>10, <2>11, <2>12, <2>13 DEF BInv, Evidence, Solitude
  <1> QED
    BY <1>6, <1>7 DEF Swap, k

\* An evaluation comes after the access record and is the first, unless
\* final tests race.
LEMMA EvaluateStep ==
  ASSUME BInv, NEW c \in Calls, Evaluate(c)
  PROVE  BInv'
  <1>1. /\ pc[c] = "look" /\ Doing(c) = "evaluation" /\ evaluations' = evaluations + 1
        /\ UNCHANGED <<disk, litter, stage, token, clock, raced>>
        /\ (Advance(c) /\ UNCHANGED faults) \/ (Fault /\ End(c))
    BY DEF Evaluate, files
  <1>2. Place /\ Scalars /\ DiskOK /\ (\A b \in Calls : Bytes(b)) /\ TypeOK
    BY TypeParts DEF BInv
  <1>3. AtWork(c, "final") /\ at[c] = 2
    BY <1>1, <1>2, PlanFacts DEF Place, Doing, AtWork
  <1>4. Place' /\ Others(c) /\ (Ended(c) \/ Moved(c))
    BY <1>1, <1>2, AdvanceEffect, EndEffect
  <1>5. Scalars'
    BY <1>1, <1>2, BenchmarkAssumption DEF BenchmarkAssumption, Scalars, Fault
  <1>6. DiskOK' /\ Bytes(c)'
    BY <1>1, <1>2, <1>4 DEF DiskOK, Bytes, Ended, Moved
  <1>7. TypeOK'
    BY <1>2, <1>4, <1>5, <1>6, OthersBytes, TypePartsNext
  <1>8. Stored("access") /\ Stored("finalLock")
    BY <1>3 DEF BInv, Evidence, AccessFirst, ChecksHold
  <1>9. \A b \in Calls : \A s : AtWork(b, s)' => AtWork(b, s)
    BY <1>1, <1>4 DEF AtWork, Others, Ended, Moved
  <1>10. Evidence'
    BY <1>1, <1>8, <1>9 DEF BInv, Evidence, AccessFirst, EvaluationIsRecorded, ChecksHold, Stored
  <1>11. ~raced => evaluations = 0
    BY <1>3 DEF BInv, Solitude, NotYet
  <1>12. Alone' /\ EvaluatedOnce'
    BY <1>1, <1>9, <1>11 DEF BInv, Solitude, Alone, EvaluatedOnce
  <1>13. NotYet'
    <2> SUFFICES ASSUME ~raced', NEW b \in Calls, AtWork(b, "final")', at'[b] <= 2
                 PROVE  FALSE
      BY DEF NotYet
    <2>1. b = c
      BY <1>1, <1>3, <1>9 DEF BInv, Solitude, Alone
    <2>2. at'[c] = 3
      BY <1>3, <1>4, <2>1 DEF AtWork, Ended, Moved
    <2> QED
      BY <2>1, <2>2
  <1>14. StillAbsent'
    BY <1>1, <1>4 DEF BInv, Solitude, StillAbsent, Others, Ended, Moved, Doing
  <1> QED
    BY <1>7, <1>10, <1>12, <1>13, <1>14 DEF BInv, Solitude

\* A process dies.
LEMMA CrashStep ==
  ASSUME BInv, NEW c \in Calls, Crash(c)
  PROVE  BInv'
  <1>1. /\ Fault /\ End(c) /\ litter' \in BOOLEAN
        /\ UNCHANGED <<disk, stage, token, clock, evaluations, raced>>
    BY DEF Crash
  <1>2. Scalars /\ TypeOK
    BY TypeParts DEF BInv
  <1>3. Scalars'
    BY <1>1, <1>2, BenchmarkAssumption DEF BenchmarkAssumption, Scalars, Fault
  <1> QED
    BY <1>1, <1>2, <1>3, EndEffect, QuietStep

\* Nothing happens.
LEMMA StutterStep ==
  ASSUME BInv, UNCHANGED vars
  PROVE  BInv'
  <1> USE DEF vars, files
  <1>1. DiskOK' /\ Place' /\ Scalars' /\ \A c \in Calls : Bytes(c)'
    BY TypeParts DEF BInv, DiskOK, Place, Scalars, Bytes, Doing
  <1>2. TypeOK'
    BY <1>1, TypePartsNext
  <1>3. Evidence'
    BY DEF BInv, Evidence, AccessFirst, EvaluationIsRecorded, ChecksHold, AtWork, Stored
  <1>4. Solitude'
    BY DEF BInv, Solitude, Alone, NotYet, StillAbsent, EvaluatedOnce, AtWork, Doing
  <1> QED
    BY <1>2, <1>3, <1>4 DEF BInv

\* The invariant holds in every reachable state.
LEMMA AlwaysBInv == Spec => []BInv
  <1>1. BInv /\ [Next]_vars => BInv'
    BY BeginStep, LookStep, SwapStep, ConfirmStep, EvaluateStep, CrashStep, StutterStep DEF Next
  <1> QED
    BY <1>1, InitBInv, PTL DEF Spec

-----------------------------------------------------------------------------
(***************************************************************************)
(* A completion can be audited.  Beyond BInv: what a command has passed is *)
(* stored, a final test writes its own token, and what a completion or a   *)
(* lock rests on is there before it.                                       *)
(***************************************************************************)

Passed ==
  \A c \in Calls :
    /\ \A i \in 1..(at[c] - 1) : Plan[stage[c]][i] # "evaluation" => Stored(Plan[stage[c]][i])
    /\ pc[c] = "confirm" => Stored(Doing(c))

\* The records a final test is about to store, or has just stored, are its own.
OwnBytes ==
  \A c \in Calls : pc[c] \in {"swap", "confirm"} =>
    /\ Doing(c) = "access" => draft[c] = Access(token[c])
    /\ Doing(c) = "completion" => draft[c] = Completion(token[c])

OwnAccess ==
  ~raced => \A c \in Calls : AtWork(c, "final") /\ at[c] > 1 => disk["access"] = Access(token[c])

Rests ==
  /\ Stored("lock") => Stored("inputs")
  /\ Stored("completion") => Stored("results") /\ Stored("details") /\ Stored("finalLock")
                             /\ Stored("access")
  /\ Stored("completion") /\ ~raced => disk["completion"].token = disk["access"].token

RInv == Passed /\ OwnBytes /\ OwnAccess /\ Rests

LEMMA PlanOrder ==
  /\ \A s \in Stages : \A i \in 1..Len(Plan[s]) :
       /\ Plan[s][i] = "completion" => s = "final" /\ i = 5
       /\ Plan[s][i] = "lock" => s = "prepare" /\ i = 2
  /\ Plan["final"][1] = "access" /\ Plan["final"][3] = "results" /\ Plan["final"][4] = "details"
  /\ Plan["prepare"][1] = "inputs"
  /\ {"inputs", "results", "details"} \subseteq Artifacts
  <1> USE DEF Plan, Artifacts, Completed, Locked, Validated, Prepared
  <1>1. /\ Len(Plan["prepare"]) = 5 /\ Len(Plan["validation"]) = 4
        /\ Len(Plan["finalize"]) = 2 /\ Len(Plan["final"]) = 7
    OBVIOUS
  <1>2. \A i \in 1..5 : Plan["prepare"][i] # "completion" /\ (Plan["prepare"][i] = "lock" => i = 2)
    OBVIOUS
  <1>3. \A i \in 1..4 : Plan["validation"][i] \notin {"lock", "completion"}
    OBVIOUS
  <1>4. \A i \in 1..2 : Plan["finalize"][i] \notin {"lock", "completion"}
    OBVIOUS
  <1>5. \A i \in 1..7 : Plan["final"][i] # "lock" /\ (Plan["final"][i] = "completion" => i = 5)
    OBVIOUS
  <1>6. /\ Plan["final"][1] = "access" /\ Plan["final"][3] = "results"
        /\ Plan["final"][4] = "details" /\ Plan["prepare"][1] = "inputs"
    OBVIOUS
  <1> QED
    BY <1>1, <1>2, <1>3, <1>4, <1>5, <1>6, StagesAre

\* A call that ends, or goes on from what is evaluated or stored.
LEMMA QuietKeepsRecords ==
  ASSUME BInv, RInv, NEW c \in Calls, Place', Others(c),
         UNCHANGED <<disk, stage, token, raced>>,
         \/ Ended(c)
         \/ /\ Moved(c) /\ (Doing(c) # "evaluation" => Stored(Doing(c)))
            /\ Doing(c) = "access" => disk["access"] = Access(token[c])
  PROVE  RInv'
  <1>1. Place
    BY TypeParts DEF BInv
  <1>2. Ended(c) => at'[c] = 1
    BY DEF Ended, Place
  <1>3. Passed'
    <2>1. ASSUME NEW b \in Calls
          PROVE  /\ \A i \in 1..(at'[b] - 1) :
                      Plan[stage[b]][i] # "evaluation" => Stored(Plan[stage[b]][i])
                 /\ pc'[b] = "confirm" => Stored(Doing(b))
      <3>1. CASE b # c
        BY <3>1 DEF RInv, Passed, Others
      <3>2. CASE b = c /\ Ended(c)
        BY <1>2, <3>2 DEF Ended
      <3>3. CASE b = c /\ Moved(c) /\ (Doing(c) # "evaluation" => Stored(Doing(c)))
        <4>1. at'[b] - 1 = at[b] /\ at[b] \in Nat /\ pc'[b] = "look"
          BY <1>1, <3>3 DEF Moved, Place
        <4> QED
          BY <3>3, <4>1 DEF RInv, Passed, Doing
      <3> QED
        BY <3>1, <3>2, <3>3
    <2>2. \A b \in Calls : pc'[b] = "confirm" => Doing(b)' = Doing(b)
      BY DEF Doing, Others, Ended, Moved
    <2> QED
      BY <2>1, <2>2 DEF Passed, Stored
  <1>4. OwnBytes'
    BY DEF RInv, OwnBytes, Others, Ended, Moved, Doing
  <1>5. OwnAccess'
    <2> SUFFICES ASSUME ~raced', NEW b \in Calls, AtWork(b, "final")', at'[b] > 1
                 PROVE  disk'["access"] = Access(token'[b])
      BY DEF OwnAccess
    <2>1. CASE b # c
      BY <2>1 DEF RInv, OwnAccess, AtWork, Others
    <2>2. CASE b = c
      <3>1. Moved(c) /\ stage[c] = "final" /\ pc[c] # "idle"
        BY <1>2, <2>2 DEF AtWork, Ended, Moved
      <3>2. at[c] = 1 => Doing(c) = "access"
        BY <3>1, PlanOrder DEF Doing
      <3>3. at[c] = 1 \/ at[c] > 1
        BY <1>1 DEF Place
      <3>4. Ended(c) => ~Moved(c)
        BY DEF Ended, Moved
      <3> QED
        BY <2>2, <3>1, <3>2, <3>3, <3>4 DEF RInv, OwnAccess, AtWork
    <2> QED
      BY <2>1, <2>2
  <1>6. Rests'
    BY DEF RInv, Rests, Stored
  <1> QED
    BY <1>3, <1>4, <1>5, <1>6 DEF RInv

LEMMA InitRInv == Init => RInv
  <1> SUFFICES ASSUME Init PROVE RInv
    OBVIOUS
  <1>1. Passed
    BY DEF Init, Passed
  <1>2. OwnBytes /\ OwnAccess
    BY DEF Init, OwnBytes, OwnAccess, AtWork
  <1>3. Rests
    BY NamedArtifacts DEF Init, Rests, Stored
  <1> QED
    BY <1>1, <1>2, <1>3 DEF RInv

LEMMA BeginKeepsRecords ==
  ASSUME BInv, RInv, NEW c \in Calls, NEW s \in Stages, Begin(c, s)
  PROVE  RInv'
  <1>1. /\ pc[c] = "idle" /\ UNCHANGED <<disk, at, draft>> /\ (raced => raced')
        /\ Place /\ at[c] = 1
    BY TypeParts DEF Begin, files, BInv, Place
  <1>2. Rests'
    BY <1>1 DEF RInv, Rests, Stored
  <1>3. CASE UNCHANGED <<pc, stage, token>>
    BY <1>1, <1>2, <1>3 DEF RInv, Passed, OwnBytes, OwnAccess, AtWork, Stored, Doing
  <1>4. CASE pc' = [pc EXCEPT ![c] = "look"] /\ stage' = [stage EXCEPT ![c] = s]
             /\ \A b \in Calls \ {c} : token'[b] = token[b]
    <2>1. /\ pc'[c] = "look" /\ at'[c] = 1
          /\ \A b \in Calls \ {c} : /\ pc'[b] = pc[b] /\ stage'[b] = stage[b] /\ at'[b] = at[b]
                                    /\ draft'[b] = draft[b] /\ token'[b] = token[b]
      BY <1>1, <1>4 DEF Place
    <2>2. Passed'
      BY <1>1, <2>1 DEF RInv, Passed, Stored, Doing
    <2>3. OwnBytes'
      BY <1>1, <2>1 DEF RInv, OwnBytes, Doing
    <2>4. OwnAccess'
      BY <1>1, <2>1 DEF RInv, OwnAccess, AtWork
    <2> QED
      BY <1>2, <2>2, <2>3, <2>4 DEF RInv
  <1> QED
    <2>1. token' = token \/ \E n : token' = [token EXCEPT ![c] = n]
      BY DEF Begin
    <2>2. \A b \in Calls \ {c} : token'[b] = token[b]
      BY <2>1, TypeParts DEF BInv, Scalars
    <2> QED
      BY <1>3, <1>4, <2>2 DEF Begin, Go

LEMMA LookKeepsRecords ==
  ASSUME BInv, RInv, NEW c \in Calls, Look(c)
  PROVE  RInv'
  <1> DEFINE k == Doing(c)
  <1>1. pc[c] = "look" /\ k # "evaluation" /\ UNCHANGED <<disk, stage, token, raced>>
    BY DEF Look, files
  <1>2. Place /\ TypeOK
    BY TypeParts DEF BInv
  <1>3. k \in Artifacts
    BY <1>1, <1>2, PlanFacts DEF Place, Doing
  <1> HIDE DEF k
  <1>4. CASE End(c)
    BY <1>1, <1>2, <1>4, EndEffect, QuietKeepsRecords
  <1>5. CASE disk[k] = Payload(c, k) /\ Advance(c)
    <2>1. Stored(k) /\ (k = "access" => disk["access"] = Access(token[c]))
      BY <1>3, <1>5, PayloadFits DEF Stored, Payload
    <2>2. Place' /\ Others(c) /\ (Ended(c) \/ Moved(c))
      BY <1>1, <1>2, <1>5, AdvanceEffect
    <2> QED
      BY <1>1, <2>1, <2>2, QuietKeepsRecords DEF k
  <1>6. CASE Go(c, "swap") /\ draft' = [draft EXCEPT ![c] = Payload(c, k)] /\ UNCHANGED at
    <2>1. /\ pc'[c] = "swap" /\ draft'[c] = Payload(c, k) /\ Others(c) /\ at'[c] = at[c]
          /\ stage'[c] = stage[c]
      BY <1>1, <1>2, <1>6 DEF Place, Others, Go
    <2>2. /\ k = "access" => Payload(c, k) = Access(token[c])
          /\ k = "completion" => Payload(c, k) = Completion(token[c])
      BY DEF Payload
    <2>3. OwnBytes'
      BY <1>1, <2>1, <2>2 DEF RInv, OwnBytes, Others, Doing, k
    <2>4. Passed'
      BY <1>1, <1>6, <2>1 DEF RInv, Passed, Others, Stored, Doing
    <2>5. OwnAccess' /\ Rests'
      BY <1>1, <1>6, <2>1 DEF RInv, OwnAccess, Rests, AtWork, Others, Stored
    <2> QED
      BY <2>3, <2>4, <2>5 DEF RInv
  <1> QED
    BY <1>4, <1>5, <1>6 DEF Look, k

LEMMA ConfirmKeepsRecords ==
  ASSUME BInv, RInv, NEW c \in Calls, Confirm(c)
  PROVE  RInv'
  <1>1. pc[c] = "confirm" /\ UNCHANGED <<disk, stage, token, raced>>
    BY DEF Confirm, files
  <1>2. TypeOK
    BY DEF BInv
  <1>3. CASE End(c)
    BY <1>1, <1>2, <1>3, EndEffect, QuietKeepsRecords
  <1>4. CASE disk[Doing(c)] = draft[c] /\ Advance(c)
    <2>1. Stored(Doing(c)) /\ (Doing(c) = "access" => disk["access"] = Access(token[c]))
      BY <1>1, <1>4 DEF RInv, Passed, OwnBytes
    <2>2. Place' /\ Others(c) /\ (Ended(c) \/ Moved(c))
      BY <1>1, <1>2, <1>4, AdvanceEffect
    <2> QED
      BY <1>1, <2>1, <2>2, QuietKeepsRecords
  <1> QED
    BY <1>3, <1>4 DEF Confirm

LEMMA SwapKeepsRecords ==
  ASSUME BInv, RInv, NEW c \in Calls, Swap(c)
  PROVE  RInv'
  <1> DEFINE k == Doing(c)
  <1>1. pc[c] = "swap" /\ UNCHANGED <<stage, token, raced>>
    BY DEF Swap
  <1>2. Place /\ DiskOK /\ (\A b \in Calls : Bytes(b)) /\ TypeOK
    BY TypeParts DEF BInv
  <1>3. k \in Artifacts /\ draft[c] # Absent
    BY <1>1, <1>2 DEF Bytes
  <1>4. stage[c] \in Stages /\ at[c] \in 1..Len(Plan[stage[c]]) /\ at[c] \in Nat
    BY <1>2 DEF Place
  <1>5. /\ k = "access" <=> stage[c] = "final" /\ at[c] = 1
        /\ k = "completion" => stage[c] = "final" /\ at[c] = 5
        /\ k = "lock" => stage[c] = "prepare" /\ at[c] = 2
    BY <1>4, PlanFacts, PlanOrder DEF Doing
  <1> HIDE DEF k
  <1>6. CASE End(c) /\ UNCHANGED disk
    BY <1>1, <1>2, <1>6, EndEffect, QuietKeepsRecords
  <1>7. CASE disk' = [disk EXCEPT ![k] = draft[c]] /\ Go(c, "confirm") /\ UNCHANGED <<at, draft>>
    <2>1. /\ pc'[c] = "confirm" /\ Others(c)
          /\ at'[c] = at[c] /\ stage'[c] = stage[c] /\ draft'[c] = draft[c]
      BY <1>1, <1>2, <1>7 DEF Place, Others, Go
    <2>2. disk'[k] = draft[c] /\ \A a \in Artifacts : a # k => disk'[a] = disk[a]
      BY <1>2, <1>3, <1>7 DEF DiskOK
    <2>3. \A a \in Artifacts : Stored(a) \/ a = k => Stored(a)'
      BY <1>3, <2>2 DEF Stored
    <2>4. Passed'
      <3>1. ASSUME NEW b \in Calls
            PROVE  /\ \A i \in 1..(at[b] - 1) :
                        Plan[stage[b]][i] # "evaluation" => Stored(Plan[stage[b]][i])'
                   /\ pc'[b] = "confirm" => Stored(Doing(b))'
        <4>1. \A i \in 1..(at[b] - 1) : Plan[stage[b]][i] \in Artifacts \cup {"evaluation"}
          BY <1>2, PlanFacts DEF Place
        <4>2. \A i \in 1..(at[b] - 1) : Plan[stage[b]][i] # "evaluation" => Stored(Plan[stage[b]][i])'
          <5> SUFFICES ASSUME NEW i \in 1..(at[b] - 1), Plan[stage[b]][i] # "evaluation"
                       PROVE  Stored(Plan[stage[b]][i])'
            OBVIOUS
          <5>1. Stored(Plan[stage[b]][i]) /\ Plan[stage[b]][i] \in Artifacts
            BY <4>1 DEF RInv, Passed
          <5>2. (Plan[stage[b]][i])' = Plan[stage[b]][i]
            BY <1>1
          <5> QED
            BY <2>3, <5>1, <5>2 DEF Stored
        <4>3. CASE b = c
          <5>1. Doing(b)' = k
            BY <1>1, <1>7, <2>1, <4>3 DEF Doing, k
          <5> QED
            BY <1>3, <2>2, <4>2, <5>1 DEF Stored
        <4>4. CASE b # c
          <5>1. pc'[b] = "confirm" => Doing(b)' = Doing(b) /\ Doing(b) \in Artifacts /\ Stored(Doing(b))
            BY <1>1, <1>2, <1>7, <2>1, <4>4 DEF Doing, Others, Bytes, RInv, Passed
          <5>2. pc'[b] = "confirm" => disk'[Doing(b)] # Absent
            BY <1>3, <2>2, <5>1 DEF Stored
          <5> QED
            BY <4>2, <5>1, <5>2 DEF Stored
        <4> QED
          BY <4>3, <4>4
      <3> QED
        BY <1>1, <1>7, <3>1 DEF Passed, Stored
    <2>5. OwnBytes'
      BY <1>1, <1>7, <2>1 DEF RInv, OwnBytes, Others, Doing
    <2>6. ~raced /\ k = "access" => \A b \in Calls : AtWork(b, "final") => b = c
      BY <1>1, <1>5 DEF BInv, Solitude, Alone, AtWork
    <2>7. OwnAccess'
      <3> SUFFICES ASSUME ~raced, NEW b \in Calls, AtWork(b, "final")', at'[b] > 1
                   PROVE  disk'["access"] = Access(token[b])
        BY <1>1 DEF OwnAccess
      <3>1. AtWork(b, "final") /\ at[b] > 1
        BY <1>1, <1>7, <2>1 DEF AtWork, Others
      <3>2. k # "access"
        BY <1>5, <2>6, <3>1
      <3> QED
        BY <2>2, <3>1, <3>2, NamedArtifacts DEF RInv, OwnAccess
    <2>8. Stored("lock")' => Stored("inputs")'
      <3>1. k = "lock" => Stored("inputs")
        <4>1. k = "lock" => 1 \in 1..(at[c] - 1) /\ Plan[stage[c]][1] = "inputs"
          BY <1>5, PlanOrder
        <4> QED
          BY <4>1 DEF RInv, Passed
      <3>2. Stored("lock")' => k = "lock" \/ Stored("lock")
        BY <2>2, NamedArtifacts DEF Stored
      <3> QED
        BY <2>3, <3>1, <3>2, PlanOrder DEF RInv, Rests
    <2>9. k = "completion" => Stored("access") /\ Stored("results") /\ Stored("details")
                              /\ Stored("finalLock")
      <3>1. k = "completion" => 1 \in 1..(at[c] - 1) /\ 3 \in 1..(at[c] - 1) /\ 4 \in 1..(at[c] - 1)
                                /\ stage[c] = "final"
        BY <1>5
      <3>2. k = "completion" => Stored("access") /\ Stored("results") /\ Stored("details")
        BY <3>1, PlanOrder DEF RInv, Passed
      <3> QED
        BY <1>1, <3>1, <3>2 DEF BInv, Evidence, ChecksHold, AtWork
    <2>10. Stored("completion")' => k = "completion" \/ Stored("completion")
      BY <2>2, NamedArtifacts DEF Stored
    <2>11. Stored("completion")' => /\ Stored("results")' /\ Stored("details")'
                                    /\ Stored("finalLock")' /\ Stored("access")'
      BY <2>3, <2>9, <2>10, NamedArtifacts, PlanOrder DEF RInv, Rests
    <2>12. Stored("completion")' /\ ~raced => disk'["completion"].token = disk'["access"].token
      <3>1. CASE k = "completion" /\ ~raced
        <4>1. disk'["completion"] = Completion(token[c])
          BY <1>1, <2>2, <3>1 DEF RInv, OwnBytes, k
        <4>2. disk'["access"] = Access(token[c])
          BY <1>1, <1>5, <2>2, <3>1, NamedArtifacts DEF RInv, OwnAccess, AtWork
        <4> QED
          BY <4>1, <4>2 DEF Completion, Access
      <3>2. CASE k = "access" /\ ~raced
        <4>1. disk["access"] = Absent
          BY <1>1, <3>2 DEF BInv, Solitude, StillAbsent, k
        <4> QED
          BY <2>10, <3>2, <4>1 DEF RInv, Rests, Stored
      <3>3. CASE k \notin {"access", "completion"}
        BY <2>2, <2>10, <3>3, NamedArtifacts DEF RInv, Rests
      <3> QED
        BY <3>1, <3>2, <3>3
    <2>13. Rests'
      BY <1>1, <2>8, <2>11, <2>12 DEF Rests
    <2> QED
      BY <2>4, <2>5, <2>7, <2>13 DEF RInv
  <1> QED
    BY <1>6, <1>7 DEF Swap, k

LEMMA EvaluateKeepsRecords ==
  ASSUME BInv, RInv, NEW c \in Calls, Evaluate(c) \/ Crash(c)
  PROVE  RInv'
  <1>1. UNCHANGED <<disk, stage, token, raced>> /\ TypeOK
    BY DEF Evaluate, Crash, files, BInv
  <1>2. CASE End(c)
    BY <1>1, <1>2, EndEffect, QuietKeepsRecords
  <1>3. CASE pc[c] = "look" /\ Doing(c) = "evaluation" /\ Advance(c)
    <2>1. Place' /\ Others(c) /\ (Ended(c) \/ Moved(c))
      BY <1>1, <1>3, AdvanceEffect
    <2> QED
      BY <1>1, <1>3, <2>1, QuietKeepsRecords
  <1> QED
    BY <1>2, <1>3 DEF Evaluate, Crash

\* The records keep their meaning in every step.
LEMMA AlwaysRInv == Spec => []RInv
  <1>1. BInv /\ RInv /\ [Next]_vars => RInv'
    <2>1. BInv /\ RInv /\ Next => RInv'
      BY BeginKeepsRecords, LookKeepsRecords, SwapKeepsRecords, ConfirmKeepsRecords,
         EvaluateKeepsRecords DEF Next
    <2>2. RInv /\ UNCHANGED vars => RInv'
      BY DEF RInv, Passed, OwnBytes, OwnAccess, Rests, AtWork, Stored, Doing, vars, files
    <2> QED
      BY <2>1, <2>2
  <1> QED
    BY <1>1, InitRInv, AlwaysBInv, PTL DEF Spec

-----------------------------------------------------------------------------
(* The theorems. *)

\* Every reachable state of a benchmark directory and the commands at work on
\* it is well typed; only a final test evaluates.
THEOREM BenchmarkTypeCorrectness == Spec => []TypeOK
  BY AlwaysBInv, PTL DEF BInv

\* Unless two final tests race, the final test is evaluated at most once,
\* whatever fails, dies or is repeated (run_final_test).
THEOREM AtMostOneEvaluation == Spec => []EvaluatedOnce
  BY AlwaysBInv, PTL DEF BInv, Solitude

\* However commands race, the final test is not evaluated before a complete
\* validation, the final lock and an access record are stored.
THEOREM GuardedEvaluation == Spec => []EvaluationIsGuarded
  <1>1. BInv => EvaluationIsGuarded
    BY NamedArtifacts
    DEF BInv, Evidence, EvaluationIsRecorded, ChecksHold, EvaluationIsGuarded, Present, Stored
  <1> QED
    BY <1>1, AlwaysBInv, PTL

\* Evidence once stored is neither changed nor withdrawn, final tests that
\* race apart (write_bytes).
THEOREM StoredEvidenceStays == Spec => EvidenceIsImmutable
  <1>1. ASSUME BInv, [Next]_vars, NEW a \in Artifacts \ {"report", "index"}, disk[a] # Absent, ~raced
        PROVE  disk'[a] = disk[a]
    <2>1. ASSUME NEW c \in Calls, Swap(c), disk' # disk
          PROVE  disk'[a] = disk[a]
      <3>1. pc[c] = "swap" /\ disk' = [disk EXCEPT ![Doing(c)] = draft[c]]
        BY <2>1 DEF Swap
      <3>2. DiskOK /\ Bytes(c)
        BY <1>1, TypeParts DEF BInv
      <3>3. CASE a # Doing(c)
        BY <3>1, <3>2, <3>3 DEF DiskOK
      <3>4. CASE a = Doing(c)
        <4>1. a \notin {"access", "completion"}
          BY <1>1, <3>1, <3>4 DEF BInv, Solitude, StillAbsent
        <4>2. disk[a] = Fixed /\ draft[c] = Fixed
          BY <1>1, <3>1, <3>2, <3>4, <4>1 DEF DiskOK, Bytes, Fits, Versioned
        <4> QED
          BY <3>1, <3>2, <3>4, <4>2 DEF DiskOK
      <3> QED
        BY <3>3, <3>4
    <2>2. ASSUME NEW c \in Calls,
                 (\E s \in Stages : Begin(c, s)) \/ Look(c) \/ Confirm(c) \/ Evaluate(c) \/ Crash(c)
          PROVE  disk' = disk
      BY <2>2 DEF Begin, Look, Confirm, Evaluate, Crash, files
    <2>3. UNCHANGED vars => disk' = disk
      BY DEF vars, files
    <2> QED
      BY <1>1, <2>1, <2>2, <2>3 DEF Next
  <1>2. ASSUME BInv, [Next]_vars
        PROVE  [\A k \in Artifacts \ {"report", "index"} :
                  disk[k] # Absent /\ ~raced => disk'[k] = disk[k]]_vars
    BY <1>1, <1>2
  <1> QED
    BY <1>2, AlwaysBInv, PTL DEF Spec, EvidenceIsImmutable
\* Unless final tests race, a stored completion can be audited: what it
\* covers is there, and its token is that of the access record.
THEOREM CompletionCanBeAudited == Spec => []CompletionIsReplayable
  <1>1. BInv /\ RInv => CompletionIsReplayable
    <2> SUFFICES ASSUME BInv, RInv, Stored("completion"), ~raced PROVE Replayable(disk)
      BY DEF CompletionIsReplayable, Stored
    <2>1. /\ Stored("inputs") /\ Stored("lock") /\ Stored("validation") /\ Stored("readiness")
          /\ Stored("finalLock") /\ Stored("access") /\ Stored("results") /\ Stored("details")
          /\ Stored("completion")
      BY DEF RInv, Rests, BInv, Evidence, ChecksHold
    <2>2. Completed \ {"lockSum", "report", "index"} \subseteq Present(disk)
      BY <2>1, NamedArtifacts, PlanOrder
      DEF Stored, Present, Completed, Locked, Validated, Prepared
    <2> QED
      BY <2>2 DEF RInv, Rests, Replayable
  <1> QED
    BY <1>1, AlwaysBInv, AlwaysRInv, PTL

=============================================================================
