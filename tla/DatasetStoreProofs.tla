-------------------------- MODULE DatasetStoreProofs --------------------------
(***************************************************************************)
(* What the store promises, for any number of attempts, however they fail  *)
(* or die: nothing touches a complete dataset, however attempts overlap;   *)
(* and of attempts that do not overlap, a successful one leaves what it    *)
(* reported, a failed one what it found.                                   *)
(*                                                                         *)
(* CompleteIsUntouched is not inductive: it speaks of a step, and rests on *)
(* what each attempt under way has seen.  SInv says that every attempt     *)
(* begun since the dataset was complete has seen every file, so it creates *)
(* none, and has therefore nothing to write and nothing to clean up.  AInv *)
(* adds what an attempt that is alone knows: the disk is what it found and *)
(* what it has written since.                                              *)
(***************************************************************************)
EXTENDS DatasetStore, TLAPS

\* The artifacts an attempt has looked at while it probes.
Seen(k) == CASE k = "raw" -> {}
             [] k = "canonical" -> {"raw"}
             [] k = "manifest" -> {"raw", "canonical"}

\* An attempt that found a complete dataset: what it has seen and done.
Harmless(a) ==
  /\ pc[a] \in {"idle", "probe", "check", "compare", "reload", "cleanup", "unlink",
               "ok", "error", "dead"}
  /\ created[a] = {} /\ doomed[a] = {}
  /\ pc[a] = "probe" => Seen(at[a]) \subseteq existed[a]
  /\ pc[a] \in {"check", "compare", "reload", "cleanup", "unlink"} => existed[a] = Artifacts

\* An attempt that has not begun.
Untouched(a) == pc[a] = "idle" => /\ at[a] = "raw" /\ existed[a] = {}
                                  /\ created[a] = {} /\ doomed[a] = {}

SInv ==
  /\ TypeOK
  /\ \A a \in Acquisitions : Untouched(a)
  /\ settled => Whole(disk) /\ \A a \in Active : Harmless(a)

-----------------------------------------------------------------------------
(***************************************************************************)
(* Type correctness.                                                       *)
(***************************************************************************)

LEMMA InitTypeOK == Init => TypeOK
<1> SUFFICES ASSUME Init PROVE TypeOK
  OBVIOUS
<1>1. disk \in [Artifacts -> {Absent, Bars} \cup {Stamp[a] : a \in Acquisitions}]
  BY DEF Init, Content, Artifacts
<1>2. /\ pc \in [Acquisitions -> Phases]
      /\ at \in [Acquisitions -> Artifacts]
  BY DEF Init, Phases, Artifacts
<1>3. /\ existed \in [Acquisitions -> SUBSET Artifacts]
      /\ created \in [Acquisitions -> SUBSET Artifacts]
      /\ doomed \in [Acquisitions -> SUBSET Artifacts]
      /\ left \in [Acquisitions -> SUBSET Artifacts]
  BY DEF Init
<1>4. faults \in 0..MaxFaults
  <2>1. faults = 0
    BY DEF Init
  <2> QED
    BY <2>1, StoreAssumption
<1>5. settled \in BOOLEAN /\ overlapped \in BOOLEAN
  BY DEF Init
<1> QED
  BY <1>1, <1>2, <1>3, <1>4, <1>5 DEF TypeOK

LEMMA PayloadType ==
  \A a \in Acquisitions, k \in Artifacts :
    Payload(a, k) \in {Absent, Bars} \cup {Stamp[b] : b \in Acquisitions}
BY DEF Payload, Content

LEMMA NextTypeOK == TypeOK /\ [Next]_vars => TypeOK'
<1> SUFFICES ASSUME TypeOK, [Next]_vars PROVE TypeOK'
  OBVIOUS
<1> USE DEF TypeOK, history
<1>1. ASSUME NEW a \in Acquisitions, Begin(a) PROVE TypeOK'
  BY <1>1 DEF Begin, Go, Phases
<1>2. ASSUME NEW a \in Acquisitions, Probe(a) PROVE TypeOK'
  <2>1. Following[at[a]] \in Artifacts \/ at[a] = "manifest"
    BY DEF Following, Artifacts
  <2> QED
    BY <1>2, <2>1 DEF Probe, Go, Phases, Artifacts
<1>3. ASSUME NEW a \in Acquisitions, Check(a) PROVE TypeOK'
  BY <1>3 DEF Check, Go, Phases
<1>4. ASSUME NEW a \in Acquisitions, Compare(a) PROVE TypeOK'
  <2>1. Following[at[a]] \in Artifacts \/ at[a] = "manifest"
    BY DEF Following, Artifacts
  <2> QED
    BY <1>4, <2>1, StoreAssumption DEF Compare, Advance, Fault, Go, Phases
<1>5. ASSUME NEW a \in Acquisitions, Write(a) PROVE TypeOK'
  <2>1. disk' \in [Artifacts -> {Absent, Bars} \cup {Stamp[b] : b \in Acquisitions}]
    <3>1. Payload(a, at[a]) \in {Absent, Bars} \cup {Stamp[b] : b \in Acquisitions}
      BY PayloadType
    <3> QED
      BY <1>5, <3>1 DEF Write
  <2>2. pc' \in [Acquisitions -> Phases] /\ faults' \in 0..MaxFaults
    BY <1>5, StoreAssumption DEF Write, Fault, Go, Phases
  <2> QED
    BY <1>5, <2>1, <2>2 DEF Write
<1>6. ASSUME NEW a \in Acquisitions, Confirm(a) PROVE TypeOK'
  <2>1. Following[at[a]] \in Artifacts \/ at[a] = "manifest"
    BY DEF Following, Artifacts
  <2> QED
    BY <1>6, <2>1, StoreAssumption DEF Confirm, Advance, Fault, Go, Phases
<1>7. ASSUME NEW a \in Acquisitions, Reload(a) PROVE TypeOK'
  BY <1>7 DEF Reload, Go, Phases
<1>8. ASSUME NEW a \in Acquisitions, CleanUp(a) PROVE TypeOK'
  BY <1>8 DEF CleanUp, Go, Phases
<1>9. ASSUME NEW a \in Acquisitions, NEW k \in Artifacts, Unlink(a, k) PROVE TypeOK'
  BY <1>9, StoreAssumption DEF Unlink, Fault
<1>10. ASSUME NEW a \in Acquisitions, Fail(a) PROVE TypeOK'
  BY <1>10 DEF Fail, Go, Phases
<1>11. ASSUME NEW a \in Acquisitions, Crash(a) PROVE TypeOK'
  BY <1>11, StoreAssumption DEF Crash, Fault, Go, Phases
<1>12. CASE UNCHANGED vars
  BY <1>12 DEF vars, work
<1> QED
  BY <1>1, <1>2, <1>3, <1>4, <1>5, <1>6, <1>7, <1>8, <1>9, <1>10, <1>11, <1>12 DEF Next

\* Every reachable state is well typed: an attempt's clean-up, in particular, is
\* confined to the three paths of its dataset (_cleanup_new_artifacts).
THEOREM StoreTypeCorrectness == Spec => []TypeOK
BY InitTypeOK, NextTypeOK, PTL DEF Spec

-----------------------------------------------------------------------------
(***************************************************************************)
(* A complete dataset stays as it is.                                      *)
(***************************************************************************)

LEMMA InitSInv == Init => SInv
BY InitTypeOK DEF Init, SInv, Untouched

\* Under SInv no step changes a settled dataset, and settled lasts.
LEMMA SettledStep == SInv /\ settled /\ [Next]_vars => disk' = disk /\ settled'
<1> SUFFICES ASSUME SInv, settled, [Next]_vars PROVE disk' = disk /\ settled'
  OBVIOUS
<1>1. \A a \in Acquisitions : pc[a] \notin {"idle", "ok", "error", "dead"} => Harmless(a)
  BY DEF SInv, Active
<1>2. ASSUME NEW a \in Acquisitions, Write(a) PROVE FALSE
  BY <1>1, <1>2 DEF Write, Harmless
<1>3. ASSUME NEW a \in Acquisitions, NEW k \in Artifacts, Unlink(a, k) PROVE FALSE
  BY <1>1, <1>3 DEF Unlink, Harmless
<1> QED
  BY <1>2, <1>3 DEF Next, vars, work, history, Begin, Probe, Check, Compare, Confirm, Reload,
     CleanUp, Fail, Crash

\* No step but an attempt's own changes what the attempt has seen and done.
LEMMA OnlyOwnSteps ==
  ASSUME TypeOK, NEW a \in Acquisitions, NEW b \in Acquisitions, b # a,
         \/ Begin(a) \/ Probe(a) \/ Check(a) \/ Compare(a) \/ Write(a) \/ Confirm(a)
         \/ Reload(a) \/ CleanUp(a) \/ Fail(a) \/ Crash(a)
         \/ \E k \in Artifacts : Unlink(a, k)
  PROVE  /\ pc'[b] = pc[b] /\ at'[b] = at[b] /\ existed'[b] = existed[b]
         /\ created'[b] = created[b] /\ doomed'[b] = doomed[b]
BY DEF TypeOK, Begin, Probe, Check, Compare, Write, Confirm, Reload, CleanUp, Fail, Crash,
   Unlink, Go, Advance

\* What an attempt's own step does to it in a settled store.
LEMMA OwnStepHarmless ==
  ASSUME TypeOK, NEW a \in Acquisitions, Whole(disk), disk' = disk,
         Harmless(a), pc[a] # "idle",
         \/ Begin(a) \/ Probe(a) \/ Check(a) \/ Compare(a) \/ Write(a) \/ Confirm(a)
         \/ Reload(a) \/ CleanUp(a) \/ Fail(a) \/ Crash(a)
         \/ \E k \in Artifacts : Unlink(a, k)
  PROVE  Harmless(a)'
<1>0. \A k \in Artifacts : disk[k] # Absent
  BY StoreAssumption DEF Whole, Artifacts
<1>1. CASE Begin(a)
  BY <1>1 DEF Begin
<1>2. CASE Probe(a)
  <2>1. CASE at[a] = "manifest"
    <3>1. pc'[a] = "check" /\ created'[a] = {} /\ doomed'[a] = {}
      BY <1>2, <2>1 DEF Probe, Harmless, Go, TypeOK
    <3>2. existed'[a] = existed[a] \cup {"manifest"}
      BY <1>0, <1>2, <2>1 DEF Probe, TypeOK, Artifacts
    <3>3. {"raw", "canonical"} \subseteq existed[a] /\ existed[a] \subseteq Artifacts
      BY <1>2, <2>1 DEF Probe, Harmless, Seen, TypeOK
    <3> QED
      BY <3>1, <3>2, <3>3 DEF Harmless, Artifacts
  <2>2. CASE at[a] # "manifest"
    <3>1. pc'[a] = "probe" /\ created'[a] = {} /\ doomed'[a] = {}
      BY <1>2, <2>2 DEF Probe, Harmless, TypeOK
    <3>2. at'[a] = Following[at[a]] /\ existed'[a] = existed[a] \cup {at[a]}
      BY <1>0, <1>2, <2>2 DEF Probe, TypeOK
    <3>3. Seen(at[a]) \subseteq existed[a] /\ at[a] \in {"raw", "canonical"}
      BY <1>2, <2>2 DEF Probe, Harmless, TypeOK, Artifacts
    <3>4. Seen(at'[a]) = Seen(at[a]) \cup {at[a]}
      BY <3>2, <3>3 DEF Seen, Following
    <3> QED
      BY <3>1, <3>2, <3>3, <3>4 DEF Harmless
  <2> QED
    BY <2>1, <2>2
<1>3. CASE Check(a)
  BY <1>0, <1>3 DEF Check, Harmless, Go, TypeOK
<1>4. CASE Compare(a)
  <2>1. pc'[a] \in {"check", "reload", "cleanup"}
    BY <1>4 DEF Compare, Harmless, Advance, Go, TypeOK
  <2> QED
    BY <1>4, <2>1 DEF Compare, Harmless
<1>5. CASE Write(a)
  BY <1>5 DEF Write, Harmless
<1>6. CASE Confirm(a)
  BY <1>6 DEF Confirm, Harmless
<1>7. CASE Reload(a)
  BY <1>7 DEF Reload, Harmless, Go, TypeOK
<1>8. CASE CleanUp(a)
  BY <1>8 DEF CleanUp, Harmless, Go, TypeOK
<1>9. CASE \E k \in Artifacts : Unlink(a, k)
  BY <1>9 DEF Unlink, Harmless
<1>10. CASE Fail(a)
  BY <1>10 DEF Fail, Harmless, Go, TypeOK
<1>11. CASE Crash(a)
  BY <1>11 DEF Crash, Harmless, Go, TypeOK
<1> QED
  BY <1>1, <1>2, <1>3, <1>4, <1>5, <1>6, <1>7, <1>8, <1>9, <1>10, <1>11

\* An attempt that begins has done nothing yet.
LEMMA BeginIsHarmless ==
  ASSUME TypeOK, TypeOK', NEW a \in Acquisitions, Untouched(a), pc[a] = "idle",
         \/ Begin(a) \/ Probe(a) \/ Check(a) \/ Compare(a) \/ Write(a) \/ Confirm(a)
         \/ Reload(a) \/ CleanUp(a) \/ Fail(a) \/ Crash(a)
         \/ \E k \in Artifacts : Unlink(a, k)
  PROVE  Harmless(a)'
<1>1. Begin(a)
  BY DEF Probe, Check, Compare, Write, Confirm, Reload, CleanUp, Fail, Crash, Unlink, Active
<1>2. pc'[a] = "probe" /\ at'[a] = "raw" /\ created'[a] = {} /\ doomed'[a] = {}
  BY <1>1 DEF Begin, Go, Untouched, TypeOK
<1> QED
  BY <1>2 DEF Harmless, Seen

LEMMA NextSInv == SInv /\ [Next]_vars => SInv'
<1> SUFFICES ASSUME SInv, [Next]_vars PROVE SInv'
  OBVIOUS
<1>1. TypeOK /\ TypeOK'
  BY NextTypeOK DEF SInv
<1>2. CASE UNCHANGED vars
  BY <1>2, <1>1 DEF vars, work, history, SInv, Untouched, Harmless, Active
<1>3. CASE Next
  <2>1. PICK a \in Acquisitions :
          \/ Begin(a) \/ Probe(a) \/ Check(a) \/ Compare(a) \/ Write(a) \/ Confirm(a)
          \/ Reload(a) \/ CleanUp(a) \/ Fail(a) \/ Crash(a)
          \/ \E k \in Artifacts : Unlink(a, k)
    BY <1>3 DEF Next
  <2>2. \A b \in Acquisitions \ {a} :
          /\ pc'[b] = pc[b] /\ at'[b] = at[b] /\ existed'[b] = existed[b]
          /\ created'[b] = created[b] /\ doomed'[b] = doomed[b]
    BY <1>1, <2>1, OnlyOwnSteps
  <2>3. pc'[a] # "idle"
    BY <1>1, <2>1 DEF Begin, Probe, Check, Compare, Write, Confirm, Reload, CleanUp, Fail,
       Crash, Unlink, Go, Advance, TypeOK
  <2>4. \A b \in Acquisitions : Untouched(b)'
    BY <2>2, <2>3 DEF SInv, Untouched
  <2>5. ASSUME settled' PROVE Whole(disk)' /\ \A b \in Active' : Harmless(b)'
    <3>1. CASE settled
      <4>1. disk' = disk /\ Whole(disk)
        BY <3>1, <1>3, SettledStep DEF SInv
      <4>2. \A b \in Active : Harmless(b)
        BY <3>1 DEF SInv
      <4>3. ASSUME NEW b \in Active', b # a PROVE Harmless(b)'
        BY <4>2, <4>3, <2>2 DEF Active, Harmless
      <4>4. ASSUME a \in Active' PROVE Harmless(a)'
        <5>1. CASE pc[a] = "idle"
          BY <5>1, <1>1, <2>1, BeginIsHarmless DEF SInv
        <5>2. CASE pc[a] # "idle"
          <6>1. pc[a] \notin {"ok", "error", "dead"}
            BY <1>1, <2>1 DEF Begin, Probe, Check, Compare, Write, Confirm, Reload,
               CleanUp, Fail, Crash, Unlink, Active
          <6>2. Harmless(a)
            BY <4>2, <5>2, <6>1 DEF Active
          <6> QED
            BY <1>1, <2>1, <4>1, <5>2, <6>2, OwnStepHarmless
        <5> QED
          BY <5>1, <5>2
      <4>5. Whole(disk)'
        BY <4>1 DEF Whole
      <4> QED
        BY <4>3, <4>4, <4>5
    <3>2. CASE ~settled
      <4>1. Begin(a) /\ Active = {} /\ Whole(disk)
        BY <2>1, <2>5, <3>2 DEF Begin, Probe, Check, Compare, Write, Confirm, Reload, CleanUp,
           Fail, Crash, Unlink, history
      <4>2. Whole(disk)'
        BY <4>1 DEF Begin, Whole
      <4>3. Harmless(a)'
        BY <1>1, <4>1, BeginIsHarmless DEF SInv, Begin
      <4>4. \A b \in Active' : b = a
        BY <2>2, <4>1 DEF Active
      <4> QED
        BY <4>2, <4>3, <4>4
    <3> QED
      BY <3>1, <3>2
  <2> QED
    BY <1>1, <2>4, <2>5 DEF SInv
<1> QED
  BY <1>2, <1>3

\* A dataset that was complete while no attempt was under way is never touched
\* again (write_dataset and _cleanup_new_artifacts), whatever the number of
\* attempts, whether they overlap, and wherever they fail or die.
THEOREM CompleteStaysUntouched == Spec => CompleteIsUntouched
<1>1. SInv /\ [Next]_vars => [settled => disk' = disk]_vars
  BY SettledStep
<1> QED
  BY <1>1, InitSInv, NextSInv, PTL DEF Spec, CompleteIsUntouched

-----------------------------------------------------------------------------
(***************************************************************************)
(* Attempts that do not overlap: what a success and a failure leave behind. *)
(***************************************************************************)

\* What an attempt that is alone knows of the disk.  Until it has looked at
\* everything it has found everything; what existed is as it was found and is
\* not among what it created; artifacts it is done with hold its payload; and
\* what its clean-up leaves of the others was not there before.
Progress(a) ==
  /\ pc[a] = "probe" =>
       /\ disk = found[a] /\ created[a] = {}
       /\ existed[a] = {k \in Seen(at[a]) : disk[k] # Absent}
  /\ pc[a] # "probe" =>
       /\ existed[a] = {k \in Artifacts : found[a][k] # Absent}
       /\ \A k \in existed[a] : disk[k] = found[a][k]
       /\ created[a] \cap existed[a] = {}
  /\ pc[a] \in {"check", "compare", "write", "confirm"} =>
       \A k \in Seen(at[a]) : disk[k] = Payload(a, k)
  /\ pc[a] = "reload" => \A k \in Artifacts : disk[k] = Payload(a, k)
  /\ pc[a] = "write" => disk[at[a]] = Absent
  /\ pc[a] = "confirm" => at[a] \notin existed[a] /\ disk[at[a]] = Payload(a, at[a])
  /\ pc[a] = "unlink" =>
       /\ doomed[a] \cap existed[a] = {}
       /\ \A k \in Artifacts \ existed[a] : disk[k] = Absent \/ k \in doomed[a] \cup left[a]

Alone ==
  ~overlapped =>
    /\ \A a, b \in Active : a = b
    /\ \A a \in Active : Progress(a)
    /\ (\E a \in Acquisitions : pc[a] = "ok") => Whole(disk) /\ (settled \/ Active = {})

AInv == SInv /\ DOMAIN found = Acquisitions /\ Alone

LEMMA InitAInv == Init => AInv
BY InitSInv DEF Init, AInv, Alone, Active

\* An attempt that is alone: what its own step does to what it knows.
LEMMA OwnStepProgress ==
  ASSUME TypeOK, TypeOK', DOMAIN found = Acquisitions, NEW a \in Acquisitions,
         Untouched(a), a \in Active => Progress(a), a \in Active',
         \/ Begin(a) \/ Probe(a) \/ Check(a) \/ Compare(a) \/ Write(a) \/ Confirm(a)
         \/ Reload(a) \/ CleanUp(a) \/ Fail(a) \/ Crash(a)
         \/ \E k \in Artifacts : Unlink(a, k)
  PROVE  Progress(a)'
<1>0. pc[a] # "idle" => Progress(a)
  BY DEF Active, Begin, Probe, Check, Compare, Write, Confirm, Reload, CleanUp, Fail, Crash,
     Unlink
<1>1. CASE Begin(a)
  <2>1. /\ pc'[a] = "probe" /\ at'[a] = "raw" /\ existed'[a] = {} /\ created'[a] = {}
        /\ disk' = disk /\ found'[a] = disk
    BY <1>1 DEF Begin, Go, Untouched, TypeOK
  <2> QED
    BY <2>1 DEF Progress, Seen
<1>2. CASE Probe(a)
  <2>1. Progress(a) /\ pc[a] = "probe"
    BY <1>0, <1>2 DEF Probe
  <2>2. /\ disk' = disk /\ found' = found /\ created'[a] = {}
        /\ existed'[a] = {k \in Seen(at[a]) \cup {at[a]} : disk[k] # Absent}
    BY <1>2, <2>1 DEF Probe, Progress, history, TypeOK
  <2>3. CASE at[a] = "manifest"
    <3>1. pc'[a] = "check" /\ at'[a] = "raw"
      BY <1>2, <2>3 DEF Probe, Go, TypeOK
    <3>2. existed'[a] = {k \in Artifacts : found[a][k] # Absent}
      BY <2>1, <2>2, <2>3 DEF Progress, Seen, Artifacts
    <3> QED
      BY <2>1, <2>2, <3>1, <3>2 DEF Progress, Seen
  <2>4. CASE at[a] # "manifest"
    <3>1. pc'[a] = "probe" /\ at'[a] = Following[at[a]]
      BY <1>2, <2>1, <2>4 DEF Probe, TypeOK
    <3>2. Seen(at'[a]) = Seen(at[a]) \cup {at[a]}
      BY <3>1, <2>4 DEF Seen, Following, TypeOK, Artifacts
    <3> QED
      BY <2>1, <2>2, <3>1, <3>2 DEF Progress
  <2> QED
    BY <2>3, <2>4
<1>3. CASE Check(a)
  BY <1>0, <1>3 DEF Check, Progress, Go, history, TypeOK, Payload
<1>4. CASE Compare(a)
  <2>1. Progress(a) /\ pc[a] = "compare" /\ UNCHANGED <<disk, existed, created, doomed, found, left>>
    BY <1>0, <1>4 DEF Compare, history
  <2>2. CASE pc'[a] = "cleanup"
    BY <2>1, <2>2 DEF Progress
  <2>3. CASE pc'[a] # "cleanup"
    <3>1. disk[at[a]] = Payload(a, at[a]) /\ Advance(a, created[a])
      BY <1>4, <2>3 DEF Compare, Go, TypeOK
    <3>2. CASE at[a] = "manifest"
      <4>1. \A k \in Artifacts : disk[k] = Payload(a, k)
        BY <2>1, <3>1, <3>2 DEF Progress, Seen, Artifacts
      <4>2. pc'[a] = "reload"
        BY <3>1, <3>2 DEF Advance, Go, TypeOK, Active
      <4> QED
        BY <2>1, <4>1, <4>2 DEF Progress, Payload
    <3>3. CASE at[a] # "manifest"
      <4>1. pc'[a] = "check" /\ at'[a] = Following[at[a]]
        BY <3>1, <3>3 DEF Advance, Go, TypeOK
      <4>2. Seen(at'[a]) = Seen(at[a]) \cup {at[a]}
        BY <4>1, <3>3 DEF Seen, Following, TypeOK, Artifacts
      <4> QED
        BY <2>1, <3>1, <4>1, <4>2 DEF Progress, Payload
    <3> QED
      BY <3>2, <3>3
  <2> QED
    BY <2>2, <2>3
<1>5. CASE Write(a)
  <2>1. Progress(a) /\ pc[a] = "write" /\ UNCHANGED <<at, existed, created, doomed, found, left>>
    BY <1>0, <1>5 DEF Write, history
  <2>2. at[a] \notin existed[a] /\ at[a] \notin Seen(at[a])
    BY <2>1 DEF Progress, Seen, Artifacts, TypeOK
  <2>3. CASE pc'[a] = "cleanup"
    BY <1>5, <2>1, <2>3 DEF Write, Progress, Go, TypeOK
  <2>4. CASE pc'[a] # "cleanup"
    <3>1. pc'[a] = "confirm" /\ disk' = [disk EXCEPT ![at[a]] = Payload(a, at[a])]
      BY <1>5, <2>4 DEF Write, Go, TypeOK
    <3>2. \A k \in Artifacts : k # at[a] => disk'[k] = disk[k]
      BY <3>1 DEF TypeOK
    <3>3. disk'[at[a]] = Payload(a, at[a])
      BY <3>1 DEF TypeOK
    <3>4. Seen(at[a]) \subseteq Artifacts /\ existed[a] \subseteq Artifacts
      BY DEF Seen, TypeOK, Artifacts
    <3> QED
      BY <2>1, <2>2, <3>1, <3>2, <3>3, <3>4 DEF Progress, Payload
  <2> QED
    BY <2>3, <2>4
<1>6. CASE Confirm(a)
  <2>1. Progress(a) /\ pc[a] = "confirm" /\ UNCHANGED <<disk, existed, doomed, found, left>>
    BY <1>0, <1>6 DEF Confirm, history
  <2>2. created'[a] \cap existed[a] = {}
    BY <1>6, <2>1 DEF Confirm, Progress, TypeOK
  <2>3. CASE pc'[a] = "cleanup"
    BY <2>1, <2>2, <2>3 DEF Progress
  <2>4. CASE pc'[a] # "cleanup"
    <3>1. Advance(a, created'[a]) /\ created'[a] # {}
      BY <1>6, <2>4 DEF Confirm, Go, TypeOK
    <3>2. at[a] # "manifest"
      BY <3>1 DEF Advance, Go, TypeOK, Active
    <3>3. pc'[a] = "check" /\ at'[a] = Following[at[a]]
      BY <3>1, <3>2 DEF Advance, Go, TypeOK
    <3>4. Seen(at'[a]) = Seen(at[a]) \cup {at[a]}
      BY <3>3, <3>2 DEF Seen, Following, TypeOK, Artifacts
    <3> QED
      BY <2>1, <2>2, <3>3, <3>4 DEF Progress, Payload
  <2> QED
    BY <2>3, <2>4
<1>7. CASE Reload(a)
  BY <1>7 DEF Reload, Go, TypeOK, Active
<1>8. CASE CleanUp(a)
  <2>1. Progress(a) /\ pc[a] = "cleanup" /\ UNCHANGED <<disk, at, existed, created, found, left>>
    BY <1>0, <1>8 DEF CleanUp, history
  <2>2. pc'[a] = "unlink" /\ doomed'[a] = created[a] \cup {k \in Artifacts \ existed[a] : disk[k] # Absent}
    BY <1>8 DEF CleanUp, Go, TypeOK
  <2> QED
    BY <2>1, <2>2 DEF Progress
<1>9. ASSUME NEW k \in Artifacts, Unlink(a, k) PROVE Progress(a)'
  <2>1. /\ Progress(a) /\ pc[a] = "unlink" /\ UNCHANGED <<pc, at, existed, created, found>>
        /\ k \in doomed[a] /\ doomed'[a] = doomed[a] \ {k}
    BY <1>0, <1>9 DEF Unlink, TypeOK
  <2>2. \/ disk' = [disk EXCEPT ![k] = Absent] /\ left' = left
        \/ disk' = disk /\ left'[a] = left[a] \cup {k}
    BY <1>9 DEF Unlink, TypeOK
  <2>3. \A i \in Artifacts : i # k => disk'[i] = disk[i] /\ (i \in left'[a] <=> i \in left[a])
    BY <2>2 DEF TypeOK
  <2>4. disk'[k] = Absent \/ k \in left'[a]
    BY <2>2 DEF TypeOK
  <2>5. existed[a] \subseteq Artifacts
    BY DEF TypeOK
  <2> QED
    BY <2>1, <2>3, <2>4, <2>5 DEF Progress
<1>10. CASE Fail(a) \/ Crash(a)
  BY <1>10 DEF Fail, Crash, Go, TypeOK, Active
<1> QED
  BY <1>1, <1>2, <1>3, <1>4, <1>5, <1>6, <1>7, <1>8, <1>9, <1>10

\* An attempt that is alone succeeds with a dataset that verifies.
LEMMA SuccessIsWhole ==
  ASSUME TypeOK, NEW a \in Acquisitions, Progress(a), pc[a] # "ok", pc'[a] = "ok",
         \/ Begin(a) \/ Probe(a) \/ Check(a) \/ Compare(a) \/ Write(a) \/ Confirm(a)
         \/ Reload(a) \/ CleanUp(a) \/ Fail(a) \/ Crash(a)
         \/ \E k \in Artifacts : Unlink(a, k)
  PROVE  Whole(disk)'
<1>1. disk' = disk /\ \A k \in Artifacts : disk[k] = Payload(a, k)
  <2>1. CASE Compare(a)
    <3>1. /\ disk' = disk /\ disk[at[a]] = Payload(a, at[a]) /\ at[a] = "manifest"
          /\ pc[a] = "compare"
      BY <2>1 DEF Compare, Advance, Go, TypeOK
    <3> QED
      BY <3>1 DEF Progress, Seen, Artifacts
  <2>2. CASE Confirm(a)
    <3>1. /\ disk' = disk /\ disk[at[a]] = Payload(a, at[a]) /\ at[a] = "manifest"
          /\ pc[a] = "confirm"
      BY <2>2 DEF Confirm, Advance, Go, TypeOK
    <3> QED
      BY <3>1 DEF Progress, Seen, Artifacts
  <2>3. CASE Reload(a)
    BY <2>3 DEF Reload, Progress
  <2> QED
    BY <2>1, <2>2, <2>3 DEF Begin, Probe, Check, Write, CleanUp, Fail, Crash, Unlink, Go, TypeOK
<1>2. Payload(a, "raw") = Stamp[a] /\ Payload(a, "manifest") = Stamp[a] /\ Payload(a, "canonical") = Bars
  BY DEF Payload, Content, Artifacts
<1> QED
  BY <1>1, <1>2, StoreAssumption DEF Whole, Artifacts

LEMMA NextAInv == AInv /\ [Next]_vars => AInv'
<1> SUFFICES ASSUME AInv, [Next]_vars PROVE AInv'
  OBVIOUS
<1>1. SInv /\ SInv' /\ TypeOK /\ TypeOK'
  BY NextSInv DEF AInv, SInv
<1>2. CASE UNCHANGED vars
  BY <1>1, <1>2 DEF vars, work, history, AInv, Alone, Progress, Active, Payload, Whole
<1>3. CASE Next
  <2>1. PICK a \in Acquisitions :
          \/ Begin(a) \/ Probe(a) \/ Check(a) \/ Compare(a) \/ Write(a) \/ Confirm(a)
          \/ Reload(a) \/ CleanUp(a) \/ Fail(a) \/ Crash(a)
          \/ \E k \in Artifacts : Unlink(a, k)
    BY <1>3 DEF Next
  <2>2. \A b \in Acquisitions \ {a} : pc'[b] = pc[b]
    BY <1>1, <2>1, OnlyOwnSteps
  <2>3. DOMAIN found' = Acquisitions
    BY <2>1 DEF AInv, Begin, Probe, Check, Compare, Write, Confirm, Reload, CleanUp, Fail,
       Crash, Unlink, history
  <2>4. ASSUME ~overlapped' PROVE ~overlapped /\ Active \subseteq {a}
    <3>1. ~overlapped
      BY <2>1, <2>4 DEF Begin, Probe, Check, Compare, Write, Confirm, Reload, CleanUp, Fail,
         Crash, Unlink, history
    <3>2. CASE Begin(a)
      BY <2>4, <3>2 DEF Begin
    <3>3. CASE ~Begin(a)
      <4>1. a \in Active
        BY <2>1, <3>3 DEF Probe, Check, Compare, Write, Confirm, Reload, CleanUp, Fail,
           Crash, Unlink, Active
      <4> QED
        BY <3>1, <4>1 DEF AInv, Alone
    <3> QED
      BY <3>1, <3>2, <3>3
  <2>5. ASSUME ~overlapped' PROVE Active' \subseteq {a} /\ \A b \in Active' : Progress(b)'
    <3>1. Active' \subseteq {a}
      BY <2>2, <2>4, <2>5 DEF Active
    <3>2. a \in Active => Progress(a)
      BY <2>4, <2>5 DEF AInv, Alone
    <3>3. ASSUME a \in Active' PROVE Progress(a)'
      BY <1>1, <2>1, <3>2, <3>3, OwnStepProgress DEF AInv, SInv
    <3> QED
      BY <3>1, <3>3
  <2>6. ASSUME ~overlapped', NEW b \in Acquisitions, pc'[b] = "ok"
        PROVE  Whole(disk)' /\ (settled' \/ Active' = {})
    <3>1. CASE \E c \in Acquisitions : pc[c] = "ok"
      <4>1. Whole(disk) /\ (settled \/ Active = {})
        BY <2>4, <2>6, <3>1 DEF AInv, Alone
      <4>2. CASE settled
        <5>1. disk' = disk /\ settled'
          BY <1>1, <1>3, <4>2, SettledStep
        <5> QED
          BY <4>1, <5>1 DEF Whole
      <4>3. CASE Active = {}
        <5>1. Begin(a)
          BY <2>1, <4>3 DEF Active, Probe, Check, Compare, Write, Confirm, Reload, CleanUp,
             Fail, Crash, Unlink
        <5> QED
          BY <4>1, <4>3, <5>1 DEF Begin, Whole
      <4> QED
        BY <4>1, <4>2, <4>3
    <3>2. CASE ~\E c \in Acquisitions : pc[c] = "ok"
      <4>1. b = a /\ pc[a] # "ok"
        BY <2>2, <2>6, <3>2
      <4>2. a \in Active
        BY <2>1, <2>6, <4>1, <1>1 DEF Active, Begin, Probe, Check, Compare, Write, Confirm,
           Reload, CleanUp, Fail, Crash, Unlink, Go, TypeOK
      <4>3. Progress(a)
        BY <2>4, <2>6, <4>2 DEF AInv, Alone
      <4>4. Whole(disk)'
        BY <1>1, <2>1, <2>6, <4>1, <4>3, SuccessIsWhole
      <4>5. Active' = {}
        BY <2>5, <2>6, <4>1 DEF Active
      <4> QED
        BY <4>4, <4>5
    <3> QED
      BY <3>1, <3>2
  <2> QED
    BY <1>1, <2>3, <2>5, <2>6 DEF AInv, Alone
<1> QED
  BY <1>2, <1>3

\* Once an attempt has succeeded the dataset verifies and keeps verifying, as
\* long as attempts do not overlap (write_dataset, verify_manifest_artifacts).
THEOREM SuccessStays == Spec => []SuccessVerifies
<1>1. AInv => SuccessVerifies
  BY DEF AInv, Alone, SuccessVerifies
<1> QED
  BY <1>1, InitAInv, NextAInv, PTL DEF Spec

\* An attempt that fails by itself, unless others overlap, leaves the disk as
\* it found it, but for files it could not remove (_cleanup_new_artifacts).
THEOREM FailureIsClean == Spec => FailureLeavesNoTrace
<1>1. ASSUME AInv, [Next]_vars, NEW a \in Acquisitions, pc[a] # "error", pc'[a] = "error",
             ~overlapped, NEW k \in Artifacts \ left[a]
      PROVE  disk'[k] = found[a][k]
  <2>1. TypeOK
    BY <1>1 DEF AInv, SInv
  <2>2. Reload(a) \/ Fail(a)
    <3>1. PICK b \in Acquisitions :
            \/ Begin(b) \/ Probe(b) \/ Check(b) \/ Compare(b) \/ Write(b) \/ Confirm(b)
            \/ Reload(b) \/ CleanUp(b) \/ Fail(b) \/ Crash(b)
            \/ \E i \in Artifacts : Unlink(b, i)
      BY <1>1 DEF Next, vars, work
    <3>2. b = a
      BY <1>1, <2>1, <3>1, OnlyOwnSteps
    <3> QED
      BY <1>1, <2>1, <3>1, <3>2 DEF Begin, Probe, Check, Compare, Write, Confirm, Reload,
         CleanUp, Fail, Crash, Unlink, Go, Advance, TypeOK
  <2>3. Progress(a) /\ disk' = disk
    BY <1>1, <2>2 DEF AInv, Alone, Active, Reload, Fail
  <2>4. CASE Reload(a)
    <3>1. pc[a] = "reload" /\ disk["manifest"] = Absent
      BY <1>1, <2>1, <2>4 DEF Reload, Go, TypeOK
    <3>2. Payload(a, "manifest") = Stamp[a]
      BY DEF Payload, Content, Artifacts
    <3> QED
      BY <2>3, <3>1, <3>2, StoreAssumption DEF Progress, Artifacts
  <2>5. CASE Fail(a)
    <3>1. pc[a] = "unlink" /\ doomed[a] = {}
      BY <2>5 DEF Fail
    <3> QED
      BY <1>1, <2>3, <3>1 DEF Progress
  <2> QED
    BY <2>2, <2>4, <2>5
<1>2. AInv /\ [Next]_vars =>
        [\A a \in Acquisitions : pc[a] # "error" /\ pc'[a] = "error" =>
           overlapped \/ \A k \in Artifacts \ left[a] : disk'[k] = found[a][k]]_vars
  BY <1>1
<1> QED
  BY <1>2, InitAInv, NextAInv, PTL DEF Spec, FailureLeavesNoTrace

===============================================================================
