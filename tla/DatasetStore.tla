----------------------------- MODULE DatasetStore -----------------------------
(***************************************************************************)
(* Storing one market-data set (market_data/storage.py, write_dataset, as  *)
(* called by market_data/pipeline.py): a raw snapshot, the canonical bars  *)
(* and a manifest that names the checksums of both.                        *)
(*                                                                         *)
(* The three paths derive from the dataset identity, which is the provider *)
(* content: every acquisition of unchanged content uses the same paths and *)
(* the same canonical bytes, while the raw snapshot and the manifest also  *)
(* hold the time of their retrieval.  A step is one operation on one file. *)
(*                                                                         *)
(* Covered: the look at what existed before, the check, comparison, write, *)
(* read-back of each artifact, the clean-up of a failing attempt, I/O      *)
(* errors, crashes, and attempts that overlap.                             *)
(* Abstracted: contents (two are equal or not) and temporary files, which  *)
(* have names of their own and are never read by another attempt.          *)
(***************************************************************************)
EXTENDS Naturals, FiniteSets

CONSTANTS
  Acquisitions,  \* attempts to store this dataset
  Stamp,         \* [Acquisitions -> retrieval times]: what raw and manifest contain
  Bars,          \* the canonical content
  Absent,        \* no file
  MaxFaults      \* bound: I/O errors and crashes

ASSUME StoreAssumption ==
  /\ DOMAIN Stamp = Acquisitions
  /\ Bars # Absent
  /\ \A a \in Acquisitions : Stamp[a] # Absent
  /\ MaxFaults \in Nat

Artifacts == {"raw", "canonical", "manifest"}
Following == [raw |-> "canonical", canonical |-> "manifest", manifest |-> "none"]

VARIABLES
  disk,     \* content of each artifact path
  pc,       \* where each attempt stands
  at,       \* the artifact it is busy with
  existed,  \* artifacts it saw before writing
  created,  \* artifacts it created and read back
  doomed,   \* artifacts its clean-up still has to remove
  faults
\* Observations, read by properties only.
VARIABLES
  found,    \* the disk when each attempt began
  left,     \* artifacts a clean-up failed to remove
  settled,  \* the dataset was once complete with no attempt under way
  overlapped \* an attempt began while another was under way

work == <<pc, at, existed, created, doomed>>
history == <<found, left, settled, overlapped>>
vars == <<disk, work, faults, history>>

Phases == {"idle", "probe", "check", "compare", "write", "confirm", "reload",
           "cleanup", "unlink", "ok", "error", "dead"}
Active == {a \in Acquisitions : pc[a] \notin {"idle", "ok", "error", "dead"}}

\* The dataset as retrieved at time t.
Content(t) == [k \in Artifacts |-> IF k = "canonical" THEN Bars ELSE t]
Payload(a, k) == Content(Stamp[a])[k]

\* Nothing is stored, or an earlier acquisition has stored the dataset.
Init ==
  /\ disk \in {[k \in Artifacts |-> Absent]} \cup {Content(Stamp[a]) : a \in Acquisitions}
  /\ pc = [a \in Acquisitions |-> "idle"]
  /\ at = [a \in Acquisitions |-> "raw"]
  /\ existed = [a \in Acquisitions |-> {}]
  /\ created = [a \in Acquisitions |-> {}]
  /\ doomed = [a \in Acquisitions |-> {}]
  /\ faults = 0
  /\ found = [a \in Acquisitions |-> disk]
  /\ left = [a \in Acquisitions |-> {}]
  /\ settled = FALSE
  /\ overlapped = FALSE

Go(a, phase) == pc' = [pc EXCEPT ![a] = phase]

Fault == faults < MaxFaults /\ faults' = faults + 1

\* What verify_manifest_artifacts accepts: the manifest's checksums match.
Whole(d) == d["manifest"] # Absent /\ d["raw"] = d["manifest"] /\ d["canonical"] = Bars

-----------------------------------------------------------------------------
\* The attempt begins; its provider content is already in memory.
Begin(a) ==
  /\ pc[a] = "idle"
  /\ Go(a, "probe")
  /\ found' = [found EXCEPT ![a] = disk]
  /\ settled' = (settled \/ (Active = {} /\ Whole(disk)))
  /\ overlapped' = (overlapped \/ Active # {})
  /\ UNCHANGED <<disk, at, existed, created, doomed, faults, left>>

\* existed_before: one look at each path, then back to the first.
Probe(a) ==
  /\ pc[a] = "probe"
  /\ existed' = IF disk[at[a]] # Absent THEN [existed EXCEPT ![a] = @ \cup {at[a]}]
                                        ELSE existed
  /\ IF at[a] = "manifest"
       THEN Go(a, "check") /\ at' = [at EXCEPT ![a] = "raw"]
       ELSE at' = [at EXCEPT ![a] = Following[@]] /\ UNCHANGED pc
  /\ UNCHANGED <<disk, created, doomed, faults, history>>

\* The artifact is in place: go on with the next one, or finish.  An attempt
\* that created nothing loads the existing manifest first.
Advance(a, own) ==
  IF at[a] = "manifest"
    THEN Go(a, IF own = {} THEN "reload" ELSE "ok") /\ UNCHANGED at
    ELSE Go(a, "check") /\ at' = [at EXCEPT ![a] = Following[@]]

\* Variant: write without looking.
Check_Never(a) ==
  /\ pc[a] = "check"
  /\ Go(a, "write")
  /\ UNCHANGED <<disk, at, existed, created, doomed, faults, history>>

Check(a) ==
  /\ pc[a] = "check"
  /\ Go(a, IF disk[at[a]] = Absent THEN "write" ELSE "compare")
  /\ UNCHANGED <<disk, at, existed, created, doomed, faults, history>>

\* A file that differs, that has vanished or cannot be read fails the attempt.
Compare(a) ==
  /\ pc[a] = "compare"
  /\ \/ disk[at[a]] = Payload(a, at[a]) /\ Advance(a, created[a]) /\ UNCHANGED faults
     \/ disk[at[a]] # Payload(a, at[a]) /\ Go(a, "cleanup") /\ UNCHANGED <<at, faults>>
     \/ Fault /\ Go(a, "cleanup") /\ UNCHANGED at
  /\ UNCHANGED <<disk, existed, created, doomed, history>>

\* A temporary file, synced, replaces whatever is at the path by now.
Write(a) ==
  /\ pc[a] = "write"
  /\ \/ /\ disk' = [disk EXCEPT ![at[a]] = Payload(a, at[a])]
        /\ Go(a, "confirm")
        /\ UNCHANGED faults
     \/ Fault /\ Go(a, "cleanup") /\ UNCHANGED disk
  /\ UNCHANGED <<at, existed, created, doomed, history>>

Confirm(a) ==
  /\ pc[a] = "confirm"
  /\ \/ /\ disk[at[a]] = Payload(a, at[a])
        /\ created' = [created EXCEPT ![a] = @ \cup {at[a]}]
        /\ Advance(a, created'[a])
        /\ UNCHANGED faults
     \/ disk[at[a]] # Payload(a, at[a]) /\ Go(a, "cleanup") /\ UNCHANGED <<at, created, faults>>
     \/ Fault /\ Go(a, "cleanup") /\ UNCHANGED <<at, created>>
  /\ UNCHANGED <<disk, existed, doomed, history>>

\* reused_existing: the caller gets the manifest that is on disk.
Reload(a) ==
  /\ pc[a] = "reload"
  /\ Go(a, IF disk["manifest"] = Absent THEN "error" ELSE "ok")
  /\ UNCHANGED <<disk, at, existed, created, doomed, faults, history>>

\* Variant: remove whatever is at the three paths.
CleanUp_Everything(a) ==
  /\ pc[a] = "cleanup"
  /\ doomed' = [doomed EXCEPT ![a] = {k \in Artifacts : disk[k] # Absent}]
  /\ Go(a, "unlink")
  /\ UNCHANGED <<disk, at, existed, created, faults, history>>

\* Variant: remove only what was created and read back.
CleanUp_ConfirmedOnly(a) ==
  /\ pc[a] = "cleanup"
  /\ doomed' = [doomed EXCEPT ![a] = created[a]]
  /\ Go(a, "unlink")
  /\ UNCHANGED <<disk, at, existed, created, faults, history>>

CleanUp(a) ==
  /\ pc[a] = "cleanup"
  /\ doomed' = [doomed EXCEPT ![a] =
                  created[a] \cup {k \in Artifacts \ existed[a] : disk[k] # Absent}]
  /\ Go(a, "unlink")
  /\ UNCHANGED <<disk, at, existed, created, faults, history>>

\* Best effort: an unlink that fails is ignored.
Unlink(a, k) ==
  /\ pc[a] = "unlink" /\ k \in doomed[a]
  /\ doomed' = [doomed EXCEPT ![a] = @ \ {k}]
  /\ \/ disk' = [disk EXCEPT ![k] = Absent] /\ UNCHANGED <<faults, left>>
     \/ Fault /\ left' = [left EXCEPT ![a] = @ \cup {k}] /\ UNCHANGED disk
  /\ UNCHANGED <<pc, at, existed, created, found, settled, overlapped>>

Fail(a) ==
  /\ pc[a] = "unlink" /\ doomed[a] = {}
  /\ Go(a, "error")
  /\ UNCHANGED <<disk, at, existed, created, doomed, faults, history>>

Crash(a) ==
  /\ a \in Active /\ Fault
  /\ Go(a, "dead")
  /\ UNCHANGED <<disk, at, existed, created, doomed, history>>

Next ==
  \E a \in Acquisitions :
    \/ Begin(a) \/ Probe(a) \/ Check(a) \/ Compare(a) \/ Write(a) \/ Confirm(a)
    \/ Reload(a) \/ CleanUp(a) \/ Fail(a) \/ Crash(a)
    \/ \E k \in Artifacts : Unlink(a, k)

Spec == Init /\ [][Next]_vars

-----------------------------------------------------------------------------
(***************************************************************************)
(* Properties.                                                             *)
(***************************************************************************)

\* The variables hold values of the expected kind; an attempt's clean-up is
\* confined to the three artifacts.
TypeOK ==
  /\ disk \in [Artifacts -> {Absent, Bars} \cup {Stamp[a] : a \in Acquisitions}]
  /\ pc \in [Acquisitions -> Phases]
  /\ at \in [Acquisitions -> Artifacts]
  /\ existed \in [Acquisitions -> SUBSET Artifacts]
  /\ created \in [Acquisitions -> SUBSET Artifacts]
  /\ doomed \in [Acquisitions -> SUBSET Artifacts]
  /\ faults \in 0..MaxFaults
  /\ left \in [Acquisitions -> SUBSET Artifacts]
  /\ settled \in BOOLEAN
  /\ overlapped \in BOOLEAN

\* Unless attempts overlap: once an attempt has succeeded the dataset verifies,
\* and later attempts, failing or dying, leave it so.
SuccessVerifies ==
  ~overlapped /\ (\E a \in Acquisitions : pc[a] = "ok") => Whole(disk)

\* Unless attempts overlap: a failing attempt leaves the disk as it found
\* it, but for files it could not remove (REPRODUCIBILITY.md, "Idempotent
\* behavior": new files are removed, matching ones are preserved).
FailureLeavesNoTrace ==
  [][\A a \in Acquisitions : pc[a] # "error" /\ pc'[a] = "error" =>
       overlapped \/ \A k \in Artifacts \ left[a] : disk'[k] = found[a][k]]_vars

\* However attempts overlap, fail or die: a dataset that was complete while no
\* attempt was under way is never touched again.
CompleteIsUntouched == [][settled => disk' = disk]_vars
=============================================================================
