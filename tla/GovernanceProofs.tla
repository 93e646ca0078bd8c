-------------------------- MODULE GovernanceProofs ---------------------------
(***************************************************************************)
(* Proofs about the governance chain: authority rests on a validated case, *)
(* a sound brief and human assent; every record is written onto a lineage  *)
(* that loads; rejections are buried; and what a caller was handed keeps   *)
(* loading, for any cases, briefs, workers, runs and damage.               *)
(***************************************************************************)
EXTENDS Governance, SequenceTheorems, TLAPS

Words ==
  {"any", "with_evidence", "without_evidence", "failed_gates", "human_requested", "md",
   "present_for_human_review", "abstain", "pending_human_review", "non_reviewable_abstention",
   "offline_readiness_only", "blocked"} \cup Dispositions
Picks == Cases \cup Briefs \cup Pairs \cup AttemptStates \cup Words
Entries == [kind : Kinds, pick : Picks]

LEMMA Depths ==
  /\ \A r : PickOf(r, "evidence") = r[3].pick
  /\ \A r : PickOf(r, "assessment") = r[4].pick
  /\ \A r : PickOf(r, "supervision") = r[6].pick
  /\ \A r : PickOf(r, "review") = r[7].pick
  /\ \A r : PickOf(r, "disposition") = r[8].pick
  /\ \A r : PickOf(r, "readiness_session") = r[10].pick
  /\ \A r : PickOf(r, "readiness") = r[11].pick
  BY DEF PickOf, Depth

\* A case that is judged a validated candidate keeps its whole policy.
LEMMA ValidatedKeepsPolicy ==
  ASSUME NEW c \in ValidationCase,
         EvaluateValidationCase(c) = "validated_research_candidate"
  PROVE  PolicyHolds(c)
  <1>1. \A s \in RequiredStages : ~StageMissing(c, s) /\ ~StageFails(c, s)
    <2>1. \A s \in RequiredStages : GateStatus(c, s) \notin {"missing", "failed"}
      BY DEF EvaluateValidationCase, VerdictFromGates
    <2> QED
      BY <2>1 DEF GateStatus
  <1>2. RequiredStages \subseteq c.evidenced
    BY <1>1 DEF StageMissing
  <1>3. ASSUME NEW t \in c.metrics PROVE Within(t.value, t.minimum, t.maximum)
    <2>1. t \in MetricThreshold
      BY <1>3 DEF ValidationCase
    <2>2. ~MetricMissing(t) /\ ~MetricFails(t)
      BY <1>1, <1>3, <2>1 DEF StageMissing, StageFails, MetricThreshold
    <2> QED
      BY <2>1, <2>2 DEF MetricThreshold, MetricMissing, MetricFails, Within, Value, Absent
  <1>4. ASSUME NEW t \in c.robustGates
        PROVE  /\ t.stage \in c.robustness.bound
               /\ t.coverage # Absent => Within(c.robustness.coverage, t.coverage, Absent)
               /\ t.absolute # Absent => Within(c.robustness.absolute, Absent, t.absolute)
               /\ t.relative # Absent => Within(c.robustness.relative, Absent, t.relative)
    <2>1. t \in RobustnessThreshold /\ c.robustness \in RobustnessEvidence
      BY <1>4 DEF ValidationCase
    <2>2. t.stage \in RequiredStages
      BY <2>1 DEF RobustnessThreshold, RobustStages, RequiredStages
    <2>3. ~RobustnessMissing(c.robustness, t) /\ ~RobustnessFails(c.robustness, t)
      BY <1>1, <1>4, <2>2 DEF StageMissing, StageFails
    <2>4. RobustnessUsable(c.robustness, t)
      BY <2>3 DEF RobustnessMissing
    <2> QED
      BY <2>1, <2>3, <2>4 DEF RobustnessThreshold, RobustnessEvidence, RobustnessUsable,
         RobustnessMissing, RobustnessFails, Within, Value, Absent
  <1>5. ASSUME c.resamplingGate.set
        PROVE  /\ c.resampling.bound
               /\ Within(c.resampling.loss, Absent, c.resamplingGate.loss)
               /\ Within(c.resampling.breach, Absent, c.resamplingGate.breach)
    <2>1. c.resampling \in ResamplingEvidence /\ c.resamplingGate \in ResamplingThreshold
      BY DEF ValidationCase
    <2>2. /\ ~ResamplingMissing(c.resampling, c.resamplingGate)
          /\ ~ResamplingFails(c.resampling, c.resamplingGate)
      <3>1. "resampling" \in RequiredStages
        BY DEF RequiredStages
      <3> QED
        BY <1>1, <3>1 DEF StageMissing, StageFails
    <2> QED
      BY <1>5, <2>1, <2>2 DEF ResamplingEvidence, ResamplingThreshold, ResamplingMissing,
         ResamplingFails, Within, Value, Absent
  <1> QED
    BY <1>2, <1>3, <1>4, <1>5 DEF PolicyHolds

\* A brief presented for human review has no weak spot.
LEMMA PresentedIsSound ==
  ASSUME NEW b \in IntelligenceBrief, NEW verdict,
         EvaluateDecisionSupport(verdict, b) = "present_for_human_review"
  PROVE  /\ verdict = "validated_research_candidate"
         /\ b.quality = "verified" /\ b.eligible
         /\ b.dimensions \subseteq {"available"}
         /\ b.degradation = {"stable"}
         /\ b.scenarios = {[calibration |-> "calibrated", decision |-> "high_evidence"]}
  <1>1. /\ verdict = "validated_research_candidate" /\ DataQualityGate(b) /\ MarketStateGate(b)
        /\ ScenarioGate(b) /\ DegradationGate(b)
    BY DEF EvaluateDecisionSupport
  <1>2. \A s \in b.scenarios : s = [calibration |-> "calibrated", decision |-> "high_evidence"]
    BY <1>1 DEF ScenarioGate, IntelligenceBrief
  <1> QED
    BY <1>1, <1>2 DEF DataQualityGate, MarketStateGate, ScenarioGate, DegradationGate

----------------------------------------------------------------------------
(* How a record follows from the records above it.                         *)

\* Entry i of a lineage stands on the entry its builder requires, with the
\* pick its builder and its validators require.
Follows(r, i) ==
  \/ i = 1 /\ r[1].kind = "decision" /\ r[1].pick \in Cases
  \/ i = 2 /\ r[1].kind = "decision" /\ r[2].kind = "verdict_report"
  \/ i = 2 /\ r[1].kind = "decision" /\ r[2].kind = "graveyard" /\ CaseVerdict(r) = "rejected"
  \/ i = 2 /\ r[1].kind = "decision" /\ r[2].kind = "session"
           /\ CaseVerdict(r) = "validated_research_candidate"
  \/ i = 3 /\ r[2].kind = "session" /\ r[3].kind = "evidence" /\ r[3].pick \in Briefs
  \/ i = 4 /\ r[3].kind = "evidence" /\ r[4].kind = "assessment"
           /\ r[4].pick = AssessedVerdict(r)
  \/ i = 5 /\ r[4].kind = "assessment" /\ r[5].kind = "report"
  \/ i = 6 /\ r[5].kind = "report" /\ r[6].kind = "supervision" /\ r[6].pick = r[4].pick
  \/ i = 7 /\ r[6].kind = "supervision" /\ r[7].kind = "review"
           /\ r[7].pick = ReviewStatusFor(r[6].pick)
  \/ i = 8 /\ r[7].kind = "review" /\ r[8].kind = "disposition"
           /\ DispositionFits(r[7].pick, r[8].pick)
  \/ i = 9 /\ r[8].kind = "disposition" /\ r[9].kind = "supervision_report"
  \/ i = 10 /\ r[9].kind = "supervision_report" /\ r[10].kind = "readiness_session"
            /\ r[10].pick = r[8].pick
  \/ i = 11 /\ r[10].kind = "readiness_session" /\ r[11].kind = "readiness"
            /\ r[11].pick = OutcomeForSession(r[7].pick, r[10].pick)
  \/ i = 12 /\ r[11].kind = "readiness" /\ r[12].kind = "recovery"
  \/ i = 12 /\ r[11].kind = "readiness" /\ r[12].kind = "execution_session"
            /\ r[11].pick = "offline_readiness_only"
  \/ i = 13 /\ r[12].kind = "recovery" /\ r[13].kind = "readiness_report"
  \/ i = 13 /\ r[12].kind = "execution_session" /\ r[13].kind = "authorization"

WellBuilt(r) ==
  /\ r \in Seq(Entries)
  /\ Len(r) >= 1
  /\ \A i \in 1..Len(r) : Follows(r, i)

\* The rejected strategy that r judges is in the graveyard, unless the
\* graveyard's file was damaged.
InGraveyard(r) ==
  LET entry == <<r[1], Entry("graveyard", "failed_gates")>> IN
  entry \notin spoiled => entry \in DOMAIN files

FilesOK ==
  /\ files \in [DOMAIN files -> [holds : Seq(Entries), bytes : {"exact", "altered", "reformatted"}]]
  /\ \A n \in DOMAIN files : n = Name(files[n].holds) /\ WellBuilt(files[n].holds)

WorkOK ==
  /\ work \in [Workers -> [flow : Flows, at : Seq(Entries), looked : BOOLEAN]]
  /\ \A w \in Workers : IF work[w].at = <<>> THEN ~work[w].looked ELSE WellBuilt(work[w].at)

HandedOK == \A r \in handed : WellBuilt(r)

CountersOK ==
  /\ runs \in 0..MaxRuns /\ damage \in 0..MaxDamage
  /\ damage = 0 => spoiled = {}

\* The graveyard is written before the report of a rejection is.
BuriedFirst ==
  /\ \A w \in Workers :
       /\ work[w].flow = "validate" /\ work[w].at # <<>>
       /\ work[w].looked \/ Last(work[w].at).kind = "verdict_report"
       /\ CaseVerdict(work[w].at) = "rejected"
       => InGraveyard(work[w].at)
  /\ \A r \in handed :
       Last(r).kind = "verdict_report" /\ CaseVerdict(r) = "rejected" => InGraveyard(r)

\* The inductive invariant.
VInv == FilesOK /\ WorkOK /\ HandedOK /\ CountersOK /\ BuriedFirst /\ HandedReportsStand

----------------------------------------------------------------------------
(* Lineages.                                                               *)

\* What entry i stands on lies at or above it.
LEMMA FollowsAgree ==
  ASSUME NEW r, NEW s, NEW i \in Nat, \A j \in 1..i : s[j] = r[j], Follows(r, i)
  PROVE  Follows(s, i)
  <1>1. \A j \in 1..i : s[j] = r[j]
    OBVIOUS
  <1>2. i \in 1..13
    BY DEF Follows
  <1>3. CaseVerdict(s) = CaseVerdict(r)
    BY <1>1, <1>2 DEF CaseVerdict
  <1>4. i >= 3 => AssessedVerdict(s) = AssessedVerdict(r)
    BY <1>1, <1>2, <1>3, Depths DEF AssessedVerdict
  <1>5. /\ s[1] = r[1]
        /\ i >= 2 => s[2] = r[2]
        /\ i >= 3 => s[3] = r[3]
        /\ i >= 4 => s[4] = r[4]
        /\ i >= 5 => s[5] = r[5]
        /\ i >= 6 => s[6] = r[6]
        /\ i >= 7 => s[7] = r[7]
        /\ i >= 8 => s[8] = r[8]
        /\ i >= 9 => s[9] = r[9]
        /\ i >= 10 => s[10] = r[10]
        /\ i >= 11 => s[11] = r[11]
        /\ i >= 12 => s[12] = r[12]
        /\ i >= 13 => s[13] = r[13]
    BY <1>1, <1>2
  <1> QED
    BY <1>2, <1>3, <1>4, <1>5 DEF Follows

\* The top of a lineage is itself a lineage.
LEMMA PrefixIsBuilt ==
  ASSUME NEW r, WellBuilt(r), NEW n \in 1..Len(r)
  PROVE  /\ WellBuilt(SubSeq(r, 1, n))
         /\ Len(SubSeq(r, 1, n)) = n
         /\ \A j \in 1..n : SubSeq(r, 1, n)[j] = r[j]
  <1> DEFINE s == SubSeq(r, 1, n)
  <1>1. r \in Seq(Entries) /\ Len(r) \in Nat /\ n \in Nat /\ 1 <= n /\ n <= Len(r)
    BY LenProperties DEF WellBuilt
  <1>2. s \in Seq(Entries) /\ Len(s) = n /\ \A j \in 1..n : s[j] = r[j]
    BY <1>1, SubSeqProperties
  <1>3. ASSUME NEW i \in 1..n PROVE Follows(s, i)
    <2>1. Follows(r, i)
      BY <1>1 DEF WellBuilt
    <2>2. i \in Nat /\ \A j \in 1..i : s[j] = r[j]
      BY <1>1, <1>2
    <2> HIDE DEF s
    <2> QED
      BY <2>1, <2>2, FollowsAgree
  <1> QED
    BY <1>1, <1>2, <1>3 DEF WellBuilt

\* A record built of its parent: its entries, its parent and its lineage.
LEMMA ChildShape ==
  ASSUME NEW r \in Seq(Entries), NEW e \in Entries
  PROVE  /\ Append(r, e) \in Seq(Entries)
         /\ Len(Append(r, e)) = Len(r) + 1
         /\ \A j \in 1..Len(r) : Append(r, e)[j] = r[j]
         /\ Append(r, e)[Len(r) + 1] = e
         /\ Last(Append(r, e)) = e
         /\ Append(r, e) # <<>>
         /\ Len(r) >= 1 => Up(Append(r, e), 1) = r
  <1>1. /\ Append(r, e) \in Seq(Entries)
        /\ Len(Append(r, e)) = Len(r) + 1
        /\ \A j \in 1..Len(r) : Append(r, e)[j] = r[j]
        /\ Append(r, e)[Len(r) + 1] = e
        /\ Append(r, e) # <<>>
    BY AppendProperties
  <1>2. Len(r) \in Nat
    BY LenProperties
  <1>3. ASSUME Len(r) >= 1 PROVE Up(Append(r, e), 1) = r
    <2> DEFINE s == Append(r, e)
               u == SubSeq(s, 1, Len(r))
    <2>1. Up(s, 1) = u
      BY <1>1, <1>2 DEF Up
    <2>2. u \in Seq(Entries) /\ Len(u) = Len(r) /\ \A j \in 1..Len(r) : u[j] = s[j]
      BY <1>1, <1>2, <1>3, SubSeqProperties
    <2>3. \A j \in 1..Len(r) : u[j] = r[j]
      BY <1>1, <2>2
    <2> QED
      BY <2>1, <2>2, <2>3, SeqEqual
  <1> QED
    BY <1>1, <1>2, <1>3 DEF Last

LEMMA ChildIsBuilt ==
  ASSUME NEW r, WellBuilt(r), NEW e \in Entries, Follows(Append(r, e), Len(r) + 1)
  PROVE  WellBuilt(Append(r, e))
  <1> DEFINE s == Append(r, e)
  <1>1. r \in Seq(Entries) /\ Len(r) \in Nat /\ Len(r) >= 1
    BY LenProperties DEF WellBuilt
  <1>2. s \in Seq(Entries) /\ Len(s) = Len(r) + 1 /\ \A j \in 1..Len(r) : s[j] = r[j]
    BY <1>1, ChildShape
  <1>3. ASSUME NEW i \in 1..Len(r) PROVE Follows(s, i)
    <2>1. Follows(r, i)
      BY DEF WellBuilt
    <2>2. i \in Nat /\ \A j \in 1..i : s[j] = r[j]
      BY <1>1, <1>2
    <2> HIDE DEF s
    <2> QED
      BY <2>1, <2>2, FollowsAgree
  <1> QED
    BY <1>1, <1>2, <1>3 DEF WellBuilt

\* The kind of a record fixes its depth and the kind of its parent.
LEMMA KindFixesDepth ==
  ASSUME NEW r, WellBuilt(r)
  PROVE  /\ Last(r).kind \in Kinds
         /\ Len(r) = Depth[Last(r).kind]
         /\ \A i \in 1..Len(r) : r[i].kind = "verdict_report" => i = Len(r)
  <1>1. Len(r) \in Nat /\ Len(r) >= 1 /\ \A i \in 1..Len(r) : Follows(r, i)
    BY LenProperties DEF WellBuilt
  <1>2. Follows(r, Len(r))
    BY <1>1
  <1>3. Last(r).kind \in Kinds
    BY <1>1, <1>2 DEF Follows, Last, Kinds, JsonKinds, StrictKinds, ReportKinds
  <1>4. Len(r) = Depth[Last(r).kind]
    <2> DEFINE n == Len(r)
    <2>1. n \in Nat /\ Follows(r, n) /\ Last(r) = r[n]
      BY <1>1, <1>2 DEF Last
    <2> HIDE DEF n
    <2>2. n = Depth[r[n].kind]
      BY <2>1 DEF Follows, Depth
    <2> QED
      BY <2>1, <2>2 DEF n
  <1>5. ASSUME NEW i \in 1..Len(r), r[i].kind = "verdict_report", i # Len(r) PROVE FALSE
    <2>1. Follows(r, i) /\ Follows(r, i + 1) /\ i \in Nat
      BY <1>1, <1>5
    <2>2. i = 2
      BY <1>5, <2>1 DEF Follows
    <2>3. Follows(r, 3)
      BY <2>1, <2>2
    <2> QED
      BY <1>5, <2>2, <2>3 DEF Follows
  <1> QED
    BY <1>3, <1>4, <1>5

LEMMA EntryTyped ==
  ASSUME NEW k \in Kinds, NEW p \in Picks
  PROVE  Entry(k, p) \in Entries /\ Entry(k, p).kind = k /\ Entry(k, p).pick = p
  BY DEF Entry, Entries

\* Every record but the validation report is stored under itself.
LEMMA NameOf ==
  ASSUME NEW r, WellBuilt(r)
  PROVE  /\ Last(r).kind # "verdict_report" => Name(r) = r
         /\ Last(Name(r)).kind = Last(r).kind
         /\ Len(Name(r)) = Len(r)
         /\ Name(r) \in Seq(Entries)
  <1>1. r \in Seq(Entries) /\ Len(r) \in Nat /\ Len(r) >= 1
    BY LenProperties DEF WellBuilt
  <1>2. CASE Last(r).kind # "verdict_report"
    BY <1>1, <1>2 DEF Name
  <1>3. CASE Last(r).kind = "verdict_report"
    <2> DEFINE e == Entry("verdict_report", "any")
               u == Up(r, 1)
    <2>1. Len(r) = 2
      <3>1. Len(r) = Depth[Last(r).kind]
        BY KindFixesDepth
      <3> QED
        BY <1>3, <3>1 DEF Depth
    <2>2. e \in Entries /\ e.kind = "verdict_report"
      <3>1. "verdict_report" \in Kinds /\ "any" \in Picks
        BY DEF Kinds, ReportKinds, Picks, Words
      <3> QED
        BY <3>1, EntryTyped
    <2>3. u = SubSeq(r, 1, 1)
      BY <2>1 DEF Up
    <2>4. u \in Seq(Entries) /\ Len(u) = 1
      BY <1>1, <2>1, <2>3, PrefixIsBuilt DEF WellBuilt
    <2>5. Name(r) = Append(u, e)
      BY <1>3 DEF Name
    <2>6. /\ Append(u, e) \in Seq(Entries)
          /\ Len(Append(u, e)) = 2
          /\ Last(Append(u, e)) = e
      <3>1. u \in Seq(Entries) /\ e \in Entries
        BY <2>2, <2>4
      <3> HIDE DEF u, e
      <3>2. Len(Append(u, e)) = Len(u) + 1 /\ Append(u, e) \in Seq(Entries) /\ Last(Append(u, e)) = e
        BY <3>1, ChildShape
      <3> QED
        BY <2>4, <3>2
    <2> HIDE DEF u, e
    <2> QED
      BY <1>3, <2>1, <2>2, <2>5, <2>6
  <1> QED
    BY <1>2, <1>3

\* The lineage of a record is itself and the lineage of its parent.
LEMMA LineageShape ==
  ASSUME NEW r, WellBuilt(r)
  PROVE  /\ r \in Lineage(r)
         /\ Len(r) = 1 => Lineage(r) = {r}
         /\ Len(r) > 1 => /\ WellBuilt(Up(r, 1))
                          /\ Len(Up(r, 1)) = Len(r) - 1
                          /\ \A j \in 1..Len(r) - 1 : Up(r, 1)[j] = r[j]
                          /\ Lineage(r) = Lineage(Up(r, 1)) \cup {r}
         /\ \A a \in Lineage(r) : /\ WellBuilt(a)
                                  /\ Last(a) = r[Len(a)]
                                  /\ Len(a) \in 1..Len(r)
  <1>1. r \in Seq(Entries) /\ Len(r) \in Nat /\ Len(r) >= 1
    BY LenProperties DEF WellBuilt
  <1>2. SubSeq(r, 1, Len(r)) = r
    <2>1. /\ SubSeq(r, 1, Len(r)) \in Seq(Entries)
          /\ Len(SubSeq(r, 1, Len(r))) = Len(r)
          /\ \A j \in 1..Len(r) : SubSeq(r, 1, Len(r))[j] = r[j]
      BY <1>1, PrefixIsBuilt DEF WellBuilt
    <2> QED
      BY <1>1, <2>1, SeqEqual
  <1>3. r \in Lineage(r)
    <2>1. Len(r) \in 1..Len(r)
      BY <1>1
    <2> QED
      BY <1>2, <2>1 DEF Lineage
  <1>4. Len(r) = 1 => Lineage(r) = {r}
    BY <1>1, <1>2 DEF Lineage
  <1>5. ASSUME Len(r) > 1
        PROVE  /\ WellBuilt(Up(r, 1))
               /\ Len(Up(r, 1)) = Len(r) - 1
               /\ \A j \in 1..Len(r) - 1 : Up(r, 1)[j] = r[j]
               /\ Lineage(r) = Lineage(Up(r, 1)) \cup {r}
    <2> DEFINE u == Up(r, 1)
    <2>1. /\ WellBuilt(u) /\ Len(u) = Len(r) - 1
          /\ \A j \in 1..Len(r) - 1 : u[j] = r[j]
      BY <1>1, <1>5, PrefixIsBuilt DEF Up
    <2>2. ASSUME NEW i \in 1..Len(r) - 1 PROVE SubSeq(u, 1, i) = SubSeq(r, 1, i)
      <3>1. /\ SubSeq(u, 1, i) \in Seq(Entries) /\ Len(SubSeq(u, 1, i)) = i
            /\ \A j \in 1..i : SubSeq(u, 1, i)[j] = u[j]
        BY <1>1, <2>1, PrefixIsBuilt DEF WellBuilt
      <3>2. /\ SubSeq(r, 1, i) \in Seq(Entries) /\ Len(SubSeq(r, 1, i)) = i
            /\ \A j \in 1..i : SubSeq(r, 1, i)[j] = r[j]
        BY <1>1, PrefixIsBuilt DEF WellBuilt
      <3>3. \A j \in 1..i : SubSeq(u, 1, i)[j] = SubSeq(r, 1, i)[j]
        BY <1>1, <2>1, <3>1, <3>2
      <3> QED
        BY <3>1, <3>2, <3>3, SeqEqual
    <2>3. Lineage(u) = {SubSeq(r, 1, i) : i \in 1..Len(r) - 1}
      BY <2>1, <2>2 DEF Lineage
    <2>4. Lineage(r) = Lineage(u) \cup {r}
      BY <1>1, <1>2, <2>3 DEF Lineage
    <2> QED
      BY <2>1, <2>4
  <1>6. ASSUME NEW a \in Lineage(r)
        PROVE  WellBuilt(a) /\ Last(a) = r[Len(a)] /\ Len(a) \in 1..Len(r)
    <2>1. PICK i \in 1..Len(r) : a = SubSeq(r, 1, i)
      BY DEF Lineage
    <2> QED
      BY <1>1, <2>1, PrefixIsBuilt DEF Last
  <1> QED
    BY <1>3, <1>4, <1>5, <1>6

\* No record is written above a validation report.
LEMMA LineageHasNoReport ==
  ASSUME NEW r, WellBuilt(r), Last(r).kind # "verdict_report", NEW a \in Lineage(r)
  PROVE  Last(a).kind # "verdict_report" /\ WellBuilt(a) /\ Name(a) = a
  <1>1. WellBuilt(a) /\ Last(a) = r[Len(a)] /\ Len(a) \in 1..Len(r)
    BY LineageShape
  <1>2. Last(a).kind # "verdict_report"
    BY <1>1, KindFixesDepth DEF Last
  <1> QED
    BY <1>1, <1>2, NameOf

LEMMA ChildFacts ==
  ASSUME NEW r, WellBuilt(r), NEW k \in Kinds, NEW p \in Picks
  PROVE  LET s == Child(r, k, p) IN
         /\ \A j \in 1..Len(r) : s[j] = r[j]
         /\ s[Len(r) + 1].kind = k /\ s[Len(r) + 1].pick = p
         /\ Last(s).kind = k
         /\ Up(s, 1) = r
         /\ Len(s) = Len(r) + 1
         /\ CaseVerdict(s) = CaseVerdict(r)
         /\ Follows(s, Len(r) + 1) => WellBuilt(s)
  <1> DEFINE e == Entry(k, p)
             s == Child(r, k, p)
  <1>1. r \in Seq(Entries) /\ Len(r) \in Nat /\ Len(r) >= 1
    BY LenProperties DEF WellBuilt
  <1>2. e \in Entries /\ e.kind = k /\ e.pick = p
    BY EntryTyped
  <1>3. s = Append(r, e)
    BY DEF Child
  <1> HIDE DEF e, s
  <1>4. /\ Len(s) = Len(r) + 1
        /\ \A j \in 1..Len(r) : s[j] = r[j]
        /\ s[Len(r) + 1] = e
        /\ Last(s) = e
        /\ Up(s, 1) = r
    BY <1>1, <1>2, <1>3, ChildShape
  <1>5. s[1] = r[1]
    BY <1>1, <1>4
  <1>6. Follows(s, Len(r) + 1) => WellBuilt(s)
    BY <1>2, <1>3, ChildIsBuilt
  <1>7. CaseVerdict(s) = CaseVerdict(r)
    BY <1>5 DEF CaseVerdict
  <1> USE DEF s
  <1> QED
    BY <1>2, <1>4, <1>6, <1>7

\* What the builders put on a record keeps its lineage well built.
LEMMA ChildFits ==
  ASSUME NEW r, WellBuilt(r), NEW k \in Kinds, NEW p \in Picks,
         LET from == Last(r).kind IN
         \/ from = "decision" /\ k = "verdict_report"
         \/ from = "decision" /\ k = "graveyard" /\ CaseVerdict(r) = "rejected"
         \/ from = "decision" /\ k = "session"
              /\ CaseVerdict(r) = "validated_research_candidate"
         \/ from = "session" /\ k = "evidence" /\ p \in Briefs
         \/ from = "evidence" /\ k = "assessment" /\ p = AssessedVerdict(r)
         \/ from = "assessment" /\ k = "report"
         \/ from = "report" /\ k = "supervision" /\ p = r[4].pick
         \/ from = "supervision" /\ k = "review" /\ p = ReviewStatusFor(r[6].pick)
         \/ from = "review" /\ k = "disposition" /\ DispositionFits(r[7].pick, p)
         \/ from = "disposition" /\ k = "supervision_report"
         \/ from = "supervision_report" /\ k = "readiness_session" /\ p = r[8].pick
         \/ from = "readiness_session" /\ k = "readiness"
              /\ p = OutcomeForSession(r[7].pick, r[10].pick)
         \/ from = "readiness" /\ k = "recovery"
         \/ from = "readiness" /\ k = "execution_session"
              /\ r[11].pick = "offline_readiness_only"
         \/ from = "recovery" /\ k = "readiness_report"
         \/ from = "execution_session" /\ k = "authorization"
  PROVE  WellBuilt(Child(r, k, p))
  <1> DEFINE s == Child(r, k, p)
             d == Len(r)
  <1>1. d \in Nat /\ d >= 1
    BY LenProperties DEF WellBuilt
  <1>2. d = Depth[Last(r).kind]
    BY KindFixesDepth
  <1>3. /\ \A j \in 1..d : s[j] = r[j]
        /\ s[d + 1].kind = k /\ s[d + 1].pick = p
        /\ CaseVerdict(s) = CaseVerdict(r)
        /\ Follows(s, d + 1) => WellBuilt(s)
    BY ChildFacts
  <1>4. r[d].kind = Last(r).kind
    BY DEF Last
  <1>5. d >= 3 => AssessedVerdict(s) = AssessedVerdict(r)
    BY <1>1, <1>3, Depths DEF AssessedVerdict
  <1> HIDE DEF s, d
  <1> SUFFICES Follows(s, d + 1)
    BY <1>3 DEF s
  <1> QED
    BY <1>1, <1>2, <1>3, <1>4, <1>5 DEF Follows, Depth

\* The parent of a record has the kind its builder requires.
LEMMA ParentKind ==
  ASSUME NEW r, WellBuilt(r), Last(r).kind # "decision"
  PROVE  /\ Len(r) > 1 /\ WellBuilt(Up(r, 1))
         /\ LET parent == Last(Up(r, 1)).kind
                kind == Last(r).kind IN
            /\ kind = "session" => parent = "decision"
            /\ kind = "evidence" => parent = "session"
            /\ kind = "assessment" => parent = "evidence"
            /\ kind = "report" => parent = "assessment"
            /\ kind = "supervision" => parent = "report"
            /\ kind = "review" => parent = "supervision"
            /\ kind = "disposition" => parent = "review"
            /\ kind = "supervision_report" => parent = "disposition"
            /\ kind = "readiness_session" => parent = "supervision_report"
            /\ kind = "readiness" => parent = "readiness_session"
            /\ kind = "recovery" => parent = "readiness"
            /\ kind = "execution_session" => parent = "readiness"
  <1>1. Len(r) \in Nat /\ Len(r) >= 1 /\ Follows(r, Len(r))
    BY LenProperties DEF WellBuilt
  <1>2. Len(r) > 1
    BY <1>1 DEF Follows, Last
  <1>3. /\ WellBuilt(Up(r, 1)) /\ Len(Up(r, 1)) = Len(r) - 1
        /\ \A j \in 1..Len(r) - 1 : Up(r, 1)[j] = r[j]
    BY <1>2, LineageShape
  <1>4. Last(Up(r, 1)) = r[Len(r) - 1]
    BY <1>1, <1>2, <1>3 DEF Last
  <1>5. Last(r) = r[Len(r)] /\ Len(r) = Depth[Last(r).kind]
    BY KindFixesDepth DEF Last
  <1>6. Last(r).kind = "session" => Last(Up(r, 1)).kind = "decision"
    BY <1>1, <1>4, <1>5 DEF Follows, Depth
  <1>7. Last(r).kind = "evidence" => Last(Up(r, 1)).kind = "session"
    BY <1>1, <1>4, <1>5 DEF Follows, Depth
  <1>8. Last(r).kind = "assessment" => Last(Up(r, 1)).kind = "evidence"
    BY <1>1, <1>4, <1>5 DEF Follows, Depth
  <1>9. Last(r).kind = "report" => Last(Up(r, 1)).kind = "assessment"
    BY <1>1, <1>4, <1>5 DEF Follows, Depth
  <1>10. Last(r).kind = "supervision" => Last(Up(r, 1)).kind = "report"
    BY <1>1, <1>4, <1>5 DEF Follows, Depth
  <1>11. Last(r).kind = "review" => Last(Up(r, 1)).kind = "supervision"
    BY <1>1, <1>4, <1>5 DEF Follows, Depth
  <1>12. Last(r).kind = "disposition" => Last(Up(r, 1)).kind = "review"
    BY <1>1, <1>4, <1>5 DEF Follows, Depth
  <1>13. Last(r).kind = "supervision_report" => Last(Up(r, 1)).kind = "disposition"
    BY <1>1, <1>4, <1>5 DEF Follows, Depth
  <1>14. Last(r).kind = "readiness_session" => Last(Up(r, 1)).kind = "supervision_report"
    BY <1>1, <1>4, <1>5 DEF Follows, Depth
  <1>15. Last(r).kind = "readiness" => Last(Up(r, 1)).kind = "readiness_session"
    BY <1>1, <1>4, <1>5 DEF Follows, Depth
  <1>16. Last(r).kind = "recovery" => Last(Up(r, 1)).kind = "readiness"
    BY <1>1, <1>4, <1>5 DEF Follows, Depth
  <1>17. Last(r).kind = "execution_session" => Last(Up(r, 1)).kind = "readiness"
    BY <1>1, <1>4, <1>5 DEF Follows, Depth
  <1> QED
    BY <1>2, <1>3, <1>6, <1>7, <1>8, <1>9, <1>10, <1>11, <1>12, <1>13, <1>14, <1>15, <1>16, <1>17

LEMMA LoadsOnward ==
  ASSUME NEW r, WellBuilt(r), Len(r) > 1, Reads(r), Loads(Up(r, 1))
  PROVE  Loads(r)
  BY LineageShape DEF Loads

\* Each loader reads its record's whole lineage, down to the decision.
LEMMA LoadersLoad ==
  /\ \A r : WellBuilt(r) /\ Last(r).kind = "decision" /\ LoadDecision(r) => Loads(r)
  /\ \A r : WellBuilt(r) /\ Last(r).kind = "session" /\ LoadIntelligenceSession(r) => Loads(r)
  /\ \A r : WellBuilt(r) /\ Last(r).kind = "evidence" /\ LoadEvidence(r) => Loads(r)
  /\ \A r : WellBuilt(r) /\ Last(r).kind = "assessment" /\ LoadAssessment(r) => Loads(r)
  /\ \A r : WellBuilt(r) /\ Last(r).kind = "report" /\ LoadIntelligenceReport(r) => Loads(r)
  /\ \A r : WellBuilt(r) /\ Last(r).kind = "supervision" /\ LoadSupervisedSession(r) => Loads(r)
  /\ \A r : WellBuilt(r) /\ Last(r).kind = "review" /\ LoadReviewItem(r) => Loads(r)
  /\ \A r : WellBuilt(r) /\ Last(r).kind = "disposition" /\ LoadDisposition(r) => Loads(r)
  /\ \A r : WellBuilt(r) /\ Last(r).kind = "supervision_report" /\ LoadSupervisionReport(r) => Loads(r)
  /\ \A r : WellBuilt(r) /\ Last(r).kind = "readiness_session" /\ LoadReadinessSession(r) => Loads(r)
  /\ \A r : WellBuilt(r) /\ Last(r).kind = "readiness" /\ LoadReadiness(r) => Loads(r)
  /\ \A r : WellBuilt(r) /\ Last(r).kind = "recovery" /\ LoadRecoveryCase(r) => Loads(r)
  /\ \A r : WellBuilt(r) /\ Last(r).kind = "execution_session" /\ LoadExecutionSession(r) => Loads(r)
  <1>1. ASSUME NEW r, WellBuilt(r), Last(r).kind = "decision", LoadDecision(r)
        PROVE  Loads(r)
    <2>1. Len(r) = Depth[Last(r).kind]
      BY <1>1, KindFixesDepth
    <2>2. Len(r) = 1
      BY <1>1, <2>1 DEF Depth
    <2>3. Lineage(r) = {r}
      BY <1>1, <2>2, LineageShape
    <2> QED
      BY <1>1, <2>3 DEF Loads, LoadDecision
  <1>2. ASSUME NEW r, WellBuilt(r), Last(r).kind = "session", LoadIntelligenceSession(r)
        PROVE  Loads(r)
    <2>1. Len(r) > 1 /\ WellBuilt(Up(r, 1)) /\ Last(Up(r, 1)).kind = "decision"
      BY <1>2, ParentKind
    <2>2. Reads(r) /\ LoadDecision(Up(r, 1))
      BY <1>2 DEF LoadIntelligenceSession
    <2> QED
      BY <1>2, <1>1, <2>1, <2>2, LoadsOnward
  <1>3. ASSUME NEW r, WellBuilt(r), Last(r).kind = "evidence", LoadEvidence(r)
        PROVE  Loads(r)
    <2>1. Len(r) > 1 /\ WellBuilt(Up(r, 1)) /\ Last(Up(r, 1)).kind = "session"
      BY <1>3, ParentKind
    <2>2. Reads(r) /\ LoadIntelligenceSession(Up(r, 1))
      BY <1>3 DEF LoadEvidence
    <2> QED
      BY <1>3, <1>2, <2>1, <2>2, LoadsOnward
  <1>4. ASSUME NEW r, WellBuilt(r), Last(r).kind = "assessment", LoadAssessment(r)
        PROVE  Loads(r)
    <2>1. Len(r) > 1 /\ WellBuilt(Up(r, 1)) /\ Last(Up(r, 1)).kind = "evidence"
      BY <1>4, ParentKind
    <2>2. Reads(r) /\ LoadEvidence(Up(r, 1))
      BY <1>4 DEF LoadAssessment
    <2> QED
      BY <1>4, <1>3, <2>1, <2>2, LoadsOnward
  <1>5. ASSUME NEW r, WellBuilt(r), Last(r).kind = "report", LoadIntelligenceReport(r)
        PROVE  Loads(r)
    <2>1. Len(r) > 1 /\ WellBuilt(Up(r, 1)) /\ Last(Up(r, 1)).kind = "assessment"
      BY <1>5, ParentKind
    <2>2. Reads(r) /\ LoadAssessment(Up(r, 1))
      BY <1>5 DEF LoadIntelligenceReport
    <2> QED
      BY <1>5, <1>4, <2>1, <2>2, LoadsOnward
  <1>6. ASSUME NEW r, WellBuilt(r), Last(r).kind = "supervision", LoadSupervisedSession(r)
        PROVE  Loads(r)
    <2>1. Len(r) > 1 /\ WellBuilt(Up(r, 1)) /\ Last(Up(r, 1)).kind = "report"
      BY <1>6, ParentKind
    <2>2. Reads(r) /\ LoadIntelligenceReport(Up(r, 1))
      BY <1>6 DEF LoadSupervisedSession
    <2> QED
      BY <1>6, <1>5, <2>1, <2>2, LoadsOnward
  <1>7. ASSUME NEW r, WellBuilt(r), Last(r).kind = "review", LoadReviewItem(r)
        PROVE  Loads(r)
    <2>1. Len(r) > 1 /\ WellBuilt(Up(r, 1)) /\ Last(Up(r, 1)).kind = "supervision"
      BY <1>7, ParentKind
    <2>2. Reads(r) /\ LoadSupervisedSession(Up(r, 1))
      BY <1>7 DEF LoadReviewItem
    <2> QED
      BY <1>7, <1>6, <2>1, <2>2, LoadsOnward
  <1>8. ASSUME NEW r, WellBuilt(r), Last(r).kind = "disposition", LoadDisposition(r)
        PROVE  Loads(r)
    <2>1. Len(r) > 1 /\ WellBuilt(Up(r, 1)) /\ Last(Up(r, 1)).kind = "review"
      BY <1>8, ParentKind
    <2>2. Reads(r) /\ LoadReviewItem(Up(r, 1))
      BY <1>8 DEF LoadDisposition
    <2> QED
      BY <1>8, <1>7, <2>1, <2>2, LoadsOnward
  <1>9. ASSUME NEW r, WellBuilt(r), Last(r).kind = "supervision_report", LoadSupervisionReport(r)
        PROVE  Loads(r)
    <2>1. Len(r) > 1 /\ WellBuilt(Up(r, 1)) /\ Last(Up(r, 1)).kind = "disposition"
      BY <1>9, ParentKind
    <2>2. Reads(r) /\ LoadDisposition(Up(r, 1))
      BY <1>9 DEF LoadSupervisionReport
    <2> QED
      BY <1>9, <1>8, <2>1, <2>2, LoadsOnward
  <1>10. ASSUME NEW r, WellBuilt(r), Last(r).kind = "readiness_session", LoadReadinessSession(r)
        PROVE  Loads(r)
    <2>1. Len(r) > 1 /\ WellBuilt(Up(r, 1)) /\ Last(Up(r, 1)).kind = "supervision_report"
      BY <1>10, ParentKind
    <2>2. Reads(r) /\ LoadSupervisionReport(Up(r, 1))
      BY <1>10 DEF LoadReadinessSession
    <2> QED
      BY <1>10, <1>9, <2>1, <2>2, LoadsOnward
  <1>11. ASSUME NEW r, WellBuilt(r), Last(r).kind = "readiness", LoadReadiness(r)
        PROVE  Loads(r)
    <2>1. Len(r) > 1 /\ WellBuilt(Up(r, 1)) /\ Last(Up(r, 1)).kind = "readiness_session"
      BY <1>11, ParentKind
    <2>2. Reads(r) /\ LoadReadinessSession(Up(r, 1))
      BY <1>11 DEF LoadReadiness
    <2> QED
      BY <1>11, <1>10, <2>1, <2>2, LoadsOnward
  <1>12. ASSUME NEW r, WellBuilt(r), Last(r).kind = "recovery", LoadRecoveryCase(r)
        PROVE  Loads(r)
    <2>1. Len(r) > 1 /\ WellBuilt(Up(r, 1)) /\ Last(Up(r, 1)).kind = "readiness"
      BY <1>12, ParentKind
    <2>2. Reads(r) /\ LoadReadiness(Up(r, 1))
      BY <1>12 DEF LoadRecoveryCase
    <2> QED
      BY <1>12, <1>11, <2>1, <2>2, LoadsOnward
  <1>13. ASSUME NEW r, WellBuilt(r), Last(r).kind = "execution_session", LoadExecutionSession(r)
        PROVE  Loads(r)
    <2>1. Len(r) > 1 /\ WellBuilt(Up(r, 1)) /\ Last(Up(r, 1)).kind = "readiness"
      BY <1>13, ParentKind
    <2>2. Reads(r) /\ LoadReadiness(Up(r, 1))
      BY <1>13 DEF LoadExecutionSession
    <2> QED
      BY <1>13, <1>11, <2>1, <2>2, LoadsOnward
  <1> QED
    BY <1>1, <1>2, <1>3, <1>4, <1>5, <1>6, <1>7, <1>8, <1>9, <1>10, <1>11, <1>12, <1>13

----------------------------------------------------------------------------
(* What a step is.                                                         *)

\* s is a record to be written onto a lineage that loads.
Onto(s) ==
  /\ WellBuilt(s) /\ Last(s).kind # "verdict_report"
  /\ \A a \in Lineage(s) \ {s} : Reads(a)

\* Worker w writes s: its workflow goes on from there or ends with it.
Writes(w, s) ==
  /\ WriteAllowed(s) /\ files' = Put(s)
  /\ \/ work' = [work EXCEPT ![w].at = s] /\ handed' = handed
     \/ work' = [work EXCEPT ![w] = Idle] /\ handed' = handed \cup {s}
  /\ UNCHANGED <<runs, damage, spoiled>>

Starts(w) ==
  \E f \in Flows, at \in Seq(Entries) :
    /\ IF f = "validate" THEN at = <<>> ELSE WellBuilt(at)
    /\ Start(w, f, at)

Advances(w) ==
  /\ work[w].flow = "validate" => ~work[w].looked
  /\ \E s : Onto(s) /\ Writes(w, s)

LEMMA ChildOnto ==
  ASSUME NEW r, WellBuilt(r), Loads(r), NEW k \in Kinds, NEW p \in Picks,
         k # "verdict_report", WellBuilt(Child(r, k, p))
  PROVE  Onto(Child(r, k, p))
  <1> DEFINE s == Child(r, k, p)
  <1>1. Len(r) \in Nat /\ Len(r) >= 1
    BY LenProperties DEF WellBuilt
  <1>2. Up(s, 1) = r /\ Len(s) = Len(r) + 1 /\ Last(s).kind = k
    BY ChildFacts
  <1> HIDE DEF s
  <1>3. Lineage(s) = Lineage(r) \cup {s}
    <2>1. WellBuilt(s)
      BY DEF s
    <2> QED
      BY <1>1, <1>2, <2>1, LineageShape
  <1> USE DEF s
  <1> QED
    BY <1>2, <1>3 DEF Onto, Loads

\* Every record_ and write_ call but the validation workflow's graveyard and
\* report fails or writes a well-built record onto a lineage that loads.
LEMMA RecordsAdvance ==
  ASSUME VInv, NEW w \in Workers,
         \/ RecordDecision(w)
         \/ RecordIntelligenceSession(w)
         \/ RecordEvidence(w)
         \/ RecordAssessment(w)
         \/ WriteIntelligenceReport(w)
         \/ RecordSupervisedSession(w)
         \/ RecordReviewItem(w)
         \/ RecordDisposition(w)
         \/ WriteSupervisionReport(w)
         \/ RecordReadinessSession(w)
         \/ RecordReadiness(w)
         \/ RecordRecoveryCase(w)
         \/ WriteReadinessReport(w)
         \/ RecordExecutionSession(w)
         \/ RecordAuthorization(w)
  PROVE  Raise(w) \/ Advances(w)
  <1> DEFINE at == work[w].at
  <1>1. WorkOK
    BY DEF VInv
  <1>2. CASE RecordDecision(w)
    <2>1. PICK c \in Cases : Record(w, DecisionRecord(c), TRUE, TRUE, FALSE)
      BY <1>2 DEF RecordDecision
    <2> DEFINE e == Entry("decision", c)
               s == <<e>>
    <2>2. e \in Entries /\ e.kind = "decision" /\ e.pick = c
      <3>1. "decision" \in Kinds /\ c \in Picks
        BY DEF Kinds, JsonKinds, Picks
      <3> QED
        BY <3>1, EntryTyped
    <2>3. s = DecisionRecord(c)
      BY DEF DecisionRecord
    <2> HIDE DEF e
    <2>4. s \in Seq(Entries) /\ Len(s) = 1 /\ s[1] = e /\ Last(s) = e
      BY <2>2 DEF Last
    <2> HIDE DEF s
    <2>5. WellBuilt(s)
      BY <2>2, <2>4 DEF WellBuilt, Follows
    <2>6. Onto(s)
      BY <2>2, <2>4, <2>5, LineageShape DEF Onto
    <2>7. Raise(w) \/ Writes(w, s)
      BY <1>1, <2>1, <2>3 DEF Record, Writes, WorkOK
    <2> QED
      BY <1>1, <1>2, <2>6, <2>7 DEF Advances, RecordDecision, WorkOK
  <1>3. ASSUME NEW f, NEW k, On(w, f, k), f # "validate"
        PROVE  /\ WellBuilt(at) /\ Last(at).kind = k
               /\ work[w].flow # "validate"
    BY <1>1, <1>3 DEF On, WorkOK
  <1>4. ASSUME NEW k \in Kinds, NEW p \in Picks, k # "verdict_report", work[w].flow # "validate",
               WellBuilt(at), WellBuilt(Child(at, k, p)), Loads(at), Writes(w, Child(at, k, p))
        PROVE  Advances(w)
    BY <1>4, ChildOnto DEF Advances
  <1>5. CASE RecordIntelligenceSession(w)
    <2>1. WellBuilt(at) /\ Last(at).kind = "decision" /\ work[w].flow # "validate"
      BY <1>3, <1>5 DEF RecordIntelligenceSession
    <2>2. Record(w, Child(at, "session", "human_requested"),
                 CaseVerdict(at) = "validated_research_candidate", LoadDecision(at), FALSE)
      BY <1>5 DEF RecordIntelligenceSession, IntelligenceSession
    <2>3. "session" \in Kinds /\ "human_requested" \in Picks
      BY DEF Kinds, JsonKinds, StrictKinds, ReportKinds, Picks, Words
    <2>4. CASE /\ CaseVerdict(at) = "validated_research_candidate"
               /\ LoadDecision(at)
               /\ Writes(w, Child(at, "session", "human_requested"))
      <3>1. Loads(at)
        BY <2>1, <2>4, LoadersLoad
      <3>2. WellBuilt(Child(at, "session", "human_requested"))
        BY <2>1, <2>3, <2>4, ChildFits, Depths
      <3> QED
        BY <1>4, <2>1, <2>3, <2>4, <3>1, <3>2
    <2> QED
      BY <1>1, <2>2, <2>4 DEF Record, Writes, WorkOK
  <1>6. CASE RecordEvidence(w)
    <2>1. WellBuilt(at) /\ Last(at).kind = "session" /\ work[w].flow # "validate"
      BY <1>3, <1>6 DEF RecordEvidence
    <2>2. PICK b \in Briefs :
            Record(w, Child(at, "evidence", b), TRUE, LoadIntelligenceSession(at), FALSE)
      BY <1>6 DEF RecordEvidence, IntelligenceEvidence
    <2>3. "evidence" \in Kinds /\ b \in Picks
      BY DEF Kinds, JsonKinds, StrictKinds, ReportKinds, Picks, Words
    <2>4. CASE LoadIntelligenceSession(at) /\ Writes(w, Child(at, "evidence", b))
      <3>1. Loads(at)
        BY <2>1, <2>4, LoadersLoad
      <3>2. WellBuilt(Child(at, "evidence", b))
        BY <2>1, <2>3, <2>4, ChildFits, Depths
      <3> QED
        BY <1>4, <2>1, <2>3, <2>4, <3>1, <3>2
    <2> QED
      BY <1>1, <2>2, <2>4 DEF Record, Writes, WorkOK
  <1>7. CASE RecordAssessment(w)
    <2>1. WellBuilt(at) /\ Last(at).kind = "evidence" /\ work[w].flow # "validate"
      BY <1>3, <1>7 DEF RecordAssessment
    <2>2. Record(w, Child(at, "assessment", AssessedVerdict(at)), TRUE, LoadEvidence(at), FALSE)
      BY <1>7 DEF RecordAssessment, Assessment
    <2>3. "assessment" \in Kinds /\ AssessedVerdict(at) \in Picks
      BY DEF Kinds, JsonKinds, StrictKinds, ReportKinds,
         Picks, Words, AssessedVerdict, EvaluateDecisionSupport
    <2>4. CASE LoadEvidence(at) /\ Writes(w, Child(at, "assessment", AssessedVerdict(at)))
      <3>1. Loads(at)
        BY <2>1, <2>4, LoadersLoad
      <3>2. WellBuilt(Child(at, "assessment", AssessedVerdict(at)))
        BY <2>1, <2>3, <2>4, ChildFits, Depths
      <3> QED
        BY <1>4, <2>1, <2>3, <2>4, <3>1, <3>2
    <2> QED
      BY <1>1, <2>2, <2>4 DEF Record, Writes, WorkOK
  <1>8. CASE WriteIntelligenceReport(w)
    <2>1. WellBuilt(at) /\ Last(at).kind = "assessment" /\ work[w].flow # "validate"
      BY <1>3, <1>8 DEF WriteIntelligenceReport
    <2>2. Record(w, Child(at, "report", "md"), TRUE, LoadAssessment(at), TRUE)
      BY <1>8 DEF WriteIntelligenceReport, IntelligenceReport
    <2>3. "report" \in Kinds /\ "md" \in Picks
      BY DEF Kinds, JsonKinds, StrictKinds, ReportKinds, Picks, Words
    <2>4. CASE LoadAssessment(at) /\ Writes(w, Child(at, "report", "md"))
      <3>1. Loads(at)
        BY <2>1, <2>4, LoadersLoad
      <3>2. WellBuilt(Child(at, "report", "md"))
        BY <2>1, <2>3, <2>4, ChildFits, Depths
      <3> QED
        BY <1>4, <2>1, <2>3, <2>4, <3>1, <3>2
    <2> QED
      BY <1>1, <2>2, <2>4 DEF Record, Writes, WorkOK
  <1>9. CASE RecordSupervisedSession(w)
    <2>1. WellBuilt(at) /\ Last(at).kind = "report" /\ work[w].flow # "validate"
      BY <1>3, <1>9 DEF RecordSupervisedSession
    <2>2. PICK claim \in {"present_for_human_review", "abstain"} :
            Record(w, Child(at, "supervision", claim),
                   ClaimedVerdictHolds(at, claim), LoadIntelligenceReport(at), FALSE)
      BY <1>9 DEF RecordSupervisedSession, SupervisedSession
    <2>3. "supervision" \in Kinds /\ claim \in Picks
      BY DEF Kinds, JsonKinds, StrictKinds, ReportKinds, Picks, Words
    <2>4. CASE /\ ClaimedVerdictHolds(at, claim)
               /\ LoadIntelligenceReport(at)
               /\ Writes(w, Child(at, "supervision", claim))
      <3>1. Loads(at)
        BY <2>1, <2>4, LoadersLoad
      <3>2. WellBuilt(Child(at, "supervision", claim))
        BY <2>1, <2>3, <2>4, ChildFits, Depths DEF ClaimedVerdictHolds
      <3> QED
        BY <1>4, <2>1, <2>3, <2>4, <3>1, <3>2
    <2> QED
      BY <1>1, <2>2, <2>4 DEF Record, Writes, WorkOK
  <1>10. CASE RecordReviewItem(w)
    <2>1. WellBuilt(at) /\ Last(at).kind = "supervision" /\ work[w].flow # "validate"
      BY <1>3, <1>10 DEF RecordReviewItem
    <2>2. Record(w, Child(at, "review", ReviewStatusFor(PickOf(at, "supervision"))),
                 TRUE, LoadSupervisedSession(at), FALSE)
      BY <1>10 DEF RecordReviewItem, ReviewItem
    <2>3. "review" \in Kinds /\ ReviewStatusFor(PickOf(at, "supervision")) \in Picks
      BY DEF Kinds, JsonKinds, StrictKinds, ReportKinds, Picks, Words, ReviewStatusFor
    <2>4. CASE /\ LoadSupervisedSession(at)
               /\ Writes(w, Child(at, "review", ReviewStatusFor(PickOf(at, "supervision"))))
      <3>1. Loads(at)
        BY <2>1, <2>4, LoadersLoad
      <3>2. WellBuilt(Child(at, "review", ReviewStatusFor(PickOf(at, "supervision"))))
        BY <2>1, <2>3, <2>4, ChildFits, Depths
      <3> QED
        BY <1>4, <2>1, <2>3, <2>4, <3>1, <3>2
    <2> QED
      BY <1>1, <2>2, <2>4 DEF Record, Writes, WorkOK
  <1>11. CASE RecordDisposition(w)
    <2>1. WellBuilt(at) /\ Last(at).kind = "review" /\ work[w].flow # "validate"
      BY <1>3, <1>11 DEF RecordDisposition
    <2>2. PICK d \in Dispositions :
            Record(w, Child(at, "disposition", d),
                   DispositionFits(PickOf(at, "review"), d), LoadReviewItem(at), FALSE)
      BY <1>11 DEF RecordDisposition, Disposition
    <2>3. "disposition" \in Kinds /\ d \in Picks
      BY DEF Kinds, JsonKinds, StrictKinds, ReportKinds, Picks, Words
    <2>4. CASE /\ DispositionFits(PickOf(at, "review"), d)
               /\ LoadReviewItem(at)
               /\ Writes(w, Child(at, "disposition", d))
      <3>1. Loads(at)
        BY <2>1, <2>4, LoadersLoad
      <3>2. WellBuilt(Child(at, "disposition", d))
        BY <2>1, <2>3, <2>4, ChildFits, Depths
      <3> QED
        BY <1>4, <2>1, <2>3, <2>4, <3>1, <3>2
    <2> QED
      BY <1>1, <2>2, <2>4 DEF Record, Writes, WorkOK
  <1>12. CASE WriteSupervisionReport(w)
    <2>1. WellBuilt(at) /\ Last(at).kind = "disposition" /\ work[w].flow # "validate"
      BY <1>3, <1>12 DEF WriteSupervisionReport
    <2>2. Record(w, Child(at, "supervision_report", "md"), TRUE, LoadDisposition(at), TRUE)
      BY <1>12 DEF WriteSupervisionReport, SupervisionReport
    <2>3. "supervision_report" \in Kinds /\ "md" \in Picks
      BY DEF Kinds, JsonKinds, StrictKinds, ReportKinds, Picks, Words
    <2>4. CASE LoadDisposition(at) /\ Writes(w, Child(at, "supervision_report", "md"))
      <3>1. Loads(at)
        BY <2>1, <2>4, LoadersLoad
      <3>2. WellBuilt(Child(at, "supervision_report", "md"))
        BY <2>1, <2>3, <2>4, ChildFits, Depths
      <3> QED
        BY <1>4, <2>1, <2>3, <2>4, <3>1, <3>2
    <2> QED
      BY <1>1, <2>2, <2>4 DEF Record, Writes, WorkOK
  <1>13. CASE RecordReadinessSession(w)
    <2>1. WellBuilt(at) /\ Last(at).kind = "supervision_report" /\ work[w].flow # "validate"
      BY <1>3, <1>13 DEF RecordReadinessSession
    <2>2. PICK claim \in Dispositions :
            Record(w, Child(at, "readiness_session", claim),
                   ClaimedDispositionHolds(at, claim), LoadSupervisionReport(at), FALSE)
      BY <1>13 DEF RecordReadinessSession, ReadinessSession
    <2>3. "readiness_session" \in Kinds /\ claim \in Picks
      BY DEF Kinds, JsonKinds, StrictKinds, ReportKinds, Picks, Words
    <2>4. CASE /\ ClaimedDispositionHolds(at, claim)
               /\ LoadSupervisionReport(at)
               /\ Writes(w, Child(at, "readiness_session", claim))
      <3>1. Loads(at)
        BY <2>1, <2>4, LoadersLoad
      <3>2. WellBuilt(Child(at, "readiness_session", claim))
        BY <2>1, <2>3, <2>4, ChildFits, Depths DEF ClaimedDispositionHolds
      <3> QED
        BY <1>4, <2>1, <2>3, <2>4, <3>1, <3>2
    <2> QED
      BY <1>1, <2>2, <2>4 DEF Record, Writes, WorkOK
  <1>14. CASE RecordReadiness(w)
    <2>1. WellBuilt(at) /\ Last(at).kind = "readiness_session" /\ work[w].flow # "validate"
      BY <1>3, <1>14 DEF RecordReadiness
    <2>2. Record(w, Child(at, "readiness", OutcomeForSession(PickOf(at, "review"), PickOf(at, "readiness_session"))),
                 TRUE, LoadReadinessSession(at), FALSE)
      BY <1>14 DEF RecordReadiness, Readiness
    <2>3. /\ "readiness" \in Kinds
          /\ OutcomeForSession(PickOf(at, "review"), PickOf(at, "readiness_session")) \in Picks
      BY DEF Kinds, JsonKinds, StrictKinds, ReportKinds, Picks, Words, OutcomeForSession
    <2>4. CASE /\ LoadReadinessSession(at)
               /\ Writes(w, Child(at, "readiness", OutcomeForSession(PickOf(at, "review"), PickOf(at, "readiness_session"))))
      <3>1. Loads(at)
        BY <2>1, <2>4, LoadersLoad
      <3>2. WellBuilt(Child(at, "readiness", OutcomeForSession(PickOf(at, "review"), PickOf(at, "readiness_session"))))
        BY <2>1, <2>3, <2>4, ChildFits, Depths
      <3> QED
        BY <1>4, <2>1, <2>3, <2>4, <3>1, <3>2
    <2> QED
      BY <1>1, <2>2, <2>4 DEF Record, Writes, WorkOK
  <1>15. CASE RecordRecoveryCase(w)
    <2>1. WellBuilt(at) /\ Last(at).kind = "readiness" /\ work[w].flow # "validate"
      BY <1>3, <1>15 DEF RecordRecoveryCase
    <2>2. PICK a \in AttemptStates, reference \in BOOLEAN :
            Record(w, Child(at, "recovery", a),
                   RecoveryAllowed(a, reference), LoadReadiness(at), FALSE)
      BY <1>15 DEF RecordRecoveryCase, RecoveryCase
    <2>3. "recovery" \in Kinds /\ a \in Picks
      BY DEF Kinds, JsonKinds, StrictKinds, ReportKinds, Picks, Words
    <2>4. CASE /\ RecoveryAllowed(a, reference)
               /\ LoadReadiness(at)
               /\ Writes(w, Child(at, "recovery", a))
      <3>1. Loads(at)
        BY <2>1, <2>4, LoadersLoad
      <3>2. WellBuilt(Child(at, "recovery", a))
        BY <2>1, <2>3, <2>4, ChildFits, Depths
      <3> QED
        BY <1>4, <2>1, <2>3, <2>4, <3>1, <3>2
    <2> QED
      BY <1>1, <2>2, <2>4 DEF Record, Writes, WorkOK
  <1>16. CASE WriteReadinessReport(w)
    <2>1. WellBuilt(at) /\ Last(at).kind = "recovery" /\ work[w].flow # "validate"
      BY <1>3, <1>16 DEF WriteReadinessReport
    <2>2. Record(w, Child(at, "readiness_report", "md"), TRUE, LoadRecoveryCase(at), TRUE)
      BY <1>16 DEF WriteReadinessReport, ReadinessReport
    <2>3. "readiness_report" \in Kinds /\ "md" \in Picks
      BY DEF Kinds, JsonKinds, StrictKinds, ReportKinds, Picks, Words
    <2>4. CASE LoadRecoveryCase(at) /\ Writes(w, Child(at, "readiness_report", "md"))
      <3>1. Loads(at)
        BY <2>1, <2>4, LoadersLoad
      <3>2. WellBuilt(Child(at, "readiness_report", "md"))
        BY <2>1, <2>3, <2>4, ChildFits, Depths
      <3> QED
        BY <1>4, <2>1, <2>3, <2>4, <3>1, <3>2
    <2> QED
      BY <1>1, <2>2, <2>4 DEF Record, Writes, WorkOK
  <1>17. CASE RecordExecutionSession(w)
    <2>1. WellBuilt(at) /\ Last(at).kind = "readiness" /\ work[w].flow # "validate"
      BY <1>3, <1>17 DEF RecordExecutionSession
    <2>2. Record(w, Child(at, "execution_session", "human_requested"),
                 PickOf(at, "readiness") = "offline_readiness_only", LoadReadiness(at), FALSE)
      BY <1>17 DEF RecordExecutionSession, ExecutionSession
    <2>3. "execution_session" \in Kinds /\ "human_requested" \in Picks
      BY DEF Kinds, JsonKinds, StrictKinds, ReportKinds, Picks, Words
    <2>4. CASE /\ PickOf(at, "readiness") = "offline_readiness_only"
               /\ LoadReadiness(at)
               /\ Writes(w, Child(at, "execution_session", "human_requested"))
      <3>1. Loads(at)
        BY <2>1, <2>4, LoadersLoad
      <3>2. WellBuilt(Child(at, "execution_session", "human_requested"))
        BY <2>1, <2>3, <2>4, ChildFits, Depths
      <3> QED
        BY <1>4, <2>1, <2>3, <2>4, <3>1, <3>2
    <2> QED
      BY <1>1, <2>2, <2>4 DEF Record, Writes, WorkOK
  <1>18. CASE RecordAuthorization(w)
    <2>1. WellBuilt(at) /\ Last(at).kind = "execution_session" /\ work[w].flow # "validate"
      BY <1>3, <1>18 DEF RecordAuthorization
    <2>2. PICK p \in Pairs :
            Record(w, Child(at, "authorization", p),
                   LegacyPairBinds(p), LoadExecutionSession(at), TRUE)
      BY <1>18 DEF RecordAuthorization, Authorization
    <2>3. "authorization" \in Kinds /\ p \in Picks
      BY DEF Kinds, JsonKinds, StrictKinds, ReportKinds, Picks, Words
    <2>4. CASE /\ LegacyPairBinds(p)
               /\ LoadExecutionSession(at)
               /\ Writes(w, Child(at, "authorization", p))
      <3>1. Loads(at)
        BY <2>1, <2>4, LoadersLoad
      <3>2. WellBuilt(Child(at, "authorization", p))
        BY <2>1, <2>3, <2>4, ChildFits, Depths
      <3> QED
        BY <1>4, <2>1, <2>3, <2>4, <3>1, <3>2
    <2> QED
      BY <1>1, <2>2, <2>4 DEF Record, Writes, WorkOK
  <1> HIDE DEF at
  <1> QED
    BY <1>2, <1>5, <1>6, <1>7, <1>8, <1>9, <1>10, <1>11, <1>12, <1>13, <1>14, <1>15, <1>16, <1>17, <1>18

LEMMA WorkflowsStart ==
  ASSUME VInv, NEW w \in Workers,
         \/ RunValidation(w) \/ RunIntelligence(w) \/ RunSupervision(w)
         \/ RunReadiness(w) \/ RunSubmission(w)
  PROVE  Starts(w)
  <1>1. \A r \in handed : WellBuilt(r) /\ r \in Seq(Entries) /\ Len(r) = Depth[Last(r).kind]
    BY KindFixesDepth DEF VInv, HandedOK, WellBuilt
  <1>2. Depth["verdict_report"] = 2 /\ Depth["readiness_report"] = 13
    BY DEF Depth
  <1>3. CASE RunValidation(w)
    <2>1. Start(w, "validate", <<>>) /\ <<>> \in Seq(Entries)
      BY <1>3 DEF RunValidation
    <2> QED
      BY <2>1 DEF Starts, Flows
  <1>4. CASE RunIntelligence(w)
    <2>1. PICK r \in handed : Last(r).kind = "verdict_report" /\ Start(w, "intelligence", Up(r, 1))
      BY <1>4 DEF RunIntelligence
    <2>2. WellBuilt(r) /\ Len(r) = 2
      BY <1>1, <1>2, <2>1
    <2>3. WellBuilt(Up(r, 1))
      BY <2>2, LineageShape
    <2>4. Up(r, 1) \in Seq(Entries)
      BY <2>3 DEF WellBuilt
    <2> QED
      BY <2>1, <2>3, <2>4 DEF Starts, Flows
  <1>5. CASE RunSupervision(w)
    BY <1>1, <1>5 DEF RunSupervision, Starts, Flows
  <1>6. CASE RunReadiness(w)
    BY <1>1, <1>6 DEF RunReadiness, Starts, Flows
  <1>7. CASE RunSubmission(w)
    <2>1. PICK r \in handed : Last(r).kind = "readiness_report" /\ Start(w, "submit", Up(r, 2))
      BY <1>7 DEF RunSubmission
    <2>2. WellBuilt(r) /\ Len(r) = 13
      BY <1>1, <1>2, <2>1
    <2>3. 11 \in 1..Len(r) /\ Up(r, 2) = SubSeq(r, 1, 11)
      BY <2>2 DEF Up
    <2>4. WellBuilt(Up(r, 2)) /\ Up(r, 2) \in Seq(Entries)
      <3>1. WellBuilt(SubSeq(r, 1, 11))
        BY <2>2, <2>3, PrefixIsBuilt
      <3>2. WellBuilt(Up(r, 2))
        BY <2>3, <3>1
      <3> QED
        BY <3>2 DEF WellBuilt
    <2> QED
      BY <2>1, <2>4 DEF Starts, Flows
  <1> QED
    BY <1>3, <1>4, <1>5, <1>6, <1>7

LEMMA StepShape ==
  ASSUME VInv, NEW w \in Workers, Step(w)
  PROVE  \/ Starts(w) \/ Raise(w) \/ Advances(w)
         \/ RecordGraveyardEntry(w) \/ LookForValidationReport(w) \/ ReplaceValidationReport(w)
  BY WorkflowsStart, RecordsAdvance DEF Step, Die

LEMMA OneAppended ==
  ASSUME NEW r \in Seq(Entries), Len(r) = 1, NEW e \in Entries
  PROVE  Append(r, e) = <<r[1], e>>
  <1>1. r[1] \in Entries
    <2>1. 1 \in 1..Len(r)
      OBVIOUS
    <2> QED
      BY <2>1, ElementOfSeq
  <1>2. /\ Append(r, e) \in Seq(Entries) /\ Len(Append(r, e)) = Len(r) + 1
        /\ \A j \in 1..Len(r) : Append(r, e)[j] = r[j]
        /\ Append(r, e)[Len(r) + 1] = e
    BY ChildShape
  <1>3. <<r[1], e>> \in Seq(Entries) /\ Len(<<r[1], e>>) = 2
    BY <1>1
  <1>4. Len(Append(r, e)) = Len(<<r[1], e>>)
    BY <1>2, <1>3
  <1>5. \A j \in 1..Len(Append(r, e)) : Append(r, e)[j] = <<r[1], e>>[j]
    BY <1>2
  <1> QED
    BY <1>2, <1>3, <1>4, <1>5, SeqEqual

\* The graveyard entry of a stored rejection stands on its decision.
LEMMA GraveyardEntryFacts ==
  ASSUME NEW r, WellBuilt(r), Last(r).kind = "decision", Buried(r), LoadDecision(r)
  PROVE  LET entry == GraveyardEntry(r) IN
         /\ Onto(entry)
         /\ entry = <<r[1], Entry("graveyard", "failed_gates")>>
  <1> DEFINE e == Entry("graveyard", "failed_gates")
  <1>1. Len(r) = 1 /\ r \in Seq(Entries)
    <2>1. Len(r) = Depth[Last(r).kind]
      BY KindFixesDepth
    <2> QED
      BY <2>1 DEF Depth, WellBuilt
  <1>2. "graveyard" \in Kinds /\ "failed_gates" \in Picks
    BY DEF Kinds, JsonKinds, Picks, Words
  <1>3. WellBuilt(Child(r, "graveyard", "failed_gates"))
    BY <1>2, ChildFits DEF Buried
  <1>4. Loads(r)
    BY LoadersLoad
  <1>5. Onto(GraveyardEntry(r))
    BY <1>2, <1>3, <1>4, ChildOnto DEF GraveyardEntry
  <1>6. GraveyardEntry(r) = Append(r, e)
    BY DEF GraveyardEntry, Child
  <1>7. e \in Entries
    BY <1>2, EntryTyped
  <1> HIDE DEF e
  <1>8. Append(r, e) = <<r[1], e>>
    BY <1>1, <1>7, OneAppended
  <1> USE DEF e
  <1> QED
    BY <1>5, <1>6, <1>8

\* A write that the store allows keeps what is readable readable.
LEMMA PutKeeps ==
  ASSUME FilesOK, NEW s, WellBuilt(s), files' = Put(s),
         WriteAllowed(s) \/ Last(s).kind = "verdict_report"
  PROVE  /\ FilesOK'
         /\ DOMAIN files' = DOMAIN files \cup {Name(s)}
         /\ files'[Name(s)] = [holds |-> s, bytes |-> "exact"]
         /\ Reads(s)'
         /\ \A a : WellBuilt(a) /\ Last(a).kind # "verdict_report" /\ Reads(a) => Reads(a)'
  <1> DEFINE n == Name(s)
             stored == [holds |-> s, bytes |-> "exact"]
  <1>1. s \in Seq(Entries)
    BY DEF WellBuilt
  <1>2. /\ files' = [m \in DOMAIN files' |-> files'[m]]
        /\ DOMAIN files' = DOMAIN files \cup {n}
        /\ files'[n] = stored
        /\ \A m \in DOMAIN files : m # n => files'[m] = files[m]
    BY DEF Put
  <1> HIDE DEF n
  <1>3. files' \in [DOMAIN files' -> [holds : Seq(Entries), bytes : {"exact", "altered", "reformatted"}]]
    BY <1>1, <1>2 DEF FilesOK
  <1>4. \A m \in DOMAIN files' : m = Name(files'[m].holds) /\ WellBuilt(files'[m].holds)
    BY <1>2 DEF FilesOK, n
  <1>5. FilesOK'
    BY <1>3, <1>4 DEF FilesOK
  <1>6. Reads(s)'
    BY <1>2 DEF Reads, Stored, n
  <1>7. ASSUME NEW a, WellBuilt(a), Last(a).kind # "verdict_report", Reads(a) PROVE Reads(a)'
    <2>1. Name(a) \in DOMAIN files /\ files[Name(a)].holds = a
      BY <1>7 DEF Reads, Stored
    <2>2. CASE Name(a) # n
      BY <1>2, <1>7, <2>1, <2>2 DEF Reads, Stored
    <2>3. CASE Name(a) = n
      <3>1. Last(s).kind # "verdict_report"
        BY <1>7, <2>3, NameOf DEF n
      <3>2. files[n] = stored
        BY <2>1, <2>3, <3>1 DEF WriteAllowed, SameBytes, Stored, n
      <3> QED
        BY <1>2, <1>7, <2>1, <2>3, <3>2 DEF Reads, Stored
    <2> QED
      BY <2>2, <2>3
  <1> QED
    BY <1>2, <1>5, <1>6, <1>7 DEF n

----------------------------------------------------------------------------
(* The invariant is inductive.                                             *)

LEMMA InitKeeps == Init => VInv
  <1> SUFFICES ASSUME Init PROVE VInv
    OBVIOUS
  <1>1. FilesOK
    BY DEF Init, FilesOK
  <1>2. WorkOK
    <2>1. Idle \in [flow : Flows, at : Seq(Entries), looked : BOOLEAN]
      BY DEF Idle, Flows
    <2> QED
      BY <2>1 DEF Init, WorkOK, Idle
  <1>3. HandedOK /\ CountersOK /\ HandedReportsStand
    BY GovernanceAssumption DEF Init, HandedOK, CountersOK, HandedReportsStand
  <1>4. BuriedFirst
    BY DEF Init, BuriedFirst, Idle
  <1> QED
    BY <1>1, <1>2, <1>3, <1>4 DEF VInv

\* A start, a failure and a death touch no file and no report.
LEMMA StartKeeps ==
  ASSUME VInv, NEW w \in Workers, Starts(w) \/ Raise(w)
  PROVE  VInv'
  <1>1. /\ UNCHANGED <<files, handed, damage, spoiled>>
        /\ runs' \in 0..MaxRuns
    BY GovernanceAssumption DEF VInv, CountersOK, Starts, Start, Raise
  <1>2. /\ work' \in [Workers -> [flow : Flows, at : Seq(Entries), looked : BOOLEAN]]
        /\ \A v \in Workers \ {w} : work'[v] = work[v]
        /\ ~work'[w].looked
        /\ work'[w].at # <<>> => WellBuilt(work'[w].at) /\ work'[w].flow # "validate"
    <2>1. CASE Starts(w)
      <3>1. PICK f \in Flows, at \in Seq(Entries) :
              /\ IF f = "validate" THEN at = <<>> ELSE WellBuilt(at)
              /\ work' = [work EXCEPT ![w] = [flow |-> f, at |-> at, looked |-> FALSE]]
        BY <2>1 DEF Starts, Start
      <3> QED
        BY <3>1 DEF VInv, WorkOK
    <2>2. CASE Raise(w)
      <3>1. Idle \in [flow : Flows, at : Seq(Entries), looked : BOOLEAN]
        BY DEF Idle, Flows
      <3>2. ~Idle.looked /\ Idle.at = <<>>
        BY DEF Idle
      <3> QED
        BY <2>2, <3>1, <3>2 DEF VInv, WorkOK, Raise
    <2> QED
      BY <2>1, <2>2
  <1>3. FilesOK' /\ HandedOK' /\ CountersOK' /\ HandedReportsStand'
    BY <1>1 DEF VInv, FilesOK, HandedOK, CountersOK, HandedReportsStand, Loads, Reads, Stored
  <1>4. WorkOK'
    BY <1>2 DEF VInv, WorkOK
  <1>5. BuriedFirst'
    BY <1>1, <1>2 DEF VInv, BuriedFirst, InGraveyard, CaseVerdict
  <1> QED
    BY <1>3, <1>4, <1>5 DEF VInv

\* A burial outlives every write.
LEMMA BurialStays ==
  ASSUME DOMAIN files \subseteq DOMAIN files', spoiled' = spoiled, NEW r, InGraveyard(r)
  PROVE  InGraveyard(r)'
  BY DEF InGraveyard

\* What stands keeps standing when readable records stay readable.
LEMMA ReportsStayStanding ==
  ASSUME VInv, spoiled' = spoiled, NEW r \in handed,
         \A a : WellBuilt(a) /\ Last(a).kind # "verdict_report" /\ Reads(a) => Reads(a)',
         Last(r).kind # "verdict_report", Lineage(r) \cap spoiled' = {}
  PROVE  Loads(r)'
  <1>1. Loads(r) /\ WellBuilt(r)
    BY DEF VInv, HandedReportsStand, HandedOK
  <1> QED
    BY <1>1, LineageHasNoReport DEF Loads

LEMMA AdvanceKeeps ==
  ASSUME VInv, NEW w \in Workers, Advances(w)
  PROVE  VInv'
  <1>1. PICK s : Onto(s) /\ Writes(w, s)
    BY DEF Advances
  <1>2. WellBuilt(s) /\ Last(s).kind # "verdict_report" /\ s \in Seq(Entries) /\ s # <<>>
    BY <1>1 DEF Onto, WellBuilt
  <1>3. /\ WriteAllowed(s) /\ files' = Put(s)
        /\ UNCHANGED <<runs, damage, spoiled>>
        /\ handed' = handed \/ handed' = handed \cup {s}
        /\ work' = [work EXCEPT ![w].at = s] \/ work' = [work EXCEPT ![w] = Idle]
    BY <1>1 DEF Writes
  <1>4. /\ FilesOK'
        /\ DOMAIN files \subseteq DOMAIN files'
        /\ Reads(s)'
        /\ \A a : WellBuilt(a) /\ Last(a).kind # "verdict_report" /\ Reads(a) => Reads(a)'
    BY <1>2, <1>3, PutKeeps DEF VInv
  <1>5. /\ work' \in [Workers -> [flow : Flows, at : Seq(Entries), looked : BOOLEAN]]
        /\ \A v \in Workers \ {w} : work'[v] = work[v]
        /\ IF work'[w].at = <<>> THEN ~work'[w].looked ELSE work'[w].at = s
        /\ work'[w].at # <<>> /\ work'[w].flow = "validate" => ~work'[w].looked
    <2>1. Idle \in [flow : Flows, at : Seq(Entries), looked : BOOLEAN] /\ Idle.at = <<>>
          /\ ~Idle.looked
      BY DEF Idle, Flows
    <2>2. work[w].flow = "validate" => ~work[w].looked
      BY DEF Advances
    <2>3. work \in [Workers -> [flow : Flows, at : Seq(Entries), looked : BOOLEAN]]
      BY DEF VInv, WorkOK
    <2>4. CASE work' = [work EXCEPT ![w].at = s]
      BY <1>2, <2>2, <2>3, <2>4
    <2>5. CASE work' = [work EXCEPT ![w] = Idle]
      BY <2>1, <2>3, <2>5
    <2> QED
      BY <1>3, <2>4, <2>5
  <1>6. WorkOK'
    BY <1>2, <1>5 DEF VInv, WorkOK
  <1>7. HandedOK' /\ CountersOK'
    BY <1>2, <1>3 DEF VInv, HandedOK, CountersOK
  <1>8. BuriedFirst'
    BY <1>2, <1>3, <1>4, <1>5, BurialStays DEF VInv, BuriedFirst, InGraveyard, CaseVerdict
  <1>9. HandedReportsStand'
    <2>1. ASSUME NEW r \in handed', Last(r).kind # "verdict_report", Lineage(r) \cap spoiled' = {}
          PROVE  Loads(r)'
      <3>1. CASE r \in handed
        BY <1>3, <1>4, <2>1, <3>1, ReportsStayStanding
      <3>2. CASE r = s
        <4>1. ASSUME NEW a \in Lineage(s), a # s PROVE Reads(a)'
          BY <1>1, <1>2, <1>4, <4>1, LineageHasNoReport DEF Onto
        <4> QED
          BY <1>4, <3>2, <4>1 DEF Loads
      <3> QED
        BY <1>3, <3>1, <3>2
    <2> QED
      BY <2>1 DEF HandedReportsStand
  <1> QED
    BY <1>4, <1>6, <1>7, <1>8, <1>9 DEF VInv

\* A decision is buried before its report can be looked for.
LEMMA GraveyardKeeps ==
  ASSUME VInv, NEW w \in Workers, RecordGraveyardEntry(w), ~Raise(w)
  PROVE  /\ VInv'
         /\ Onto(GraveyardEntry(work[w].at)) /\ files' = Put(GraveyardEntry(work[w].at))
  <1> DEFINE at == work[w].at
             entry == GraveyardEntry(at)
  <1>1. /\ at # <<>> /\ Last(at).kind = "decision" /\ Buried(at)
        /\ LoadDecision(at) /\ WriteAllowed(entry) /\ files' = Put(entry)
        /\ work' = [work EXCEPT ![w].looked = TRUE]
        /\ UNCHANGED <<handed, runs, damage, spoiled>>
    BY DEF RecordGraveyardEntry, On
  <1>2. WellBuilt(at)
    BY <1>1 DEF VInv, WorkOK
  <1>3. Onto(entry) /\ entry = <<at[1], Entry("graveyard", "failed_gates")>>
    BY <1>1, <1>2, GraveyardEntryFacts
  <1>4. WellBuilt(entry) /\ Last(entry).kind # "verdict_report" /\ Name(entry) = entry
    BY <1>3, NameOf DEF Onto
  <1>5. /\ FilesOK'
        /\ DOMAIN files' = DOMAIN files \cup {entry}
        /\ \A a : WellBuilt(a) /\ Last(a).kind # "verdict_report" /\ Reads(a) => Reads(a)'
    <2> HIDE DEF entry
    <2> QED
      BY <1>1, <1>4, PutKeeps DEF VInv
  <1>6. /\ work' \in [Workers -> [flow : Flows, at : Seq(Entries), looked : BOOLEAN]]
        /\ \A v \in Workers \ {w} : work'[v] = work[v]
        /\ work'[w].at = at
    BY <1>1 DEF VInv, WorkOK
  <1>7. WorkOK'
    BY <1>1, <1>2, <1>6 DEF VInv, WorkOK
  <1>8. HandedOK' /\ CountersOK'
    BY <1>1 DEF VInv, HandedOK, CountersOK
  <1>9. HandedReportsStand'
    <2>1. ASSUME NEW r \in handed', Last(r).kind # "verdict_report", Lineage(r) \cap spoiled' = {}
          PROVE  Loads(r)'
      BY <1>1, <1>5, <2>1, ReportsStayStanding
    <2> QED
      BY <2>1 DEF HandedReportsStand
  <1>10. entry \in DOMAIN files'
    BY <1>5
  <1>11. BuriedFirst'
    <2> HIDE DEF entry
    <2>1. ASSUME NEW v \in Workers, work'[v].flow = "validate", work'[v].at # <<>>,
                 work'[v].looked \/ Last(work'[v].at).kind = "verdict_report",
                 (CaseVerdict(work[v].at) = "rejected")'
          PROVE  InGraveyard(work[v].at)'
      <3>1. CASE v = w
        BY <1>3, <1>6, <1>10, <3>1 DEF InGraveyard
      <3>2. CASE v # w
        BY <1>1, <1>5, <1>6, <2>1, <3>2 DEF VInv, BuriedFirst, InGraveyard, CaseVerdict
      <3> QED
        BY <3>1, <3>2
    <2>2. ASSUME NEW r \in handed', Last(r).kind = "verdict_report", CaseVerdict(r) = "rejected"
          PROVE  InGraveyard(r)'
      BY <1>1, <1>5, <2>2, BurialStays DEF VInv, BuriedFirst
    <2> QED
      BY <2>1, <2>2 DEF BuriedFirst, CaseVerdict
  <1> QED
    BY <1>1, <1>3, <1>5, <1>7, <1>8, <1>9, <1>11 DEF VInv

LEMMA ReportIsBuilt ==
  ASSUME NEW r, WellBuilt(r), Last(r).kind = "decision",
         NEW form \in {"with_evidence", "without_evidence"}
  PROVE  LET report == ValidationReport(r, form) IN
         /\ WellBuilt(report) /\ Last(report).kind = "verdict_report"
         /\ report[1] = r[1]
  <1>1. "verdict_report" \in Kinds /\ form \in Picks
    BY DEF Kinds, ReportKinds, Picks, Words
  <1>2. WellBuilt(Child(r, "verdict_report", form))
    BY <1>1, ChildFits
  <1>3. 1 \in 1..Len(r)
    BY LenProperties DEF WellBuilt
  <1> QED
    BY <1>1, <1>2, <1>3, ChildFacts DEF ValidationReport

LEMMA LookKeeps ==
  ASSUME VInv, NEW w \in Workers, LookForValidationReport(w), ~Raise(w)
  PROVE  VInv' /\ files' = files
  <1> DEFINE at == work[w].at
  <1>1. /\ work[w].flow = "validate" /\ at # <<>> /\ Last(at).kind = "decision"
        /\ Buried(at) => work[w].looked
    BY DEF LookForValidationReport, On
  <1>2. WellBuilt(at)
    BY <1>1 DEF VInv, WorkOK
  <1>3. CaseVerdict(at) = "rejected" => InGraveyard(at)
    BY <1>1 DEF VInv, BuriedFirst, Buried
  <1>4. PICK form \in ReportForms(at[1].pick) :
          LET r == ValidationReport(at, form) IN
          \/ /\ handed' = handed \cup {r}
             /\ work' = [work EXCEPT ![w] = Idle]
             /\ UNCHANGED <<files, runs, damage, spoiled>>
          \/ /\ work' = [work EXCEPT ![w].at = r]
             /\ UNCHANGED <<files, handed, runs, damage, spoiled>>
    BY DEF LookForValidationReport
  <1> DEFINE r == ValidationReport(at, form)
  <1>5. WellBuilt(r) /\ Last(r).kind = "verdict_report" /\ r[1] = at[1]
    <2>1. form \in {"with_evidence", "without_evidence"}
      BY DEF ReportForms
    <2> QED
      BY <1>1, <1>2, <2>1, ReportIsBuilt
  <1> HIDE DEF at, r
  <1>6. CaseVerdict(r) = "rejected" => InGraveyard(r)
    BY <1>3, <1>5 DEF CaseVerdict, InGraveyard
  <1>7. /\ UNCHANGED <<files, runs, damage, spoiled>>
        /\ handed' \subseteq handed \cup {r}
        /\ \/ handed' = handed \cup {r} /\ work' = [work EXCEPT ![w] = Idle]
           \/ handed' = handed /\ work' = [work EXCEPT ![w].at = r]
    BY <1>4 DEF r
  <1>8. r \in Seq(Entries) /\ r # <<>>
    BY <1>5 DEF WellBuilt
  <1>9. /\ work' \in [Workers -> [flow : Flows, at : Seq(Entries), looked : BOOLEAN]]
        /\ \A v \in Workers \ {w} : work'[v] = work[v]
        /\ IF work'[w].at = <<>> THEN ~work'[w].looked ELSE work'[w].at = r
    <2>1. Idle \in [flow : Flows, at : Seq(Entries), looked : BOOLEAN] /\ Idle.at = <<>>
          /\ ~Idle.looked
      BY DEF Idle, Flows
    <2>2. work \in [Workers -> [flow : Flows, at : Seq(Entries), looked : BOOLEAN]]
      BY DEF VInv, WorkOK
    <2>3. CASE work' = [work EXCEPT ![w] = Idle]
      BY <2>1, <2>2, <2>3
    <2>4. CASE work' = [work EXCEPT ![w].at = r]
      BY <1>8, <2>2, <2>4
    <2> QED
      BY <1>7, <2>3, <2>4
  <1>10. WorkOK'
    BY <1>5, <1>9 DEF VInv, WorkOK
  <1>11. FilesOK' /\ HandedOK' /\ CountersOK'
    BY <1>5, <1>7 DEF VInv, FilesOK, HandedOK, CountersOK
  <1>12. HandedReportsStand'
    BY <1>5, <1>7 DEF VInv, HandedReportsStand, Loads, Reads, Stored
  <1>13. BuriedFirst'
    BY <1>6, <1>7, <1>9 DEF VInv, BuriedFirst, InGraveyard, CaseVerdict
  <1> QED
    BY <1>7, <1>10, <1>11, <1>12, <1>13 DEF VInv

\* The report replaces what is under its name, and no record stands on that.
LEMMA ReplaceKeeps ==
  ASSUME VInv, NEW w \in Workers, ReplaceValidationReport(w)
  PROVE  /\ VInv'
         /\ Last(work[w].at).kind = "verdict_report"
         /\ WellBuilt(work[w].at) /\ files' = Put(work[w].at)
  <1> DEFINE at == work[w].at
  <1>1. /\ work[w].flow = "validate" /\ at # <<>> /\ Last(at).kind = "verdict_report"
        /\ files' = Put(at) /\ handed' = handed \cup {at}
        /\ work' = [work EXCEPT ![w] = Idle]
        /\ UNCHANGED <<runs, damage, spoiled>>
    BY DEF ReplaceValidationReport, On
  <1>2. WellBuilt(at)
    BY <1>1 DEF VInv, WorkOK
  <1>3. CaseVerdict(at) = "rejected" => InGraveyard(at)
    BY <1>1 DEF VInv, BuriedFirst
  <1>4. /\ FilesOK'
        /\ DOMAIN files \subseteq DOMAIN files'
        /\ \A a : WellBuilt(a) /\ Last(a).kind # "verdict_report" /\ Reads(a) => Reads(a)'
    BY <1>1, <1>2, PutKeeps DEF VInv
  <1>5. /\ work' \in [Workers -> [flow : Flows, at : Seq(Entries), looked : BOOLEAN]]
        /\ \A v \in Workers \ {w} : work'[v] = work[v]
        /\ work'[w].at = <<>> /\ ~work'[w].looked
    <2>1. Idle \in [flow : Flows, at : Seq(Entries), looked : BOOLEAN] /\ Idle.at = <<>>
          /\ ~Idle.looked
      BY DEF Idle, Flows
    <2> QED
      BY <1>1, <2>1 DEF VInv, WorkOK
  <1>6. WorkOK'
    BY <1>5 DEF VInv, WorkOK
  <1>7. HandedOK' /\ CountersOK'
    BY <1>1, <1>2 DEF VInv, HandedOK, CountersOK
  <1>8. HandedReportsStand'
    <2>1. ASSUME NEW r \in handed', Last(r).kind # "verdict_report", Lineage(r) \cap spoiled' = {}
          PROVE  Loads(r)'
      BY <1>1, <1>4, <2>1, ReportsStayStanding
    <2> QED
      BY <2>1 DEF HandedReportsStand
  <1>9. BuriedFirst'
    BY <1>1, <1>3, <1>4, <1>5 DEF VInv, BuriedFirst, InGraveyard, CaseVerdict
  <1> QED
    BY <1>1, <1>2, <1>4, <1>6, <1>7, <1>8, <1>9 DEF VInv

\* Damage takes away only what it marks as spoiled.
LEMMA DamageKeeps ==
  ASSUME VInv, NEW n \in DOMAIN files, Damage(n)
  PROVE  VInv' /\ DOMAIN files' \subseteq DOMAIN files
  <1>1. /\ damage \in 0..MaxDamage /\ damage < MaxDamage /\ damage' = damage + 1
        /\ spoiled' = spoiled \cup {n}
        /\ UNCHANGED <<work, handed, runs>>
    BY DEF Damage, VInv, CountersOK
  <1>2. /\ files' \in [DOMAIN files' ->
                         [holds : Seq(Entries), bytes : {"exact", "altered", "reformatted"}]]
        /\ DOMAIN files' \subseteq DOMAIN files
        /\ \A m \in DOMAIN files' : files'[m].holds = files[m].holds
        /\ \A m \in DOMAIN files \ {n} : m \in DOMAIN files' /\ files'[m] = files[m]
    <2>1. FilesOK
      BY DEF VInv
    <2>2. CASE files' = [m \in DOMAIN files \ {n} |-> files[m]]
      BY <2>1, <2>2 DEF FilesOK
    <2>3. ASSUME NEW b \in {"altered", "reformatted"}, files' = [files EXCEPT ![n].bytes = b]
          PROVE  /\ files' \in [DOMAIN files' ->
                                  [holds : Seq(Entries), bytes : {"exact", "altered", "reformatted"}]]
                 /\ DOMAIN files' = DOMAIN files
                 /\ \A m \in DOMAIN files' : files'[m].holds = files[m].holds
                 /\ \A m \in DOMAIN files \ {n} : files'[m] = files[m]
      BY <2>1, <2>3 DEF FilesOK
    <2> QED
      BY <2>2, <2>3 DEF Damage
  <1>3. FilesOK'
    BY <1>2 DEF VInv, FilesOK
  <1>4. WorkOK' /\ HandedOK'
    BY <1>1 DEF VInv, WorkOK, HandedOK
  <1>5. CountersOK'
    BY <1>1, GovernanceAssumption DEF VInv, CountersOK
  <1>6. BuriedFirst'
    BY <1>1, <1>2 DEF VInv, BuriedFirst, InGraveyard, CaseVerdict
  <1>7. HandedReportsStand'
    <2>1. ASSUME NEW r \in handed', Last(r).kind # "verdict_report", Lineage(r) \cap spoiled' = {},
                 NEW a \in Lineage(r)
          PROVE  Reads(a)'
      <3>1. WellBuilt(r) /\ Loads(r)
        BY <1>1, <2>1 DEF VInv, HandedOK, HandedReportsStand
      <3>2. Reads(a) /\ Name(a) = a /\ a # n
        BY <1>1, <2>1, <3>1, LineageHasNoReport DEF Loads
      <3> QED
        BY <1>2, <3>2 DEF Reads, Stored
    <2> QED
      BY <2>1 DEF HandedReportsStand, Loads
  <1> QED
    BY <1>2, <1>3, <1>4, <1>5, <1>6, <1>7 DEF VInv

LEMMA NextKeeps == VInv /\ [Next]_vars => VInv'
  <1> SUFFICES ASSUME VInv, [Next]_vars PROVE VInv'
    OBVIOUS
  <1>1. CASE UNCHANGED vars
    BY <1>1 DEF vars, VInv, FilesOK, WorkOK, HandedOK, CountersOK, BuriedFirst, InGraveyard,
       HandedReportsStand, Loads, Reads, Stored, CaseVerdict
  <1>2. ASSUME NEW w \in Workers, Step(w) PROVE VInv'
    BY <1>2, StepShape, StartKeeps, AdvanceKeeps, GraveyardKeeps, LookKeeps, ReplaceKeeps
  <1>3. ASSUME NEW n \in DOMAIN files, Damage(n) PROVE VInv'
    BY <1>3, DamageKeeps
  <1> QED
    BY <1>1, <1>2, <1>3 DEF Next

----------------------------------------------------------------------------
(* The theorems.                                                           *)

\* In every reachable state the files, the workers and what was handed out
\* are well-built lineages, burials precede reports, and reports stand.
THEOREM InvariantHolds == Spec => []VInv
  <1> QED
    BY InitKeeps, NextKeeps, PTL DEF Spec

\* Type correctness: every name is its record's, at its kind's depth.
THEOREM TypeCorrect == Spec => []TypeOK
  <1>1. VInv => TypeOK
    <2> SUFFICES ASSUME VInv PROVE TypeOK
      OBVIOUS
    <2>1. ASSUME NEW n \in DOMAIN files
          PROVE  /\ files[n].bytes \in {"exact", "altered", "reformatted"}
                 /\ n = Name(files[n].holds)
                 /\ Last(n).kind \in Kinds /\ Len(n) = Depth[Last(n).kind]
      <3>1. n = Name(files[n].holds) /\ WellBuilt(files[n].holds)
        BY DEF VInv, FilesOK
      <3>2. Last(n).kind = Last(files[n].holds).kind /\ Len(n) = Len(files[n].holds)
        BY <3>1, NameOf
      <3>3. Last(files[n].holds).kind \in Kinds
            /\ Len(files[n].holds) = Depth[Last(files[n].holds).kind]
        BY <3>1, KindFixesDepth
      <3>4. files[n].bytes \in {"exact", "altered", "reformatted"}
        BY DEF VInv, FilesOK
      <3> QED
        BY <3>1, <3>2, <3>3, <3>4
    <2>2. \A w \in Workers : work[w].flow \in Flows /\ work[w].looked \in BOOLEAN
      BY DEF VInv, WorkOK
    <2> QED
      BY <2>1, <2>2 DEF VInv, CountersOK, TypeOK
  <1> QED
    BY <1>1, InvariantHolds, PTL

\* The chain behind a readiness assessment, entry by entry.
LEMMA ReadinessChain ==
  ASSUME NEW r, WellBuilt(r), Len(r) >= 11
  PROVE  /\ r[1].pick \in Cases /\ CaseVerdict(r) = "validated_research_candidate"
         /\ r[3].pick \in Briefs
         /\ r[4].pick = AssessedVerdict(r)
         /\ r[6].pick = r[4].pick
         /\ r[7].pick = ReviewStatusFor(r[6].pick)
         /\ r[10].pick = r[8].pick
         /\ r[11].pick = OutcomeForSession(r[7].pick, r[10].pick)
  <1>1. Len(r) \in Nat
    BY LenProperties DEF WellBuilt
  <1>2. /\ Follows(r, 1) /\ Follows(r, 2) /\ Follows(r, 3) /\ Follows(r, 4)
        /\ Follows(r, 6) /\ Follows(r, 7) /\ Follows(r, 10) /\ Follows(r, 11)
    BY <1>1 DEF WellBuilt
  <1>3. r[1].pick \in Cases
    BY <1>2 DEF Follows
  <1>4. r[2].kind = "session" /\ r[3].pick \in Briefs
    BY <1>2 DEF Follows
  <1>5. CaseVerdict(r) = "validated_research_candidate"
    BY <1>2, <1>4 DEF Follows
  <1>6. r[4].pick = AssessedVerdict(r) /\ r[6].pick = r[4].pick
    BY <1>2 DEF Follows
  <1>7. r[7].pick = ReviewStatusFor(r[6].pick) /\ r[10].pick = r[8].pick
    BY <1>2 DEF Follows
  <1>8. r[11].pick = OutcomeForSession(r[7].pick, r[10].pick)
    BY <1>2 DEF Follows
  <1> QED
    BY <1>3, <1>4, <1>5, <1>6, <1>7, <1>8

\* A stored authorization, and a readiness that would allow one, descends
\* from a case that keeps its policy, a brief without a weak spot and a
\* review that a human marked observed, for any cases and briefs.
THEOREM AuthorityIsEarned == Spec => []AuthorityNeedsAssent
  <1>1. VInv => AuthorityNeedsAssent
    <2> SUFFICES ASSUME VInv, NEW r \in Contents,
                        \/ Last(r).kind = "authorization"
                        \/ Last(r).kind = "readiness" /\ Last(r).pick = "offline_readiness_only"
                 PROVE  LET b == BriefData[PickOf(r, "evidence")] IN
                        /\ PolicyHolds(CaseData[r[1].pick])
                        /\ b.quality = "verified" /\ b.eligible
                        /\ b.dimensions \subseteq {"available"}
                        /\ b.degradation = {"stable"}
                        /\ b.scenarios = {[calibration |-> "calibrated",
                                           decision |-> "high_evidence"]}
                        /\ PickOf(r, "disposition") = "observed"
      BY DEF AuthorityNeedsAssent
    <2>1. WellBuilt(r)
      BY DEF Contents, VInv, FilesOK
    <2>2. Len(r) = Depth[Last(r).kind] /\ Last(r) = r[Len(r)]
      BY <2>1, KindFixesDepth DEF Last
    <2>3. Len(r) >= 11 /\ r[11].pick = "offline_readiness_only"
      <3>1. CASE Last(r).kind = "authorization"
        <4>1. Len(r) = 13
          BY <2>2, <3>1 DEF Depth
        <4>2. r[13].kind = "authorization" /\ Follows(r, 13) /\ Follows(r, 12)
          BY <2>1, <2>2, <3>1, <4>1 DEF WellBuilt
        <4>3. r[12].kind = "execution_session"
          BY <4>2 DEF Follows
        <4> QED
          BY <4>1, <4>2, <4>3 DEF Follows
      <3>2. CASE Last(r).kind = "readiness" /\ Last(r).pick = "offline_readiness_only"
        BY <2>2, <3>2 DEF Depth
      <3> QED
        BY <3>1, <3>2
    <2>4. /\ r[1].pick \in Cases /\ CaseVerdict(r) = "validated_research_candidate"
          /\ r[3].pick \in Briefs
          /\ r[4].pick = AssessedVerdict(r) /\ r[6].pick = r[4].pick
          /\ r[7].pick = ReviewStatusFor(r[6].pick) /\ r[10].pick = r[8].pick
          /\ r[11].pick = OutcomeForSession(r[7].pick, r[10].pick)
      BY <2>1, <2>3, ReadinessChain
    <2>5. r[7].pick = "pending_human_review" /\ r[10].pick = "observed"
      BY <2>3, <2>4 DEF OutcomeForSession
    <2>6. AssessedVerdict(r) = "present_for_human_review"
      BY <2>4, <2>5 DEF ReviewStatusFor
    <2> DEFINE b == BriefData[r[3].pick]
    <2>7. b \in IntelligenceBrief /\ CaseData[r[1].pick] \in ValidationCase
      BY <2>4, GovernanceAssumption
    <2>8. EvaluateDecisionSupport(CaseVerdict(r), b) = "present_for_human_review"
      BY <2>6, Depths DEF AssessedVerdict
    <2> HIDE DEF b
    <2>9. /\ b.quality = "verified" /\ b.eligible
          /\ b.dimensions \subseteq {"available"}
          /\ b.degradation = {"stable"}
          /\ b.scenarios = {[calibration |-> "calibrated", decision |-> "high_evidence"]}
      BY <2>7, <2>8, PresentedIsSound
    <2>10. PolicyHolds(CaseData[r[1].pick])
      BY <2>4, <2>7, ValidatedKeepsPolicy DEF CaseVerdict
    <2>11. PickOf(r, "evidence") = r[3].pick /\ PickOf(r, "disposition") = r[8].pick
      BY Depths
    <2>12. b = BriefData[PickOf(r, "evidence")]
      BY <2>11 DEF b
    <2> QED
      BY <2>4, <2>5, <2>9, <2>10, <2>11, <2>12
  <1> QED
    BY <1>1, InvariantHolds, PTL

\* What a workflow handed out keeps loading until its lineage is damaged.
THEOREM ReportsKeepStanding == Spec => []HandedReportsStand
  <1>1. VInv => HandedReportsStand
    BY DEF VInv
  <1> QED
    BY <1>1, InvariantHolds, PTL

\* Who was told of a rejection finds it buried; only rejections are buried.
THEOREM RejectionsAreBuried == Spec => []RejectionIsBuried
  <1>1. VInv => RejectionIsBuried
    <2> SUFFICES ASSUME VInv PROVE RejectionIsBuried
      OBVIOUS
    <2>1. ASSUME NEW r \in handed, Last(r).kind = "verdict_report", CaseVerdict(r) = "rejected",
                 Append(Up(r, 1), Entry("graveyard", "failed_gates")) \notin spoiled
          PROVE  Append(Up(r, 1), Entry("graveyard", "failed_gates")) \in Contents
      <3> DEFINE e == Entry("graveyard", "failed_gates")
                 entry == <<r[1], e>>
      <3>1. WellBuilt(r) /\ InGraveyard(r)
        BY <2>1 DEF VInv, HandedOK, BuriedFirst
      <3>2. Len(r) = 2 /\ r \in Seq(Entries)
        <4>1. Len(r) = Depth[Last(r).kind]
          BY <3>1, KindFixesDepth
        <4> QED
          BY <2>1, <3>1, <4>1 DEF Depth, WellBuilt
      <3>3. Append(Up(r, 1), e) = entry
        <4>1. Len(r) > 1
          BY <3>2
        <4>2. /\ WellBuilt(Up(r, 1)) /\ Len(Up(r, 1)) = Len(r) - 1
              /\ \A j \in 1..Len(r) - 1 : Up(r, 1)[j] = r[j]
          BY <3>1, <4>1, LineageShape, Zenon
        <4>3. "graveyard" \in Kinds /\ "failed_gates" \in Picks
          BY DEF Kinds, JsonKinds, Picks, Words
        <4>4. e \in Entries
          BY <4>3, EntryTyped
        <4> HIDE DEF e
        <4>5. Up(r, 1) \in Seq(Entries) /\ Len(Up(r, 1)) = 1 /\ Up(r, 1)[1] = r[1]
          BY <3>2, <4>2 DEF WellBuilt
        <4>6. Append(Up(r, 1), e) = <<Up(r, 1)[1], e>>
          BY <4>4, <4>5, OneAppended
        <4> QED
          BY <4>5, <4>6
      <3>4. entry \in DOMAIN files
        BY <2>1, <3>1, <3>3 DEF InGraveyard
      <3>5. Last(entry).kind = "graveyard"
        BY DEF Last, Entry
      <3> HIDE DEF entry
      <3>6. entry = Name(files[entry].holds) /\ WellBuilt(files[entry].holds)
        BY <3>4 DEF VInv, FilesOK
      <3>7. Last(files[entry].holds).kind = "graveyard"
        BY <3>5, <3>6, NameOf
      <3>8. files[entry].holds = entry
        BY <3>6, <3>7, NameOf
      <3> QED
        BY <3>3, <3>4, <3>8 DEF Contents
    <2>2. ASSUME NEW r \in Contents, Last(r).kind = "graveyard"
          PROVE  CaseVerdict(r) = "rejected"
      <3>1. WellBuilt(r) /\ Len(r) \in Nat
        BY LenProperties DEF Contents, VInv, FilesOK, WellBuilt
      <3>2. Follows(r, Len(r))
        BY <3>1 DEF WellBuilt
      <3> QED
        BY <2>2, <3>2 DEF Follows, Last
    <2> QED
      BY <2>1, <2>2 DEF RejectionIsBuried
  <1> QED
    BY <1>1, InvariantHolds, PTL

\* A new file holds a validation report, or a record all of whose ancestors
\* loaded when it was written.
THEOREM RecordsStandOnVerifiedLineage == Spec => WrittenOntoVerifiedLineage
  <1> DEFINE A == \A n \in DOMAIN files' \ DOMAIN files :
                    LET r == files'[n].holds IN
                    Last(r).kind = "verdict_report" \/ \A a \in Lineage(r) \ {r} : Reads(a)
  <1>1. VInv /\ [Next]_vars => [A]_vars
    <2> SUFFICES ASSUME VInv, Next PROVE A
      OBVIOUS
    <2>1. ASSUME files' = files PROVE A
      BY <2>1
    <2>2. ASSUME NEW s, WellBuilt(s), files' = Put(s),
                 \/ Onto(s) /\ WriteAllowed(s)
                 \/ Last(s).kind = "verdict_report"
          PROVE  A
      <3>1. DOMAIN files' = DOMAIN files \cup {Name(s)} /\ files'[Name(s)].holds = s
        BY <2>2 DEF Put
      <3> QED
        BY <2>2, <3>1 DEF Onto
    <2>3. ASSUME NEW w \in Workers, Step(w) PROVE A
      <3>1. CASE Starts(w) \/ Raise(w)
        BY <2>1, <3>1 DEF Starts, Start, Raise
      <3>2. CASE Advances(w)
        BY <2>2, <3>2 DEF Advances, Writes, Onto
      <3>3. CASE RecordGraveyardEntry(w) /\ ~Raise(w)
        BY <2>2, <3>3, GraveyardKeeps DEF RecordGraveyardEntry, Onto
      <3>4. CASE LookForValidationReport(w) /\ ~Raise(w)
        BY <2>1, <3>4, LookKeeps
      <3>5. CASE ReplaceValidationReport(w)
        BY <2>2, <3>5, ReplaceKeeps
      <3> QED
        BY <2>3, <3>1, <3>2, <3>3, <3>4, <3>5, StepShape
    <2>4. ASSUME NEW n \in DOMAIN files, Damage(n) PROVE A
      <3>1. DOMAIN files' \subseteq DOMAIN files
        BY <2>4, DamageKeeps
      <3> QED
        BY <3>1
    <2> QED
      BY <2>3, <2>4 DEF Next
  <1> QED
    BY <1>1, InvariantHolds, PTL DEF Spec, WrittenOntoVerifiedLineage
=============================================================================
