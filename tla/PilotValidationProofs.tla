------------------------ MODULE PilotValidationProofs ------------------------
(***************************************************************************)
(* What Phase 7 evidence promises, for any number of workers, dates and    *)
(* authorizations, however calls overlap, die or are repeated: one         *)
(* observation per date, reports that stand, and readiness that is earned. *)
(*                                                                         *)
(* None of the three is inductive.  PInv adds what a guard file says, that *)
(* whoever fills one is alone at it, and what a reporting call has listed. *)
(* Every store only grows (Grows): that carries each fact about stored     *)
(* evidence over a step.                                                   *)
(***************************************************************************)
EXTENDS PilotValidation, FiniteSetTheorems, TLAPS

Dispositions == Submitted \cup LookedUp
Observations == [date : Dates, outcome : (Authorizations \X Nat) \cup {None}, incident : BOOLEAN]
Safeties == [date : ProbeDates, failed : SUBSET {"probe"}]

\* Phase 6: chains of at most two outcomes; a report names one of them.
ChainOK ==
  /\ chain \in [Authorizations -> Seq(Dispositions)]
  /\ \A a \in Authorizations : Len(chain[a]) <= 2
  /\ executions \subseteq Authorizations \X Nat
  /\ \A e \in executions : e[2] \in 1..Len(chain[e[1]])

\* A guard file is absent, empty, or names an observation of its date.
GuardOK ==
  /\ DOMAIN guard = Dates
  /\ \A d \in Dates : \/ guard[d] \in {Free, Empty}
                      \/ \E p \in Observations : p.date = d /\ guard[d] = Claimed(p)

\* What is stored loads.
StoredOK ==
  /\ IsFiniteSet(pilots) /\ pilots \subseteq Observations
  /\ \A p \in pilots : LoadPilot(p)
  /\ IsFiniteSet(safeties) /\ safeties \subseteq Safeties
  /\ \A s \in safeties : LoadSafety(s)

\* An assessment a of a call that looked at the store when it held `before`.
Covers(a, before, subject) ==
  /\ a.observed \subseteq pilots /\ a.tested \subseteq safeties
  /\ a = EvaluateRecords(a.observed, a.tested)
  /\ before \subseteq a.observed \cup a.tested /\ a.tested \subseteq before
  /\ subject # None => subject \in a.observed

\* A call under way, by its stage.
CallOK(r) ==
  /\ r = [stage |-> r.stage, subject |-> r.subject, seen |-> r.seen, before |-> r.before]
  /\ r.stage \in Stages
  /\ r.stage \in {"session", "claim", "fill", "pilot"} => r.subject \in Observations
  /\ r.stage = "session" /\ ~Abstained(r.subject) => LoadExecutionReport(r.subject.outcome)
  /\ r.stage \in {"claim", "fill", "pilot"} => LineageLoads(r.subject)
  /\ r.stage = "fill" => guard[r.subject.date] = Empty
  /\ r.stage = "pilot" => guard[r.subject.date] = Claimed(r.subject)
  /\ r.stage \in {"safety_session", "safety"} => r.subject \in Safeties
  /\ r.stage = "safety" => SessionOf("synthetic", r.subject.date) \in sessions
  /\ r.stage \in {"assess", "pilots"} => r.subject = None \/ r.subject \in pilots
  /\ r.stage = "pilots" => /\ r.seen \subseteq safeties /\ r.seen \subseteq r.before
                           /\ r.before \subseteq pilots \cup r.seen
  /\ r.stage \in {"assessment", "report"} => Covers(r.seen, r.before, r.subject)
  /\ r.stage = "report" => r.seen \in assessments

CallsOK == DOMAIN work = Workers /\ \A w \in Workers : CallOK(work[w])

\* An empty guard is filled by the worker that created it and no other.
SoleFiller ==
  \A v, w \in Workers :
    work[v].stage = "fill" /\ work[w].stage = "fill"
      /\ work[v].subject.date = work[w].subject.date => v = w

HandedOK ==
  \A h \in handed : /\ Covers(h.report, h.before, h.subject)
                    /\ h.report \in assessments /\ h.report \in reports

PInv == ChainOK /\ GuardOK /\ StoredOK /\ CallsOK /\ SoleFiller /\ HandedOK
        /\ starts \in 0..MaxStarts /\ crashes \in 0..MaxCrashes

\* The stores as a step leaves them: everything stored before it is kept.
Grows ==
  /\ \A a \in Authorizations : /\ Len(chain[a]) <= Len(chain'[a])
                               /\ \A i \in 1..Len(chain[a]) : chain'[a][i] = chain[a][i]
  /\ executions \subseteq executions' /\ sessions \subseteq sessions'
  /\ pilots \subseteq pilots' /\ safeties \subseteq safeties'
  /\ assessments \subseteq assessments' /\ reports \subseteq reports'
  /\ \A d \in Dates, p \in Observations : guard[d] = Claimed(p) => guard'[d] = Claimed(p)

-----------------------------------------------------------------------------
\* A guard file names one observation only.
LEMMA ClaimIsExact == \A p, q : Claimed(p) = Claimed(q) => p = q
  <1> SUFFICES ASSUME NEW p, NEW q, Claimed(p) = Claimed(q) PROVE p = q
    OBVIOUS
  <1>1. Claimed(p).names = {p} /\ Claimed(q).names = {q}
    BY DEF Claimed
  <1> QED
    BY <1>1

(***************************************************************************)
(* Growing stores keep what is true of stored evidence.                    *)
(***************************************************************************)

\* A report file that loads keeps loading, and attests the same outcome.
LEMMA ReportKept ==
  ASSUME PInv, Grows, NEW e, LoadExecutionReport(e)
  PROVE  /\ LoadExecutionReport(e)'
         /\ e[1] \in Authorizations /\ e[2] \in 1..Len(chain[e[1]])
         /\ chain'[e[1]][e[2]] = chain[e[1]][e[2]]
  <1>1. e \in executions /\ e[1] \in Authorizations /\ e[2] \in Nat /\ e[2] \in 1..Len(chain[e[1]])
    BY DEF PInv, ChainOK, LoadExecutionReport
  <1>2. chain[e[1]] \in Seq(Dispositions)
    BY <1>1 DEF PInv, ChainOK
  <1>3. Len(chain[e[1]]) \in Nat
    BY <1>2
  <1>4. /\ e \in executions' /\ Len(chain[e[1]]) <= Len(chain'[e[1]])
        /\ \A i \in 1..Len(chain[e[1]]) : chain'[e[1]][i] = chain[e[1]][i]
    BY <1>1 DEF Grows
  <1>5. chain'[e[1]][e[2]] = chain[e[1]][e[2]]
    BY <1>1, <1>4
  <1>6. e[2] <= Len(chain'[e[1]])
    BY <1>1, <1>3, <1>4 DEF PInv, ChainOK, LoadExecutionReport, Grows
  <1> QED
    BY <1>1, <1>4, <1>5, <1>6 DEF LoadExecutionReport

LEMMA LineageKept ==
  ASSUME PInv, Grows, NEW p, LineageLoads(p)
  PROVE  LineageLoads(p)'
  BY ReportKept DEF LineageLoads, Grows, Abstained

LEMMA PilotKept ==
  ASSUME PInv, Grows, NEW p, LoadPilot(p)
  PROVE  LoadPilot(p)'
  <1>1. p \in pilots /\ p \in Observations /\ p.date \in Dates /\ guard[p.date] = Claimed(p)
    BY DEF PInv, StoredOK, LoadPilot, Observations
  <1>2. guard'[p.date] = Claimed(p) /\ p \in pilots'
    BY <1>1 DEF Grows
  <1> QED
    BY <1>1, <1>2, LineageKept DEF LoadPilot, Claimed

LEMMA SafetyKept ==
  ASSUME Grows, NEW s, LoadSafety(s)
  PROVE  LoadSafety(s)'
  BY DEF Grows, LoadSafety

\* An assessment counts the same however much is stored after it.
LEMMA EvaluationKept ==
  ASSUME PInv, Grows, NEW ps, ps \subseteq pilots, NEW ss
  PROVE  EvaluateRecords(ps, ss)' = EvaluateRecords(ps, ss)
  <1>1. ASSUME NEW p \in ps, ~Abstained(p)
        PROVE  Disposition(p)' = Disposition(p)
    <2>1. LoadExecutionReport(p.outcome)
      BY <1>1 DEF PInv, StoredOK, LoadPilot, LineageLoads
    <2> QED
      BY <2>1, ReportKept DEF Disposition
  <1>2. \A p \in ps : AcceptedOrder(p)' = AcceptedOrder(p)
    BY <1>1 DEF AcceptedOrder, Abstained
  <1>3. \A p \in ps : UnresolvedUnknown(p)' = UnresolvedUnknown(p)
    BY <1>1 DEF UnresolvedUnknown, Abstained
  <1>4. /\ {p \in ps : AcceptedOrder(p)'} = {p \in ps : AcceptedOrder(p)}
        /\ {p \in ps : UnresolvedUnknown(p)'} = {p \in ps : UnresolvedUnknown(p)}
    BY <1>2, <1>3
  <1> QED
    BY <1>4 DEF EvaluateRecords, Abstained, Passed, Count

LEMMA CoversKept ==
  ASSUME PInv, Grows, NEW a, NEW before, NEW subject, Covers(a, before, subject)
  PROVE  Covers(a, before, subject)'
  <1>1. a.observed \subseteq pilots' /\ a.tested \subseteq safeties'
    BY DEF Covers, Grows
  <1>2. EvaluateRecords(a.observed, a.tested)' = EvaluateRecords(a.observed, a.tested)
    BY EvaluationKept DEF Covers
  <1> QED
    BY <1>1, <1>2 DEF Covers

\* A call is left as well off as it was, unless its empty guard is filled.
LEMMA CallKept ==
  ASSUME PInv, Grows, NEW r, CallOK(r),
         r.stage = "fill" => guard'[r.subject.date] = Empty
  PROVE  CallOK(r)'
  <1>1. r.stage = "session" /\ ~Abstained(r.subject) => LoadExecutionReport(r.subject.outcome)'
    BY ReportKept DEF CallOK, Abstained
  <1>2. r.stage \in {"claim", "fill", "pilot"} => LineageLoads(r.subject)'
    BY LineageKept DEF CallOK
  <1>3. r.stage = "pilot" => guard'[r.subject.date] = Claimed(r.subject)
    BY DEF CallOK, Grows, Observations
  <1>4. r.stage \in {"assessment", "report"} => Covers(r.seen, r.before, r.subject)'
    BY CoversKept DEF CallOK
  <1>5. /\ r.stage = "safety" => SessionOf("synthetic", r.subject.date) \in sessions'
        /\ r.stage \in {"assess", "pilots"} => r.subject = None \/ r.subject \in pilots'
        /\ r.stage = "pilots" => r.seen \subseteq safeties' /\ r.before \subseteq pilots' \cup r.seen
        /\ r.stage = "report" => r.seen \in assessments'
    BY DEF CallOK, Grows
  <1> QED
    BY <1>1, <1>2, <1>3, <1>4, <1>5 DEF CallOK, Claimed, Abstained

LEMMA HandedKept ==
  ASSUME PInv, Grows, UNCHANGED handed
  PROVE  HandedOK'
  BY CoversKept DEF PInv, HandedOK, Grows

-----------------------------------------------------------------------------
(***************************************************************************)
(* What a step does to the calls.                                          *)
(***************************************************************************)

LEMMA Moved ==
  ASSUME PInv, NEW w \in Workers, NEW s, Go(w, s)
  PROVE  /\ DOMAIN work' = Workers /\ \A v \in Workers \ {w} : work'[v] = work[v]
         /\ work'[w] = [stage |-> s, subject |-> work[w].subject, seen |-> work[w].seen,
                        before |-> work[w].before]
  BY DEF PInv, CallsOK, CallOK, Go

LEMMA Ended ==
  ASSUME PInv, NEW w \in Workers, Finish(w)
  PROVE  /\ DOMAIN work' = Workers /\ \A v \in Workers \ {w} : work'[v] = work[v]
         /\ work'[w] = Idle /\ CallOK(work[w])'
  BY DEF PInv, CallsOK, CallOK, Finish, Idle, Stages

\* One call moves and the empty guards of the others stay as they are.
LEMMA OthersKept ==
  ASSUME PInv, Grows, NEW w \in Workers,
         DOMAIN work' = Workers, \A v \in Workers \ {w} : work'[v] = work[v],
         \A v \in Workers \ {w} : work[v].stage = "fill" => guard'[work[v].subject.date] = Empty,
         CallOK(work[w])'
  PROVE  CallsOK'
  <1>1. ASSUME NEW v \in Workers PROVE CallOK(work[v])'
    <2>1. CASE v = w
      BY <2>1
    <2>2. CASE v # w
      <3>1. PICK r : r = work[v]
        OBVIOUS
      <3>2. CallOK(r) /\ (r.stage = "fill" => guard'[r.subject.date] = Empty) /\ r = work'[v]
        BY <2>2, <3>1 DEF PInv, CallsOK
      <3>3. CallOK(r)'
        BY <3>2, CallKept
      <3> QED
        BY <3>2, <3>3
    <2> QED
      BY <2>1, <2>2
  <1> QED
    BY <1>1 DEF CallsOK

\* The same for a call that fills no guard, in a step that touches none.
LEMMA GuardsKept ==
  ASSUME PInv, Grows, NEW w \in Workers,
         DOMAIN work' = Workers, \A v \in Workers \ {w} : work'[v] = work[v],
         UNCHANGED guard, CallOK(work[w])', work'[w].stage # "fill"
  PROVE  CallsOK' /\ SoleFiller' /\ GuardOK'
  <1>1. \A v \in Workers \ {w} : work[v].stage = "fill" => guard'[work[v].subject.date] = Empty
    BY DEF PInv, CallsOK, CallOK
  <1>2. CallsOK'
    BY <1>1, OthersKept
  <1>3. SoleFiller'
    BY DEF PInv, SoleFiller
  <1>4. GuardOK'
    BY DEF PInv, GuardOK
  <1> QED
    BY <1>2, <1>3, <1>4

\* Nothing stored: every store grows by nothing.
LEMMA NothingStored ==
  ASSUME PInv, UNCHANGED <<phase6, store>>
  PROVE  Grows /\ ChainOK' /\ StoredOK'
  <1>1. ChainOK'
    BY DEF PInv, ChainOK, phase6
  <1>2. Grows
    BY DEF PInv, ChainOK, Grows, phase6, store
  <1>3. StoredOK'
    <2>1. \A p \in pilots' : LoadPilot(p)'
      BY <1>2, PilotKept DEF PInv, StoredOK, store
    <2>2. \A s \in safeties' : LoadSafety(s)'
      BY <1>2, SafetyKept DEF PInv, StoredOK, store
    <2> QED
      BY <2>1, <2>2 DEF PInv, StoredOK, store
  <1> QED
    BY <1>1, <1>2, <1>3

\* Phase 6 untouched and no new evidence: what is stored still loads.
LEMMA EvidenceKept ==
  ASSUME PInv, Grows, UNCHANGED <<pilots, safeties>>
  PROVE  StoredOK'
  <1>1. \A p \in pilots' : LoadPilot(p)'
    BY PilotKept DEF PInv, StoredOK
  <1>2. \A s \in safeties' : LoadSafety(s)'
    BY SafetyKept DEF PInv, StoredOK
  <1> QED
    BY <1>1, <1>2 DEF PInv, StoredOK

-----------------------------------------------------------------------------
(***************************************************************************)
(* Each step keeps PInv.                                                   *)
(***************************************************************************)

LEMMA InitPInv == Init => PInv
  <1> SUFFICES ASSUME Init PROVE PInv
    OBVIOUS
  <1>1. ChainOK
    BY DEF Init, ChainOK
  <1>2. GuardOK
    BY DEF Init, GuardOK
  <1>3. StoredOK
    BY FS_EmptySet DEF Init, StoredOK
  <1>4. CallsOK /\ SoleFiller
    BY DEF Init, CallsOK, CallOK, SoleFiller, Idle, Stages
  <1>5. HandedOK
    BY DEF Init, HandedOK
  <1>6. starts \in 0..MaxStarts /\ crashes \in 0..MaxCrashes
    BY PilotAssumption DEF Init, PilotAssumption
  <1> QED
    BY <1>1, <1>2, <1>3, <1>4, <1>5, <1>6 DEF PInv

LEMMA Phase6Step ==
  ASSUME PInv, NEW a \in Authorizations, RecordOutcome(a) \/ WriteExecutionReport(a)
  PROVE  Grows /\ PInv'
  <1>1. /\ chain[a] \in Seq(Dispositions) /\ Len(chain[a]) \in Nat
        /\ \A i \in 1..Len(chain[a]) : chain[a][i] \in Dispositions
    BY DEF PInv, ChainOK
  <1>2. ChainOK' /\ Grows
    <2>1. CASE chain[a] = <<>> /\ (\E d \in Submitted : chain' = [chain EXCEPT ![a] = <<d>>])
                 /\ UNCHANGED <<executions, store>>
      <3>1. PICK d \in Dispositions : chain' = [chain EXCEPT ![a] = <<d>>]
        BY <2>1 DEF Dispositions
      <3>2. \A e \in executions : e[1] \in Authorizations /\ e[1] # a
        BY <2>1 DEF PInv, ChainOK
      <3>3. ChainOK'
        BY <2>1, <3>1, <3>2 DEF PInv, ChainOK
      <3>4. Grows
        BY <2>1, <3>1 DEF PInv, ChainOK, Grows, store
      <3> QED
        BY <3>3, <3>4
    <2>2. CASE chain[a] = <<"submission_unknown">>
                 /\ (\E d \in LookedUp : chain' = [chain EXCEPT ![a] = Append(@, d)])
                 /\ UNCHANGED <<executions, store>>
      <3>1. PICK d \in Dispositions : chain' = [chain EXCEPT ![a] = Append(@, d)]
        BY <2>2 DEF Dispositions
      <3>2. Len(chain[a]) = 1 /\ chain'[a] = Append(chain[a], d) /\ chain'[a] \in Seq(Dispositions)
            /\ Len(chain'[a]) = 2
            /\ \A b \in Authorizations : b # a => chain'[b] = chain[b]
        BY <1>1, <2>2, <3>1 DEF PInv, ChainOK
      <3>3. ChainOK'
        BY <2>2, <3>1, <3>2 DEF PInv, ChainOK
      <3>4. Grows
        <4>1. \A b \in Authorizations : Len(chain[b]) <= Len(chain'[b])
                /\ \A i \in 1..Len(chain[b]) : chain'[b][i] = chain[b][i]
          BY <1>1, <3>2 DEF PInv, ChainOK
        <4> QED
          BY <2>2, <4>1 DEF Grows, store
      <3> QED
        BY <3>3, <3>4
    <2>3. CASE chain[a] # <<>> /\ executions' = executions \cup {<<a, Len(chain[a])>>}
                 /\ UNCHANGED <<chain, store>>
      <3>1. Len(chain[a]) \in 1..Len(chain[a])
        BY <1>1, <2>3
      <3>2. ChainOK'
        BY <1>1, <2>3, <3>1 DEF PInv, ChainOK
      <3>3. Grows
        BY <2>3 DEF PInv, ChainOK, Grows, store
      <3> QED
        BY <3>2, <3>3
    <2> QED
      BY <2>1, <2>2, <2>3 DEF RecordOutcome, WriteExecutionReport
  <1>3. UNCHANGED <<store, work, starts, crashes, handed>>
    BY DEF RecordOutcome, WriteExecutionReport
  <1>4. StoredOK' /\ GuardOK'
    BY <1>2, <1>3, EvidenceKept DEF store, PInv, GuardOK
  <1>5. CallsOK'
    <2>1. ASSUME NEW r, CallOK(r) PROVE CallOK(r)'
      BY <1>2, <1>3, <2>1, CallKept DEF store, CallOK
    <2> QED
      BY <1>3, <2>1 DEF PInv, CallsOK
  <1>6. SoleFiller' /\ HandedOK'
    BY <1>2, <1>3, HandedKept DEF PInv, SoleFiller
  <1> QED
    BY <1>2, <1>3, <1>4, <1>5, <1>6 DEF PInv

\* A call begins, for an observation, a probe or a report of its own.
LEMMA StartStep ==
  ASSUME PInv, NEW w \in Workers, Observe(w) \/ Probe(w) \/ StartReport(w)
  PROVE  Grows /\ PInv'
  <1>1. PICK stage, subject : Start(w, stage, subject)
    BY DEF Observe, Probe, StartReport
  <1>2. UNCHANGED <<phase6, store, crashes, handed>> /\ starts' \in 0..MaxStarts
    BY <1>1, PilotAssumption DEF Start, PInv, PilotAssumption
  <1>3. Grows /\ ChainOK' /\ StoredOK' /\ HandedOK'
    BY <1>2, NothingStored, HandedKept
  <1>4. DOMAIN work' = Workers /\ \A v \in Workers \ {w} : work'[v] = work[v]
    BY <1>1 DEF Start, PInv, CallsOK
  <1>5. CallOK(work[w])' /\ work'[w].stage # "fill"
    <2>1. CASE Observe(w)
      <3>1. PICK date \in Dates, incident \in BOOLEAN, e \in executions \cup {None} :
              /\ e # None => LoadExecutionReport(e)
              /\ Start(w, "session", Observation(date, e, incident))
        BY <2>1 DEF Observe
      <3>2. work'[w] = [stage |-> "session", subject |-> Observation(date, e, incident),
                        seen |-> {}, before |-> {}]
        BY <3>1 DEF Start, Idle, PInv, CallsOK
      <3>3. Observation(date, e, incident) \in Observations
            /\ Observation(date, e, incident).outcome = e
        BY <3>1 DEF Observation, Observations, PInv, ChainOK
      <3>4. ~Abstained(Observation(date, e, incident)) => LoadExecutionReport(e)'
        BY <1>2, <3>1, <3>3 DEF Abstained, LoadExecutionReport, phase6
      <3> QED
        BY <3>2, <3>3, <3>4 DEF CallOK, Stages, Abstained
    <2>2. CASE Probe(w)
      <3>1. PICK date \in ProbeDates, failed \in SUBSET {"probe"} :
              Start(w, "safety_session", Safety(date, failed))
        BY <2>2 DEF Probe
      <3>2. work'[w] = [stage |-> "safety_session", subject |-> Safety(date, failed),
                        seen |-> {}, before |-> {}]
        BY <3>1 DEF Start, Idle, PInv, CallsOK
      <3>3. Safety(date, failed) \in Safeties
        BY <3>1 DEF Safety, Safeties
      <3> QED
        BY <3>2, <3>3 DEF CallOK, Stages
    <2>3. CASE StartReport(w)
      BY <2>3 DEF StartReport, Start, Idle, PInv, CallsOK, CallOK, Stages
    <2> QED
      BY <2>1, <2>2, <2>3
  <1>6. CallsOK' /\ SoleFiller' /\ GuardOK'
    BY <1>2, <1>3, <1>4, <1>5, GuardsKept DEF store
  <1> QED
    BY <1>2, <1>3, <1>6 DEF PInv

LEMMA RecordSessionStep ==
  ASSUME PInv, NEW w \in Workers, RecordSession(w) \/ RecordSafetySession(w)
  PROVE  Grows /\ PInv'
  <1>1. /\ UNCHANGED <<phase6, guard, pilots, safeties, assessments, reports, starts, crashes, handed>>
        /\ sessions \subseteq sessions'
    BY DEF RecordSession, RecordSafetySession
  <1>2. Grows /\ ChainOK'
    BY <1>1 DEF PInv, ChainOK, Grows, phase6
  <1>3. StoredOK' /\ HandedOK'
    BY <1>1, <1>2, EvidenceKept, HandedKept
  <1>4. /\ DOMAIN work' = Workers /\ \A v \in Workers \ {w} : work'[v] = work[v]
        /\ CallOK(work[w])' /\ work'[w].stage # "fill"
    <2> DEFINE p == work[w].subject
    <2>1. CASE RecordSession(w)
      <3>1. /\ DOMAIN work' = Workers /\ \A v \in Workers \ {w} : work'[v] = work[v]
            /\ work'[w] = [stage |-> "claim", subject |-> p, seen |-> work[w].seen,
                           before |-> work[w].before]
        BY <2>1, Moved DEF RecordSession
      <3>2. /\ p \in Observations /\ (~Abstained(p) => LoadExecutionReport(p.outcome))
            /\ SessionOf("paper_broker", p.date) \in sessions'
        BY <2>1 DEF RecordSession, PInv, CallsOK, CallOK
      <3>3. PICK q : q = p
        OBVIOUS
      <3>4. LineageLoads(q)'
        BY <1>2, <3>2, <3>3, ReportKept DEF LineageLoads, Abstained
      <3> QED
        BY <3>1, <3>2, <3>3, <3>4 DEF CallOK, Stages
    <2>2. CASE RecordSafetySession(w)
      <3>1. /\ DOMAIN work' = Workers /\ \A v \in Workers \ {w} : work'[v] = work[v]
            /\ work'[w] = [stage |-> "safety", subject |-> p, seen |-> work[w].seen,
                           before |-> work[w].before]
        BY <2>2, Moved DEF RecordSafetySession
      <3>2. p \in Safeties /\ SessionOf("synthetic", p.date) \in sessions'
        BY <2>2 DEF RecordSafetySession, PInv, CallsOK, CallOK
      <3> QED
        BY <3>1, <3>2 DEF CallOK, Stages
    <2> QED
      BY <2>1, <2>2
  <1>5. CallsOK' /\ SoleFiller' /\ GuardOK'
    BY <1>1, <1>2, <1>4, GuardsKept
  <1> QED
    BY <1>1, <1>2, <1>3, <1>5 DEF PInv

\* Only who creates the guard, or finds it naming its own observation, goes on.
LEMMA ClaimDayStep ==
  ASSUME PInv, NEW w \in Workers, ClaimDay(w)
  PROVE  Grows /\ PInv'
  <1> DEFINE p == work[w].subject
  <1>1. p \in Observations /\ p.date \in Dates /\ LineageLoads(p)
    BY DEF ClaimDay, PInv, CallsOK, CallOK, Observations
  <1>2. UNCHANGED <<phase6, sessions, pilots, safeties, assessments, reports, starts, crashes, handed>>
    BY DEF ClaimDay
  <1>3. CASE guard[p.date] = Free
    <2>1. /\ guard' = [guard EXCEPT ![p.date] = Empty] /\ Go(w, "fill")
      BY <1>1, <1>3 DEF ClaimDay
    <2>2. guard'[p.date] = Empty /\ \A d \in Dates \ {p.date} : guard'[d] = guard[d]
      BY <1>1, <2>1 DEF PInv, GuardOK
    <2>3. GuardOK'
      BY <1>1, <2>1, <2>2 DEF PInv, GuardOK
    <2>4. ChainOK' /\ Grows
      BY <1>2, <1>3, <2>2 DEF PInv, ChainOK, Grows, phase6, Free, Claimed
    <2>5. /\ DOMAIN work' = Workers /\ \A v \in Workers \ {w} : work'[v] = work[v]
          /\ work'[w] = [stage |-> "fill", subject |-> p, seen |-> work[w].seen,
                         before |-> work[w].before]
      BY <2>1, Moved
    <2>6. \A v \in Workers : work[v].stage = "fill" =>
            work[v].subject.date \in Dates /\ guard[work[v].subject.date] = Empty
      BY DEF PInv, CallsOK, CallOK, Observations
    <2>7. \A v \in Workers : work[v].stage = "fill" => work[v].subject.date # p.date
      BY <1>3, <2>6 DEF Free, Empty
    <2>8. \A v \in Workers \ {w} : work[v].stage = "fill" => guard'[work[v].subject.date] = Empty
      BY <2>2, <2>6
    <2>9. CallOK(work[w])'
      <3>1. PICK q : q = p
        OBVIOUS
      <3>2. LineageLoads(q)'
        BY <1>1, <2>4, <3>1, LineageKept
      <3> QED
        BY <1>1, <2>2, <2>5, <3>1, <3>2 DEF CallOK, Stages
    <2>10. CallsOK'
      BY <2>4, <2>5, <2>8, <2>9, OthersKept
    <2>11. SoleFiller'
      BY <2>5, <2>7 DEF PInv, SoleFiller
    <2>12. StoredOK' /\ HandedOK'
      BY <1>2, <2>4, EvidenceKept, HandedKept
    <2> QED
      BY <1>2, <2>3, <2>4, <2>10, <2>11, <2>12 DEF PInv
  <1>4. CASE guard[p.date] # Free
    <2>1. UNCHANGED guard /\ IF guard[p.date] = Claimed(p) THEN Go(w, "pilot") ELSE Finish(w)
      BY <1>1, <1>4 DEF ClaimDay
    <2>2. Grows /\ ChainOK' /\ StoredOK' /\ HandedOK'
      BY <1>2, <2>1, NothingStored, HandedKept DEF store
    <2>3. /\ DOMAIN work' = Workers /\ \A v \in Workers \ {w} : work'[v] = work[v]
          /\ CallOK(work[w])' /\ work'[w].stage # "fill"
      <3>1. CASE guard[p.date] = Claimed(p)
        <4>1. /\ DOMAIN work' = Workers /\ \A v \in Workers \ {w} : work'[v] = work[v]
              /\ work'[w] = [stage |-> "pilot", subject |-> p, seen |-> work[w].seen,
                             before |-> work[w].before]
          BY <2>1, <3>1, Moved
        <4>2. PICK q : q = p
          OBVIOUS
        <4>3. LineageLoads(q)' /\ Claimed(q)' = Claimed(q)
          BY <1>1, <2>2, <4>2, LineageKept DEF Claimed
        <4> QED
          BY <1>1, <2>1, <3>1, <4>1, <4>2, <4>3 DEF CallOK, Stages
      <3>2. CASE guard[p.date] # Claimed(p)
        BY <2>1, <3>2, Ended DEF Idle
      <3> QED
        BY <3>1, <3>2
    <2>4. CallsOK' /\ SoleFiller' /\ GuardOK'
      BY <2>1, <2>2, <2>3, GuardsKept
    <2> QED
      BY <1>2, <2>2, <2>4 DEF PInv
  <1> QED
    BY <1>3, <1>4

LEMMA FillGuardStep ==
  ASSUME PInv, NEW w \in Workers, FillGuard(w)
  PROVE  Grows /\ PInv'
  <1> DEFINE p == work[w].subject
  <1>1. /\ p \in Observations /\ p.date \in Dates /\ LineageLoads(p)
        /\ work[w].stage = "fill" /\ guard[p.date] = Empty
    BY DEF FillGuard, PInv, CallsOK, CallOK, Observations
  <1>2. UNCHANGED <<phase6, sessions, pilots, safeties, assessments, reports, starts, crashes, handed>>
    BY DEF FillGuard
  <1>3. guard'[p.date] = Claimed(p) /\ \A d \in Dates \ {p.date} : guard'[d] = guard[d]
    BY <1>1 DEF FillGuard, PInv, GuardOK
  <1>4. GuardOK'
    BY ZenonT(30), <1>1, <1>3 DEF FillGuard, PInv, GuardOK, Claimed
  <1>5. ChainOK' /\ Grows
    <2>1. \A d \in Dates, q \in Observations : guard[d] = Claimed(q) => guard'[d] = Claimed(q)
      BY <1>1, <1>3 DEF Empty, Claimed
    <2> QED
      BY <1>2, <2>1 DEF PInv, ChainOK, Grows, phase6
  <1>6. /\ DOMAIN work' = Workers /\ \A v \in Workers \ {w} : work'[v] = work[v]
        /\ work'[w] = [stage |-> "pilot", subject |-> p, seen |-> work[w].seen,
                       before |-> work[w].before]
    BY Moved DEF FillGuard
  <1>7. \A v \in Workers \ {w} : work[v].stage = "fill" => guard'[work[v].subject.date] = Empty
    <2>1. \A v \in Workers \ {w} : work[v].stage = "fill" =>
            work[v].subject.date \in Dates /\ guard[work[v].subject.date] = Empty
      BY DEF PInv, CallsOK, CallOK, Observations
    <2>2. \A v \in Workers \ {w} : work[v].stage = "fill" => work[v].subject.date # p.date
      BY <1>1 DEF PInv, SoleFiller
    <2> QED
      BY <2>1, <2>2, <1>3
  <1>8. CallOK(work[w])'
    <2>1. PICK q : q = p
      OBVIOUS
    <2>2. LineageLoads(q)' /\ Claimed(q)' = Claimed(q)
      BY <1>1, <1>5, <2>1, LineageKept DEF Claimed
    <2> QED
      BY <1>1, <1>3, <1>6, <2>1, <2>2 DEF CallOK, Stages
  <1>9. CallsOK'
    BY <1>5, <1>6, <1>7, <1>8, OthersKept
  <1>10. SoleFiller'
    BY <1>6 DEF PInv, SoleFiller
  <1>11. StoredOK' /\ HandedOK'
    BY <1>2, <1>5, EvidenceKept, HandedKept
  <1> QED
    BY <1>2, <1>4, <1>5, <1>9, <1>10, <1>11 DEF PInv

\* The guard names the observation that is stored.
LEMMA RecordPilotStep ==
  ASSUME PInv, NEW w \in Workers, RecordPilot(w)
  PROVE  Grows /\ PInv'
  <1>1. PICK p : p = work[w].subject
    OBVIOUS
  <1>2. p \in Observations /\ LineageLoads(p) /\ guard[p.date] = Claimed(p)
    BY <1>1 DEF RecordPilot, PInv, CallsOK, CallOK
  <1>3. /\ UNCHANGED <<phase6, sessions, guard, safeties, assessments, reports, starts, crashes, handed>>
        /\ pilots' = pilots \cup {p}
    BY <1>1 DEF RecordPilot
  <1>4. ChainOK' /\ Grows
    BY <1>3 DEF PInv, ChainOK, Grows, phase6
  <1>5. LoadPilot(p)'
    BY <1>2, <1>3, <1>4, LineageKept DEF LoadPilot, Claimed
  <1>6. StoredOK'
    <2>1. IsFiniteSet(pilots') /\ pilots' \subseteq Observations
      BY <1>2, <1>3, FS_AddElement DEF PInv, StoredOK
    <2>2. \A q \in pilots' : LoadPilot(q)'
      BY <1>3, <1>4, <1>5, PilotKept DEF PInv, StoredOK
    <2>3. \A s \in safeties' : LoadSafety(s)'
      BY <1>3, <1>4, SafetyKept DEF PInv, StoredOK
    <2> QED
      BY <1>3, <2>1, <2>2, <2>3 DEF PInv, StoredOK
  <1>7. HandedOK'
    BY <1>3, <1>4, HandedKept
  <1>8. /\ DOMAIN work' = Workers /\ \A v \in Workers \ {w} : work'[v] = work[v]
        /\ work'[w] = [stage |-> "assess", subject |-> p, seen |-> work[w].seen,
                       before |-> work[w].before]
    BY <1>1, Moved DEF RecordPilot
  <1>9. CallOK(work[w])'
    BY <1>3, <1>8 DEF CallOK, Stages
  <1>10. CallsOK' /\ SoleFiller' /\ GuardOK'
    BY <1>3, <1>4, <1>8, <1>9, GuardsKept
  <1> QED
    BY <1>3, <1>4, <1>6, <1>7, <1>10 DEF PInv

LEMMA RecordSafetyStep ==
  ASSUME PInv, NEW w \in Workers, RecordSafety(w)
  PROVE  Grows /\ PInv'
  <1>1. PICK s : s = work[w].subject
    OBVIOUS
  <1>2. s \in Safeties /\ SessionOf("synthetic", s.date) \in sessions
    BY <1>1 DEF RecordSafety, PInv, CallsOK, CallOK
  <1>3. /\ UNCHANGED <<phase6, sessions, guard, pilots, assessments, reports, starts, crashes, handed>>
        /\ safeties' = safeties \cup {s}
    BY <1>1 DEF RecordSafety
  <1>4. ChainOK' /\ Grows
    BY <1>3 DEF PInv, ChainOK, Grows, phase6
  <1>5. StoredOK'
    <2>1. IsFiniteSet(safeties') /\ safeties' \subseteq Safeties
      BY <1>2, <1>3, FS_AddElement DEF PInv, StoredOK
    <2>2. \A q \in pilots' : LoadPilot(q)'
      BY <1>3, <1>4, PilotKept DEF PInv, StoredOK
    <2>3. \A t \in safeties' : LoadSafety(t)'
      BY <1>2, <1>3, <1>4, SafetyKept DEF PInv, StoredOK, LoadSafety
    <2> QED
      BY <1>3, <2>1, <2>2, <2>3 DEF PInv, StoredOK
  <1>6. HandedOK'
    BY <1>3, <1>4, HandedKept
  <1>7. /\ DOMAIN work' = Workers /\ \A v \in Workers \ {w} : work'[v] = work[v]
        /\ CallOK(work[w])' /\ work'[w].stage # "fill"
    BY Ended DEF RecordSafety, Idle
  <1>8. CallsOK' /\ SoleFiller' /\ GuardOK'
    BY <1>3, <1>4, <1>7, GuardsKept
  <1> QED
    BY <1>3, <1>4, <1>5, <1>6, <1>8 DEF PInv

\* What a listing found it keeps, and it found everything stored.
LEMMA ListSafetiesStep ==
  ASSUME PInv, NEW w \in Workers, ListSafeties(w)
  PROVE  Grows /\ PInv'
  <1>1. UNCHANGED <<phase6, store, starts, crashes, handed>>
    BY DEF ListSafeties
  <1>2. Grows /\ ChainOK' /\ StoredOK' /\ HandedOK'
    BY <1>1, NothingStored, HandedKept
  <1>3. /\ DOMAIN work' = Workers /\ \A v \in Workers \ {w} : work'[v] = work[v]
        /\ work'[w] = [stage |-> "pilots", subject |-> work[w].subject, seen |-> safeties,
                       before |-> pilots \cup safeties]
    <2>1. PICK r : r = work[w] /\ r = [stage |-> r.stage, subject |-> r.subject, seen |-> r.seen,
                                      before |-> r.before]
      BY DEF PInv, CallsOK, CallOK
    <2>2. DOMAIN work = Workers
      BY DEF PInv, CallsOK
    <2>3. work' = [work EXCEPT ![w] = [r EXCEPT !.stage = "pilots", !.seen = safeties,
                                               !.before = pilots \cup safeties]]
      BY <2>1, <2>2 DEF ListSafeties
    <2> QED
      BY <2>1, <2>2, <2>3
  <1>4. work[w].subject = None \/ work[w].subject \in pilots
    BY DEF ListSafeties, PInv, CallsOK, CallOK
  <1>5. CallOK(work[w])' /\ work'[w].stage # "fill"
    BY <1>1, <1>3, <1>4 DEF CallOK, Stages, store
  <1>6. CallsOK' /\ SoleFiller' /\ GuardOK'
    BY <1>1, <1>2, <1>3, <1>5, GuardsKept DEF store
  <1> QED
    BY <1>1, <1>2, <1>6 DEF PInv

LEMMA BuildAssessmentStep ==
  ASSUME PInv, NEW w \in Workers, BuildAssessment(w)
  PROVE  Grows /\ PInv'
  <1>1. UNCHANGED <<phase6, store, starts, crashes, handed>>
    BY DEF BuildAssessment
  <1>2. Grows /\ ChainOK' /\ StoredOK' /\ HandedOK'
    BY <1>1, NothingStored, HandedKept
  <1>3. /\ DOMAIN work' = Workers /\ \A v \in Workers \ {w} : work'[v] = work[v]
        /\ CallOK(work[w])' /\ work'[w].stage # "fill"
    <2>1. CASE Finish(w)
      BY <2>1, Ended DEF Idle
    <2>2. CASE work' = [work EXCEPT ![w].stage = "assessment",
                                    ![w].seen = EvaluateRecords(AssessedPilots(w), @)]
      <3>1. PICK ss, ps, before, subject :
              /\ ss = work[w].seen /\ ps = pilots
              /\ before = work[w].before /\ subject = work[w].subject
        OBVIOUS
      <3>2. ss \subseteq safeties /\ before \subseteq ps \cup ss /\ ss \subseteq before
            /\ (subject = None \/ subject \in ps)
        BY <3>1 DEF BuildAssessment, PInv, CallsOK, CallOK
      <3>3. /\ DOMAIN work' = Workers /\ \A v \in Workers \ {w} : work'[v] = work[v]
            /\ work'[w] = [stage |-> "assessment", subject |-> subject,
                           seen |-> EvaluateRecords(ps, ss), before |-> before]
        <4>1. PICK r : r = work[w] /\ r = [stage |-> r.stage, subject |-> r.subject,
                                          seen |-> r.seen, before |-> r.before]
          BY DEF PInv, CallsOK, CallOK
        <4>2. DOMAIN work = Workers
          BY DEF PInv, CallsOK
        <4>3. work' = [work EXCEPT ![w] = [r EXCEPT !.stage = "assessment",
                                                   !.seen = EvaluateRecords(ps, ss)]]
          BY <2>2, <3>1, <4>1, <4>2 DEF AssessedPilots
        <4> QED
          BY <3>1, <4>1, <4>2, <4>3
      <3>4. PICK a : a = EvaluateRecords(ps, ss)
        OBVIOUS
      <3>5. a.observed = ps /\ a.tested = ss
        BY <3>4 DEF EvaluateRecords
      <3>6. Covers(a, before, subject)
        BY <3>1, <3>2, <3>4, <3>5 DEF Covers
      <3>7. Covers(a, before, subject)'
        BY <1>2, <3>6, CoversKept
      <3> QED
        BY <3>3, <3>4, <3>7 DEF CallOK, Stages
    <2> QED
      BY <2>1, <2>2 DEF BuildAssessment
  <1>4. CallsOK' /\ SoleFiller' /\ GuardOK'
    BY <1>1, <1>2, <1>3, GuardsKept DEF store
  <1> QED
    BY <1>1, <1>2, <1>4 DEF PInv

LEMMA WriteAssessmentStep ==
  ASSUME PInv, NEW w \in Workers, WriteAssessment(w)
  PROVE  Grows /\ PInv'
  <1>1. PICK a, before, subject :
          a = work[w].seen /\ before = work[w].before /\ subject = work[w].subject
    OBVIOUS
  <1>2. Covers(a, before, subject)
    BY <1>1 DEF WriteAssessment, PInv, CallsOK, CallOK
  <1>3. /\ UNCHANGED <<phase6, sessions, guard, pilots, safeties, reports, starts, crashes, handed>>
        /\ assessments' = assessments \cup {a}
    BY <1>1 DEF WriteAssessment
  <1>4. ChainOK' /\ Grows
    BY <1>3 DEF PInv, ChainOK, Grows, phase6
  <1>5. StoredOK' /\ HandedOK'
    BY <1>3, <1>4, EvidenceKept, HandedKept
  <1>6. /\ DOMAIN work' = Workers /\ \A v \in Workers \ {w} : work'[v] = work[v]
        /\ work'[w] = [stage |-> "report", subject |-> subject, seen |-> a, before |-> before]
    BY <1>1, Moved DEF WriteAssessment
  <1>7. CallOK(work[w])'
    <2>1. Covers(a, before, subject)'
      BY <1>2, <1>4, CoversKept
    <2> QED
      BY <1>3, <1>6, <2>1 DEF CallOK, Stages
  <1>8. CallsOK' /\ SoleFiller' /\ GuardOK'
    BY <1>3, <1>4, <1>6, <1>7, GuardsKept
  <1> QED
    BY <1>3, <1>4, <1>5, <1>8 DEF PInv

LEMMA WriteReportStep ==
  ASSUME PInv, NEW w \in Workers, WriteReport(w)
  PROVE  Grows /\ PInv'
  <1>1. PICK a, before, subject :
          a = work[w].seen /\ before = work[w].before /\ subject = work[w].subject
    OBVIOUS
  <1>2. Covers(a, before, subject) /\ a \in assessments
    BY <1>1 DEF WriteReport, PInv, CallsOK, CallOK
  <1>3. /\ UNCHANGED <<phase6, sessions, guard, pilots, safeties, assessments, starts, crashes>>
        /\ reports' = reports \cup {a}
        /\ handed' \subseteq handed \cup {[report |-> a, before |-> before, subject |-> subject]}
    BY <1>1 DEF WriteReport
  <1>4. ChainOK' /\ Grows
    BY <1>3 DEF PInv, ChainOK, Grows, phase6
  <1>5. StoredOK'
    BY <1>3, <1>4, EvidenceKept
  <1>6. HandedOK'
    <2>1. ASSUME NEW h \in handed
          PROVE  Covers(h.report, h.before, h.subject)' /\ h.report \in assessments'
                 /\ h.report \in reports'
      BY <1>3, <1>4, CoversKept DEF PInv, HandedOK
    <2>2. Covers(a, before, subject)' /\ a \in assessments' /\ a \in reports'
      BY <1>2, <1>3, <1>4, CoversKept
    <2> QED
      BY <1>3, <2>1, <2>2 DEF HandedOK
  <1>7. /\ DOMAIN work' = Workers /\ \A v \in Workers \ {w} : work'[v] = work[v]
        /\ CallOK(work[w])' /\ work'[w].stage # "fill"
    BY Ended DEF WriteReport, Idle
  <1>8. CallsOK' /\ SoleFiller' /\ GuardOK'
    BY <1>3, <1>4, <1>7, GuardsKept
  <1> QED
    BY <1>3, <1>4, <1>5, <1>6, <1>8 DEF PInv

\* A worker that dies while filling leaves the guard empty for good.
LEMMA CrashStep ==
  ASSUME PInv, NEW w \in Workers, Crash(w)
  PROVE  Grows /\ PInv'
  <1>1. UNCHANGED <<phase6, store, starts, handed>> /\ crashes' \in 0..MaxCrashes
    BY PilotAssumption DEF Crash, PInv, PilotAssumption
  <1>2. Grows /\ ChainOK' /\ StoredOK' /\ HandedOK'
    BY <1>1, NothingStored, HandedKept
  <1>3. /\ DOMAIN work' = Workers /\ \A v \in Workers \ {w} : work'[v] = work[v]
        /\ CallOK(work[w])' /\ work'[w].stage # "fill"
    BY Ended DEF Crash, Idle
  <1>4. CallsOK' /\ SoleFiller' /\ GuardOK'
    BY <1>1, <1>2, <1>3, GuardsKept DEF store
  <1> QED
    BY <1>1, <1>2, <1>4 DEF PInv

\* Every step keeps what is stored, and the invariant.
LEMMA NextPInv == PInv /\ [Next]_vars => Grows /\ PInv'
  <1> SUFFICES ASSUME PInv, [Next]_vars PROVE Grows /\ PInv'
    OBVIOUS
  <1>1. CASE Next
    BY <1>1, Phase6Step, StartStep, RecordSessionStep, ClaimDayStep, FillGuardStep, RecordPilotStep,
       RecordSafetyStep, ListSafetiesStep, BuildAssessmentStep, WriteAssessmentStep,
       WriteReportStep, CrashStep DEF Next, Step
  <1>2. CASE UNCHANGED vars
    <2>1. UNCHANGED <<phase6, store>> /\ UNCHANGED <<work, starts, crashes, handed>>
      BY <1>2 DEF vars
    <2>2. Grows /\ ChainOK' /\ StoredOK' /\ HandedOK'
      BY <2>1, NothingStored, HandedKept
    <2>3. CallsOK'
      <3>1. ASSUME NEW r, CallOK(r) PROVE CallOK(r)'
        BY <2>1, <2>2, <3>1, CallKept DEF store, CallOK
      <3> QED
        BY <2>1, <3>1 DEF PInv, CallsOK
    <2> QED
      BY <2>1, <2>2, <2>3 DEF PInv, SoleFiller, GuardOK, store
  <1> QED
    BY <1>1, <1>2

-----------------------------------------------------------------------------
(***************************************************************************)
(* The theorems.                                                           *)
(***************************************************************************)

THEOREM InvariantHolds == Spec => []PInv
  BY InitPInv, NextPInv, PTL DEF Spec

\* Type correctness: stored files hold what their names say.
THEOREM TypeCorrect == Spec => []TypeOK
  <1>1. PInv => TypeOK
    <2> SUFFICES ASSUME PInv PROVE TypeOK
      OBVIOUS
    <2>1. \A a \in Authorizations :
            Len(chain[a]) <= 2 /\ \A i \in 1..Len(chain[a]) : chain[a][i] \in Submitted \cup LookedUp
      BY DEF PInv, ChainOK, Dispositions
    <2>2. \A e \in executions : e[1] \in Authorizations /\ e[2] \in 1..Len(chain[e[1]])
      BY DEF PInv, ChainOK
    <2>3. \A d \in Dates : guard[d] = Free \/ (guard[d].exists /\ \A p \in guard[d].names : p.date = d)
      BY DEF PInv, GuardOK, Free, Empty, Claimed
    <2>4. \A p \in pilots : p.date \in Dates /\ p.outcome \in executions \cup {None}
      BY DEF PInv, StoredOK, LoadPilot, LineageLoads, LoadExecutionReport, Abstained, Observations
    <2>5. \A s \in safeties : s.date \in Dates
      BY PilotAssumption DEF PInv, StoredOK, Safeties, PilotAssumption
    <2>6. \A w \in Workers : work[w].stage \in Stages
      BY DEF PInv, CallsOK, CallOK
    <2> QED
      BY <2>1, <2>2, <2>3, <2>4, <2>5, <2>6 DEF PInv, TypeOK
  <1> QED
    BY <1>1, InvariantHolds, PTL

\* A guard names one observation, and who stores one finds it named.
THEOREM DateHasOneObservation == Spec => []OneObservationPerDate
  <1>1. PInv => OneObservationPerDate
    <2> SUFFICES ASSUME PInv PROVE OneObservationPerDate
      OBVIOUS
    <2>1. \A p \in pilots : LoadPilot(p)
      BY DEF PInv, StoredOK
    <2>2. \A p, q \in pilots : p.date = q.date => p = q
      BY <2>1, ClaimIsExact DEF LoadPilot
    <2> QED
      BY <2>1, <2>2 DEF OneObservationPerDate
  <1> QED
    BY <1>1, InvariantHolds, PTL

\* What is stored stays, chains only get longer, and a guard that names an
\* observation names it for good.
THEOREM EvidenceIsKept == Spec => [][Grows]_vars
  <1>1. PInv /\ [Next]_vars => [Grows]_vars
    BY NextPInv
  <1> QED
    BY <1>1, InvariantHolds, PTL DEF Spec

\* A report covers what was stored when its assessment began, and loads for
\* good once handed out.
THEOREM HandedReportsLoad == Spec => []ReportsStand
  <1>1. PInv => ReportsStand
    <2> SUFFICES ASSUME PInv, NEW h \in handed
                 PROVE  /\ h.before \subseteq h.report.observed \cup h.report.tested
                        /\ h.subject # None => h.subject \in h.report.observed
                        /\ LoadReport(h.report)
      BY DEF ReportsStand
    <2>1. Covers(h.report, h.before, h.subject) /\ h.report \in assessments /\ h.report \in reports
      BY DEF PInv, HandedOK
    <2>2. /\ \A p \in h.report.observed : LoadPilot(p)
          /\ \A s \in h.report.tested : LoadSafety(s)
      BY <2>1 DEF Covers, PInv, StoredOK
    <2> QED
      BY <2>1, <2>2 DEF Covers, LoadReport, Replays
  <1> QED
    BY <1>1, InvariantHolds, PTL

\* Counting a set of pilots by what they say: all of them, some, or none.
LEMMA Counts ==
  ASSUME PInv, NEW ps, ps \subseteq pilots, NEW S, S \subseteq ps
  PROVE  /\ Count(S) \in Nat /\ Count(ps) \in Nat
         /\ Count(S) = Count(ps) => S = ps
         /\ Count(S) = 0 => S = {}
         /\ Count(S) > 0 => S # {}
  <1>1. IsFiniteSet(ps)
    BY FS_Subset DEF PInv, StoredOK
  <1>2. IsFiniteSet(S) /\ (Cardinality(ps) = Cardinality(S) => ps = S)
    BY <1>1, FS_Subset
  <1>3. Cardinality(S) \in Nat /\ Cardinality(ps) \in Nat
    BY <1>1, <1>2, FS_CardinalityType
  <1>4. (Cardinality(S) = 0 <=> S = {})
    BY <1>2, FS_EmptySet
  <1> QED
    BY <1>2, <1>3, <1>4 DEF Count

\* Observations have as many dates as there are of them.
LEMMA AsManyDates ==
  ASSUME PInv, NEW ps, ps \subseteq pilots
  PROVE  Cardinality({p.date : p \in ps}) = Cardinality(ps)
  <1> DEFINE days == {p.date : p \in ps}
             f == [p \in ps |-> p.date]
  <1>1. IsFiniteSet(ps)
    BY FS_Subset DEF PInv, StoredOK
  <1>2. \A p, q \in ps : p.date = q.date => p = q
    BY ClaimIsExact DEF PInv, StoredOK, LoadPilot
  <1>3. f \in [ps -> days] /\ \A d \in days : \E p \in ps : f[p] = d
    OBVIOUS
  <1>4. \A p, q \in ps : f[p] = f[q] => p = q
    BY <1>2
  <1> HIDE DEF f, days
  <1>5. f \in Bijection(ps, days)
    BY <1>3, <1>4 DEF Bijection, Injection, IsInjective, Surjection
  <1>6. Cardinality(days) = Cardinality(ps)
    BY <1>1, <1>5, FS_Bijection DEF ExistsBijection
  <1> QED
    BY <1>6 DEF days

\* Readiness is earned: what the counts say is true of the evidence.
THEOREM ReadyIsEarned == Spec => []ReadinessIsEarned
  <1>1. PInv => ReadinessIsEarned
    <2> SUFFICES ASSUME PInv, NEW h \in handed, Ready(h.report)
                 PROVE  /\ Cardinality({p.date : p \in h.report.observed}) >= Required
                        /\ {p.date : p \in h.report.observed} \subseteq MarketDates
                        /\ \E a \in Authorizations : \E i \in 1..Len(chain[a]) :
                             chain[a][i] \in {"accepted", "reconciled"}
                        /\ \A p \in h.report.observed : ~p.incident
                        /\ \A p \in h.before \cap pilots :
                             p.outcome # None => chain[p.outcome[1]][p.outcome[2]] # "submission_unknown"
                        /\ h.before \cap safeties # {}
                        /\ \A s \in h.before \cap safeties : s.failed = {}
      BY DEF ReadinessIsEarned
    <2> DEFINE ps == h.report.observed
               ss == h.report.tested
    <2>1. /\ ps \subseteq pilots /\ ss \subseteq safeties
          /\ h.report = EvaluateRecords(ps, ss) /\ h.before \subseteq ps \cup ss
      BY DEF PInv, HandedOK, Covers
    <2>2. /\ Count(ps) >= Required
          /\ Count({p \in ps : p.date \in MarketDates}) = Count(ps)
          /\ Count({p \in ps : AcceptedOrder(p)}) > 0
          /\ Count({p \in ps : p.incident}) = 0
          /\ Count({p \in ps : UnresolvedUnknown(p)}) = 0
          /\ ss # {} /\ \A s \in ss : Passed(s)
      <3>1. PICK r : r = h.report
        OBVIOUS
      <3>2. r = EvaluateRecords(ps, ss) /\ Ready(r)
        BY <2>1, <3>1
      <3> HIDE DEF ps, ss
      <3> QED
        BY <3>2 DEF EvaluateRecords, Ready
    <2>3. Cardinality({p.date : p \in ps}) >= Required
      BY <2>1, <2>2, AsManyDates DEF Count
    <2>4. {p.date : p \in ps} \subseteq MarketDates
      <3>1. {p \in ps : p.date \in MarketDates} = ps
        BY <2>1, <2>2, Counts
      <3> QED
        BY <3>1
    <2>5. \E a \in Authorizations : \E i \in 1..Len(chain[a]) : chain[a][i] \in {"accepted", "reconciled"}
      <3>1. PICK p \in ps : AcceptedOrder(p)
        <4>1. {p \in ps : AcceptedOrder(p)} # {}
          BY <2>1, <2>2, Counts
        <4> QED
          BY <4>1
      <3>2. LoadExecutionReport(p.outcome)
        BY <2>1, <3>1 DEF PInv, StoredOK, LoadPilot, LineageLoads, AcceptedOrder
      <3>3. p.outcome[1] \in Authorizations /\ p.outcome[2] \in 1..Len(chain[p.outcome[1]])
        BY <3>2 DEF LoadExecutionReport, PInv, ChainOK
      <3> QED
        BY <3>1, <3>3 DEF AcceptedOrder, Disposition
    <2>6. \A p \in ps : ~p.incident
      <3>1. {p \in ps : p.incident} = {}
        BY <2>1, <2>2, Counts
      <3> QED
        BY <3>1
    <2>7. pilots \cap safeties = {}
      BY DEF PInv, StoredOK, Observations, Safeties
    <2>8. \A p \in h.before \cap pilots :
            p.outcome # None => chain[p.outcome[1]][p.outcome[2]] # "submission_unknown"
      <3>1. {p \in ps : UnresolvedUnknown(p)} = {}
        BY <2>1, <2>2, Counts
      <3>2. \A p \in h.before \cap pilots : p \in ps
        BY <2>1, <2>7
      <3> QED
        BY <3>1, <3>2 DEF UnresolvedUnknown, Abstained, Disposition
    <2>9. \A s \in h.before \cap safeties : s.failed = {}
      BY <2>1, <2>2, <2>7 DEF Passed
    <2>10. h.before \cap safeties # {}
      BY <2>1, <2>2 DEF PInv, HandedOK, Covers
    <2> QED
      BY <2>3, <2>4, <2>5, <2>6, <2>8, <2>9, <2>10
  <1> QED
    BY <1>1, InvariantHolds, PTL
=============================================================================
