--------------------------- MODULE PilotValidation ---------------------------
(***************************************************************************)
(* Phase 7: paper pilot observations, safety evidence and the operational  *)
(* assessment over them (phase7_validation/), on top of the outcome chains *)
(* and execution reports of Phase 6 (phase6_execution/reporting.py).       *)
(*                                                                         *)
(* A worker is one process in a call of a human: the observation workflow  *)
(* (session, date claim, observation, assessment, report), the recording   *)
(* of safety evidence, or a report of its own.  A step is one file         *)
(* operation or one listing.  A date is claimed by creating its guard file *)
(* exclusively and writing its content later; every other file is          *)
(* content-addressed and appears at once.  A worker may die anywhere.      *)
(*                                                                         *)
(* Phase 6 is its audit memory: per authorization one submission outcome   *)
(* and, after an unknown one, at most one reconciliation (the invariant    *)
(* OutcomeChain of ConfirmedExecution).  Phase 5 lineage is one assessment *)
(* that stays loadable (Governance); one experiment.                       *)
(***************************************************************************)
EXTENDS Integers, Sequences, FiniteSets

CONSTANTS
  Workers,
  Dates, MarketDates,   \* observation dates, and the exchange's sessions
  ProbeDates,           \* dates of synthetic sessions
  Authorizations,
  Required,             \* PHASE7_REQUIRED_PAPER_SESSIONS
  MaxStarts,            \* bound: calls
  MaxCrashes            \* bound: deaths

ASSUME PilotAssumption ==
  /\ MarketDates \subseteq Dates /\ ProbeDates \subseteq Dates
  /\ Required \in Nat /\ MaxStarts \in Nat /\ MaxCrashes \in Nat

VARIABLES
  chain,       \* authorization -> dispositions of its recorded outcomes
  executions,  \* Phase 6 reports: <<authorization, length of the chain reported>>
  sessions,    \* validation sessions stored: <<mode, date>>
  guard,       \* date -> its guard file and the observation it names
  pilots, safeties,         \* stored observations and safety evidence
  assessments, reports,     \* stored assessments and report files
  work,        \* each worker's call
  starts, crashes
\* Observations, read by properties only.
VARIABLE
  handed       \* report artifacts returned, with what was stored when assessing began

phase6 == <<chain, executions>>
store == <<sessions, guard, pilots, safeties, assessments, reports>>
vars == <<phase6, store, work, starts, crashes, handed>>

----------------------------------------------------------------------------
(* Phase 6: outcomes and execution reports.                                *)

\* Dispositions that a submission and a lookup can end with; "not_placed"
\* stands for rejected and blocked.
Submitted == {"accepted", "not_placed", "submission_unknown"}
LookedUp == {"reconciled", "not_placed", "submission_unknown"}

\* One submission outcome, and one reconciliation of an unknown one.
RecordOutcome(a) ==
  /\ \/ chain[a] = <<>> /\ \E d \in Submitted : chain' = [chain EXCEPT ![a] = <<d>>]
     \/ /\ chain[a] = <<"submission_unknown">>
        /\ \E d \in LookedUp : chain' = [chain EXCEPT ![a] = Append(@, d)]
  /\ UNCHANGED <<executions, store, work, starts, crashes, handed>>

\* Only the latest outcome is reported; a submission overtaken by its
\* reconciliation never gets a report.
WriteExecutionReport(a) ==
  /\ chain[a] # <<>>
  /\ executions' = executions \cup {<<a, Len(chain[a])>>}
  /\ UNCHANGED <<chain, store, work, starts, crashes, handed>>

\* An artifact names its outcomes, so an older report still loads.
LoadExecutionReport(e) == e \in executions /\ e[2] <= Len(chain[e[1]])

----------------------------------------------------------------------------
(* Observations and safety evidence.                                       *)

None == <<>>

\* outcome: the execution report attested, None for an abstention.
Observation(date, outcome, incident) ==
  [date |-> date, outcome |-> outcome, incident |-> incident]

Safety(date, failed) == [date |-> date, failed |-> failed]

Abstained(p) == p.outcome = None

Disposition_Latest(p) == chain[p.outcome[1]][Len(chain[p.outcome[1]])]

\* The observation embeds the outcome it attests: a later reconciliation of
\* the same authorization does not change it.
Disposition(p) == chain[p.outcome[1]][p.outcome[2]]

UnresolvedUnknown(p) == ~Abstained(p) /\ Disposition(p) = "submission_unknown"
AcceptedOrder(p) == ~Abstained(p) /\ Disposition(p) \in {"accepted", "reconciled"}
Passed(s) == s.failed = {}

SessionOf(mode, date) == <<mode, date>>

LineageLoads(p) ==
  /\ SessionOf("paper_broker", p.date) \in sessions
  /\ ~Abstained(p) => LoadExecutionReport(p.outcome)

\* The guard file of a date: absent, created but empty, or naming p.
Free == [exists |-> FALSE, names |-> {}]
Empty == [exists |-> TRUE, names |-> {}]
Claimed(p) == [exists |-> TRUE, names |-> {p}]

LoadPilot(p) == p \in pilots /\ LineageLoads(p) /\ guard[p.date] = Claimed(p)
LoadSafety(s) == s \in safeties /\ SessionOf("synthetic", s.date) \in sessions

----------------------------------------------------------------------------
(* The assessment of a set of evidence.                                    *)

Count(S) == Cardinality(S)

Ready_UnknownAllowed(a) ==
  /\ a.pilots >= Required
  /\ a.market = a.pilots
  /\ a.accepted > 0
  /\ a.incidents = 0
  /\ a.safe

Ready(a) ==
  /\ a.pilots >= Required
  /\ a.market = a.pilots
  /\ a.accepted > 0
  /\ a.incidents = 0
  /\ a.unknown = 0
  /\ a.safe

EvaluateRecords(ps, ss) ==
  [observed |-> ps, tested |-> ss,
   pilots |-> Count(ps),
   market |-> Count({p \in ps : p.date \in MarketDates}),
   abstained |-> Count({p \in ps : Abstained(p)}),
   executed |-> Count({p \in ps : ~Abstained(p)}),
   accepted |-> Count({p \in ps : AcceptedOrder(p)}),
   incidents |-> Count({p \in ps : p.incident}),
   unknown |-> Count({p \in ps : UnresolvedUnknown(p)}),
   safe |-> ss # {} /\ \A s \in ss : Passed(s)]

\* Every listed record must load, and no date may appear twice.
ListPilots(ps) ==
  /\ \A p \in ps : LoadPilot(p)
  /\ \A p, q \in ps : p.date = q.date => p = q

Replays(a) ==
  /\ \A p \in a.observed : LoadPilot(p)
  /\ \A s \in a.tested : LoadSafety(s)
  /\ EvaluateRecords(a.observed, a.tested) = a

LoadReport(a) == Replays(a) /\ a \in assessments /\ a \in reports

----------------------------------------------------------------------------
(* Workers.                                                                *)

Idle == [stage |-> "idle", subject |-> None, seen |-> {}, before |-> {}]
Stages == {"idle", "session", "claim", "fill", "pilot", "safety_session", "safety", "assess",
           "pilots", "assessment", "report"}

Go(w, stage) == work' = [work EXCEPT ![w].stage = stage]
Finish(w) == work' = [work EXCEPT ![w] = Idle]

Start(w, stage, subject) ==
  /\ work[w] = Idle /\ starts < MaxStarts
  /\ starts' = starts + 1
  /\ work' = [work EXCEPT ![w] = [Idle EXCEPT !.stage = stage, !.subject = subject]]
  /\ UNCHANGED <<phase6, store, crashes, handed>>

\* build_phase7_pilot_observation: the report's final outcome is attested.
Observe(w) ==
  \E date \in Dates, incident \in BOOLEAN, e \in executions \cup {None} :
    /\ e # None => LoadExecutionReport(e)
    /\ Start(w, "session", Observation(date, e, incident))

RecordSession(w) ==
  /\ work[w].stage = "session"
  /\ sessions' = sessions \cup {SessionOf("paper_broker", work[w].subject.date)}
  /\ Go(w, "claim")
  /\ UNCHANGED <<phase6, guard, pilots, safeties, assessments, reports, starts, crashes, handed>>

\* An empty guard is taken for an interrupted claim and taken over.
ClaimDay_Takeover(w) ==
  /\ work[w].stage = "claim"
  /\ LET p == work[w].subject IN
     IF guard[p.date] \in {Free, Empty}
     THEN /\ guard' = [guard EXCEPT ![p.date] = Empty]
          /\ Go(w, "fill")
     ELSE /\ IF guard[p.date] = Claimed(p) THEN Go(w, "pilot") ELSE Finish(w)
          /\ UNCHANGED guard
  /\ UNCHANGED <<phase6, sessions, pilots, safeties, assessments, reports, starts, crashes, handed>>

\* record_pilot verifies the lineage, then creates the date's guard; an
\* existing guard must already hold this observation, and an empty one cannot
\* be read.
ClaimDay(w) ==
  /\ work[w].stage = "claim"
  /\ LET p == work[w].subject IN
     IF LineageLoads(p) /\ guard[p.date] = Free
     THEN /\ guard' = [guard EXCEPT ![p.date] = Empty]
          /\ Go(w, "fill")
     ELSE /\ IF LineageLoads(p) /\ guard[p.date] = Claimed(p) THEN Go(w, "pilot") ELSE Finish(w)
          /\ UNCHANGED guard
  /\ UNCHANGED <<phase6, sessions, pilots, safeties, assessments, reports, starts, crashes, handed>>

FillGuard(w) ==
  /\ work[w].stage = "fill"
  /\ guard' = [guard EXCEPT ![work[w].subject.date] = Claimed(work[w].subject)]
  /\ Go(w, "pilot")
  /\ UNCHANGED <<phase6, sessions, pilots, safeties, assessments, reports, starts, crashes, handed>>

RecordPilot(w) ==
  /\ work[w].stage = "pilot"
  /\ pilots' = pilots \cup {work[w].subject}
  /\ Go(w, "assess")
  /\ UNCHANGED <<phase6, sessions, guard, safeties, assessments, reports, starts, crashes, handed>>

\* Safety evidence over a synthetic session.
Probe(w) ==
  \E date \in ProbeDates, failed \in SUBSET {"probe"} : Start(w, "safety_session", Safety(date, failed))

RecordSafetySession(w) ==
  /\ work[w].stage = "safety_session"
  /\ sessions' = sessions \cup {SessionOf("synthetic", work[w].subject.date)}
  /\ Go(w, "safety")
  /\ UNCHANGED <<phase6, guard, pilots, safeties, assessments, reports, starts, crashes, handed>>

RecordSafety(w) ==
  /\ work[w].stage = "safety"
  /\ safeties' = safeties \cup {work[w].subject}
  /\ Finish(w)
  /\ UNCHANGED <<phase6, sessions, guard, pilots, assessments, reports, starts, crashes, handed>>

\* write_phase7_validation_report: safeties are listed first, then pilots.
StartReport(w) == Start(w, "assess", None)

ListSafeties(w) ==
  /\ work[w].stage = "assess"
  /\ \A s \in safeties : LoadSafety(s)
  /\ work' = [work EXCEPT ![w].stage = "pilots", ![w].seen = safeties,
                          ![w].before = pilots \cup safeties]
  /\ UNCHANGED <<phase6, store, starts, crashes, handed>>

AssessedPilots(w) == pilots

BuildAssessment(w) ==
  /\ work[w].stage = "pilots"
  /\ IF ListPilots(AssessedPilots(w))
     THEN work' = [work EXCEPT ![w].stage = "assessment",
                     ![w].seen = EvaluateRecords(AssessedPilots(w), @)]
     ELSE Finish(w)
  /\ UNCHANGED <<phase6, store, starts, crashes, handed>>

WriteAssessment(w) ==
  /\ work[w].stage = "assessment"
  /\ assessments' = assessments \cup {work[w].seen}
  /\ Go(w, "report")
  /\ UNCHANGED <<phase6, sessions, guard, pilots, safeties, reports, starts, crashes, handed>>

\* The report is written and loaded back before its artifact is returned.
WriteReport(w) ==
  /\ work[w].stage = "report"
  /\ reports' = reports \cup {work[w].seen}
  /\ IF Replays(work[w].seen)
     THEN handed' = handed \cup {[report |-> work[w].seen, before |-> work[w].before,
                                  subject |-> work[w].subject]}
     ELSE UNCHANGED handed
  /\ Finish(w)
  /\ UNCHANGED <<phase6, sessions, guard, pilots, safeties, assessments, starts, crashes>>

Crash(w) ==
  /\ work[w] # Idle /\ crashes < MaxCrashes
  /\ crashes' = crashes + 1
  /\ Finish(w)
  /\ UNCHANGED <<phase6, store, starts, handed>>

----------------------------------------------------------------------------
Init ==
  /\ chain = [a \in Authorizations |-> <<>>]
  /\ executions = {} /\ sessions = {}
  /\ guard = [d \in Dates |-> Free]
  /\ pilots = {} /\ safeties = {} /\ assessments = {} /\ reports = {}
  /\ work = [w \in Workers |-> Idle]
  /\ starts = 0 /\ crashes = 0 /\ handed = {}

Step(w) ==
  \/ Observe(w) \/ RecordSession(w) \/ ClaimDay(w) \/ FillGuard(w) \/ RecordPilot(w)
  \/ Probe(w) \/ RecordSafetySession(w) \/ RecordSafety(w)
  \/ StartReport(w) \/ ListSafeties(w) \/ BuildAssessment(w) \/ WriteAssessment(w)
  \/ WriteReport(w) \/ Crash(w)

Next ==
  \/ \E a \in Authorizations : RecordOutcome(a) \/ WriteExecutionReport(a)
  \/ \E w \in Workers : Step(w)

Spec == Init /\ [][Next]_vars

----------------------------------------------------------------------------
(* Properties.                                                             *)

\* Type correctness: files hold what their names say.
TypeOK ==
  /\ \A a \in Authorizations :
       Len(chain[a]) <= 2 /\ \A i \in 1..Len(chain[a]) : chain[a][i] \in Submitted \cup LookedUp
  /\ \A e \in executions : e[1] \in Authorizations /\ e[2] \in 1..Len(chain[e[1]])
  /\ \A d \in Dates : guard[d] = Free \/ (guard[d].exists /\ \A p \in guard[d].names : p.date = d)
  /\ \A p \in pilots : p.date \in Dates /\ p.outcome \in executions \cup {None}
  /\ \A s \in safeties : s.date \in Dates
  /\ \A w \in Workers : work[w].stage \in Stages
  /\ starts \in 0..MaxStarts /\ crashes \in 0..MaxCrashes

\* A paper date has at most one observation, and its guard names it, whatever
\* overlaps, dies or is retried: so no listing ever refuses the evidence.
OneObservationPerDate ==
  /\ \A p, q \in pilots : p.date = q.date => p = q
  /\ \A p \in pilots : LoadPilot(p)

\* A report stands for all the evidence and for good: it covers everything that
\* was stored when its assessment began, the observation of its own call
\* included, and once handed out keeps loading, whatever is observed,
\* reconciled or interrupted later.
ReportsStand ==
  \A h \in handed :
    /\ h.before \subseteq h.report.observed \cup h.report.tested
    /\ h.subject # None => h.subject \in h.report.observed
    /\ LoadReport(h.report)

\* Readiness for the owner's audit is earned: enough distinct market dates,
\* an order that Phase 6 recorded as placed, no incident, no order attested as
\* unknown, and a safety suite that never failed before the report.
ReadinessIsEarned ==
  \A h \in handed :
    LET days == {p.date : p \in h.report.observed} IN
    Ready(h.report) =>
      /\ Cardinality(days) >= Required /\ days \subseteq MarketDates
      /\ \E a \in Authorizations : \E i \in 1..Len(chain[a]) :
           chain[a][i] \in {"accepted", "reconciled"}
      /\ \A p \in h.report.observed : ~p.incident
      /\ \A p \in h.before \cap pilots :
           p.outcome # None => chain[p.outcome[1]][p.outcome[2]] # "submission_unknown"
      /\ h.before \cap safeties # {}
      /\ \A s \in h.before \cap safeties : s.failed = {}
=============================================================================
