---------------------------- MODULE EvidenceGates ----------------------------
(***************************************************************************)
(* The two fail-closed judgements of the research governance chain: the    *)
(* Phase 2 validation engine (research/validation_engine.py) over a        *)
(* validation case, and the Phase 3 decision-support gates                 *)
(* (intelligence/axiom_decision_support.py) over an intelligence brief.    *)
(*                                                                         *)
(* A case carries its policy, the stages its evidence references cover,    *)
(* and the quantitative evidence that was supplied with it.  Metrics,      *)
(* coverages, degradations and frequencies are integers on one scale;      *)
(* Absent stands for None.  Abstracted: identifiers, reasons, check lists. *)
(***************************************************************************)
EXTENDS Integers, FiniteSets

Absent == -1
Value == Nat \cup {Absent}

RequiredStages ==
  {"hypothesis", "backtest", "walk_forward", "out_of_sample", "cost_stress",
   "regime_stress", "parameter_sensitivity", "resampling", "risk"}

RobustStages == {"walk_forward", "cost_stress", "regime_stress", "parameter_sensitivity"}

MetricThreshold ==
  {t \in [stage : RequiredStages, value : Value, minimum : Value, maximum : Value] :
     /\ t.minimum # Absent \/ t.maximum # Absent
     /\ t.minimum # Absent /\ t.maximum # Absent => t.minimum <= t.maximum}

RobustnessThreshold ==
  {t \in [stage : RobustStages, coverage : Value, absolute : Value, relative : Value] :
     t.coverage # Absent \/ t.absolute # Absent \/ t.relative # Absent}

\* Evidence that is not given has given = FALSE; "bound" is where the case
\* references it by checksum.  A summary may lack its relative degradation only.
RobustnessEvidence ==
  {e \in [given : BOOLEAN, bound : SUBSET RobustStages, summarised : BOOLEAN,
          coverage : Value, absolute : Value, relative : Value] :
     e.given /\ e.summarised => e.coverage # Absent /\ e.absolute # Absent}

ResamplingEvidence ==
  {e \in [given : BOOLEAN, bound : BOOLEAN, loss : Value, breach : Value] :
     e.given => e.loss # Absent /\ e.breach # Absent}

ResamplingThreshold ==
  {t \in [set : BOOLEAN, loss : Value, breach : Value] :
     t.set => t.loss # Absent /\ t.breach # Absent}

ValidationCase ==
  [evidenced : SUBSET RequiredStages, metrics : SUBSET MetricThreshold,
   robustGates : SUBSET RobustnessThreshold, robustness : RobustnessEvidence,
   resampling : ResamplingEvidence, resamplingGate : ResamplingThreshold]

IntelligenceBrief ==
  [quality : STRING, eligible : BOOLEAN, dimensions : SUBSET STRING,
   scenarios : SUBSET [calibration : STRING, decision : STRING],
   degradation : SUBSET STRING]

----------------------------------------------------------------------------
(* One threshold of a case: what is missing for it, and what fails it.     *)

MetricMissing(t) == t.value = Absent
MetricFails(t) ==
  /\ t.value # Absent
  /\ \/ t.minimum # Absent /\ t.value < t.minimum
     \/ t.maximum # Absent /\ t.value > t.maximum

RobustnessUsable(e, t) == e.given /\ t.stage \in e.bound /\ e.summarised

RobustnessMissing_RelativeOptional(e, t) == ~RobustnessUsable(e, t)

RobustnessMissing(e, t) ==
  \/ ~RobustnessUsable(e, t)
  \/ t.relative # Absent /\ e.relative = Absent

RobustnessFails(e, t) ==
  /\ RobustnessUsable(e, t)
  /\ \/ t.coverage # Absent /\ e.coverage < t.coverage
     \/ t.absolute # Absent /\ e.absolute > t.absolute
     \/ t.relative # Absent /\ e.relative # Absent /\ e.relative > t.relative

ResamplingMissing(e, t) == t.set /\ ~(e.given /\ e.bound)

ResamplingFails(e, t) ==
  t.set /\ e.given /\ e.bound /\ (e.loss > t.loss \/ e.breach > t.breach)

----------------------------------------------------------------------------
(* A stage is missing before it is failed; the verdict looks for a missing *)
(* gate before a failed one.                                               *)

StageMissing(c, s) ==
  \/ s \notin c.evidenced
  \/ \E t \in c.metrics : t.stage = s /\ MetricMissing(t)
  \/ \E t \in c.robustGates : t.stage = s /\ RobustnessMissing(c.robustness, t)
  \/ s = "resampling" /\ ResamplingMissing(c.resampling, c.resamplingGate)

StageFails(c, s) ==
  \/ \E t \in c.metrics : t.stage = s /\ MetricFails(t)
  \/ \E t \in c.robustGates : t.stage = s /\ RobustnessFails(c.robustness, t)
  \/ s = "resampling" /\ ResamplingFails(c.resampling, c.resamplingGate)

GateStatus(c, s) ==
  IF StageMissing(c, s) THEN "missing" ELSE IF StageFails(c, s) THEN "failed" ELSE "passed"

VerdictFromGates(gate) ==
  IF \E s \in DOMAIN gate : gate[s] = "missing" THEN "insufficient_evidence"
  ELSE IF \E s \in DOMAIN gate : gate[s] = "failed" THEN "rejected"
  ELSE "validated_research_candidate"

EvaluateValidationCase(c) == VerdictFromGates([s \in RequiredStages |-> GateStatus(c, s)])

\* Evidence handed to the report must be bound somewhere in the case.
EvidenceIsBound(c) ==
  /\ c.robustness.given => c.robustness.bound # {}
  /\ c.resampling.given => c.resampling.bound

----------------------------------------------------------------------------
(* Decision support over a brief.                                          *)

ScenarioGate(b) ==
  /\ b.scenarios # {}
  /\ \A s \in b.scenarios : s.calibration = "calibrated" /\ s.decision = "high_evidence"

DegradationGate(b) == b.degradation # {} /\ \A d \in b.degradation : d = "stable"

DataQualityGate(b) == b.quality = "verified" /\ b.eligible

MarketStateGate(b) == \A a \in b.dimensions : a = "available"

EvaluateDecisionSupport(verdict, b) ==
  IF /\ verdict = "validated_research_candidate"
     /\ DataQualityGate(b)
     /\ MarketStateGate(b)
     /\ ScenarioGate(b)
     /\ DegradationGate(b)
  THEN "present_for_human_review" ELSE "abstain"
=============================================================================
