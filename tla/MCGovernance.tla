---------------------------- MODULE MCGovernance -----------------------------
(* A small governance chain: three validation cases, two briefs, two pairs. *)
EXTENDS Governance, TLC

CONSTANTS w1, w2, sound, losing, gap, clear, weak, kept, late

NoResampling == [given |-> FALSE, bound |-> FALSE, loss |-> Absent, breach |-> Absent]
NoGate == [set |-> FALSE, loss |-> Absent, breach |-> Absent]

Metric(v) == [stage |-> "backtest", value |-> v, minimum |-> 3, maximum |-> Absent]
Robust(s) == [stage |-> s, coverage |-> 2, absolute |-> 4, relative |-> 1]

\* Every gate set, every value exactly at its threshold.
Sound ==
  [evidenced |-> RequiredStages,
   metrics |-> {Metric(3)},
   robustGates |-> {Robust("walk_forward")},
   robustness |-> [given |-> TRUE, bound |-> {"walk_forward"}, summarised |-> TRUE,
                   coverage |-> 2, absolute |-> 4, relative |-> 1],
   resampling |-> [given |-> TRUE, bound |-> TRUE, loss |-> 2, breach |-> 2],
   resamplingGate |-> [set |-> TRUE, loss |-> 2, breach |-> 2]]

\* The relative degradation cannot be computed.
Gap == [Sound EXCEPT !.robustness.relative = Absent]

\* One metric just below its minimum, and evidence that no gate asks for: the
\* report may be rendered with it or without.
Losing == [Sound EXCEPT !.metrics = {Metric(2)}, !.robustGates = {},
                        !.resamplingGate = NoGate, !.resampling = NoResampling]

MCWorkers == {w1, w2}
MCCases == {sound, losing, gap}
MCCaseData == sound :> Sound @@ losing :> Losing @@ gap :> Gap

Strong == [calibration |-> "calibrated", decision |-> "high_evidence"]
Clear == [quality |-> "verified", eligible |-> TRUE, dimensions |-> {"available"},
          scenarios |-> {Strong}, degradation |-> {"stable"}]
Weak == [Clear EXCEPT !.scenarios = {Strong, [Strong EXCEPT !.decision = "abstain"]}]

MCBriefs == {clear, weak}
MCBriefData == clear :> Clear @@ weak :> Weak

MCPairs == {kept, late}
Kept == [approved |-> TRUE, matches |-> TRUE, created |-> 1, approvedAt |-> 2, expires |-> 3]
MCPairData == kept :> Kept @@ late :> [Kept EXCEPT !.approvedAt = 3]

MCAttemptStates == {"reserved", "accepted", "unheard_of"}
Symmetry == Permutations(MCWorkers)
=============================================================================
