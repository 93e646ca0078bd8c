-------------------------- MODULE MCPilotValidation --------------------------
(* Instances of PilotValidation for TLC. *)
EXTENDS PilotValidation, TLC

CONSTANTS w1, w2, a1

WorkerSymmetry == Permutations(Workers)
=============================================================================
