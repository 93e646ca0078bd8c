------------------------- MODULE MCBenchmarkStages -------------------------
(* Instances of BenchmarkStages for TLC. *)
EXTENDS BenchmarkStages, TLC

CONSTANTS c1, c2

CallSymmetry == Permutations(Calls)
=============================================================================
