------------------------ MODULE MCShadowObservation ------------------------
(* Instances of ShadowObservation for TLC. *)
EXTENDS ShadowObservation, TLC

CONSTANTS c1, c2, d1, d2, d3

\* One dataset, of the first of two sessions.
OneDataset == (d1 :> 1)
\* Nothing was stored for the second of four sessions.
SkipsSecond == (d1 :> 1) @@ (d2 :> 3) @@ (d3 :> 4)

CallSymmetry == Permutations(Calls)
=============================================================================
