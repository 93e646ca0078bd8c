--------------------------- MODULE MCDatasetStore ---------------------------
(* Instances of DatasetStore for TLC. *)
EXTENDS DatasetStore, TLC

CONSTANTS a1, a2, t1, t2

\* Two attempts, at different instants.
Apart == (a1 :> t1) @@ (a2 :> t2)
=============================================================================
