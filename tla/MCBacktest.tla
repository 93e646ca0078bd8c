------------------------------ MODULE MCBacktest ------------------------------
(* Instances of Backtest for TLC. *)
EXTENDS Backtest

\* None, usual, all of the proceeds.
SomeCosts == {[slippage |-> 0, commission |-> 0], [slippage |-> 1, commission |-> 1],
              [slippage |-> 1, commission |-> 3], [slippage |-> 3, commission |-> 3],
              [slippage |-> 10, commission |-> 0], [slippage |-> 0, commission |-> 10]}
=============================================================================
