-------------------------- MODULE MCArtifactDatabase --------------------------
EXTENDS ArtifactDatabase, TLC

CONSTANTS r1, r2, c1, c2

Market(micro) == [kind |-> "market_data", versioned |-> FALSE, version |-> 0,
                  created |-> <<7, micro>>, without |-> {}]
Model == [kind |-> "model", versioned |-> TRUE, version |-> 1, created |-> <<7, 0>>,
          without |-> {}]
Later == [Model EXCEPT !.created = <<7, 5>>]
Backtest(without) == [kind |-> "backtest", versioned |-> TRUE, version |-> 1,
                      created |-> <<8, 0>>, without |-> without]
\* Every order of this one was rejected: it has decisions and no fills.
Rejected == Backtest({"backtest_fills"})

MCArtifacts == {Market(0), Market(5), Model, Later, Rejected}
MCRequests == {[run |-> r1, artifact |-> Market(0)], [run |-> r2, artifact |-> Market(5)],
               [run |-> r1, artifact |-> Model], [run |-> r1, artifact |-> Later],
               [run |-> r1, artifact |-> Rejected]}
CallSymmetry == Permutations(Calls)
MCAtStart == {[run |-> r1, artifact |-> Model]}
============================================================================
