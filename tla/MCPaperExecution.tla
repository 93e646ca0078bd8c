-------------------------- MODULE MCPaperExecution --------------------------
EXTENDS PaperExecution, TLC
CONSTANTS o1, o2, o3, c1, c2, s1, s2

OneOrder == {o1}
OneSessionOf == (o1 :> s1)
OneSideOf == (o1 :> "buy")
OneClock == (0 :> s1 @@ 1 :> s1)
OneValidAt == (o1 :> {0})

\* A buy in session s1, then, an evening later, a buy and a sell competing for
\* session s2; the approval of the first lapses before its session ends.
ThreeOrders == {o1, o2, o3}
ApartSessionOf == (o1 :> s1 @@ o2 :> s2 @@ o3 :> s2)
ApartSideOf == (o1 :> "buy" @@ o2 :> "buy" @@ o3 :> "sell")
ApartClock == (0 :> s1 @@ 1 :> s1 @@ 2 :> Closed @@ 3 :> s2)
ApartValidAt == (o1 :> {0} @@ o2 :> {3} @@ o3 :> {3})

CallSymmetry == Permutations(Calls)
=============================================================================
