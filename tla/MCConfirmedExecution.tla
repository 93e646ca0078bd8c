------------------------ MODULE MCConfirmedExecution -------------------------
EXTENDS ConfirmedExecution, TLC
CONSTANTS o1, c1, c2, s1, a1, a2

OneOrder == {o1}
OneSessionOf == (o1 :> s1)
OneSideOf == (o1 :> "buy")
OneClock == (0 :> s1)
OneValidAt == (o1 :> {0})

\* Two human invocations for the same order.
TwiceOrderOf == (a1 :> o1 @@ a2 :> o1)

RunSymmetry == Permutations(Calls)
=============================================================================
