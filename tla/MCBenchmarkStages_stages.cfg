SPECIFICATION Spec
CONSTANTS
  c1 = c1  c2 = c2
  Calls = {c1, c2}
  MaxFaults = 2
SYMMETRY CallSymmetry
INVARIANTS EvaluatedOnce EvaluationIsGuarded CompletionIsReplayable
