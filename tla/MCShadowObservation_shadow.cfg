SPECIFICATION Spec
CONSTANTS
  c1 = c1  c2 = c2  d1 = d1  d2 = d2  d3 = d3
  Calls = {c1, c2}
  Datasets = {d1}
  SessionOf <- OneDataset
  DirectRuns = TRUE
  LastSession = 2
  MaxLag = 1
  MaxFailures = 2
  MaxCrashes = 1
SYMMETRY CallSymmetry
INVARIANTS AuditMatchesLifecycle OneFailureNeverStrands AnswerIsTruthful
PROPERTY NoAutomaticResume
