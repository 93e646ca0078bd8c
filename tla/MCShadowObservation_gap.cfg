SPECIFICATION Spec
CONSTANTS
  c1 = c1  c2 = c2  d1 = d1  d2 = d2  d3 = d3
  Calls = {c1}
  Datasets = {d1, d2, d3}
  SessionOf <- SkipsSecond
  DirectRuns = FALSE
  LastSession = 4
  MaxLag = 0
  MaxFailures = 1
  MaxCrashes = 0
INVARIANT MissedIsSurfaced
