SPECIFICATION Spec
CONSTANTS
  r1 = r1  r2 = r2  c1 = c1  c2 = c2
  None = None
  Calls = {c1, c2}
  RunIds = {r1, r2}
  Artifacts <- MCArtifacts
  Requests <- MCRequests
  Schemas = {"v1", "newer"}
  AtStart <- MCAtStart
  Versions = {1, 2}
  MaxFaults = 1
INVARIANT NoStrandedLock
PROPERTY KeepsPromise
SYMMETRY CallSymmetry
