SPECIFICATION Spec
CONSTANTS
  w1 = w1  w2 = w2  a1 = a1
  Workers = {w1, w2}
  Dates = {1, 2}
  MarketDates = {1, 2}
  ProbeDates = {1}
  Authorizations = {a1}
  Required = 2
  MaxStarts = 3
  MaxCrashes = 1
SYMMETRY WorkerSymmetry
INVARIANTS OneObservationPerDate ReportsStand ReadinessIsEarned
CHECK_DEADLOCK FALSE
