SPECIFICATION BacktestSpec
CONSTANTS
  Opens = {3, 7, 14}
  Closes = {2, 5}
  Costs <- SomeCosts
  Scale = 10
  InitialCash = 12
  MaxSessions = 4
  Grain = 4
  Tolerance = 80
CHECK_DEADLOCK FALSE
INVARIANTS TargetIsReached ChecksNeverTrip MetricsAddUp ClearRunsPassAudit
