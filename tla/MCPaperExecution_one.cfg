SPECIFICATION PatientSpec
CONSTANTS
  o1 = o1  o2 = o2  o3 = o3  c1 = c1  c2 = c2  s1 = s1  s2 = s2
  NoOrder = NoOrder  Closed = Closed
  Orders <- OneOrder
  Calls = {c1, c2}
  SessionOf <- OneSessionOf
  SideOf <- OneSideOf
  Horizon = 1
  OpenSession <- OneClock
  ValidAt <- OneValidAt
  ExternalOrders = {o1}
  MaxFaults = 2
  AdapterReportsRejection = TRUE
  PromptDelivery = FALSE
INVARIANTS KillSwitchHonoured ResultIsTruthful TrailRetracesAttempt
PROPERTIES KeepsPromise ReconciliationConverges
