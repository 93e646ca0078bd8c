SPECIFICATION ConfirmedSpec
CONSTANTS
  o1 = o1  c1 = c1  c2 = c2  s1 = s1  a1 = a1  a2 = a2
  NoOrder = NoOrder  Closed = Closed  NoAuthorization = NoAuthorization
  Orders <- OneOrder
  Calls = {c1, c2}
  SessionOf <- OneSessionOf
  SideOf <- OneSideOf
  Horizon = 0
  OpenSession <- OneClock
  ValidAt <- OneValidAt
  ExternalOrders = {}
  MaxFaults = 1
  AdapterReportsRejection = TRUE
  PromptDelivery = FALSE
  Authorizations = {a1, a2}
  OrderOf <- TwiceOrderOf
INVARIANTS OutcomeChain AuditIsTruthful SingleUse
SYMMETRY RunSymmetry
