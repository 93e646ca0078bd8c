SPECIFICATION Spec
CONSTANTS
  o1 = o1  o2 = o2  o3 = o3  c1 = c1  c2 = c2  s1 = s1  s2 = s2
  NoOrder = NoOrder  Closed = Closed
  Orders <- ThreeOrders
  Calls = {c1, c2}
  SessionOf <- ApartSessionOf
  SideOf <- ApartSideOf
  Horizon = 3
  OpenSession <- ApartClock
  ValidAt <- ApartValidAt
  ExternalOrders = {}
  MaxFaults = 1
  AdapterReportsRejection = FALSE
  PromptDelivery = TRUE
INVARIANTS LongOnlyOnePosition OneSubmissionPerSession
PROPERTIES ArrivesInItsSession
SYMMETRY CallSymmetry
