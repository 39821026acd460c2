SPECIFICATION Spec
CONSTANTS
  p1 = p1
  p2 = p2
  u1 = u1
  u2 = u2
  None = None
  Sessions = {s1, s2}
  Products = {p1, p2}
  Orders = {o1, o2}
  Users = {u1, u2}
  InitCarts <- MCCartsTwice
  InitStock <- MCStock
  InitThreshold <- MCThreshold
  Thresholds <- MCRaise
  Quantities <- MCTake
  Statuses = {"processing"}
  DefaultThreshold = 2
  Recipients <- MCVendorOnly
  Admins = 0
  Kinds = {"order", "cancel", "adjust", "bulk", "scan"}
  MaxRequests = 3
  MaxCrashes = 1
INVARIANTS
  TypeOK
  LedgerTip
  OrdersBooked
  CancelReturnsStock
PROPERTIES
  ImplementsBook
CHECK_DEADLOCK FALSE
