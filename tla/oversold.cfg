SPECIFICATION Spec
CONSTANTS
  p1 = p1
  p2 = p2
  u1 = u1
  u2 = u2
  None = None
  Sessions = {s1, s2}
  Products = {p1}
  Orders = {o1, o2}
  Users = {u1}
  InitCarts <- MCCartsOne
  InitStock <- MCStockOne
  InitThreshold <- MCThreshold
  Thresholds <- MCThresholds
  Quantities <- MCDeltas
  Statuses = {"processing"}
  DefaultThreshold = 2
  Recipients <- MCRecipients
  Admins = 1
  Kinds = {"order"}
  MaxRequests = 2
  MaxCrashes = 0
INVARIANTS
  NotOversold
CHECK_DEADLOCK FALSE
