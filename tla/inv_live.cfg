SPECIFICATION FairSpec
CONSTANTS
  p1 = p1
  p2 = p2
  u1 = u1
  u2 = u2
  None = None
  Sessions = {s1, s2}
  Products = {p1, p2}
  Orders = {o1, o2}
  Users = {u1, u2}
  InitCarts <- MCCarts
  InitStock <- MCStock
  InitThreshold <- MCThreshold
  Thresholds <- MCThresholds
  Quantities <- MCTake
  Statuses = {"processing"}
  DefaultThreshold = 2
  Recipients <- MCVendorOnly
  Admins = 0
  Kinds = {"order", "cancel", "adjust", "update", "settings", "bulk", "status", "scan"}
  MaxRequests = 2
  MaxCrashes = 1
PROPERTIES
  RequestsFinish
  LowStockIsNoticed
CHECK_DEADLOCK FALSE
