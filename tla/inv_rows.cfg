SPECIFICATION Spec
CONSTANTS
  p1 = p1
  p2 = p2
  u1 = u1
  u2 = u2
  None = None
  Sessions = {s1, s2}
  Products = {p1}
  Orders = {o1}
  Users = {u1}
  InitCarts <- MCCartsOne
  InitStock <- MCStockOne
  InitThreshold <- MCThreshold
  Thresholds <- MCRaise
  Quantities <- MCTake
  Statuses = {"pending"}
  DefaultThreshold = 2
  Recipients <- MCRecipients
  Admins = 1
  Kinds = {"order", "cancel", "adjust", "update", "status", "scan"}
  MaxRequests = 4
  MaxCrashes = 1
INVARIANTS
  LedgerExact
  StockNeverNegative
  AlertNotLost
  CancelledOnce
CHECK_DEADLOCK FALSE
