SPECIFICATION MCSpec
CONSTANTS
  None = None
  Sessions = {s1, s2}
  Mechanics = {m1, m2}
  PayoutReady = {m1}
  Jobs = {j1}
  Quotes = {q1}
  Prices = {1, 2}
  BasePrice = 1
  Targets = {"confirmed"}
  References = {r1, r2}
  RefundIds = {b1, b2}
  MaxRequests = 4
  MaxCrashes = 1
SYMMETRY Interchangeable
PROPERTY
  CancelRefunds
CHECK_DEADLOCK FALSE
