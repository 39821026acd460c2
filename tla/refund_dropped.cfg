SPECIFICATION FairSpec
CONSTANTS
  None = None
  Sessions = {s1}
  Orders = {o1}
  References = {r1, r2}
  RefundIds = {b1, b2}
  Statuses = {"shipped"}
  Amounts = {"partial", "full"}
  MaxRequests = 4
  MaxCrashes = 1
PROPERTY
  RefundIsConfirmed
CHECK_DEADLOCK FALSE
