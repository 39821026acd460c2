SPECIFICATION FairSpec
CONSTANTS
  None = None
  Sessions = {s1, s2}
  Orders = {o1}
  References = {r1, r2}
  RefundIds = {b1, b2}
  Statuses = {"shipped"}
  Amounts = {"partial", "full"}
  MaxRequests = 3
  MaxCrashes = 1
PROPERTIES
  ChargeIsRecorded
  RefundIsRecorded
CHECK_DEADLOCK FALSE
