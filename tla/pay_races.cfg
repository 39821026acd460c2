SPECIFICATION Spec
CONSTANTS
  None = None
  Sessions = {s1, s2}
  Orders = {o1}
  References = {r1, r2}
  RefundIds = {b1, b2}
  Statuses = {"shipped"}
  Amounts = {"partial", "full"}
  MaxRequests = 4
  MaxCrashes = 1
SYMMETRY Interchangeable
INVARIANTS
  TypeOK
  PaidIsBacked
  RefundsAreBacked
  RefundedIsBacked
  OneRefundPerPayment
CHECK_DEADLOCK FALSE
