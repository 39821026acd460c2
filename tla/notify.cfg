SPECIFICATION LiveSpec
CONSTANTS
  None = None
  Sessions = {s1, s2}
  Users = {u1, u2}
  Events = {lowStock}
  PerUser = {}
  MaxRetries = 2
  MaxRequests = 2
  MaxCrashes = 1
  MaxFailures = 2
INVARIANTS
  TypeOK
  StatusIsTrue
PROPERTIES
  ImplementsDelivery
CHECK_DEADLOCK FALSE
