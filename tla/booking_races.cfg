SPECIFICATION MCSpec
CONSTANTS
  None = None
  Sessions = {s1, s2}
  Mechanics = {m1, m2}
  PayoutReady = {m1}
  Jobs = {j1}
  Quotes = {q1}
  Prices = {1, 2}
  BasePrice = 1
  Targets = {"pending_payment", "confirmed", "en_route", "in_progress", "completed", "cancelled"}
  References = {r1, r2}
  RefundIds = {b1, b2}
  MaxRequests = 4
  MaxCrashes = 1
SYMMETRY Interchangeable
INVARIANTS
  TypeOK
  SelectedIsBooked
  NoUnpaidWork
PROPERTIES
  BookingStands
CHECK_DEADLOCK FALSE
