SPECIFICATION MCSpec
CONSTANTS
  None = None
  Sessions = {s1, s2}
  Users = {boss, fitter}
  Boss = boss
  Fitter = fitter
  Passwords = {secret, guess}
  Secret = secret
  ResetTokens = {t1}
  Addresses = {a1}
  Documents = {d1}
  Subaccounts = {c1, c2}
  Banks = {k1}
  LockoutAttempts = 1
  MaxRequests = 3
  MaxCrashes = 1
SYMMETRY Interchangeable
INVARIANT
  LockoutHolds
CHECK_DEADLOCK FALSE
