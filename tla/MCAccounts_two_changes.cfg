SPECIFICATION Spec
CONSTANTS
  Requests = {r1, r2}
  Changers = {r1, r2}
  MaxLoginAttempts = 2
  MaxPairs = 3
  MaxCrashes = 0
INVARIANT StaleTokensRefused
CHECK_DEADLOCK FALSE
