SPECIFICATION Spec
CONSTANTS
  Requests = {r1, r2}
  Changers = {r1}
  MaxLoginAttempts = 2
  MaxPairs = 3
  MaxCrashes = 1
INVARIANT TypeOK
INVARIANT StaleTokensRefused
INVARIANT AttemptsBounded
INVARIANT CountersExpire
PROPERTY RefusedForGood
PROPERTY SignedOutForGood
PROPERTY SpentForGood
CHECK_DEADLOCK FALSE
