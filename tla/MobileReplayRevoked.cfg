\* One draft, two pairings: the smallest instance in which work of a revoked
\* credential is sent with the next one.
SPECIFICATION Spec
CONSTANTS
  Ops = {1}
  Photos = {}
  Requests = {r1}
  MaxCred = 2
  MaxEpoch = 1
  MaxCrashes = 0
PROPERTIES RevokedWorkNotReplayed
CHECK_DEADLOCK FALSE
