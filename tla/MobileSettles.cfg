\* One draft with a photo beside rebuilds of the cache, late requests and one
\* restart.  Liveness, so without symmetry.  It stops when the draft is uploaded.
SPECIFICATION CacheFairSpec
CONSTANTS
  Ops = {1}
  Photos = {1}
  Requests = {r1, r2}
  MaxCred = 1
  MaxEpoch = 1
  MaxCrashes = 1
PROPERTIES EveryDraftSettles CacheHeals
CHECK_DEADLOCK FALSE
