\* Two drafts, one with a photo, two pairings, one restart: replays, revocation
\* and quarantine.  It stops when drafts and pairings are used up.
SPECIFICATION Spec
CONSTANTS
  Ops = {1, 2}
  Photos = {2}
  Requests = {r1, r2}
  MaxCred = 2
  MaxEpoch = 1
  MaxCrashes = 1
SYMMETRY RequestSymmetry
INVARIANT NoneAbandoned
PROPERTIES QuarantineHolds ImplementsOfflineCreation
CHECK_DEADLOCK FALSE
