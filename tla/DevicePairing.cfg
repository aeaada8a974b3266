\* Two pairings with one or two households, one revocation, one disturbance.
\* A phone that is paired, or has nothing left to pair with, may rest.
CHECK_DEADLOCK FALSE
CONSTANTS
  Households = {1, 2}
  MaxCred = 2
  MaxRevoked = 1
  MaxDisturbances = 1
SPECIFICATION FairSpec
INVARIANTS
  RevokedIsRevoked
  InventoryIsOwn
PROPERTIES
  OldPairingsStayGone
  RevokedPhoneNotices
