\* Three containers and two requests at a time: the shortest hierarchy with a
\* walk of several steps.  Liveness beside the safety properties, so without
\* symmetry.  It stops when every container is deleted.
SPECIFICATION FairSpec
CONSTANTS
  Containers = {a, b, c}
  Settled = {a, b}
  Clients = {r1, r2}
  Zones = {z}
  None = None
  Unborn = Unborn
  Deleted = Deleted
INVARIANTS TypeOK
PROPERTIES CycleNeedsOverlap EveryRequestAnswered
CHECK_DEADLOCK FALSE
