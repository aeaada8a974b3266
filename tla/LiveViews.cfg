\* A browser with two households, one change of each, two lost connections or restarts
\* of the backend and one switch.  A behaviour ends when these are used up.
CHECK_DEADLOCK FALSE
CONSTANTS
  home = home
  cabin = cabin
  Nothing = Nothing
  Workspaces = {home, cabin}
  MaxChanges = 1
  MaxDrops = 2
  MaxSwitches = 1
  MaxBehind = 1
SPECIFICATION FairSpec
INVARIANTS
  QuietMeansCurrent
  OwnHousehold
PROPERTIES
  Converges
