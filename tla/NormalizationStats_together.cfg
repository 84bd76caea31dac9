SPECIFICATION FairSpec
CONSTANTS
  Jobs = {j1, j2}
  LastRank = 1
  Roots = 2
  Unreadable = {1}
  Sources = {"robotwin"}
  MaxVersion = 2
  MaxLaunches = 3
  Together = {"robotwin"}
  None = None
INVARIANT PooledWhole
CHECK_DEADLOCK FALSE
