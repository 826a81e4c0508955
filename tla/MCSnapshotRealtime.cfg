CONSTANTS
  Jobs = {j1}
  Dirs = {"outer", "inner"}
  Root = "root"
  Under <- NestedTree
  Realtime = TRUE
  Interval = 2
  RetryDelay = 1
  Keep = 1
  MaxBackups = 0
  Stamps = {1, 2, 3}
  Earlier = {}
  QuietStart = TRUE
SPECIFICATION FairSpec
INVARIANT NoBlindSpot
PROPERTIES
  DeadlineHolds
  ChangesAreSaved
