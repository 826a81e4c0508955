CONSTANTS
  Jobs = {j1}
  Dirs = {"sub"}
  Root = "root"
  Under <- FlatTree
  Realtime = TRUE
  Interval = 1
  RetryDelay = 1
  Keep = 1
  MaxBackups = 0
  Stamps = {1, 2, 3}
  Earlier = {}
  QuietStart = FALSE
SPECIFICATION FairSpec
PROPERTY ChangesAreSaved
