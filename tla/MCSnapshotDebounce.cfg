CONSTANTS
  Jobs = {j1}
  Dirs = {}
  Root = "root"
  Under <- FlatTree
  Realtime = TRUE
  Interval = 2
  RetryDelay = 1
  Keep = 1
  MaxBackups = 0
  Stamps = {1, 2, 3}
  Earlier = {}
  QuietStart = FALSE
SPECIFICATION Spec
PROPERTY QuietBeforeSnapshot
