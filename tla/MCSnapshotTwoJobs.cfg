CONSTANTS
  Jobs = {j1, j2}
  Dirs = {}
  Root = "root"
  Under <- FlatTree
  Realtime = FALSE
  Interval = 1
  RetryDelay = 1
  Keep = 1
  MaxBackups = 1
  Stamps = {1, 2, 3, 4}
  Earlier = {}
  QuietStart = FALSE
SPECIFICATION Spec
INVARIANT SomeSnapshotRemains
