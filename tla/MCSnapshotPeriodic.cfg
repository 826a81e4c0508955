CONSTANTS
  Jobs = {j1}
  Dirs = {"sub"}
  Root = "root"
  Under <- FlatTree
  Realtime = FALSE
  Interval = 2
  RetryDelay = 1
  Keep = 2
  MaxBackups = 0
  Stamps = {1, 2, 3, 4, 5}
  Earlier = {1, 2, 4}
  QuietStart = FALSE
SPECIFICATION FairSpec
INVARIANTS
  TypeOK
  RetentionBounds
  LatestSurvives
PROPERTY ChangesAreSaved
