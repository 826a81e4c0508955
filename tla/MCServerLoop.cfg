CONSTANTS
  Workers = {w1, w2, w3}
  MaxConnections = 2
  MaxQueued = 2
  EarlyStop = FALSE
SPECIFICATION FairSpec
INVARIANTS
  TypeOK
  ThreadsAreTracked
  NoThreadOutlivesRun
PROPERTIES
  StopReturns
  SlotsAreRecycled
