CONSTANTS
  Workers = {w1, w2, w3}
  MaxConnections = 2
  MaxQueued = 2
  EarlyStop = TRUE
SPECIFICATION FairSpec
PROPERTY StopReturns
