SPECIFICATION MCFairSpec
CONSTANTS
  Blocks = {x, y}
  MaxBlocks = 2
  NoFile = NoFile
  IndexLimit = 1
  Capacity = 2
  Faults = TRUE
  Nothing = Nothing
  Foreign = Foreign
  Uploads = {u1, u2, u3}
  None = None
  MaxClock = 1
  MaxHistory = 2
  Header = 2
  Sizes = {0, 1, 2, 3}
  MaxPayload = 2
  Buffer = 3
  MaxFrames = 3
  Patience = 2
INVARIANTS
  TypeOK
  StoredIsDeclared
  ServedIsStored
PROPERTIES
  FramesInOrder
  ExchangesEnd
CHECK_DEADLOCK FALSE
