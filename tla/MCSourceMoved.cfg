SPECIFICATION MCSpec
CONSTANTS
  a = a
  b = b
  Order <- MCOrder
  Inodes = {i1, i2}
  NoInode = NoInode
  NoEntry = NoEntry
  MaxBlocks = 2
  MaxWrites = 2
  Tree <- MCTree
  Here = "."
  Up = ".."
  Requests <- MCRequests
  Entries <- MCEntries
  Space = {2, 3}
  MaxOthers = 2
  Nothing = Nothing
  Foreign = Foreign
  MaxChanges = 2
  Block = 2
INVARIANT ArchiveVerifies
CHECK_DEADLOCK FALSE
