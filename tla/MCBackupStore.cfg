CONSTANTS
  Sessions = {s1, s2, s3}
  Users = {ann}
  Creds = {c1, c2}
  Ids = {i1, i2}
  Nobody = Nobody
  NoRecord = NoRecord
  NoId = NoId
  NoCred = NoCred
  MaxAccounts = 2
  MaxHistory = 1
SPECIFICATION Spec
SYMMETRY Symmetry
INVARIANTS
  TypeOK
  CountIsExact
  ServedAccountExists
  DatabaseLoads
  MetaHasArchive
  HistoryFits
  AcknowledgedIsStored
  FilesBelongToAccount
  UnlistedArchiveIsExplained
