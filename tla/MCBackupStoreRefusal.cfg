CONSTANTS
  Sessions = {s1}
  Users = {ann}
  Creds = {c1, c2}
  Ids = {i1}
  Nobody = Nobody
  NoRecord = NoRecord
  NoId = NoId
  NoCred = NoCred
  MaxAccounts = 1
  MaxHistory = 1
SPECIFICATION Spec
PROPERTY RefusalIsJustified
