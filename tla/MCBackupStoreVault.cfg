CONSTANTS
  Sessions = {s1, s2}
  Users = {ann, bob, cyd}
  Creds = {c1}
  Ids = {i1, i2}
  Nobody = Nobody
  NoRecord = NoRecord
  NoId = NoId
  NoCred = NoCred
  MaxAccounts = 2
  MaxHistory = 1
SPECIFICATION Spec
SYMMETRY UserSymmetry
PROPERTY VaultSpec
