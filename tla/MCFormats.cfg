SPECIFICATION Spec
CONSTANTS
  MaxRun = 4
  Values = {0, 1}
  MaxInput = 10
  MaxStream = 4
  Unreadable = Unreadable
  Nibble = 2
  MinMatch = 3
  Window = 13
  MaxMatch = 9
  MaxChain = 3
  BlockSize = 22
  Hash <- FirstByte
  Texts <- MCTexts
  Compressed <- MCCompressed
  Symbols = {0, 1, 2, 3}
  ByteBits = 3
  Words <- MCWords
  Tables <- MCTables
  Sources <- MCSources
  Paths <- MCPaths
  Word = 32
  MaxEntries = 5
  MaxSize = 2
  Up = ".."
  MaxDamages = 2
  Contents = {plain, links}
  Linked = {links}
  OldOptions <- MCOldOptions
  Passwords = {"w1", "w2"}
  Garbage = "garbage"
  FewOptions <- MCFewOptions
  FewSalts = {s1}
  MaxOthers = 2
  AllOptions <- MCAllOptions
  AllSalts = {s1, s2}
INVARIANTS
  TypeOK
  RoundTrip
  OnlyValidIsAccepted
CHECK_DEADLOCK FALSE
