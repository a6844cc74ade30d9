SPECIFICATION IeSpec
CONSTANTS
  Char = {0, 1, 2, 3}
  Printable = {1, 2}
  Lists <- MCLists
  Cuts = {0, 1, 2, 3, 4}
  OldNames <- MCOldNames
  U8 = 256
CHECK_DEADLOCK FALSE
INVARIANTS
  StoredNameWasSent
