CONSTANTS
  Keys = {k1, k2, k3, k4}
  Values = {v1, v2, foreign}
  KeyTyped = {v1, v2}
  None = none
  maxSize = 2
CHECK_DEADLOCK FALSE
SPECIFICATION Spec
INVARIANTS TypeOK BooksAgree GetNeverTraps
PROPERTY RefinesLRU
