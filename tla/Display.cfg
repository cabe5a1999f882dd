SPECIFICATION Spec
CONSTANTS
  a = a
  b = b
  c = c
  NULL = NULL
  Rounds = {1}
  ValLists <- MCValLists
  MaxPolls = 2
  MaxKeys = 4
  MaxColumns = 3
  DefaultColumnsCount = 3
  RowsAmount = 10
  DebugBlockHeight = 8
  Widths = {0, 100}
INVARIANTS
  TypeOK
  LastRoundComplete
CHECK_DEADLOCK FALSE
