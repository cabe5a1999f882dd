SPECIFICATION FairSpec
CONSTANTS
  a = a
  b = b
  c = c
  NULL = NULL
  Rounds = {1, 2, 3}
  ValLists <- MCValLists
  MaxPolls = 2
  MaxKeys = 1
  MaxColumns = 3
  DefaultColumnsCount = 3
  RowsAmount = 10
  DebugBlockHeight = 8
  Widths = {100}
INVARIANTS
  Settled
PROPERTIES
  ScreenSpec
CHECK_DEADLOCK FALSE
