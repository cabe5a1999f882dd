SPECIFICATION Spec
CONSTANTS
  NULL = NULL
  a = a
  b = b
  X = X
  P = P
  G = G
  Garbled = {G}
  Validators = {a, b}
  Heights = {1, 2, 4}
  BlockTimes = {NULL, 5}
  Infos <- MCOneInfo
  RoundDatas <- MCRoundDatas
  Numbers = {0}
  MaxRetainBlocks = 2
  Subject = a
  Window <- MCWindow
  MaxRaces = 1
INVARIANTS TypeOK StreaksAreMaximalRuns ReportsAgree PerformanceCoherent
PROPERTIES LoadReturnsStored
CHECK_DEADLOCK FALSE
