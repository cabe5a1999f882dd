SPECIFICATION FairSpec
CONSTANTS
  NULL = NULL
  n1 = n1
  n2 = n2
  a = a
  b = b
  c = c
  d = d
  Nodes = {n1, n2}
  FirstRPC = n1
  LCDHost = n2
  MaxHeight = 3
  ValSetAt <- MCValSetAt
  TimeOf <- MCTimeOf
  PerPage = 1
  Configs <- MCConfigs
  Staking <- MCStaking
  Unbonded <- MCUnbonded
  AssignedKey <- MCAssignedKey
  Genesis <- MCGenesis
  Chunks = 2
  blocksBehind = 2
  MaxFailures = 1
  MaxSwitches = 1
  MaxPauses = 1
INVARIANTS TypeOK ValidatorsExact PublishedTogether
PROPERTIES EventuallyCurrent 
CHECK_DEADLOCK FALSE
