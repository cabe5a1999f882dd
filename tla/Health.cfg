SPECIFICATION FairSpec
CONSTANTS
  a = a
  b = b
  NULL = NULL
  Validators <- MCValidators
  Voters <- MCVoters
  ValidatorSets <- MCValidatorSets
  PowerVectors <- MCPowerVectors
  Hostings <- MCHostings
  MaxHeight = 2
  MaxRound = 1
  haltThreshold = 0
  ringCapacity = 1
  MaxPauses = 1
  MaxVotes = 1
  MaxInt = 127
  topN = 2
  topASNCount = 1
INVARIANTS MaxRoundGenuine SnapshotConsistent NakamotoMinimal AsnExact
PROPERTIES HaltReported
CHECK_DEADLOCK FALSE
