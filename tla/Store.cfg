SPECIFICATION Spec
CONSTANTS
  v0 = v0
  v1 = v1
  Validators <- TwoValidators
  Proposer <- MCProposer
  Rounds <- ThreeRounds
  VoteRounds = {}
  MaxRetainBlocks = 2
  RetainDays = TRUE
  Interruptions = {}
  MaxErrors = 1
INVARIANTS TypeOK AtMostOneProposer
PROPERTIES RetainedNeverDeleted
