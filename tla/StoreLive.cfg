SPECIFICATION FairSpec
CONSTANTS
  v0 = v0
  v1 = v1
  Validators <- TwoValidators
  Proposer <- MCProposer
  Rounds <- TwoRounds
  VoteRounds <- FirstRound
  MaxRetainBlocks = 1
  RetainDays = FALSE
  Interruptions = {"pause", "outage"}
  MaxErrors = 1
PROPERTIES RoundsReachStore
