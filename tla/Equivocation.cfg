SPECIFICATION Spec
CONSTANTS
  Validators = {v1, v2}
  Blocks = {b1, b2}
  Rounds = {0}
  Types = {prevote, precommit}
  NilBlock = NilBlock
  MaxHeight = 3
  windowBlocks = 1
  defaultEvictionWindow = 2
  maxEquivEvents = 3
  MaxVotes = 4
INVARIANTS EvidenceSound FlagSound EvidenceComplete
