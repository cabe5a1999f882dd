SPECIFICATION FairSpec
CONSTANTS
  Workers <- MCWorkers
  Topology <- MCTopology
  Body <- MCBody
  Eager <- MCEager
  Pausable <- MCGuarded
  OneShot = {}
  Guarded <- MCGuarded
  MaxPanics = 0
PROPERTIES SignalEnds
CHECK_DEADLOCK FALSE
