SPECIFICATION FairSpec
CONSTANTS
  Workers <- MCWorkers
  Topology <- MCTopology
  Body <- MCBody
  Eager <- MCEager
  Pausable <- MCGuarded
  OneShot = {}
  Guarded <- MCGuarded
  MaxPanics = 1
INVARIANTS CleanShutdown PanicNeverInTime
PROPERTIES ProducersStopFirst ShutdownEnds
CHECK_DEADLOCK FALSE
