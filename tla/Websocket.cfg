SPECIFICATION FairSpec
CONSTANTS
  Subs = {s1, s2}
  InboxBound = 1
  MaxFaults = 2
INVARIANTS SingleWriter NoNilRead CloseReleases
PROPERTIES EventuallyReceives CallsReturn ImplementsService
CHECK_DEADLOCK FALSE
