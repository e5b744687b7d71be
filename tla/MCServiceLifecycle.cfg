SPECIFICATION FairSpec
CONSTANTS
  MaxStarts = 2
  MaxFaults = 2
INVARIANTS
  ClosedOnce
PROPERTIES
  StopCloses
CHECK_DEADLOCK FALSE
