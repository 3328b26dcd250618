SPECIFICATION Spec
CONSTANTS
  Lots = 2
  MaxFaults = 1
INVARIANTS ClosedIsAccounted CountedOnce
PROPERTIES Converges
CHECK_DEADLOCK FALSE
