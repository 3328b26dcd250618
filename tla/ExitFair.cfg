SPECIFICATION FairSpec
CONSTANTS
  p1 = p1
  p2 = p2
  Passes = {p1}
  Lot = 3
  Other = 0
  Faults <- StopFaults
PROPERTIES NakedEnds ExitCompletes
CHECK_DEADLOCK FALSE
