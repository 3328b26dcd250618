SPECIFICATION FairSpec
CONSTANTS
  Passes = {p1}
  p1 = p1
  Bases = {1, 2}
  Fills = 2
  Policies <- OneOrOther
  MaxAdjustments = 1
  Lot = 2
  Faults <- SomeFaults
INVARIANTS HandOffWaits TakeProfitsFit
PROPERTIES NakedEnds
CHECK_DEADLOCK FALSE
