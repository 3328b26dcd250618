SPECIFICATION Spec
CONSTANTS
  p1 = p1
  p2 = p2
  Passes = {p1, p2}
  Lot = 1
  Other = 1
  Faults <- CallFaults
SYMMETRY PassSymmetry
INVARIANTS NoForeignReduction CompletedMeansFlat
CHECK_DEADLOCK FALSE
