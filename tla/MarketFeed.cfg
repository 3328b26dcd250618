SPECIFICATION Spec
CONSTANTS
  Horizon = 3
  Capacity = 3
  Backlog = 1
  MaxFaults = 2
INVARIANT NoSilentHole
PROPERTY Recovers
CHECK_DEADLOCK FALSE
