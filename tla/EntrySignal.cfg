SPECIFICATION Spec
CONSTANTS
  Horizon = 6
  Deadline = 5
  Interval = 2
  Lookback = 1
  Confirmations = 2
  Prices = {0, 1}
  Extension = 1
  Backlog = 1
  MaxFaults = 1
INVARIANTS OneEntry SignalIsTrue
CHECK_DEADLOCK FALSE
