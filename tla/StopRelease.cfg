SPECIFICATION Spec
CONSTANTS
  p1 = p1
  r1 = r1
  r2 = r2
  k1 = k1
  Activations = {p1}
  Requests = {r1, r2}
  Key <- RetryKey
  MaxTime = 4
  MaxTrades = 1
  MaxAge = 3
SYMMETRY RetrySymmetry
CHECK_DEADLOCK FALSE
INVARIANTS
  NoForgottenActivity
  ReleaseAnswersItsStop
