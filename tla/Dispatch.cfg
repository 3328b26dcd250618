SPECIFICATION FairSpec
CONSTANTS
  p1 = p1
  e1 = e1
  c1 = c1
  Activations = {p1}
  Actions = {e1, c1}
  Owner <- CancelOwner
  Kind <- CancelKind
  Target <- CancelTarget
  MaxRestarts = 1
CHECK_DEADLOCK FALSE
INVARIANTS
  TypeOK
  CancelRestsOnTarget
  RecoveryBarrier
  
PROPERTIES
  KeepsPromise
  BarrierIsReleased
  CallRespectsControl
