SPECIFICATION Spec
CONSTANTS
  Keys = {k1}
  Intents = {"STOP_NEW_RISK", "RESUME_ACTIVATION", "EXIT_STRATEGY", "USER_TAKEOVER"}
  None = None
  MaxLosses = 2
INVARIANTS CompletedLeavesNothing
PROPERTIES ResumeIsProven NoEntryAfterDecision
CHECK_DEADLOCK FALSE
