SPECIFICATION Spec
CONSTANTS
  Programs = {"LADDER", "SLICED", "REPRICED"}
  LegCount = 2
  Lot <- OneFill
  MaxRetries <- OneRetry
  MaxReprices = 1
INVARIANTS OneAttemptMayTrade OneTradedAttemptPerLeg
PROPERTIES CalledUnderProtection CalledOnFullLedger
CHECK_DEADLOCK FALSE
