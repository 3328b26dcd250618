SPECIFICATION Spec
CONSTANTS
    Requests <- SmallRequests
    NoPlan = NoPlan
    None = None
    Error = Error
    Whole = 10000
    MinQuantity = 1
    MinNotional = 30
    Better = 1
    Slip = 2
    MaxFacts = 3
INVARIANTS LossWithinBudget StopClearsEntries PlannedFillsAreAccepted LadderClosesItsShare
CHECK_DEADLOCK FALSE
