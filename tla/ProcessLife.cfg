SPECIFICATION FairSpec
CONSTANTS
  MaxFaults = 1
  MaxBindings = 2
INVARIANT StoppedIsQuiet
PROPERTIES EntryAfterRecovery EntryUnderAdmittedBinding StopEnds ServesAgain
