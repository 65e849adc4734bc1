SPECIFICATION FairSpec
CONSTANTS
  Timeout = 4
  FailsToStop = 2
  Hold = 2
  ServiceLimit = 3
  HookLimit = 2
  Faults = {"slow", "crash", "device", "stall"}
INVARIANT TypeOK
INVARIANT AsleepDisarmed
PROPERTY WellIsNotReset
PROPERTY DeadIsReset
PROPERTY WellIsWatched
