SPECIFICATION Spec
CONSTANTS
  Timeout = 4
  FailsToStop = 2
  Hold = 2
  ServiceLimit = 3
  HookLimit = 2
  Faults = {}
INVARIANT PausedDisarmed
