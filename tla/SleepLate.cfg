SPECIFICATION Spec
CONSTANTS
  MaxSleeps = 3
  Happens = {"lateLoad"}
INVARIANT NothingStaysLoaded
CHECK_DEADLOCK FALSE
