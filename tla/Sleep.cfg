SPECIFICATION Spec
CONSTANTS
  MaxSleeps = 3
  Happens = {"cutOff"}
INVARIANT NothingStaysLoaded
INVARIANT OllamaIsBack
PROPERTY NewIsLeftAlone
CHECK_DEADLOCK FALSE
