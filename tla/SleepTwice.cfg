SPECIFICATION Spec
CONSTANTS
  MaxSleeps = 3
  Happens = {"sleepInCheck"}
INVARIANT OllamaIsBack
CHECK_DEADLOCK FALSE
