SPECIFICATION FairSpec
CONSTANTS
  Jobs = {j1, j2}
  Callers = {c1}
  Keep = 2
  Tail = 1
  Idle = 1
  KeepFinished = 1
  None = None
PROPERTY HoldEnds
