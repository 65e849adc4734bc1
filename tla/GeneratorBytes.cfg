SPECIFICATION Spec
CONSTANTS
  Jobs = {j1, j2}
  Callers = {c1, c2}
  Keep = 2
  Tail = 1
  Idle = 1
  KeepFinished = 1
  None = None
INVARIANT AnswerHasBytes
