SPECIFICATION Spec
CONSTANTS
  Requests = {r1, r2}
  Loop = loop
  Minutes = 2
  Stale = 0
  Ahead = 1
  Slow = 1
  Faults = {"write", "gateway", "service", "hang", "refused"}
  None = None
INVARIANT TypeOK
PROPERTY SleepsOnlyIdle
PROPERTY WholePeriod
SYMMETRY Symmetry
