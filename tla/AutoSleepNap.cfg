SPECIFICATION Spec
CONSTANTS
  Requests = {r1}
  Loop = loop
  Minutes = 2
  Stale = 0
  Ahead = 0
  Slow = 1
  Faults = {}
  None = None
PROPERTY WholePeriodAlways
