SPECIFICATION FairSpec
CONSTANTS
  Requests = {r1}
  Loop = loop
  Minutes = 2
  Stale = 0
  Ahead = 0
  Slow = 1
  Faults = {"write", "gateway", "service", "hang", "refused"}
  None = None
INVARIANT TypeOK
PROPERTY SleepsOnlyIdle
PROPERTY WholePeriod
PROPERTY IdleSleeps
