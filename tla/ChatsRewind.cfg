SPECIFICATION Spec
CONSTANTS
  Ids = {c1, c2}
  MaxTurns = 2
  Pages = {w1}
  Faults = {}
  MaxFaults = 0
  None = None
INVARIANT ThrownAway
