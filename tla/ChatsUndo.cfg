SPECIFICATION Spec
CONSTANTS
  Ids = {c1, c2}
  MaxTurns = 2
  Pages = {w1}
  Faults = {"write"}
  MaxFaults = 1
  None = None
INVARIANT EveryChatStays
