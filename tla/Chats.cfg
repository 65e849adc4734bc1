SPECIFICATION Spec
CONSTANTS
  Ids = {c1, c2}
  MaxTurns = 2
  Pages = {w1}
  Faults = {"crash", "write"}
  MaxFaults = 1
  None = None
SYMMETRY Symmetry
INVARIANT TypeOK
INVARIANT AnswersKept
INVARIANT DeadStaysDead
INVARIANT NothingVanishes
PROPERTY OnlyGrows
