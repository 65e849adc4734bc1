SPECIFICATION Spec
CONSTANTS
  Threads = {t1, t2}
  Procs = {p1, p2, p3}
  MaxVersion = 2
  Broken = {2}
  Faults = {"crash", "held", "slow", "dies"}
  MaxFaults = 1
  None = None
SYMMETRY Symmetry
INVARIANT TypeOK
INVARIANT OldKept
