SPECIFICATION Spec
CONSTANTS
  Threads = {t1, t2}
  Procs = {p1, p2, p3}
  MaxVersion = 3
  Broken = {2}
  Faults = {}
  MaxFaults = 0
  None = None
SYMMETRY Symmetry
INVARIANT Recoverable
