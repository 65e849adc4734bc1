SPECIFICATION Spec
CONSTANTS
  Threads = {t1, t2}
  Procs = {p1, p2}
  MaxVersion = 3
  Broken = {3}
  Faults = {"slow", "held"}
  MaxFaults = 2
  None = None
SYMMETRY Symmetry
INVARIANT KeptByEveryVerdict
