SPECIFICATION FairSpec
CONSTANTS
  Threads = {t1}
  Procs = {p1, p2}
  MaxVersion = 3
  Broken = {2}
  Faults = {"slow", "crash"}
  MaxFaults = 2
  None = None
PROPERTY EngineAgain
