SPECIFICATION Spec
CONSTANTS
  Dirs = {d1, d2}
  Accts = {a1, a2}
  Chats = {c1, c2}
  Media = {m1}
  Shows <- ShowsShared
  Faults = {"crash", "fail", "lost", "restored", "foreign"}
  MaxFaults = 2
  Local = Local
  None = None
SYMMETRY Symmetry
CHECK_DEADLOCK FALSE
INVARIANT TypeOK
INVARIANT RootUnitsSafe
INVARIANT UnwantedStaysAway
INVARIANT ShownMediaWhole
INVARIANT FolderStays
INVARIANT Settled
