SPECIFICATION Spec
CONSTANTS
  Dirs = {d1, d2}
  Accts = {a1, a2}
  Chats = {c1, c2}
  Media = {m1}
  Shows <- ShowsShared
  Faults = {"unclear"}
  MaxFaults = 1
  Local = Local
  None = None
SYMMETRY Symmetry
CHECK_DEADLOCK FALSE
INVARIANT FolderStays
