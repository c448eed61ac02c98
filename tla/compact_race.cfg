SPECIFICATION Spec
CONSTANTS
  p1 = p1  p2 = p2  w0 = w0  w1 = w1  None = None
  Procs = {p1, p2}
  Inodes = {1, 2, 3, 4, 5}
  Writes = {w0, w1}
  Old = {w0}
  MaxCompacts = 1
  MaxCrashes = 0
INVARIANTS
  CompactKeepsData
