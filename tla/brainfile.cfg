SPECIFICATION Spec
CONSTANTS
  p1 = p1  p2 = p2  w0 = w0  w1 = w1  None = None
  Procs = {p1, p2}
  Inodes = {1, 2, 3, 4, 5}
  Writes = {w0}
  Old = {w0}
  MaxCompacts = 2
  MaxCrashes = 1
SYMMETRY ProcSymmetry
INVARIANTS
  AckedKept
  NothingUnopenable
  NoLeftovers
PROPERTIES
  RestoredAsSaved
