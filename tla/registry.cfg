SPECIFICATION Spec
CONSTANTS
  a = a  b = b  c1 = c1  c2 = c2  c3 = c3  None = None
  Models = {a, b}
  Callers = {c1, c2, c3}
  Specs <- MCSpecs
  Requests <- MCRequests
  Enabled <- MCEnabled
  MaxMemory = 4
  Word = 16
  MaxRegisters = 3
  MaxLoads = 5
SYMMETRY ModelSymmetry
INVARIANTS
  BudgetHeld
  ResidentFits
  OvershootBounded
CHECK_DEADLOCK FALSE
