SPECIFICATION Spec
CONSTANTS
  p1 = p1  p2 = p2  d1 = d1  d2 = d2
  w1 = w1  w2 = w2  w3 = w3  r1 = r1  None = None
  FrontEnds = {p1, p2}
  Daemons = {d1, d2}
  Requests = {w1, w2, w3, r1}
  Writes = {w1, w2, w3}
  Rejected = {w2}
  Capacity = 2
  IdleTimeout = 1
  Pings = 1
  MaxCrashes = 1
SYMMETRY ProcessSymmetry
INVARIANTS
  ServingHoldsTheBrain
PROPERTIES
  OnlyTheOwnerServes
  KeepsTheLine
CHECK_DEADLOCK FALSE
