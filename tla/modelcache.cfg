SPECIFICATION FairSpec
CONSTANTS
  p1 = p1  p2 = p2  None = None  Torn = Torn
  Procs = {p1, p2}
  Inodes = {1, 2, 3, 4}
  MaxVersion = 2
  MaxChanges = 1
  MaxCuts = 1
  MaxCrashes = 1
INVARIANTS
  VerifiedIsWhole
PROPERTIES
  EventuallyVerified
