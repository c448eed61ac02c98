SPECIFICATION FairSpec
CONSTANTS
  h = h  c1 = c1  c2 = c2  v = v  None = None
  Calls = {h, c1, c2, v}
  Op <- MCOp
  Health = h
  MaxNoise = 2
  MaxDeaths = 1
  MaxOthers = 1
INVARIANTS
  AnswersInStep
  NoRunnerLeft
PROPERTIES
  CallsReturn
CHECK_DEADLOCK FALSE
