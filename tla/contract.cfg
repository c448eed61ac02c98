SPECIFICATION Spec
CONSTANTS
  b1 = b1  b2 = b2  None = None
  Ids = {1, 2}
  Asks <- CallAsks
  Brains = {b1, b2}
  Served = b1
  Capacity = 1
  Triggers = {"query_memory", "suggest_write"}
INVARIANTS
  SafetyRule
  WritesAreAskedFor
  SameEffectEitherWay
  AnswersHold
CHECK_DEADLOCK FALSE
