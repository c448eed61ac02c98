SPECIFICATION Spec
CONSTANTS
  MaxMemories = 3
  MemoryWords = {1, 4}
  Budgets = {1, 2, 3, 5, 8, 13, 21, 34}
  Inputs <- MCInputs
INVARIANTS
  WithinBudget
  NothingOrphaned
  BestMemoriesFirst
  WholeIfItFits
CHECK_DEADLOCK FALSE
