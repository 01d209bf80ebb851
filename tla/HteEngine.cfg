SPECIFICATION HteSpec
\* the boot ends
CHECK_DEADLOCK FALSE
CONSTANTS
  Ranks = {0, 1}
  Boots <- CodeBoots
  Lanes = {0, 1}
  MaxTests = 3
  ResetEnables = TRUE
  None = None
INVARIANTS
  ConfigMatches
  ResultOfThisTest
  MemoryVerdict
