SPECIFICATION Spec
CONSTANTS
  Seeds = {0, 1, 2, 3}
  AllOnes = 3
  Zero = 0
  NoKey = NoKey
  ClockSeeds = {1}
  Lfsr <- MCLfsr
  MaxFaults = 2
  AssertsOn = FALSE
  ScrubInterval = 1
INVARIANTS
  SuccessMeansTested
CHECK_DEADLOCK FALSE
