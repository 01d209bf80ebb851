SPECIFICATION MrcSpec
CONSTANTS
  Seeds = {0, 1, 2, 3}
  AllOnes = 3
  Zero = 0
  NoKey = NoKey
  ClockSeeds = {0, 1}
  Lfsr <- MCLfsr
INVARIANTS
  AccessOnlyWhenReady
  ReturnsUsableMemory
  DelaysMatchSpeed
  TimingsDescribeHardware
  EccMemoryInitialised
  ScramblerNotStuck
PROPERTIES
  MrcImplementsContract
\* MemInit returns to its caller, or loops forever in post_code
CHECK_DEADLOCK FALSE
