SPECIFICATION ApiSpec
CONSTANTS
  Versions = {"1.1", "2.0"}
  MaxCalls = 6
  None = None
INVARIANTS
  OneInit
  MemoryInitFindsEntries
PROPERTIES
  LaterAfterMemory
