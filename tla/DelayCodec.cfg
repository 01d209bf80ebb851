SPECIFICATION CodecSpec
\* the calls are bounded, and the firmware may stop
CHECK_DEADLOCK FALSE
CONSTANTS
  Lanes = {0, 1}
  Delays <- MCDelays
  WordBits = 11
  MaxSets = 2
  NoTimings = NoTimings
INVARIANTS
  DeadBandMatches
PROPERTIES
  CodecImplementsRegs
