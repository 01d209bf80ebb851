SPECIFICATION MapSpec
CONSTANTS
  Low640K = 3
  OneMB = 4
  RmuRange = 1
  SmmGrain = 4
  AddrSpace = 64
  MAX_RANGES = 6
  AssertsOn = TRUE
  MemSizes = {8, 12, 20}
  TsegSizes = {0, 4, 8}
  TolumSizes = {0, 1, 3}
  FspSizes = {0, 1, 2, 5}
  RmuLengths = {0, 1, 2}
INVARIANTS
  NumRangesFit
\* GetMemoryMap returns
CHECK_DEADLOCK FALSE
