SPECIFICATION Spec
CONSTANTS
  Low640K <- MCLow640K
  OneMB <- MB
  RmuRange = 65536
  SmmGrain <- MB
  AddrSpace <- MCAddrSpace
  MAX_RANGES = 6
  AssertsOn = FALSE
  MemSizes <- MCMemSizes
  TsegSizes <- MCTsegSizes
  TolumSizes <- MCTolumSizes
  FspSizes <- MCFspSizes
  RmuLengths = {32768, 65536, 131072}
  Kinds = {"RESOURCE", "NVS", "SMBIOS"}
  GuidKinds = {"NVS", "SMBIOS"}
  Data = {}
  NoData = NoData
  HobLength <- MCHobLength
  HeapBases <- MCHeapBases
  HeapBytes = 1024
  PtrSpace <- MCAddrSpace
INVARIANTS
  RangesReported
  OwnersReported
  WritesStayReserved
\* the call returns
CHECK_DEADLOCK FALSE
