SPECIFICATION HeapSpec
CONSTANTS
  Kinds = {"RESOURCE", "NVS", "SMBIOS"}
  GuidKinds = {"NVS", "SMBIOS"}
  Data = {d1, d2}
  NoData = NoData
  HobLength <- MCHobLength
  HeapBases = {32, 48}
  HeapBytes = 56
  PtrSpace = 128
INVARIANTS
  HobsInsideHeap
  HobsDisjoint
  GuidHobFound
PROPERTIES
  HeapImplementsList
