---------------------------- MODULE MCMemoryHobs ----------------------------
(* TLC instance of MemoryHobs with the sizes of the code, in bytes.          *)
EXTENDS MemoryHobs

MB == 1024 * 1024
MCLow640K == 640 * 1024
MCMemSizes == {64 * MB, 112 * MB}       \* 128 MB less an eighth for ECC
MCTsegSizes == {0, 2 * MB}
MCTolumSizes == {0, 4096}
MCFspSizes == {64, 1024, MB}
MCAddrSpace == 1024 * MB                \* above any address used

\* sizeof of the structures: header, GUID, data.
MCHobLength == [k \in AllKinds |-> CASE k = "END_OF_HOB_LIST" -> 8
                                     [] k = "RESOURCE" -> 48
                                     [] k = "NVS" -> 24 + 168
                                     [] k = "SMBIOS" -> 24 + 37]

\* Where GetMemoryMap puts the FSP's area.
MCHeapBases == {c.total - c.tseg - RmuRange - c.tolum - c.fsp :
                  c \in [total : MemSizes, tseg : TsegSizes, tolum : TolumSizes, fsp : FspSizes]}
=============================================================================
