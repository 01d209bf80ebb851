----------------------------- MODULE MCHobHeap -----------------------------
(* TLC instance of HobHeap: lengths that do and do not need rounding, heaps *)
(* at two places that hold a few HOBs.                                      *)
EXTENDS HobHeap

MCHobLength == [k \in AllKinds |-> CASE k = "END_OF_HOB_LIST" -> 8
                                     [] k = "RESOURCE" -> 16
                                     [] k = "NVS" -> 12
                                     [] k = "SMBIOS" -> 5]
=============================================================================
