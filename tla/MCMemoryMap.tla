---------------------------- MODULE MCMemoryMap ----------------------------
(* TLC instance of MemoryMap in units of 256 KB: 640 KB becomes 3 units.   *)
EXTENDS MemoryMap
=============================================================================
