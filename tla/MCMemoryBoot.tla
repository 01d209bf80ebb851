--------------------------- MODULE MCMemoryBoot ---------------------------
(* TLC instance of MemoryBoot: a three value LFSR and its fixed point.      *)
EXTENDS MemoryBoot

MCLfsr == [s \in Seeds |-> CASE s = 0 -> 1 [] s = 1 -> 2 [] s = 2 -> 0 [] s = 3 -> 3]
=============================================================================
