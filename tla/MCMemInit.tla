----------------------------- MODULE MCMemInit -----------------------------
(* TLC instance of MemInit: a four value LFSR with its fixed point.         *)
EXTENDS MemInit

MCLfsr == [s \in Seeds |-> CASE s = 0 -> 1 [] s = 1 -> 2 [] s = 2 -> 0 [] s = 3 -> 3]
=============================================================================
