---------------------------- MODULE MCDelayCodec ----------------------------
(* TLC instance of DelayCodec: the two lanes of a module, which share      *)
(* registers, and delays on both sides of every boundary of the code.       *)
EXTENDS DelayCodec

MCDelays == {17, 18, 52, 53, 71, 72, 1023, 1024}
=============================================================================
