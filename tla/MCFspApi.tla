----------------------------- MODULE MCFspApi ------------------------------
(* TLC instance of FspApi: both versions of the FSP.                        *)
EXTENDS FspApi
=============================================================================
