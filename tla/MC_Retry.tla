------------------------------- MODULE MC_Retry -------------------------------
(* Model-checking instance of Retry, with the constants of the code.       *)
EXTENDS Retry
=============================================================================
