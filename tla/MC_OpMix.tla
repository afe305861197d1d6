------------------------------ MODULE MC_OpMix ------------------------------
(* Model-checking instance of OpMix.                                       *)
EXTENDS OpMix

\* Percentages: none, one slot, half, all but one, all; 255 is the largest
\* u8 a percentage option can hold.
MCPercValues == {0, 1, 50, 99, 100}
\* generic_rp within 0..100, as a correct configuration has it.
MCRpValid == {0, 1, 99, 100}
=============================================================================
