---------------------------- MODULE MC_XputStats ----------------------------
(* Model-checking instance of XputStats.                                   *)
EXTENDS XputStats

\* An epoch of 2 ticks; operations shorter than, equal to, and longer than
\* two epochs.
MCLatencies == {1, 2, 5}
=============================================================================
