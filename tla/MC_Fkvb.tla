------------------------------- MODULE MC_Fkvb -------------------------------
(* Model-checking instance of Fkvb: the constants each .cfg gives.        *)
EXTENDS Fkvb

\* The thread counts the runs use, as <<num_population_threads, thread_nr_m>>.
\* Both pools, traffic only, and neither (run() goes straight to the end).
MCThreadsPhases == {<<2, 2>>, <<0, 2>>, <<0, 0>>}
\* Fewer traffic threads than population threads.
MCThreadsUsr1 == {<<2, 1>>}
MCThreadsLoader == {<<1, 0>>}
MCThreadsOneTx == {<<0, 1>>}

\* The operation mixes the runs use.
MCMixAll == {"READ", "UPDATE", "RMW", "SCAN", "GENERIC"}
MCMixFlagOnly == {"READ", "UPDATE"}
MCMixRmw == {"RMW"}

\* The access share the calibration measures for zipf80_20 at skews 0.98 to
\* 1.02: it grows with the skew, and one simulation lands on one of two or
\* three truncated percentages, so 80 is hit only at the skew 1.01 and only
\* on some simulations, and the walk can overshoot in both directions.
MCMeasured == <<{77, 78}, {78, 79}, {79, 80, 81}, {82, 83}>>
MCMeasuredAt == [k \in 0 .. 4 |-> IF k = 0 THEN {74} ELSE MCMeasured[k]]
=============================================================================
