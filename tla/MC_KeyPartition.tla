-------------------------- MODULE MC_KeyPartition --------------------------
(* Bounded configurations for KeyPartition: up to 12 keys, 3 client        *)
(* processes and 4 population threads, enough for empty ranges, remainders *)
(* at the last instance and at the last thread, and more threads than keys. *)
(* Key sizes 4 to 6 give payloads of 1 to 3 characters: too short for 10   *)
(* keys or more, exactly two digits, and padded.  size_t is 4 bits wide:   *)
(* wide enough for every key index, narrow enough to enumerate a draw.     *)
EXTENDS KeyPartition

MCKeyCounts == 0 .. 12
MCInstanceCounts == 1 .. 3
MCThreadCounts == 1 .. 4
MCKeySizes == 4 .. 6
Opt(k, a, b) == [kind |-> k, a |-> a, b |-> b]
\* The default key distribution and a zipfian one.
MCKeyGens == {Opt("uniform", 0, 0), Opt("zipf", 20, 80)}
\* Scan lengths: the default kind (const), the whole key space, a bounded
\* uniform, one with its bounds reversed (FATAL), and an unknown option.
MCScanGens == {Opt("const", 3, 0), Opt("uniform", 0, 0), Opt("uniform_b", 1, 3),
               Opt("uniform_b", 3, 1), Opt("other", 0, 0)}
\* "const3" and "uniform1_3".
MCScanGensBounded == {Opt("const", 3, 0), Opt("uniform_b", 1, 3)}
=============================================================================
