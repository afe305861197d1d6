---------------------------- MODULE KeyPartition ----------------------------
(***************************************************************************)
(* Checks the key ranges of KeyRanges over every configuration of bounded *)
(* sets of key, instance and thread counts.  The state machine only fixes *)
(* one configuration per initial state, with the key_size the fkvb key   *)
(* builder is given, so that the key strings of KeyBuilder are checked   *)
(* for the same configurations.                                           *)
(***************************************************************************)
EXTENDS Naturals, FiniteSets, KeyRanges, KeyBuilder, Distributions, FdbNumKeys

CONSTANTS KeyCounts,      \* candidate values of conf->num_keys
          InstanceCounts, \* candidate values of conf->num_instances (>= 1)
          ThreadCounts,   \* candidate values of conf->num_population_threads (>= 1)
          KeySizes,       \* candidate values of conf->key_size
          KeyGens,        \* candidate conf->key_gen options, parsed
          ScanGens,       \* candidate conf->scan_len_gen options, parsed
          MaxFailStep     \* bound: get_key calls of get_size that may fail

ASSUME /\ KeyCounts \subseteq Nat
       /\ InstanceCounts \subseteq Nat \ {0}
       /\ ThreadCounts \subseteq Nat \ {0}
       /\ KeySizes \subseteq Nat
       /\ MaxFailStep \in Nat


-----------------------------------------------------------------------------
VARIABLES numKeys, numInstances, numThreads, keySize, keyGen, scanGen
vars == <<numKeys, numInstances, numThreads, keySize, keyGen, scanGen>>

Init == /\ numKeys \in KeyCounts
        /\ numInstances \in InstanceCounts
        /\ numThreads \in ThreadCounts
        /\ keySize \in KeySizes
        /\ keyGen \in KeyGens
        /\ scanGen \in ScanGens

\* The configuration never changes once the process has parsed it.
Next == UNCHANGED vars

Spec == Init /\ [][Next]_vars

Instances == 0 .. (numInstances - 1)
Threads == 0 .. (numThreads - 1)
Workers == Instances \X Threads
RangeOf(w) == PopRange(numKeys, numInstances, w[1], numThreads, w[2])
KeyIdx == 0 .. (numKeys - 1)
\* The key string a loader writes for index k (key type "fkvb").
KeyOf(k) == Build(k, keySize)

\* Mutant: the end index one short, "next_key_index + scan_length - 1".
ScanEndIndexExcl(start, len) == start + len - 1

\* do_scan: "end_key_index = next_key_index + scan_length".
ScanEndIndex(start, len) == start + len

\* do_scan builds the start and end keys and passes the smaller under
\* strcmp as beg and the other as end to get_range.
ScanRange(start, len) ==
    LET sk == KeyOf(start)
        ek == Build(ScanEndIndex(start, len), keySize)
    IN IF StrLess(ek, sk) THEN [beg |-> ek, end |-> sk] ELSE [beg |-> sk, end |-> ek]

\* A traffic thread's key_index_generator and scan_length_generator, as
\* init_state builds them with init_rnd_gen.
KeyPattern == InitRndGen(keyGen, numKeys)
ScanPattern == InitRndGen(scanGen, numKeys)
\* The values scan_length_generator->next() can return.
ScanLens == Draws(ScanPattern)

\* The get_key calls of get_size whose futures fail: none, one, or two in
\* a row (the retried run() failing at once).
Failures == {{}} \cup {{s} : s \in 1 .. MaxFailStep}
                 \cup {{s, s + 1} : s \in 1 .. MaxFailStep}

\* The scans whose end key fits the payload; a longer end index makes
\* build's zero count wrap (not modelled).
Scans == {sl \in KeyIdx \X ScanLens :
            Digits(ScanEndIndex(sl[1], sl[2])) <= PayloadSize(keySize)}

-----------------------------------------------------------------------------
\* Across all client processes and all their population threads, the
\* ranges handed out by init_state cover every key index exactly once:
\* no key is left unpopulated and no two threads write the same key.
PartitionExact ==
    /\ UNION {RangeOf(w) : w \in Workers} = 0 .. (numKeys - 1)
    /\ \A v, w \in Workers : v # w => RangeOf(v) \cap RangeOf(w) = {}

\* The consistency assert that init_state runs for every population thread
\* of every instance holds, so a debug build does not abort the load.
PopulationAssertHolds ==
    \A inst \in Instances : PopulationAssert(numKeys, numInstances, inst, numThreads)

\* When the key builder accepts the configuration, prefix_key_string_builder
\* ::build writes, for every key index a loader can draw, exactly what
\* sprintf("%s%0*d", prefix, payload_size, key) writes.
KeysMatchReference ==
    Accepted(numKeys, keySize) => \A k \in KeyIdx : KeyOf(k) = KeyRef(k, keySize)

\* strcmp orders the built keys as their indexes: loaders with disjoint
\* index ranges write disjoint key strings, and do_scan's [start, end]
\* range of two built keys holds the keys of the indexes between them.
KeysOrdered ==
    Accepted(numKeys, keySize) =>
      \A a, b \in KeyIdx : a < b => StrLess(KeyOf(a), KeyOf(b))

\* The key distributions that span the key space, "uniform" (the default)
\* and "zipf<hot>_<perc>", make a traffic thread draw only indexes of keys
\* the load phase wrote, whatever the key count.
TrafficKeysLoaded ==
    keyGen.kind \in {"uniform", "zipf"} /\ numKeys > 0 =>
      Draws(KeyPattern) \subseteq KeyIdx

\* The scan lengths do_scan draws lie in the range the scan_len_gen option
\* names (spec, Distribution: every draw lies in [lower, upper)).
ScanLensAllowed ==
    ScanPattern # Fatal => ScanLens \subseteq Allowed(scanGen, numKeys)

\* get_size on the FoundationDB store the loaders of all instances filled
\* returns the number of keys they wrote, whichever get_key futures fail
\* and are retried by run_fdb_op.
SizeCountsLoadedKeys == \A errs \in Failures : NumKeys(numKeys, errs) = numKeys

\* The loaded keys get_range is asked for by do_scan are exactly those of
\* the indexes from the drawn key index to that index plus the drawn scan
\* length: zero padding makes strcmp order agree with index order across
\* indexes of different digit counts.
ScanSelectsIndexes ==
    Accepted(numKeys, keySize) =>
      \A sl \in Scans :
        LET r == ScanRange(sl[1], sl[2])
        IN {k \in KeyIdx : ~StrLess(KeyOf(k), r.beg) /\ ~StrLess(r.end, KeyOf(k))}
             = {k \in KeyIdx : sl[1] <= k /\ k <= sl[1] + sl[2]}
=============================================================================
