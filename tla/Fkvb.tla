-------------------------------- MODULE Fkvb --------------------------------
(***************************************************************************)
(* The two-phase benchmark run of FKVB<IO> (src/src/fkvb/FKVB.cc):        *)
(*   - the main thread of run(): spawn the population threads, join and   *)
(*     dump them in order, the optional load barrier, spawn the traffic   *)
(*     threads, join and dump them, shut the store down;                  *)
(*   - populate_loop: bulk writes through the thread's key sub-range;     *)
(*   - tx_loop + do_transaction: one operation per iteration until the    *)
(*     budget (ops or seconds) is used up or a stop flag is seen;         *)
(*   - the SIGUSR1/SIGUSR2/SIGINT handlers, which flip the shared flags   *)
(*     (running, population_barrier, failed) while the threads run.       *)
(* The store is abstract: every call returns success or failure.  Which   *)
(* key an operation touches and the statistics it records are left out;   *)
(* XputStats models the statistics.                                       *)
(***************************************************************************)
EXTENDS Naturals, FiniteSets, KeyRanges

CONSTANTS ThreadCounts, \* <<num_population_threads, thread_nr_m>> the run may have
          NumKeys,      \* conf->num_keys
          NumInstances, \* conf->num_instances
          InstanceId,   \* conf->instance_id
          BulkSize,     \* BULK_SIZE
          Duration,     \* N of --dur opsN (operations per traffic thread)
          MixOps,       \* operations with a non-zero percentage in the mix
          StoreFails,   \* whether the store may answer a call with an error
          Garbage,      \* content of a bulk-buffer slot never written
          MaxSecOps,    \* bound: iterations of a SEC_N loop before time runs out
          KeyZipf,      \* conf->key_gen is "zipf<hot>_<perc>"
          AccessPct,    \* its <perc>: the access share the calibration aims at
          SkewSteps,    \* bound: skews 1.0 + 0.01 * (k - SkewStart), k in 0..SkewSteps
          SkewStart,    \* the k of the initial skew 1.0
          Measured,     \* Measured[k]: the int shares one simulation at skew k can give
          Signalled     \* whether an operator sends the process signals at all

ASSUME /\ ThreadCounts \subseteq Nat \X Nat /\ NumKeys \in Nat
       /\ InstanceId \in 0 .. (NumInstances - 1)
       /\ BulkSize \in Nat \ {0} /\ Duration \in Nat
       /\ MixOps \subseteq {"READ", "UPDATE", "RMW", "SCAN", "GENERIC"}
       /\ StoreFails \in BOOLEAN
       /\ KeyZipf \in BOOLEAN /\ Signalled \in BOOLEAN /\ SkewStart \in 0 .. SkewSteps
       /\ Measured \in [0 .. SkewSteps -> SUBSET (0 .. 100)]

VARIABLE threads \* <<conf->num_population_threads, conf->thread_nr_m>>

NPop == threads[1]
NTx == threads[2]
PopIds == 0 .. (NPop - 1)
TxIds == 0 .. (NTx - 1)
Slots == 0 .. (BulkSize - 1)
Keys == 0 .. (NumKeys - 1)
Workers == ({"pop"} \X PopIds) \cup ({"tx"} \X TxIds)

\* The sub-range init_state gives population thread i (non-sharded keys).
Lo(i) == Low(NumKeys, NumInstances, InstanceId, NPop, i)
Hi(i) == High(NumKeys, NumInstances, InstanceId, NPop, i)

VARIABLES
  mainPc,            \* where the main thread is in run()
  joinIdx,           \* i of the pthread_join loop being executed
  popPc, popOps, popPos, kbuf,   \* population threads and their state
  txPc, remaining, expired,      \* traffic threads and their state
  popRunning, txRunning,         \* fkvb_thread_state::running
  failed,            \* the static volatile 'failed' flag
  populationBarrier, \* FKVB::population_barrier
  barrierFile,       \* signal_barrier() has created the barrier file
  exited,            \* the process ended in FATAL/exit or crashed
  dumped,            \* workers whose statistics dump_xputs wrote
  popWrites,         \* how often each key was sent to put_bulk
  txIssued,          \* operations issued by each traffic thread
  durationT,         \* state->duration_t, from --dur
  usr1,              \* history: SIGUSR1 has been received
  late,              \* history: operations a worker issued after a stop
  skew               \* s of compute_zipf_skew, as the k of 1.0 + 0.01 * (k - SkewStart)

vars == <<threads, mainPc, joinIdx, popPc, popOps, popPos, kbuf, txPc, remaining,
          expired, popRunning, txRunning, failed, populationBarrier,
          barrierFile, exited, dumped, popWrites, txIssued, durationT,
          usr1, late, skew>>

Alive == ~exited /\ mainPc # "done"

\* main() has not yet assigned the global 'fkvb'.
Booting == {"boot", "calibrate"}

\* What a store call can return: DummyKVOrdered returns 0 from every call;
\* a real store (StoreFails) may also return an error.
StoreResults == IF StoreFails THEN BOOLEAN ELSE {TRUE}

\* A stop has been requested of worker w: the shared failure flag, SIGUSR1,
\* or the end of its wall-clock budget.
StopRequested(w) ==
    \/ failed
    \/ usr1
    \/ (w[1] = "tx" /\ durationT = "SEC_N" /\ expired[w[2]])

CountLate(w) == late' = [late EXCEPT ![w] = @ + (IF StopRequested(w) THEN 1 ELSE 0)]

-----------------------------------------------------------------------------
(* Initial state: main() has installed the three signal handlers; the    *)
(* global 'fkvb' is still null.  The other variables hold what the FKVB   *)
(* constructor and init_state will set.                                   *)
Init ==
  /\ threads \in ThreadCounts
  /\ mainPc = "boot"
  /\ joinIdx = 0
  /\ popPc = [i \in PopIds |-> "idle"]
  /\ popOps = [i \in PopIds |-> Hi(i) - Lo(i)]
  /\ popPos = [i \in PopIds |-> Lo(i)]
  /\ kbuf = [i \in PopIds |-> [s \in Slots |-> Garbage]]
  /\ txPc = [i \in TxIds |-> "idle"]
  /\ remaining = [i \in TxIds |-> Duration]
  /\ expired = [i \in TxIds |-> FALSE]
  /\ popRunning = [i \in PopIds |-> TRUE]
  /\ txRunning = [i \in TxIds |-> TRUE]
  /\ failed = FALSE
  /\ populationBarrier \in BOOLEAN   \* conf->load_barrier
  /\ barrierFile = FALSE
  /\ exited = FALSE
  /\ dumped = {}
  /\ popWrites = [k \in Keys \cup {Garbage} |-> 0]
  /\ txIssued = [i \in TxIds |-> 0]
  /\ durationT \in {"OPS_N", "SEC_N"}
  /\ usr1 = FALSE
  /\ late = [w \in Workers |-> 0]
  /\ skew = SkewStart

-----------------------------------------------------------------------------
(* Main thread: main() in fkvb_main.cc, then FKVB<IO>::run().              *)

\* fkvb_factory::build_fkvb: the backend's init() returns 0 (Dummy) or
\* FATALs when the database cannot be opened (FDB); the FKVB constructor
\* then builds the thread states.
BuildFkvb == IF FALSE \in StoreResults THEN {"fkvb", "fatal"} ELSE {"fkvb"}

\* The FKVB constructor builds the traffic states first; init_state of the
\* first one calls init_rnd_gen(key_gen), which for a zipf option runs
\* compute_zipf_skew (the later calls return cached_skew).
Calibrates == KeyZipf /\ NTx > 0

\* main: parse the arguments, validate them, build the FKVB object and
\* assign it to the global 'fkvb', then call fkvb->run().  The
\* constructor's calibration loop, when there is one, runs before the
\* assignment.
Construct ==
  /\ mainPc = "boot" /\ ~exited
  /\ \E b \in BuildFkvb :
       \/ b = "fkvb" /\ mainPc' = (IF Calibrates THEN "calibrate" ELSE "start")
          /\ UNCHANGED exited
       \/ b = "fatal" /\ exited' = TRUE /\ UNCHANGED mainPc
  /\ UNCHANGED <<threads, joinIdx, popPc, popOps, popPos, kbuf, txPc, remaining,
                 expired, popRunning, txRunning, failed, populationBarrier,
                 barrierFile, dumped, popWrites, txIssued, durationT, usr1, late, skew>>

\* Skews above (below) the modelled range are abstracted to its last
\* (first) step: the loop goes on there, measuring as that step does.
SkewUp(k) == IF k < SkewSteps THEN k + 1 ELSE k
SkewDown(k) == IF k > 0 THEN k - 1 ELSE k

\* Mutant: the two corrections swapped.
NextSkewSwapped(k, cur) == IF cur < AccessPct THEN SkewDown(k) ELSE SkewUp(k)

\* "else if (cur_access_pct < access_pct) s += 0.01; else s -= 0.01;"
NextSkew(k, cur) == IF cur < AccessPct THEN SkewUp(k) ELSE SkewDown(k)

\* One iteration of compute_zipf_skew's "while (!converged)": a fresh
\* zipf_io_pattern (seed 0, so get_random_seed()) is sampled 10^6 times
\* and cur_access_pct is the truncated cumulative share at address_pct,
\* one of Measured[skew].  On a hit the loop ends, cached_skew is set and
\* the constructor goes on.
CalibrateHit ==
  /\ mainPc = "calibrate" /\ ~exited
  /\ AccessPct \in Measured[skew]
  /\ mainPc' = "start"
  /\ UNCHANGED <<threads, joinIdx, popPc, popOps, popPos, kbuf, txPc, remaining,
                 expired, popRunning, txRunning, failed, populationBarrier,
                 barrierFile, exited, dumped, popWrites, txIssued, durationT,
                 usr1, late, skew>>

CalibrateMiss ==
  /\ mainPc = "calibrate" /\ ~exited
  /\ \E cur \in Measured[skew] \ {AccessPct} : skew' = NextSkew(skew, cur)
  /\ UNCHANGED <<threads, mainPc, joinIdx, popPc, popOps, popPos, kbuf, txPc,
                 remaining, expired, popRunning, txRunning, failed,
                 populationBarrier, barrierFile, exited, dumped, popWrites,
                 txIssued, durationT, usr1, late>>

\* "if (conf->num_population_threads)": create the population threads; a
\* failed pthread_create is FATAL.
StartPopulation ==
  /\ mainPc = "start" /\ ~exited /\ NPop > 0
  /\ \/ /\ popPc' = [i \in PopIds |-> "loop"]
        /\ mainPc' = "joinPop" /\ joinIdx' = 0
        /\ UNCHANGED exited
     \/ exited' = TRUE /\ UNCHANGED <<popPc, mainPc, joinIdx, skew>>
  /\ UNCHANGED <<threads, popOps, popPos, kbuf, txPc, remaining, expired, popRunning,
                 txRunning, failed, populationBarrier, barrierFile, dumped,
                 popWrites, txIssued, durationT, usr1, late, skew>>

\* The else branch: no population, and no barrier either.
SkipPopulation ==
  /\ mainPc = "start" /\ ~exited /\ NPop = 0
  /\ mainPc' = "runTx"
  /\ UNCHANGED <<threads, joinIdx, popPc, popOps, popPos, kbuf, txPc, remaining,
                 expired, popRunning, txRunning, failed, populationBarrier,
                 barrierFile, exited, dumped, popWrites, txIssued, durationT,
                 usr1, late, skew>>

\* Mutant: the join does not wait for the thread to finish.
JoinPopNoWait ==
  /\ mainPc = "joinPop" /\ ~exited /\ joinIdx < NPop
  /\ dumped' = dumped \cup {<<"pop", joinIdx>>}
  /\ joinIdx' = joinIdx + 1
  /\ UNCHANGED <<threads, mainPc, popPc, popOps, popPos, kbuf, txPc, remaining,
                 expired, popRunning, txRunning, failed, populationBarrier,
                 barrierFile, exited, popWrites, txIssued, durationT, usr1,
                 late, skew>>

\* pthread_join(population_thread_arr[i]) blocks until thread i has
\* returned, then its statistics are dumped to <xput_file>.loadxput.
JoinPop ==
  /\ mainPc = "joinPop" /\ ~exited /\ joinIdx < NPop
  /\ popPc[joinIdx] = "done"
  /\ dumped' = dumped \cup {<<"pop", joinIdx>>}
  /\ joinIdx' = joinIdx + 1
  /\ UNCHANGED <<threads, mainPc, popPc, popOps, popPos, kbuf, txPc, remaining,
                 expired, popRunning, txRunning, failed, populationBarrier,
                 barrierFile, exited, popWrites, txIssued, durationT, usr1,
                 late, skew>>

\* After the join loop: without a barrier sleep 5s and go on; with one,
\* write the barrier file (signal_barrier throws, ending the process, when
\* the file cannot be created) and start waiting for SIGUSR2.
EndPopulation ==
  /\ mainPc = "joinPop" /\ ~exited /\ joinIdx = NPop
  /\ \/ ~populationBarrier /\ mainPc' = "runTx" /\ UNCHANGED <<barrierFile, exited, skew>>
     \/ populationBarrier /\ barrierFile' = TRUE /\ mainPc' = "barrierWait"
        /\ UNCHANGED exited
     \/ populationBarrier /\ exited' = TRUE /\ UNCHANGED <<barrierFile, mainPc, skew>>
  /\ UNCHANGED <<threads, joinIdx, popPc, popOps, popPos, kbuf, txPc, remaining,
                 expired, popRunning, txRunning, failed, populationBarrier,
                 dumped, popWrites, txIssued, durationT, usr1, late, skew>>

\* Mutant: the wait loop tests the flag the wrong way round.
BarrierReleaseInverted ==
  /\ mainPc = "barrierWait" /\ ~exited /\ populationBarrier
  /\ mainPc' = "runTx"
  /\ UNCHANGED <<threads, joinIdx, popPc, popOps, popPos, kbuf, txPc, remaining,
                 expired, popRunning, txRunning, failed, populationBarrier,
                 barrierFile, exited, dumped, popWrites, txIssued, durationT,
                 usr1, late, skew>>

\* "while (population_barrier) usleep(1000000);": leaves once SIGUSR2 has
\* cleared the flag.  Nothing else (not 'failed') ends the wait.
BarrierRelease ==
  /\ mainPc = "barrierWait" /\ ~exited /\ ~populationBarrier
  /\ mainPc' = "runTx"
  /\ UNCHANGED <<threads, joinIdx, popPc, popOps, popPos, kbuf, txPc, remaining,
                 expired, popRunning, txRunning, failed, populationBarrier,
                 barrierFile, exited, dumped, popWrites, txIssued, durationT,
                 usr1, late, skew>>

\* "if (NUM_THREADS)": create the traffic threads (FATAL on failure).
StartTraffic ==
  /\ mainPc = "runTx" /\ ~exited /\ NTx > 0
  /\ \/ /\ txPc' = [i \in TxIds |-> "loop"]
        /\ mainPc' = "joinTx" /\ joinIdx' = 0
        /\ UNCHANGED exited
     \/ exited' = TRUE /\ UNCHANGED <<txPc, mainPc, joinIdx, skew>>
  /\ UNCHANGED <<threads, popPc, popOps, popPos, kbuf, remaining, expired, popRunning,
                 txRunning, failed, populationBarrier, barrierFile, dumped,
                 popWrites, txIssued, durationT, usr1, late, skew>>

\* pthread_join(threads[i]), then dump_xputs to <xput_file>.runxput.
JoinTx ==
  /\ mainPc = "joinTx" /\ ~exited /\ joinIdx < NTx
  /\ txPc[joinIdx] = "done"
  /\ dumped' = dumped \cup {<<"tx", joinIdx>>}
  /\ joinIdx' = joinIdx + 1
  /\ UNCHANGED <<threads, mainPc, popPc, popOps, popPos, kbuf, txPc, remaining,
                 expired, popRunning, txRunning, failed, populationBarrier,
                 barrierFile, exited, popWrites, txIssued, durationT, usr1,
                 late, skew>>

\* The end of run(): print_stats, thread_local_exit and kv->shutdown, after
\* the last join or directly when there are no traffic threads.
Shutdown ==
  /\ ~exited
  /\ \/ mainPc = "joinTx" /\ joinIdx = NTx
     \/ mainPc = "runTx" /\ NTx = 0
  /\ mainPc' = "done"
  /\ UNCHANGED <<threads, joinIdx, popPc, popOps, popPos, kbuf, txPc, remaining,
                 expired, popRunning, txRunning, failed, populationBarrier,
                 barrierFile, exited, dumped, popWrites, txIssued, durationT,
                 usr1, late, skew>>

-----------------------------------------------------------------------------
(* Population threads: FKVB<IO>::populate_loop and do_populate_bulk.       *)

\* "while (ops && state->running && !failed)": the loop test; on exit the
\* thread calls thread_local_exit and returns.
PopCheck(i) ==
  /\ popPc[i] = "loop" /\ ~exited
  /\ popPc' = [popPc EXCEPT ![i] =
                 IF popOps[i] > 0 /\ popRunning[i] /\ ~failed THEN "bulk" ELSE "done"]
  /\ UNCHANGED <<threads, mainPc, joinIdx, popOps, popPos, kbuf, txPc, remaining,
                 expired, popRunning, txRunning, failed, populationBarrier,
                 barrierFile, exited, dumped, popWrites, txIssued, durationT,
                 usr1, late, skew>>

\* The j-th index (from 0) that seq_io_pattern(high, low, pos).next() returns:
\* "rval = _pos++; if (_pos >= _end) _pos = _beg;".
SeqDraw(i, pos, j) == Lo(i) + ((pos - Lo(i) + j) % (Hi(i) - Lo(i)))

\* The multiset of keys one put_bulk call sends, as a count per key.
BulkCounts(buf) == [k \in Keys \cup {Garbage} |-> Cardinality({s \in Slots : buf[s] = k})]

\* Mutant: "dd = BULK_SIZE", not capped by the keys left.
PopBulkFullBulk(i) ==
  /\ popPc[i] = "bulk" /\ ~exited
  /\ LET buf == [s \in Slots |-> SeqDraw(i, popPos[i], s)]
     IN /\ kbuf' = [kbuf EXCEPT ![i] = buf]
        /\ popPos' = [popPos EXCEPT ![i] = SeqDraw(i, popPos[i], BulkSize)]
        /\ popWrites' = [k \in DOMAIN popWrites |-> popWrites[k] + BulkCounts(buf)[k]]
        /\ popOps' = [popOps EXCEPT ![i] = @ - BulkSize]
        /\ popPc' = [popPc EXCEPT ![i] = "loop"]
  /\ CountLate(<<"pop", i>>)
  /\ UNCHANGED <<threads, mainPc, joinIdx, txPc, remaining, expired, popRunning,
                 txRunning, failed, populationBarrier, barrierFile, exited,
                 dumped, txIssued, durationT, usr1, skew>>

\* Mutant: the key generator is not advanced between bulks.
PopBulkNoAdvance(i) ==
  /\ popPc[i] = "bulk" /\ ~exited
  /\ LET dd  == IF popOps[i] > BulkSize THEN BulkSize ELSE popOps[i]
         buf == [s \in Slots |-> IF s < dd THEN SeqDraw(i, popPos[i], s) ELSE kbuf[i][s]]
     IN /\ kbuf' = [kbuf EXCEPT ![i] = buf]
        /\ popWrites' = [k \in DOMAIN popWrites |-> popWrites[k] + BulkCounts(buf)[k]]
        /\ popOps' = [popOps EXCEPT ![i] = @ - dd]
        /\ popPc' = [popPc EXCEPT ![i] = "loop"]
  /\ CountLate(<<"pop", i>>)
  /\ UNCHANGED <<threads, mainPc, joinIdx, txPc, remaining, expired, popRunning,
                 txRunning, failed, populationBarrier, barrierFile, exited,
                 dumped, txIssued, durationT, usr1, popPos, skew>>

\* One iteration: dd = min(ops, BULK_SIZE) keys are drawn into the first dd
\* slots of key_buffer_bulk, then put_bulk is called with BULK_SIZE entries;
\* a failed put_bulk is FATAL.  "ops -= dd".
PopBulk(i) ==
  /\ popPc[i] = "bulk" /\ ~exited
  /\ LET dd  == IF popOps[i] > BulkSize THEN BulkSize ELSE popOps[i]
         buf == [s \in Slots |-> IF s < dd THEN SeqDraw(i, popPos[i], s) ELSE kbuf[i][s]]
     IN /\ kbuf' = [kbuf EXCEPT ![i] = buf]
        /\ popPos' = [popPos EXCEPT ![i] = SeqDraw(i, popPos[i], dd)]
        /\ popWrites' = [k \in DOMAIN popWrites |-> popWrites[k] + BulkCounts(buf)[k]]
        /\ \/ /\ popOps' = [popOps EXCEPT ![i] = @ - dd]
              /\ popPc' = [popPc EXCEPT ![i] = "loop"]
              /\ UNCHANGED exited
           \/ FALSE \in StoreResults /\ exited' = TRUE /\ UNCHANGED <<popOps, popPc, skew>>
  /\ CountLate(<<"pop", i>>)
  /\ UNCHANGED <<threads, mainPc, joinIdx, txPc, remaining, expired, popRunning,
                 txRunning, failed, populationBarrier, barrierFile, dumped,
                 txIssued, durationT, usr1, skew>>

-----------------------------------------------------------------------------
(* Traffic threads: FKVB<IO>::tx_loop and do_transaction.                  *)

\* Mutants of the loop test: without "!failed", and with "remaining >= 0"
\* in place of the post-decrement test.
TxCheckNoFailed(i) ==
  /\ txPc[i] = "loop" /\ ~exited
  /\ durationT = "SEC_N" => (expired[i] \/ txIssued[i] < MaxSecOps)
  /\ LET go == IF durationT = "OPS_N" THEN txRunning[i] /\ remaining[i] > 0
               ELSE txRunning[i] /\ ~expired[i]
     IN /\ txPc' = [txPc EXCEPT ![i] = IF go THEN "op" ELSE "done"]
        /\ remaining' = IF durationT = "OPS_N" /\ txRunning[i] /\ remaining[i] > 0
                        THEN [remaining EXCEPT ![i] = @ - 1] ELSE remaining
  /\ UNCHANGED <<threads, mainPc, joinIdx, popPc, popOps, popPos, kbuf, expired,
                 popRunning, txRunning, failed, populationBarrier, barrierFile,
                 exited, dumped, popWrites, txIssued, durationT, usr1, late, skew>>

TxCheckOffByOne(i) ==
  /\ txPc[i] = "loop" /\ ~exited
  /\ durationT = "SEC_N" => (expired[i] \/ txIssued[i] < MaxSecOps)
  /\ LET go == IF durationT = "OPS_N" THEN txRunning[i] /\ remaining[i] >= 0 /\ ~failed
               ELSE txRunning[i] /\ ~expired[i] /\ ~failed
     IN /\ txPc' = [txPc EXCEPT ![i] = IF go THEN "op" ELSE "done"]
        /\ remaining' = IF durationT = "OPS_N" /\ txRunning[i] /\ remaining[i] > 0
                        THEN [remaining EXCEPT ![i] = @ - 1] ELSE remaining
  /\ UNCHANGED <<threads, mainPc, joinIdx, popPc, popOps, popPos, kbuf, expired,
                 popRunning, txRunning, failed, populationBarrier, barrierFile,
                 exited, dumped, popWrites, txIssued, durationT, usr1, late, skew>>

\* The loop test.  OPS_N: "state->running && remaining-- && !failed" (the
\* decrement happens only when running holds; once remaining is 0 the loop
\* ends and the wrapped value is never read again).  SEC_N:
\* "state->running && now < end && !failed".  The model bounds a SEC_N
\* loop by MaxSecOps iterations: the clock passes 'end' by then.
TxCheck(i) ==
  /\ txPc[i] = "loop" /\ ~exited
  /\ durationT = "SEC_N" => (expired[i] \/ txIssued[i] < MaxSecOps)
  /\ LET go == IF durationT = "OPS_N"
               THEN txRunning[i] /\ remaining[i] > 0 /\ ~failed
               ELSE txRunning[i] /\ ~expired[i] /\ ~failed
     IN /\ txPc' = [txPc EXCEPT ![i] = IF go THEN "op" ELSE "done"]
        /\ remaining' = IF durationT = "OPS_N" /\ txRunning[i] /\ remaining[i] > 0
                        THEN [remaining EXCEPT ![i] = @ - 1] ELSE remaining
  /\ UNCHANGED <<threads, mainPc, joinIdx, popPc, popOps, popPos, kbuf, expired,
                 popRunning, txRunning, failed, populationBarrier, barrierFile,
                 exited, dumped, popWrites, txIssued, durationT, usr1, late, skew>>

\* What do_transaction does when the operation op fails: READ, UPDATE
\* (after its last retry, see Retry) and GENERIC set 'failed'; RMW and SCAN
\* are FATAL and end the process.
FailSetsFlag(op) == op \in {"READ", "UPDATE", "GENERIC"}

\* One call of do_transaction followed by the add_sample calls.
TxOp(i) ==
  /\ txPc[i] = "op" /\ ~exited
  /\ \E op \in MixOps, ok \in StoreResults :
       \/ ok /\ UNCHANGED <<failed, exited, skew>>
       \/ ~ok /\ FailSetsFlag(op) /\ failed' = TRUE /\ UNCHANGED exited
       \/ ~ok /\ ~FailSetsFlag(op) /\ exited' = TRUE /\ UNCHANGED failed
  /\ txPc' = [txPc EXCEPT ![i] = "loop"]
  /\ txIssued' = [txIssued EXCEPT ![i] = @ + 1]
  /\ CountLate(<<"tx", i>>)
  /\ UNCHANGED <<threads, mainPc, joinIdx, popPc, popOps, popPos, kbuf, remaining,
                 expired, popRunning, txRunning, populationBarrier,
                 barrierFile, dumped, popWrites, durationT, usr1, skew>>

\* SEC_N: the wall clock of thread i passes init_time + duration.
Expire(i) ==
  /\ durationT = "SEC_N" /\ txPc[i] \in {"loop", "op"} /\ ~expired[i] /\ ~exited
  /\ expired' = [expired EXCEPT ![i] = TRUE]
  /\ UNCHANGED <<threads, mainPc, joinIdx, popPc, popOps, popPos, kbuf, txPc,
                 remaining, popRunning, txRunning, failed, populationBarrier,
                 barrierFile, exited, dumped, popWrites, txIssued, durationT,
                 usr1, late, skew>>

-----------------------------------------------------------------------------
(* Signal handlers, installed by fkvb_main and run at any time.            *)

\* A signal before 'fkvb' is assigned: the global handler calls a virtual
\* method through the null pointer, and the process dies (SIGSEGV).
SigEarly ==
  /\ Signalled /\ mainPc \in Booting /\ ~exited
  /\ exited' = TRUE
  /\ UNCHANGED <<threads, mainPc, joinIdx, popPc, popOps, popPos, kbuf, txPc,
                 remaining, expired, popRunning, txRunning, failed,
                 populationBarrier, barrierFile, dumped, popWrites, txIssued,
                 durationT, usr1, late, skew>>

\* sigusr1_handler: "for (i = 0; i < conf->thread_nr_m; i++)" clears
\* population_states[i]->running and states[i]->running.  The first loop
\* uses the traffic-thread count for the population array: population
\* threads NTx..NPop-1 are never told to stop, and for NTx > NPop the
\* handler writes through pointers read past the array (undefined: the
\* process crashes or goes on).
SigUsr1 ==
  /\ Signalled /\ Alive /\ mainPc \notin Booting
  /\ popRunning' = [i \in PopIds |-> IF i < NTx THEN FALSE ELSE popRunning[i]]
  /\ txRunning' = [i \in TxIds |-> FALSE]
  /\ usr1' = TRUE
  /\ IF NTx > NPop THEN exited' \in BOOLEAN ELSE UNCHANGED exited
  /\ UNCHANGED <<threads, mainPc, joinIdx, popPc, popOps, popPos, kbuf, txPc,
                 remaining, expired, failed, populationBarrier, barrierFile,
                 dumped, popWrites, txIssued, durationT, late, skew>>

\* sigusr2_handler: "population_barrier = false".
SigUsr2 ==
  /\ Signalled /\ Alive /\ mainPc \notin Booting
  /\ populationBarrier' = FALSE
  /\ UNCHANGED <<threads, mainPc, joinIdx, popPc, popOps, popPos, kbuf, txPc,
                 remaining, expired, popRunning, txRunning, failed,
                 barrierFile, exited, dumped, popWrites, txIssued, durationT,
                 usr1, late, skew>>

\* sigint_handler: "failed = true".
SigInt ==
  /\ Signalled /\ Alive /\ mainPc \notin Booting
  /\ failed' = TRUE
  /\ UNCHANGED <<threads, mainPc, joinIdx, popPc, popOps, popPos, kbuf, txPc,
                 remaining, expired, popRunning, txRunning, populationBarrier,
                 barrierFile, exited, dumped, popWrites, txIssued, durationT,
                 usr1, late, skew>>

-----------------------------------------------------------------------------
\* The process has ended: run() returned, or exit()/a crash ended it.
Ended == exited \/ mainPc = "done"

\* Once the process has ended nothing changes any more.
Terminated == Ended /\ UNCHANGED vars

Next ==
  \/ Construct \/ CalibrateHit \/ CalibrateMiss \/ SigEarly
  \/ StartPopulation \/ SkipPopulation \/ JoinPop \/ EndPopulation
  \/ BarrierRelease \/ StartTraffic \/ JoinTx \/ Shutdown
  \/ \E i \in PopIds : PopCheck(i) \/ PopBulk(i)
  \/ \E i \in TxIds : TxCheck(i) \/ TxOp(i) \/ Expire(i)
  \/ SigUsr1 \/ SigUsr2 \/ SigInt
  \/ Terminated

\* Every thread is an OS thread that keeps being scheduled, and the wall
\* clock keeps advancing; signals come from outside and are not assumed.
AnyPopId == UNION {0 .. (c[1] - 1) : c \in ThreadCounts}
AnyTxId == UNION {0 .. (c[2] - 1) : c \in ThreadCounts}

Fairness ==
  /\ WF_vars(Construct) /\ WF_vars(CalibrateMiss) /\ SF_vars(CalibrateHit)
  /\ WF_vars(StartPopulation) /\ WF_vars(SkipPopulation) /\ WF_vars(JoinPop)
  /\ WF_vars(EndPopulation) /\ WF_vars(BarrierRelease)
  /\ WF_vars(StartTraffic) /\ WF_vars(JoinTx) /\ WF_vars(Shutdown)
  /\ \A i \in AnyPopId : WF_vars(i \in PopIds /\ PopCheck(i))
                         /\ WF_vars(i \in PopIds /\ PopBulk(i))
  /\ \A i \in AnyTxId : WF_vars(i \in TxIds /\ TxCheck(i))
                        /\ WF_vars(i \in TxIds /\ TxOp(i))
                        /\ WF_vars(i \in TxIds /\ Expire(i))

Spec == Init /\ [][Next]_vars /\ Fairness

-----------------------------------------------------------------------------
TypeOK ==
  /\ threads \in ThreadCounts
  /\ skew \in 0 .. SkewSteps
  /\ mainPc \in {"boot", "calibrate", "start", "joinPop", "barrierWait", "runTx", "joinTx", "done"}
  /\ joinIdx \in 0 .. (IF NPop > NTx THEN NPop ELSE NTx)
  /\ popPc \in [PopIds -> {"idle", "loop", "bulk", "done"}]
  /\ popOps \in [PopIds -> 0 .. NumKeys]
  /\ popPos \in [PopIds -> 0 .. NumKeys]
  /\ kbuf \in [PopIds -> [Slots -> Keys \cup {Garbage}]]
  /\ txPc \in [TxIds -> {"idle", "loop", "op", "done"}]
  /\ remaining \in [TxIds -> 0 .. Duration]
  /\ expired \in [TxIds -> BOOLEAN]
  /\ popRunning \in [PopIds -> BOOLEAN] /\ txRunning \in [TxIds -> BOOLEAN]
  /\ {failed, populationBarrier, barrierFile, exited, usr1} \subseteq BOOLEAN
  /\ dumped \subseteq Workers
  /\ popWrites \in [Keys \cup {Garbage} -> Nat]
  /\ txIssued \in [TxIds -> Nat]
  /\ durationT \in {"OPS_N", "SEC_N"}
  /\ late \in [Workers -> Nat]

\* Cooperative cancellation (tx_loop, populate_loop, sigusr1_handler,
\* sigint_handler): once 'failed' is set, SIGUSR1 has arrived or a SEC_N
\* thread's time is up, each worker issues at most the one store call it had
\* already decided to make.
StopHonoured == \A w \in Workers : late[w] <= 1

\* run() joins every population thread before it creates a traffic thread:
\* the two worker pools never overlap.
TrafficAfterPopulation ==
  \A t \in TxIds : txPc[t] # "idle" => \A p \in PopIds : popPc[p] = "done"

\* tx_loop with --dur opsN: a thread never issues more than N operations,
\* and one that ended while neither stopped nor failed issued exactly N.
OpsBudget ==
  \A t \in TxIds : durationT = "OPS_N" =>
     /\ txIssued[t] <= Duration
     /\ (txPc[t] = "done" /\ txRunning[t] /\ ~failed) => txIssued[t] = Duration

\* populate_loop: a population thread that finished without being stopped
\* has sent every key of its sub-range to put_bulk.
PopulationCoverage ==
  \A p \in PopIds : (popPc[p] = "done" /\ popRunning[p] /\ ~failed) =>
     \A k \in Lo(p) .. (Hi(p) - 1) : popWrites[k] >= 1

\* The load phase writes each key once and nothing else: put_bulk never
\* receives a key twice nor a slot that was not built in this iteration.
PopulationExact ==
  /\ popWrites[Garbage] = 0
  /\ \A k \in Keys : popWrites[k] <= 1

\* "A failed run still flushes whatever statistics were collected": when
\* the process ends, every worker that was started has been dumped.
ResultsFlushed ==
  Ended => \A w \in Workers :
             (IF w[1] = "pop" THEN popPc[w[2]] ELSE txPc[w[2]]) # "idle" => w \in dumped

\* Once the load barrier is open (or was never configured), the run ends.
Termination == ~populationBarrier ~> Ended
=============================================================================
