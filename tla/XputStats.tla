------------------------------ MODULE XputStats ------------------------------
(***************************************************************************)
(* The throughput statistics of one worker (FKVB.hh xput_statistics and   *)
(* fkvb_thread_state::dump_xputs), driven the way tx_loop drives them:     *)
(* each operation takes some ticks, then add_sample(latency, init, op)    *)
(* counts it and may advance the epoch.                                   *)
(* Time is ticks since the last reset_xput_stats; an epoch is TicsPerSec   *)
(* ticks.  Each epoch has a latency reservoir (reservoir.hh) per         *)
(* operation kind.  The latency a sample carries is state->last_duration, *)
(* which only the handlers' Y_PROBE_TICKS_START/END macros set; the       *)
(* breakdown reservoirs and the OP_INIT/OP_COMMIT samples are not         *)
(* modelled.                                                              *)
(***************************************************************************)
EXTENDS Naturals, Sequences, FiniteSetsExt, TLC

CONSTANTS TicsPerSec,  \* x_timer->tics_per_sec
          Latencies,   \* durations (ticks) an operation can take
          MaxTicks,    \* bound: the run ends by this elapsed time
          U64,         \* 2^64, or any modulus above every reachable tick count
          ResSize,     \* RESERVOIR_SIZE
          Percs,       \* percentiles dump_xputs asks for, in hundredths
          OpKinds,     \* operation kinds the mix draws: "read", "update", ...
          LastDurationInit \* values last_duration may hold before any probe:
                           \* the constructor never initialises it

ASSUME /\ TicsPerSec \in Nat \ {0} /\ Latencies \subseteq Nat \ {0}
       /\ MaxTicks \in Nat /\ U64 > MaxTicks
       /\ ResSize \in Nat \ {0} /\ Percs \subseteq 1 .. 99
       /\ OpKinds \subseteq {"read", "update", "insert", "rmw", "scan", "generic"}
       /\ LastDurationInit \subseteq Nat

VARIABLES pc,        \* "created", "running" (in tx_loop) or "dumped"
          elapsed,   \* now - offset
          curEpoch,  \* curr_epoch
          endEpoch,  \* end_curr_epoch
          samples,   \* the vector samples: samples[e + 1] is epoch e
          total,     \* history: operations completed
          totalLat,  \* history: sum of their latencies
          dumpedOps, \* op counts dump_xputs wrote, summed
          res,       \* latency_reservoirs: res[e + 1][op] is epoch e's reservoir of op
          epochLats, \* history: [op, lat] of the operations charged to each epoch
          reported,  \* percentiles dump_xputs wrote: [e, op, p, v] records
          lastDuration \* state->last_duration

vars == <<pc, elapsed, curEpoch, endEpoch, samples, total, totalLat,
          dumpedOps, res, epochLats, reported, lastDuration>>

Epoch(e) == samples[e + 1]
EmptySample(e) == [time |-> e, ops |-> 0, cumul |-> 0, debt |-> 0]
\* A default-constructed xput_sample pushed by push_back.
Zero == [time |-> 0, ops |-> 0, cumul |-> 0, debt |-> 0]

\* reset_xput_stats: curr_epoch = 0, end_curr_epoch = tics_per_sec, a new
\* element is pushed and samples[0] is cleared.
Reset(s) == [Append(s, Zero) EXCEPT ![1] = EmptySample(0)]

-----------------------------------------------------------------------------
(* reservoir (reservoir.hh): values[] holds the first RESERVOIR_SIZE      *)
(* samples; the vals of the model are its first min(n, RESERVOIR_SIZE).   *)

\* A default-constructed or reset() reservoir: num_samples = 0.
EmptyRes == [vals |-> <<>>, n |-> 0]

\* reservoir::add: "values[num_samples++] = value" while there is room;
\* then "num_samples++; rnd._end = num_samples; index = rnd.next()" and
\* the value replaces values[index] when index < RESERVOIR_SIZE.  idx is
\* the draw of rnd, in [0, num_samples).
ResAdd(r, v, idx) ==
    IF r.n < ResSize THEN [vals |-> Append(r.vals, v), n |-> r.n + 1]
    ELSE [vals |-> IF idx < ResSize THEN [r.vals EXCEPT ![idx + 1] = v] ELSE r.vals,
          n |-> r.n + 1]

\* sort(): curr_sorted_samples = min(num_samples, RESERVOIR_SIZE) values,
\* copied and sorted.
SortedCount(r) == IF r.n > ResSize THEN ResSize ELSE r.n
Sorted(r) == SortSeq(r.vals, <)

\* get_percentile(perc): 0 when curr_sorted_samples is 0, otherwise the
\* element at index (unsigned) (perc * curr_sorted_samples).
Percentile(r, p) ==
    IF SortedCount(r) = 0 THEN 0 ELSE Sorted(r)[(p * SortedCount(r)) \div 100 + 1]

\* Mutant: the array pushed for a new epoch is a copy of the current one.
NewEpochResCopy(cur) == cur

\* A default-constructed std::array<reservoir, OP_LAST>.
EmptyArr == [k \in OpKinds |-> EmptyRes]

\* The std::array of reservoirs add_sample pushes for each new epoch:
\* default-constructed, so empty.
NewEpochRes(cur) == EmptyArr

\* The reservoirs reset_xput_stats resets in epoch 0, and the ones
\* dump_xputs sorts and writes (besides OP_INIT and OP_COMMIT).
ResetKinds == {"insert", "generic", "update"}
DumpedKinds == ResetKinds \cap OpKinds

\* reset_xput_stats also pushes a reservoir array and resets the INSERT,
\* GENERIC and UPDATE reservoirs of epoch 0.
ResetRes(r) == [Append(r, EmptyArr) EXCEPT
                  ![1] = [k \in OpKinds |-> IF k \in ResetKinds THEN EmptyRes ELSE @[k]]]

\* do_rmw is the one handler without Y_PROBE_TICKS_START/END around its
\* store call (START_TIMER/END_TIMER expand to nothing).
Timed(op) == op # "rmw"

\* tx_loop's add_sample(state->last_duration, ...) after an operation of
\* kind op that took lat ticks: a timed handler has just set last_duration
\* to lat, an untimed one leaves the previous value there.
SampleLatency(op, lat, last) == IF Timed(op) THEN lat ELSE last

\* After the constructor, which calls reset_xput_stats once.
Init ==
  /\ pc = "created"
  /\ elapsed = 0 /\ curEpoch = 0 /\ endEpoch = TicsPerSec
  /\ samples = Reset(<<>>)
  /\ total = 0 /\ totalLat = 0 /\ dumpedOps = 0
  /\ res = ResetRes(<<>>)
  /\ epochLats = [e \in {0} |-> {}]
  /\ reported = {}
  /\ lastDuration \in LastDurationInit

\* tx_loop start: reset_xput_stats again, which restarts the clock.
ThreadStart ==
  /\ pc = "created"
  /\ pc' = "running"
  /\ samples' = Reset(samples)
  /\ res' = ResetRes(res)
  /\ elapsed' = 0 /\ curEpoch' = 0 /\ endEpoch' = TicsPerSec
  /\ UNCHANGED <<total, totalLat, dumpedOps, epochLats, reported, lastDuration>>

\* The loop sleeps or does bookkeeping between operations.
Idle ==
  /\ pc = "running" /\ elapsed < MaxTicks
  /\ elapsed' = elapsed + 1
  /\ UNCHANGED <<pc, curEpoch, endEpoch, samples, total, totalLat,
                 dumpedOps, res, epochLats, reported, lastDuration>>

\* Mutant: "if" in place of "while", at most one epoch per sample.
CrossedOnce(e, t) == 1

\* The epochs pushed by the "while (elapsed_ticks >= end_curr_epoch)" loop
\* when a sample arrives at time t in epoch e.
Crossed(e, t) == (t \div TicsPerSec) - e

\* Mutant: the subtraction done in signed arithmetic.
DebtSigned(lat, end) == lat - end

\* "debt = latency - end_curr_epoch" in u64.
Debt(lat, end) == (lat - end + U64) % U64

\* One operation of kind op (do_transaction) that takes lat ticks, then
\* add_sample(last_duration, last_init, op): "samples[curr_epoch].ops++;
\* samples[curr_epoch].cumul += latency;
\* latency_reservoirs[curr_epoch][op].add(latency);", debt when the epoch
\* has ended, then one new empty epoch (and reservoir array) per boundary
\* crossed.  The epoch is curr_epoch: init_time is not used.
Operate ==
  /\ pc = "running"
  /\ \E op \in OpKinds, lat \in Latencies :
     \E idx \in 0 .. res[curEpoch + 1][op].n :
       /\ elapsed + lat <= MaxTicks
       /\ LET t   == elapsed + lat
              e   == curEpoch
              l   == SampleLatency(op, lat, lastDuration)
              old == [Epoch(e) EXCEPT !.ops = @ + 1, !.cumul = @ + l,
                                      !.debt = IF t >= endEpoch
                                               THEN Debt(l, endEpoch) ELSE @]
              n   == IF t >= endEpoch THEN Crossed(e, t) ELSE 0
              s1  == [samples EXCEPT ![e + 1] = old]
              pushed == s1 \o [k \in 1 .. n |-> Zero]
              r1  == [res EXCEPT ![e + 1][op] = ResAdd(@, l, idx)]
          IN /\ elapsed' = t
             /\ lastDuration' = l
             /\ samples' = [i \in DOMAIN pushed |->
                              IF i - 1 \in (e + 1) .. (e + n) THEN EmptySample(i - 1)
                              ELSE pushed[i]]
             /\ curEpoch' = e + n
             /\ endEpoch' = IF n > 0 THEN (e + n + 1) * TicsPerSec ELSE endEpoch
             /\ total' = total + 1
             /\ totalLat' = totalLat + lat
             /\ res' = r1 \o [k \in 1 .. n |-> NewEpochRes(r1[e + 1])]
             /\ epochLats' = [x \in 0 .. (e + n) |->
                                IF x = e THEN epochLats[e] \cup {[op |-> op, lat |-> lat]}
                                ELSE IF x \in DOMAIN epochLats THEN epochLats[x] ELSE {}]
  /\ UNCHANGED <<pc, dumpedOps, reported>>

\* Mutant: "i < curr_epoch" in the dump loop.
DumpXputsSkipLast ==
  /\ pc = "running"
  /\ pc' = "dumped"
  /\ dumpedOps' = MapThenSumSet(LAMBDA e : Epoch(e).ops, 0 .. (curEpoch - 1))
  /\ UNCHANGED <<elapsed, curEpoch, endEpoch, samples, total, totalLat,
                 res, epochLats, reported, lastDuration>>

\* dump_xputs: one line for each i <= curr_epoch.
DumpXputs ==
  /\ pc = "running"
  /\ pc' = "dumped"
  /\ dumpedOps' = MapThenSumSet(LAMBDA e : Epoch(e).ops, 0 .. curEpoch)
  /\ reported' = {[e |-> e, op |-> op, p |-> p, v |-> Percentile(res[e + 1][op], p)] :
                    e \in 0 .. curEpoch, op \in DumpedKinds, p \in Percs}
  /\ UNCHANGED <<elapsed, curEpoch, endEpoch, samples, total, totalLat,
                 res, epochLats, lastDuration>>

Dumped == pc = "dumped" /\ UNCHANGED vars

Next == ThreadStart \/ Idle \/ Operate \/ DumpXputs \/ Dumped

Spec == Init /\ [][Next]_vars

-----------------------------------------------------------------------------
Epochs == 0 .. curEpoch
SumOf(f(_)) == MapThenSumSet(f, Epochs)

TypeOK ==
  /\ pc \in {"created", "running", "dumped"}
  /\ elapsed \in 0 .. MaxTicks /\ curEpoch \in Nat /\ endEpoch \in Nat
  /\ samples \in Seq([time : Nat, ops : Nat, cumul : Nat, debt : 0 .. (U64 - 1)])
  /\ Len(samples) >= curEpoch + 1
  /\ lastDuration \in Nat

\* Spec 5.5: the op counts of all epochs add up to the operations the
\* worker executed, the cumulative latencies to the time those operations
\* took (each sample carrying its own operation's latency), and dump_xputs
\* writes all of them.
EpochAccounting ==
  /\ SumOf(LAMBDA e : Epoch(e).ops) = total
  /\ SumOf(LAMBDA e : Epoch(e).cumul) = totalLat
  /\ pc = "dumped" => dumpedOps = total

\* add_sample leaves curr_epoch at the epoch containing the current time,
\* having appended one record, stamped with its index, for every epoch
\* boundary crossed.
EpochTracksClock ==
  [][Operate => /\ curEpoch' = elapsed' \div TicsPerSec
                /\ \A e \in 0 .. curEpoch' : Epoch(e)'.time = e]_vars

\* The p-th percentile dump_xputs writes for an operation kind in an
\* epoch is 0 when no operation of that kind was charged to the epoch and
\* otherwise the latency of one of those operations: reservoirs are never
\* shared between epochs or kinds, and a sample goes to the epoch its op
\* count goes to.
PercentilesOfEpoch ==
  \A r \in reported :
     LET lats == {x.lat : x \in {y \in epochLats[r.e] : y.op = r.op}}
     IN IF lats = {} THEN r.v = 0 ELSE r.v \in lats

=============================================================================
