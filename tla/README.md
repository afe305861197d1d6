# TLA+ models of fkvb

fkvb is a key-value store benchmark (`src/src/fkvb/`). One process loads keys
with a pool of population threads. It then optionally waits at a load barrier,
and runs a pool of traffic threads that issue a random mix of operations
against a store (FoundationDB or a dummy). The threads share three flags:

- `failed`, set by a failing operation or SIGINT;
- each thread's `running`, cleared by SIGUSR1;
- `population_barrier`, cleared by SIGUSR2.

Each thread keeps its own throughput and latency statistics, and the main
thread dumps them after joining the thread.

## Parts of the system

| Part | Code | Model |
|---|---|---|
| Entry point, factory, global signal handlers | `fkvb_main.cc`, `fkvbfactory.cc` | `Fkvb`: `Construct`, `SigEarly`, `BuildFkvb` |
| Orchestrator `run()` | `FKVB.cc` 1023-1160 | `Fkvb`: `StartPopulation` … `Shutdown` |
| Loader loop and bulk write | `populate_loop`, `do_populate_bulk` | `Fkvb`: `PopCheck`, `PopBulk` |
| Traffic loop and operation dispatch | `tx_loop`, `do_transaction` | `Fkvb`: `TxCheck`, `TxOp`, `Expire` |
| Signal handlers | `sigusr1_handler`, `sigusr2_handler`, `sigint_handler` | `Fkvb`: `SigUsr1`, `SigUsr2`, `SigInt` |
| Dummy store | `DummyKVOrdered.cc` | `Fkvb`: `StoreResults` with `StoreFails = FALSE` |
| Key split over instances and loader threads | `init_state` (`FKVB.cc` 433-476) | `KeyRanges`, `KeyPartition` |
| Key strings and scan ranges | `StringBuilder.hh` `prefix_key_string_builder`, `do_scan` | `KeyBuilder`, `KeyPartition` |
| Update retry with back-off | `do_transaction` `OP_UPDATE` (`FKVB.cc` 877-892) | `Retry`, refining `RetrySpec` |
| Operation mix table | `next_op_pattern` (`FKVB.hh`), `init_state` 541-596, validation | `OpMix` |
| Throughput epochs, latency reservoirs, dump | `xput_statistics`, `reservoir.hh`, `dump_xputs` | `XputStats` |
| FoundationDB backend | `KVOrderedFDB.cc` `run_fdb_op`, `fdb_helper.hh` ops | `FdbOps` |
| Sequential key generator | `seq_io_pattern` (`rnd/fkvb_rnd.hh`) | `Fkvb`: `SeqDraw` |
| Distribution factory and draw ranges | `init_rnd_gen` (`FKVB.cc` 622-691), `rnd/fkvb_rnd.hh`, `r_48.hh`, `zipfian_fkvb.hh` | `Distributions`, `KeyPartition` |
| Key count of a FoundationDB store | `KVOrderedFDB::get_size`, `fdb_op_num_keys` | `FdbNumKeys`, `KeyPartition` |
| Zipf skew calibration loop | `compute_zipf_skew` (`FKVB.cc` 1184-1233), called from `init_rnd_gen` | `Fkvb`: `CalibrateHit`, `CalibrateMiss` |
| Config parsing, RNG bit arithmetic, the zipf transform, profiling headers | | not modelled (see below) |

## Modules

- **KeyRanges**: pure operators that translate `init_state`'s arithmetic
  (`rem`, `key_to_instance`, `keys_per_thread`, `low`, `high`) and its assert.
- **KeyBuilder**: `digits`, the constructor's width check (`Accepted`) and
  `build` (`Build`) of the "fkvb" key type. A key is its sequence of byte
  codes. `KeyRef` is the reference: what `sprintf("%s%0*d", …)` writes,
  computed with a RECURSIVE decimal conversion. `StrLess` is `strcmp < 0`.
- **KeyPartition** / **MC_KeyPartition**: one initial state per configuration
  (key count, instance count, thread count, key size), drawn from bounded
  sets. It composes KeyRanges and KeyBuilder and adds `do_scan`'s range
  construction (`ScanEndIndex`, `ScanRange`). It also chooses the key and
  scan-length distribution options, builds their generators with
  `InitRndGen` (`KeyPattern`, `ScanPattern`), and counts the loaded store
  with `NumKeys` under every set of failed `get_key` calls (`Failures`).
- **Distributions**: `init_rnd_gen` and the `next()` ranges of the rand,
  const and zipf patterns. `Draws(p)` is the set of values a pattern can
  return. size_t arithmetic is modulo `SizeT`. `Allowed` is the reference:
  the range the specification gives each option.
- **FdbNumKeys**: `fdb_op_num_keys::run` as a RECURSIVE operator. It hops
  with `get_key(last, true, off)`, halves `off` past the end, and on a failed
  future saves its position and restarts with `off = 1024`, the way
  `run_fdb_op` retries it. `get_size` is part of the store interface, but
  the benchmark never runs it: `run()` calls it only inside `#if 0` blocks
  (`FKVB.cc:1065-1075`, `1143-1147`).
- **Fkvb** / **MC_Fkvb**: the whole run of one process, from `main`.
  - `mainPc` follows the main thread: "boot" (handlers installed, `fkvb`
    still null), "calibrate" (still null), then `run()`. `joinIdx` is its
    join cursor.
  - With a zipf key distribution (`KeyZipf`) and traffic threads, the
    constructor runs `compute_zipf_skew`'s loop. `skew` is its `s` as a step
    index (step k is 1.0 + 0.01·(k - `SkewStart`)). An iteration's measured
    share is any member of `Measured[skew]`. Every iteration samples a new
    `zipf_io_pattern` with seed 0, i.e. a fresh random seed, so one skew
    gives different truncated percentages. `CalibrateHit` is the exact
    match that ends the loop. `CalibrateMiss` applies the ±0.01 correction
    (`NextSkew`). Skews beyond the `SkewSteps` range are abstracted to its
    end steps, where the loop goes on.
  - `popPc`, `popOps`, `popPos` and `kbuf` follow each loader thread, with its
    bulk key buffer. A slot that was never built holds the model value
    `Garbage`.
  - `txPc`, `remaining` and `expired` follow each traffic thread.
  - The flags are variables. `exited` records a FATAL, an uncaught throw or
    a crash.
  - Signals come from an operator. `Signalled` says whether one sends any;
    with `Signalled = FALSE` the handlers never run. `flush_on_failure`
    uses this, so its trace shows the RMW FATAL rather than SIGUSR1's
    out-of-bounds write with more traffic threads than loaders, which
    `Fkvb` models as a possible crash.
  - The store is abstract: `StoreResults` is what a call may return. The
    dummy backend always returns 0. A failure's effect is what
    `do_transaction` does for that operation: READ, UPDATE and GENERIC set
    `failed`; RMW and SCAN are FATAL. INSERT is never in the mix, because
    `init_state` rejects it.
  - Every loop test is its own action, separate from the operation it
    guards, so a signal can arrive between the test and the operation.
  - The thread counts are chosen per behaviour from `ThreadCounts`, so one
    run covers both pools, traffic only, and no threads.
- **Retry**: the `OP_UPDATE` retry loop: `max_retries`, `sleep_time`, the
  sequence of `usleep` arguments and the verdict. **RetrySpec** is what the
  loop promises: up to 18 attempts, each after a failure, and failure only
  after all of them. `Retry` instantiates it with a refinement mapping
  (`tries` from the calls made and their results, `outcome` from `pc` and
  `failed`).
- **OpMix**: `validate_and_sanitize_parameters`' mix checks and each
  `add_ops` call of `init_state`, on 256 slots. Slots 100-255 stand for the
  memory past `ops[100]` that the u8 cursor can reach.
- **XputStats**: one worker's statistics. `Operate` is one operation of the
  loop, of a kind drawn from `OpKinds`, followed by `add_sample`. The sample
  carries `lastDuration` (`state->last_duration`): the handler's own time
  when it is timed by `Y_PROBE_TICKS_START/END`, and the previous value for
  `do_rmw`, which is not timed (`Timed`, `SampleLatency`). Before the first
  timed operation `last_duration` is whatever `LastDurationInit` allows,
  since the constructor never sets it. `add_sample` updates the op count,
  the cumulative latency, the reservoir of the epoch and kind (`ResAdd`, with
  the replacement index as an input),
  the debt as the code computes it in u64 (`U64` is the modulus), and the
  `while` loop that pushes
  one empty epoch and reservoir array per boundary crossed. `DumpXputs` is
  `dump_xputs`, with `get_percentile` (`Percentile`) over the sorted
  INSERT, GENERIC and UPDATE reservoirs (`DumpedKinds`). The history
  variables `total`, `totalLat` and `epochLats` record what the operations
  really took; the code never reads them.
- **FdbOps**: one worker's kv calls on the FoundationDB backend. `Begin` is a
  handler drawing its keys. `Grv`, `RunOp` and `Commit` are `run_fdb_op`'s
  read-version fetch or cache, `op->run`, and commit, each with its error
  and `on_error` outcome. `RmwPut` is the second call of `do_rmw`. Time is
  two saturating ages: of the cached read version, and of its wall-clock
  stamp. The worker's values are modelled too:
  - a value is identified by its source and length: a slice of the value
    builder's `rnd_buffer`, the thread's `value_buffer` (what `do_rmw` puts
    back), or a value loaded before the worker started;
  - `vidx` is the builder's cursor. `BuildStart` (`_build`) and
    `BulkBuildStart` (`build`) are its two wrap tests, and `Builds` makes a
    handler's successive builds;
  - `bufSize` is `buffer_size_value`, which `do_update` overwrites with the
    drawn size and `do_rmw` uses as the length of its put;
  - `content` is the committed value of each key. `ValueAt` is the backend's
    pairing of a set with its value (`put_index` in generic batches).

## Runs

| Run | Checks | Result |
|---|---|---|
| `partition` | `PartitionExact`, `KeysMatchReference`, `KeysOrdered`, `TrafficKeysLoaded`, `SizeCountsLoadedKeys`, `ScanSelectsIndexes` | pass |
| `partition_assert` | `PopulationAssertHolds` | violated: the assert at `FKVB.cc:465` uses the global key count |
| `run_phases` | `TypeOK`, `StopHonoured`, `TrafficAfterPopulation`, `OpsBudget`, `PopulationCoverage`, `Termination` | pass |
| `sigusr1_misses` | `StopHonoured`, 2 loaders and 1 traffic thread | violated: SIGUSR1 clears only `thread_nr_m` loader flags |
| `bulk_rewrite` | `PopulationExact`, 3 keys and `BULK_SIZE` 2 | violated: `put_bulk` is always called with `BULK_SIZE` entries |
| `flush_on_failure` | `ResultsFlushed`, with RMW failing and no signals sent | violated: FATAL exits before any dump, against the specification |
| `op_mix` | `MixExact`, `InBounds` for every mix of {0,1,50,99,100} and `generic_rp` in 0..100 | pass |
| `epochs` | `TypeOK`, `EpochAccounting`, `PercentilesOfEpoch`, `EpochTracksClock`, inserts and updates | pass |
| `rmw_latency` | `EpochAccounting`, updates and RMWs | violated: `do_rmw` never sets `last_duration`, so an RMW's sample carries another operation's latency |
| `update_retry` | `BackoffSchedule`, `ImplementsRetrySpec`, `Decides` | pass |
| `fdb_ops` | `WriteDurable`, `ValuesAsBuilt`, `ReadVersionFresh`, `CallEnds` | pass |
| `scan_bounds` | `ScanLensAllowed`, scan lengths `const3` and `uniform1_3` | violated: `init_rnd_gen` passes the bounds of `uniform<a>_<b>` as (end, begin) reversed |

What the passing runs show:

- `partition`: the loaders of all instances cover every key index exactly
  once. The built keys equal sprintf's output and sort as their indexes. A
  scan asks `get_range` for exactly the loaded keys of its index range.
  Every key the traffic draws with the default or zipf distribution was
  loaded. `get_size` counts exactly the loaded keys, even when up to two
  `get_key` futures fail and the count resumes from its saved position.
- `run_phases`: signals are honoured, traffic follows loading, no thread
  exceeds its ops budget, every key is loaded unless the run was stopped,
  and the process always ends. That includes the skew calibration: its
  correction always walks back toward the target, so the loop keeps
  returning to the skew whose simulations can hit it.
- `op_mix`: an accepted configuration yields exactly the requested number of
  entries of each kind, in both tables, and `add_ops` stays inside them.
  `generic_rp` is never validated: with 101 among `RpValues`,
  `InBounds` fails (`ops2[100]` and 255 more entries are written). No
  listed run checks that case; `PROJECT.json` records it as a hazard.
- `epochs`: epoch counts and cumulative latencies add up to the worker's
  totals and are all dumped. Each dumped percentile of a kind is a latency
  of that kind's operations in its own epoch. The epoch index follows the
  clock.
- `flush_on_failure` (violation): with no loaders, one traffic thread and
  no signals, the shortest trace starts the traffic thread, passes its loop
  test, and the RMW fails: `FATAL` exits (`FKVB.cc:908`) before `run()`
  dumps anything.
- `rmw_latency` (violation): the first RMW of a thread records the
  uninitialised `last_duration`, and any later one the latency of the
  operation before it. Either way the epoch's cumulative latency is not the
  time its operations took. The specification says each completed
  operation adds its latency.
- `update_retry`: the loop sleeps 1000·2^k µs between attempts and
  implements `RetrySpec`.
- `fdb_ops`: a write op returns only once its writes are committed, each
  with the value its handler built for that sub-operation (the last one,
  when a batch writes a key twice). Every op runs at a read version no older
  than `grv_cache_tics_ms`, because `last_grv_wallclock` is stamped only
  when a version is fetched (the stamp-every-attempt mutant breaks it).
  Every call ends (returns or FATALs).

Each property of a passing run has a mutant in `PROJECT.json`: a plausible
bug in the mapped code that TLC shows breaks it under the run's own bounds.

### Bounds and why they are enough

- `run_phases`:
  - 2 loaders over 5 keys with `BULK_SIZE` 2, so one loader has a partial
    last bulk;
  - 2 traffic threads with an ops budget of 2, plus the traffic-only and
    no-thread configurations;
  - a wall-clock budget that ends within 2 iterations;
  - every operation kind, store failures, and all three signals, including
    in the boot window;
  - a calibration toward 80% over five skew steps (`MCMeasuredAt`). The
    share grows with the skew. Only one step can give 80, and only on some
    simulations. Its neighbours overshoot on either side, so the walk
    turns in both directions. With shares that jump from 79 straight to 81,
    TLC finds `Termination` violated: the walk goes back and forth forever.
    That is the unbounded loop the specification warns of (§4.1).
- `partition`:
  - 0-12 keys, 1-3 instances and 1-4 threads give empty ranges, remainders
    and more threads than keys;
  - key sizes 4-6 give payloads too short for two digits, exactly two, and
    padded;
  - scan lengths come from five options: `const3`, `uniform`, `uniform1_3`,
    `uniform3_1` (FATAL) and an unknown one. They give single-key scans,
    scans across a digit boundary, and scans past the last key;
  - size_t is 4 bits (`SizeT = 16`): every key index fits, and a reversed
    bound wraps;
  - `get_size` fails at one step or at two consecutive steps, anywhere in
    the first 20 `get_key` calls. For 12 keys that is every call the count
    makes (hops of 1024 halved down to 1).
- `op_mix`: the percentages include 0 and 100 and the u8-adjacent values.
- `epochs`:
  - latencies 1, 2 and 5 against 2-tick epochs give operations inside an
    epoch, ending on a boundary, and spanning two boundaries;
  - a 1-slot reservoir exercises the replacement branch from the second
    sample on;
  - two kinds (insert, update), so one epoch holds two reservoirs that a
    mixed-up index would show;
  - `rmw_latency` runs updates and RMWs, with `last_duration` initially 0
    or 3: one value a zeroed allocation gives, and one that is no latency
    at all.
- `update_retry` uses the code's own constants (18 attempts, 1000 µs).
- `fdb_ops`:
  - every handler, over two keys;
  - a cache window (2) longer than the MVCC window (1), so a cached read
    version can go stale;
  - one transient error, and non-retryable errors;
  - 3 handler calls, so a bulk or a generic batch followed by updates
    drives the builder's cursor to its wrap;
  - constant 2-byte values, because `init_state` requires a constant size
    when generic ops are on. `rnd_buffer` holds 5 bytes, so `_build` and
    `build` wrap at different cursors. `value_buffer` holds 3 bytes, a size
    no update draws, so an RMW's put length can be told apart.

## Fairness

Weak fairness applies to every thread action and to the main thread's
actions, because each is an OS thread that stays runnable. It also applies to
`Expire`, because the wall clock advances. Signals come from outside, so they
get no fairness. `SigEarly` gets none either.

The calibration's `CalibrateMiss` is weakly fair, as a main-thread step.
`CalibrateHit` is strongly fair. It is enabled only on the visits to a skew
whose simulations can land on the target. Each iteration draws a fresh
random seed, so a hit that has positive probability at a skew visited
infinitely often happens with probability 1. Strong fairness is the
non-probabilistic form of that.

`Termination` is stated as `~populationBarrier ~> Ended`. The barrier wait
really does block until SIGUSR2 arrives. A terminal state repeats through
`Terminated`, so deadlock checking stays on and still catches a real hang.

In `FdbOps`, every `run_fdb_op` step is weakly fair. The idle `Tick` is
not, because progress does not depend on time passing between calls. In
`Retry`, the loop's steps are weakly fair.

## Hazards

`PROJECT.json` lists the hazards of this code, each with the properties
that cover it or a note saying why none does. They include the signal
handlers racing the loops, a signal before `fkvb` exists, partial bulks,
the u8 table cursor, the pairing of generic
writes with their values, reversed bounded-uniform limits, the zipf clamp at zero
keys, the unbounded skew calibration loop, stale cached read versions with
`transaction_too_old`, leaked read futures of generic batches, and scan end
keys wider than the payload. They also include:

- the RMW sample that carries a stale `last_duration`;
- operations charged to the epoch of the previous sample rather than the
  one in which they started;
- the GENERIC breakdown sample, whose begin and body arguments are swapped
  and whose unsigned body time wraps when the begin latency is stale.

## Not modelled

- Configuration parsing: string handling. Its results enter the models as
  constants.
- The random generators' bit arithmetic (a draw is modelled by the set of
  values it can return), and the floating-point zipf simulation behind each
  calibration measurement. Its result enters as `Measured`. This also
  leaves out the bucket arithmetic: `percentiles[address_pct]` measures
  the hottest address_pct + 1 percent of the keys, and address_pct = 100
  reads past the array. Both are recorded as a hazard.
- The process-wide `cached_skew` with more than one zipf option: only the
  key distribution's calibration is modelled.
- The breakdown reservoirs (`t_reservoir<perc_s>`) and the `OP_INIT` and
  `OP_COMMIT` samples. They carry the `zrl_fkvb_*` ticks measured inside
  `run_fdb_op`, and `FdbOps` has no clock. The swapped arguments of
  `add_breakdown_sample` are recorded as a hazard.
- The meaning of `xput_statistics`' debt: the specification leaves it open,
  so no property is stated about it.
- The copy of `fdb_op_get` into the reader's buffer. `buffer_size_value` is
  modelled, but the truncation of a read after an update is not. The RMW's
  put of `buffer_size_value` bytes is modelled, and no property claims it
  keeps the stored length: the specification's "put of the read buffer's
  content back" admits it.
- The random and sharded key builders, and the value builders: random
  bytes.
- Logging, file output, timers, and the profiling headers.
- The FoundationDB client library itself: only the results it can return.

## Plan for later work

1. A property for the leaked generic-batch futures (`FuturesReleased`,
   stated but not yet given a run) and for the early-signal window.
2. A second zipf option (scan length or value size), so that the reuse of
   `cached_skew` for other parameters can be stated.
3. The breakdown reservoirs and the `OP_INIT`/`OP_COMMIT` samples, with a
   clock in `FdbOps`. The start-epoch rule of `add_sample` (an operation
   charged to the epoch in which it started) as a property of `XputStats`.
4. The copy of `fdb_op_get`, so that read truncation after an update or RMW
   can be stated.
