------------------------------- MODULE FdbOps -------------------------------
(***************************************************************************)
(* One worker thread's store calls on the FoundationDB backend: the       *)
(* handlers of FKVB.cc (do_read, do_update, do_rmw, do_generic,           *)
(* do_populate_bulk) call KVOrderedFDB get/put/generic/put_bulk, and each *)
(* of those runs one fdb_op through run_fdb_op (KVOrderedFDB.cc): take a   *)
(* read version (fresh, or the thread-local cached one), run the op,      *)
(* commit unless the op is read-only, and on any error ask               *)
(* fdb_transaction_on_error whether to retry or FATAL.                     *)
(*                                                                         *)
(* Time is abstracted to two saturating ages counted in ticks: how old    *)
(* the cached read version last_grv is, and how long ago                  *)
(* last_grv_wallclock was stamped.  A read or commit at a version older   *)
(* than Window fails with transaction_too_old (retryable).  The cluster  *)
(* may also answer with a transient retryable error (at most MaxErrors of *)
(* them) or, when StoreFatal, a non-retryable one.  The store is the tag  *)
(* of the handler call that last committed each key, and its value.      *)
(*                                                                         *)
(* A value is identified by where its bytes come from (src) and its      *)
(* length: "rnd", the slice [off, off + len) of the thread's              *)
(* value_string_builder_rnd::rnd_buffer; "vbuf", the thread's             *)
(* value_buffer (what do_rmw puts back); "pop", a value loaded before the *)
(* worker started.                                                         *)
(***************************************************************************)
EXTENDS Naturals, SequencesExt

CONSTANTS Keys,        \* key indexes a call may draw
          Handlers,    \* handlers in the operation mix
          GenericOps,  \* conf->generic_ops: sub-operations per generic batch
          BulkOps,     \* keys in one populate bulk
          Cache,       \* grv_cache_tics_ms (0: cache disabled)
          Window,      \* age after which a read version is too old
          AgeCap,      \* ages saturate here; AgeCap > Cache and > Window
          MaxErrors,   \* bound: transient retryable errors the cluster returns
          MaxCalls,    \* bound: handler calls the worker makes
          StoreFatal,  \* whether the cluster may return a non-retryable error
          ValueSizes,  \* sizes the value_size_gen pattern draws (next_size)
          RndBufferSize,   \* rnd_buffer_size, "1 << 20"
          ValueBufferSize  \* VALUE_BUFFER_SIZE, "1UL << 16"

ASSUME /\ GenericOps \in Nat \ {0} /\ BulkOps \in Nat \ {0}
       /\ Handlers \subseteq {"read", "update", "rmw", "generic", "bulk"}
       /\ AgeCap > Cache /\ AgeCap > Window /\ StoreFatal \in BOOLEAN
       \* "assert(*out_size < rnd_buffer_size)" in build and _build.
       /\ ValueSizes \subseteq 1 .. (RndBufferSize - 1)
       \* init_state FATALs on generic ops unless _beg = _end of the value
       \* size pattern: a constant size.
       /\ "generic" \in Handlers => Cardinality(ValueSizes) = 1

Sub == 1 .. GenericOps

VARIABLES
  hpc,       \* handler: "idle", "call" (inside a kv call), "exit" (FATAL)
  handler,   \* the handler being executed
  call,      \* handler calls started; the tag of the current call's writes
  kop,       \* fdb_op being run: "get", "put", "generic", "put_bulk"
  keys,      \* the keys of the call, one per sub-operation
  rw,        \* params->rw of a generic batch (TRUE: write)
  rpc,       \* run_fdb_op: "grv", "run", "commit", "ret"
  verAge,    \* age of last_grv
  wallAge,   \* ticks since last_grv_wallclock
  errs,      \* transient errors returned so far
  store,     \* store[k]: call whose write of k is committed (0: population)
  content,   \* content[k]: the committed value of k
  leaked,    \* read futures of generic batches never destroyed
  \* The thread's value state (fkvb_thread_state, value_builder):
  vidx,      \* value_string_builder_rnd::index
  bufSize,   \* buffer_size_value
  vals       \* the values of the current call's writes, in write order

vars == <<hpc, handler, call, kop, keys, rw, rpc, verAge, wallAge, errs,
          store, content, leaked, vidx, bufSize, vals>>

valueVars == <<vidx, bufSize, vals>>

PopValue == [src |-> "pop", off |-> 0, len |-> 0]

Inc(a) == IF a < AgeCap THEN a + 1 ELSE a

\* The sub-operations the current fdb_op writes, in the order of its
\* fdb_transaction_set calls.
WritePos == CASE kop = "put"      -> {1}
              [] kop = "put_bulk" -> DOMAIN keys
              [] kop = "generic"  -> {j \in Sub : rw[j]}
              [] OTHER            -> {}

\* The keys the current fdb_op writes.
Writes == {keys[i] : i \in WritePos}

\* Mutant: the generic op takes the value of a write from put_values[done]
\* (the sub-operation index) instead of put_values[put_index]; a slot no
\* write of this batch filled holds what an earlier batch left there.
ValueAtDone(i) == IF kop = "generic"
                  THEN IF i \in DOMAIN vals THEN vals[i] ELSE [src |-> "stale", off |-> 0, len |-> 0]
                  ELSE vals[i]

\* The value the op sets for sub-operation i: fdb_op_generic::run counts
\* its writes in put_index and sets put_values[put_index] with
\* put_value_sizes[put_index]; put_bulk walks values and value_sizes.
ValueAt(i) == IF kop = "generic"
              THEN vals[Cardinality({j \in 1 .. i : rw[j]})]
              ELSE vals[i]

\* Two sets of one key in a transaction: the later one is committed.
LastSet(k) == Max({i \in WritePos : keys[i] = k})

-----------------------------------------------------------------------------
(* value_string_builder_rnd (StringBuilder.hh).                            *)

\* _build: "if (index + (*out_size) > rnd_buffer_size) index = 0".
BuildStart(i, n) == IF i + n > RndBufferSize THEN 0 ELSE i

\* build (used by do_populate_bulk): the same test with ">=".
BulkBuildStart(i, n) == IF i + n >= RndBufferSize THEN 0 ELSE i

\* The slices of successive builds of the sizes sz from cursor i, with
\* build (bulk = TRUE) or _build; each build moves index past its slice.
RECURSIVE Builds(_, _, _)
Builds(i, sz, bulk) ==
  IF sz = <<>> THEN <<>>
  ELSE LET st == IF bulk THEN BulkBuildStart(i, Head(sz)) ELSE BuildStart(i, Head(sz))
       IN <<[src |-> "rnd", off |-> st, len |-> Head(sz)]>> \o Builds(st + Head(sz), Tail(sz), bulk)

\* index after the builds that produced the slices sl.
After(i, sl) == IF sl = <<>> THEN i ELSE Last(sl).off + Last(sl).len

\* Mutant: only the first sub-operation is looked at.
IsRoFirstOnly(w) == ~w[1]

\* fdb_op_generic::is_ro: "if (params->num_op == 0) return true;" and
\* false as soon as one sub-operation writes.
IsRoGeneric(w) == \A i \in Sub : ~w[i]

\* fdb_op::is_ro of each op: get is read-only, put and put_bulk are not.
IsRo(op, w) == CASE op = "get"     -> TRUE
                 [] op = "generic" -> IsRoGeneric(w)
                 [] OTHER          -> FALSE

\* A thread's value state as fkvb_thread_state and the value builder's
\* constructor leave it: "buffer_size_value = VALUE_BUFFER_SIZE",
\* "index = 0".
ThreadValueInit == vidx = 0 /\ bufSize = ValueBufferSize /\ vals = <<>>

Init ==
  /\ hpc = "idle" /\ handler = "none" /\ call = 0 /\ kop = "none"
  /\ keys = <<>> /\ rw = [i \in Sub |-> FALSE] /\ rpc = "none"
  \* thread_local last_grv_wallclock = 0: the first call always fetches.
  /\ verAge = AgeCap /\ wallAge = AgeCap
  /\ errs = 0 /\ store = [k \in Keys |-> 0] /\ leaked = 0
  /\ content = [k \in Keys |-> PopValue]
  /\ ThreadValueInit

\* The KVOrdered call each handler makes: do_read and do_rmw call get,
\* do_update put, do_generic generic and do_populate_bulk put_bulk.
KvOp(h) == CASE h \in {"read", "rmw"} -> "get"
             [] h = "update"          -> "put"
             [] h = "generic"         -> "generic"
             [] h = "bulk"            -> "put_bulk"

\* The keys a handler draws: do_generic one per sub-operation, and
\* do_populate_bulk a bulk (put_bulk is given BULK_SIZE entries; Fkvb
\* models the partial last bulk); the others draw one key.
Draw(h) == CASE h = "generic" -> GenericOps
             [] h = "bulk"    -> BulkOps
             [] OTHER         -> 1

\* The values a handler builds before its kv call, given the read/write
\* pattern w, with the buffer_size_value it leaves: do_update makes one
\* _build whose size it stores in buffer_size_value; do_populate_bulk a
\* build per entry into value_buffer_bulk; do_generic a _build per write
\* (into generic_put_ptr[curr_w]); do_read and do_rmw build none.
HandlerValues(h, w) ==
  CASE h = "update"  -> {[vals |-> Builds(vidx, <<n>>, FALSE), bufSize |-> n] : n \in ValueSizes}
    [] h = "bulk"    -> {[vals |-> Builds(vidx, sz, TRUE), bufSize |-> bufSize] :
                           sz \in [1 .. BulkOps -> ValueSizes]}
    [] h = "generic" -> {[vals |-> Builds(vidx, sz, FALSE), bufSize |-> bufSize] :
                           sz \in [1 .. Cardinality({j \in Sub : w[j]}) -> ValueSizes]}
    [] OTHER         -> {[vals |-> <<>>, bufSize |-> bufSize]}

\* The handler draws its keys (and, for generic, the read/write pattern of
\* the secondary op generator), builds its values and makes its first kv
\* call.
Begin ==
  /\ hpc = "idle" /\ call < MaxCalls
  /\ \E h \in Handlers :
       /\ handler' = h
       /\ kop' = KvOp(h)
       /\ \E ks \in [1 .. Draw(h) -> Keys] : keys' = ks
       /\ \E w \in IF h = "generic" THEN [Sub -> BOOLEAN] ELSE {rw} :
            /\ rw' = w
            /\ \E r \in HandlerValues(h, w) :
                 vals' = r.vals /\ bufSize' = r.bufSize /\ vidx' = After(vidx, r.vals)
  /\ hpc' = "call" /\ rpc' = "grv" /\ call' = call + 1
  /\ UNCHANGED <<verAge, wallAge, errs, store, content, leaked>>

-----------------------------------------------------------------------------
(* run_fdb_op.                                                             *)

Stale == verAge > Window

\* The sub-operations whose futures the op waits for, in index order.
ReadIdx == CASE kop = "get"     -> {1}
             [] kop = "generic" -> {i \in Sub : ~rw[i]}
             [] OTHER           -> {}

\* fdb_op_generic::run returns at the first failing read; the futures of
\* the reads after it were created in the first loop and are never
\* destroyed.
LeftBehind(j) == IF kop = "generic" THEN Cardinality({i \in ReadIdx : i > j}) ELSE 0

\* Mutant: last_grv_wallclock stamped on every attempt, cached or not.
GrvStampAlways ==
  /\ hpc = "call" /\ rpc = "grv"
  /\ \/ /\ wallAge > Cache
        /\ verAge' = 0 /\ wallAge' = 0 /\ rpc' = "run" /\ UNCHANGED <<hpc, errs>>
     \/ /\ wallAge > Cache /\ errs < MaxErrors
        /\ errs' = errs + 1 /\ hpc' = "exit" /\ UNCHANGED <<verAge, wallAge, rpc>>
     \/ /\ ~(wallAge > Cache)
        /\ wallAge' = 0 /\ rpc' = "run" /\ UNCHANGED <<hpc, errs, verAge>>
  /\ UNCHANGED <<handler, call, kop, keys, rw, store, content, leaked>>
  /\ UNCHANGED valueVars

\* "get_grv = (init - last_grv_wallclock) > grv_cache_tics_ms": fetch a
\* read version and stamp the wall clock, or reuse last_grv.  An error of
\* the read-version future makes fdb_future_get_int64 fail: FATAL.
Grv ==
  /\ hpc = "call" /\ rpc = "grv"
  /\ \/ /\ wallAge > Cache
        /\ verAge' = 0 /\ wallAge' = 0 /\ rpc' = "run" /\ UNCHANGED <<hpc, errs>>
     \/ /\ wallAge > Cache /\ errs < MaxErrors
        /\ errs' = errs + 1 /\ hpc' = "exit" /\ UNCHANGED <<verAge, wallAge, rpc>>
     \/ /\ ~(wallAge > Cache)
        /\ rpc' = "run" /\ UNCHANGED <<hpc, errs, verAge, wallAge>>
  /\ UNCHANGED <<handler, call, kop, keys, rw, store, content, leaked>>
  /\ UNCHANGED valueVars

\* "op->run(tr)": writes only buffer sets and cannot fail; a read fails
\* with transaction_too_old at a stale version, or with a transient
\* error; on_error retries both, and FATALs on a non-retryable error.
\* Without error, a read-only op returns and any other goes to commit.
RunOp ==
  /\ hpc = "call" /\ rpc = "run"
  /\ verAge' = Inc(verAge) /\ wallAge' = Inc(wallAge)
  /\ \/ /\ ReadIdx # {} => ~Stale
        /\ rpc' = IF IsRo(kop, rw) THEN "ret" ELSE "commit"
        /\ UNCHANGED <<hpc, errs, leaked>>
     \/ /\ ReadIdx # {}
        /\ \E j \in ReadIdx :
             /\ IF Stale THEN j = Min(ReadIdx) /\ UNCHANGED errs
                ELSE errs < MaxErrors /\ errs' = errs + 1
             /\ leaked' = leaked + LeftBehind(j)
        /\ rpc' = "grv" /\ UNCHANGED hpc
     \/ /\ ReadIdx # {} /\ ~Stale /\ StoreFatal
        /\ hpc' = "exit" /\ UNCHANGED <<rpc, errs, leaked>>
  /\ UNCHANGED <<handler, call, kop, keys, rw, store, content>>
  /\ UNCHANGED valueVars

\* The op's writes committed under the tag of the current call.
Applied == [k \in Keys |-> IF k \in Writes THEN call ELSE store[k]]

\* The values the op's writes commit: each key gets the value of its
\* last set in the transaction.
AppliedContent == [k \in Keys |-> IF k \in Writes THEN ValueAt(LastSet(k)) ELSE content[k]]

\* "fdb_transaction_commit": success returns; too_old (stale version),
\* not_committed or commit_unknown_result (which may have been applied)
\* are retried; any other error is FATAL.
Commit ==
  /\ hpc = "call" /\ rpc = "commit"
  /\ \/ /\ ~Stale /\ store' = Applied /\ content' = AppliedContent
        /\ rpc' = "ret" /\ UNCHANGED <<hpc, errs>>
     \/ Stale /\ rpc' = "grv" /\ UNCHANGED <<hpc, errs, store, content>>
     \/ /\ ~Stale /\ errs < MaxErrors /\ errs' = errs + 1
        /\ \/ UNCHANGED <<store, content>>
           \/ store' = Applied /\ content' = AppliedContent
        /\ rpc' = "grv" /\ UNCHANGED hpc
     \/ ~Stale /\ StoreFatal /\ hpc' = "exit" /\ UNCHANGED <<rpc, errs, store, content>>
  /\ UNCHANGED <<handler, call, kop, keys, rw, verAge, wallAge, leaked>>
  /\ UNCHANGED valueVars

\* do_rmw: the get returned 0 (the key is present), so the value buffer
\* is put back under the same key, through a second run_fdb_op:
\* "put(key, key_size, value, val_buffer_size)", val_buffer_size being
\* buffer_size_value as the handler found it.
RmwPut ==
  /\ hpc = "call" /\ rpc = "ret" /\ handler = "rmw" /\ kop = "get"
  /\ kop' = "put" /\ rpc' = "grv"
  /\ vals' = <<[src |-> "vbuf", off |-> 0, len |-> bufSize]>>
  /\ UNCHANGED <<hpc, handler, call, keys, rw, verAge, wallAge, errs, store, content, leaked>>
  /\ UNCHANGED <<vidx, bufSize>>

\* run_fdb_op has returned result.rc and the KVOrderedFDB wrapper returns
\* it (put and put_bulk would FATAL on a non-zero rc, which run_fdb_op
\* never returns for them); the handler returns to do_transaction.
Return ==
  /\ hpc = "call" /\ rpc = "ret" /\ ~(handler = "rmw" /\ kop = "get")
  /\ hpc' = "idle" /\ kop' = "none" /\ rpc' = "none"
  /\ UNCHANGED <<handler, call, keys, rw, verAge, wallAge, errs, store, content, leaked>>
  /\ UNCHANGED valueVars

\* Time passes between two calls of the worker.
Tick ==
  /\ hpc = "idle" /\ (verAge < AgeCap \/ wallAge < AgeCap)
  /\ verAge' = Inc(verAge) /\ wallAge' = Inc(wallAge)
  /\ UNCHANGED <<hpc, handler, call, kop, keys, rw, rpc, errs, store, content, leaked>>
  /\ UNCHANGED valueVars

\* The worker has made its calls, or the process has exited.
Finished == ((hpc = "idle" /\ call = MaxCalls) \/ hpc = "exit") /\ UNCHANGED vars

Next == Begin \/ Grv \/ RunOp \/ Commit \/ RmwPut \/ Return \/ Tick \/ Finished

\* The worker thread keeps being scheduled; the clock between calls is
\* not needed for progress.
Spec == Init /\ [][Next]_vars
          /\ WF_vars(Begin) /\ WF_vars(Grv) /\ WF_vars(RunOp)
          /\ WF_vars(Commit) /\ WF_vars(RmwPut) /\ WF_vars(Return)

-----------------------------------------------------------------------------
TypeOK ==
  /\ hpc \in {"idle", "call", "exit"}
  /\ call \in 0 .. MaxCalls
  /\ kop \in {"none", "get", "put", "generic", "put_bulk"}
  /\ rpc \in {"none", "grv", "run", "commit", "ret"}
  /\ verAge \in 0 .. AgeCap /\ wallAge \in 0 .. AgeCap
  /\ errs \in 0 .. MaxErrors
  /\ store \in [Keys -> 0 .. MaxCalls]
  /\ leaked \in Nat
  /\ vidx \in 0 .. RndBufferSize
  /\ bufSize \in ValueSizes \cup {ValueBufferSize}

\* When run_fdb_op returns for an op that writes (put, put_bulk, a generic
\* batch with at least one write), its writes are committed: retries after
\* too_old, conflicts or unknown commit results, and the read-only test of
\* generic batches, never let a write go uncommitted.
WriteDurable == rpc = "ret" => \A k \in Writes : store[k] = call

\* The value do_generic built for sub-operation i: "generic_put_ptr[curr_w]"
\* with curr_w the writes before i; put, put_bulk and rmw have one value
\* per sub-operation.
HandlerBuilt(i) == IF kop = "generic"
                   THEN vals[Cardinality({j \in Sub : j < i /\ rw[j]}) + 1]
                   ELSE vals[i]

\* When run_fdb_op returns for an op that writes, every key it wrote holds
\* the value its handler built for the last sub-operation writing it: the
\* backend pairs each set with the right buffer and size (put_index
\* against do_generic's curr_w), and retries after too_old, conflicts or
\* an unknown commit result commit the same values again.
ValuesAsBuilt == rpc = "ret" => \A k \in Writes : content[k] = HandlerBuilt(LastSet(k))

\* Every op runs at a read version at most grv_cache_tics_ms old, across
\* the retries of one call and the worker's later calls: run_fdb_op stamps
\* last_grv_wallclock only when it fetches a version, so the cache's clock
\* measures the age of last_grv and not the time since the last attempt.
ReadVersionFresh == rpc = "run" => verAge <= Cache

\* Every kv call returns or the process exits: a stale cached read version
\* is eventually replaced, and retries end.
CallEnds == hpc = "call" ~> hpc # "call"

\* Every read future a generic batch creates is destroyed before
\* run_fdb_op returns or retries.
FuturesReleased == leaked = 0
=============================================================================
