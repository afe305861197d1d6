----------------------------- MODULE FdbNumKeys -----------------------------
(***************************************************************************)
(* KVOrderedFDB::get_size: run_fdb_op runs fdb_op_num_keys (fdb_helper.hh) *)
(* until it succeeds.  run() counts the keys by hopping with              *)
(* fdb_transaction_get_key(last, or_equal = true, off), the key selector  *)
(* "last key <= last, then off keys further"; past the last user key it   *)
(* resolves to the end key "\xff", and then the offset is halved until it *)
(* is 1.  When a future fails, run() saves last in params->last_key and   *)
(* returns the error, params->num_keys keeping the count so far; on_error *)
(* lets run_fdb_op call run() again, which starts over from params with   *)
(* off = params->offset.                                                  *)
(*                                                                         *)
(* The store holds n keys, at positions 0 .. n-1 in key order; last is a  *)
(* position, -1 for the initial key "\0", which sorts before every key.   *)
(* A get_key call is numbered by step, across retries; errs are the steps *)
(* whose future fails (retryable errors: a non-retryable one is FATAL).   *)
(***************************************************************************)
EXTENDS Integers

\* op_params_num_keys::offset, "1 << 10".
NumKeysOffset == 1024

\* get_key(last, true, off) resolves past the last user key.
PastEnd(n, last, off) == last + off > n - 1

RECURSIVE NumKeysRun(_, _, _, _, _, _)

\* Mutant: the error path returns without copying last into params, so
\* the retry starts again from the initial key with the count kept.
NumKeysRunNoSave(n, last, num, off, step, errs) ==
    IF step \in errs THEN NumKeysRun(n, -1, num, NumKeysOffset, step + 1, errs)
    ELSE IF PastEnd(n, last, off)
         THEN IF off = 1 THEN num ELSE NumKeysRun(n, last, num, off \div 2, step + 1, errs)
         ELSE NumKeysRun(n, last + off, num + off, off, step + 1, errs)

\* One iteration of run()'s "while (1)" from position last with offset off,
\* num keys counted: a failed future ends this run() with last and num
\* saved, and the retry starts with off = params->offset; the end key with
\* off = 1 returns; the end key otherwise halves off; a key moves last
\* to it and adds off to num_keys.  The result is params.num_keys.
NumKeysRun(n, last, num, off, step, errs) ==
    IF step \in errs THEN NumKeysRun(n, last, num, NumKeysOffset, step + 1, errs)
    ELSE IF PastEnd(n, last, off)
         THEN IF off = 1 THEN num ELSE NumKeysRun(n, last, num, off \div 2, step + 1, errs)
         ELSE NumKeysRun(n, last + off, num + off, off, step + 1, errs)

\* get_size on a store of n keys: params start at the key "\0" with
\* num_keys = 0.
NumKeys(n, errs) == NumKeysRun(n, -1, 0, NumKeysOffset, 1, errs)
=============================================================================
