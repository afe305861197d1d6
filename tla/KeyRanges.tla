----------------------------- MODULE KeyRanges -----------------------------
(***************************************************************************)
(* How the population phase divides the key indices 0..num_keys-1 among   *)
(* client instances (processes started with --id/--num_clients) and, in   *)
(* each instance, among its population threads (FKVB<IO>::init_state,     *)
(* src/src/fkvb/FKVB.cc, the "populate" branch).  Each population thread  *)
(* gets a seq_io_pattern(high, low, low) and writes the indices           *)
(* low..high-1.  Pure operators, used by KeyPartition and Fkvb.           *)
(***************************************************************************)
EXTENDS Naturals

\* Non-sharded key types: keys are common to all clients and split.
\* rem, key_to_instance and lowest_key_instance of init_state.
Rem(n, ni) == n % ni
KeyToInstanceBase(n, ni) == (n - Rem(n, ni)) \div ni
LowestKeyInstance(n, ni, inst) == KeyToInstanceBase(n, ni) * inst
\* The last instance takes the remainder as well.
KeyToInstance(n, ni, inst) ==
    KeyToInstanceBase(n, ni) + (IF inst = ni - 1 THEN Rem(n, ni) ELSE 0)

\* keys_per_thread and remainder of init_state.
KeysPerThread(n, ni, inst, nt) == KeyToInstance(n, ni, inst) \div nt
Remainder(n, ni, inst, nt) == KeyToInstance(n, ni, inst) % nt

\* low and high of thread id; the last thread gets the remainder.
Low(n, ni, inst, nt, id) ==
    LowestKeyInstance(n, ni, inst) + id * KeysPerThread(n, ni, inst, nt)
\* Mutant: the last thread does not take the remainder.
HighNoRemainder(n, ni, inst, nt, id) ==
    Low(n, ni, inst, nt, id) + KeysPerThread(n, ni, inst, nt)
High(n, ni, inst, nt, id) ==
    Low(n, ni, inst, nt, id) + KeysPerThread(n, ni, inst, nt)
      + (IF id = nt - 1 THEN Remainder(n, ni, inst, nt) ELSE 0)

\* The indices seq_io_pattern(high, low, low) visits before wrapping.
PopRange(n, ni, inst, nt, id) == Low(n, ni, inst, nt, id) .. (High(n, ni, inst, nt, id) - 1)

\* Sharded key types: every thread writes all keys, under its own prefix.
ShardedRange(n) == 0 .. (n - 1)

\* The assert(remainder + keys_per_thread * num_population_threads
\*                == state->num_keys) that init_state executes.
PopulationAssert(n, ni, inst, nt) ==
    Remainder(n, ni, inst, nt) + KeysPerThread(n, ni, inst, nt) * nt = n
=============================================================================
