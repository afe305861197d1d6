-------------------------------- MODULE OpMix --------------------------------
(***************************************************************************)
(* The operation-mix tables of a traffic thread (FKVB.hh next_op_pattern) *)
(* and how init_state fills them (FKVB.cc) after                          *)
(* validate_and_sanitize_parameters (fkvb_test_conf.cc) accepted the      *)
(* configuration.  A table is "OPS ops[100]" written by add_ops through   *)
(* the u8 cursor curr_i; next() returns ops[r] for r drawn in [0, 100).    *)
(* Slots 100..255 stand for the memory past the array that an index       *)
(* beyond 99 writes to; a slot never written holds Garbage.               *)
(***************************************************************************)
EXTENDS Naturals, FiniteSets, Sequences

CONSTANTS PercValues,  \* candidate values of each u8 percentage option
          RpValues,    \* candidate values of conf->generic_rp (u8)
          Garbage      \* an OPS value never written

Kinds == {"SCAN", "READ", "UPDATE", "RMW", "INSERT", "GENERIC"}
\* The order in which init_state calls add_ops on the primary table.
AddOrder == <<"SCAN", "READ", "UPDATE", "RMW">>
Slots == 0 .. 255
Table == 0 .. 99

\* A configuration: one percentage per kind, generic_rp, and whether the
\* value-size distribution is "const".
Confs == [perc : [Kinds -> PercValues], rp : RpValues, constValue : BOOLEAN]

\* add_ops(type, perc): "u8 i = 0; while (i++ < perc) { ops[curr_i] = type;
\* curr_i += 1; }" -- perc writes at curr_i, curr_i+1, ... modulo 2^8.
\* Mutant: "ops[++curr_i] = type", the cursor advanced before the write.
AddOpsIdxPre(ci, perc) == {(ci + k) % 256 : k \in 1 .. perc}
AddOpsIdx(ci, perc) == {(ci + k) % 256 : k \in 0 .. (perc - 1)}
\* Mutant: "while (++i < perc)", one write short.
AddOpsPre(tbl, ci, type, perc) ==
    [j \in Slots |-> IF j \in AddOpsIdx(ci, perc - 1) THEN type ELSE tbl[j]]
AddOps(tbl, ci, type, perc) ==
    [j \in Slots |-> IF j \in AddOpsIdx(ci, perc) THEN type ELSE tbl[j]]
AddOpsCur(ci, perc) == (ci + perc) % 256

\* The total validate_and_sanitize_parameters compares with 100 (an
\* unsigned int sum of u8 values: no wrap).
Total(c) == c.perc["READ"] + c.perc["SCAN"] + c.perc["UPDATE"]
              + c.perc["INSERT"] + c.perc["RMW"] + c.perc["GENERIC"]

VARIABLES conf, pc, ops, curr, ops2, curr2, oob
vars == <<conf, pc, ops, curr, ops2, curr2, oob>>

\* Any configuration the parser can produce; both tables as the
\* next_op_pattern constructor leaves them.
Init ==
  /\ conf \in Confs
  /\ pc = "validate"
  /\ ops = [j \in Slots |-> Garbage] /\ curr = 0
  /\ ops2 = [j \in Slots |-> Garbage] /\ curr2 = 0
  /\ oob = FALSE

\* The two checks of validate_and_sanitize_parameters that concern the
\* mix; FATAL exits otherwise.
Validate ==
  /\ pc = "validate"
  /\ pc' = IF Total(conf) = 100 /\ (conf.perc["GENERIC"] > 0 => conf.constValue)
           THEN AddOrder[1] ELSE "exit"
  /\ UNCHANGED <<conf, ops, curr, ops2, curr2, oob>>

\* "if (conf->X_perc) state->next_op_generator->add_ops(OP_X, conf->X_perc)"
\* for X = scan, read, update, rmw, in that order.
AddStep ==
  /\ \E n \in 1 .. Len(AddOrder) :
     LET k == AddOrder[n]
         p == conf.perc[k]
     IN /\ pc = k
        /\ ops' = IF p > 0 THEN AddOps(ops, curr, k, p) ELSE ops
        /\ curr' = IF p > 0 THEN AddOpsCur(curr, p) ELSE curr
        /\ oob' = (oob \/ (p > 0 /\ \E j \in AddOpsIdx(curr, p) : j > 99))
        /\ pc' = IF n = Len(AddOrder) THEN "insert" ELSE AddOrder[n + 1]
  /\ UNCHANGED <<conf, ops2, curr2>>

\* "if (conf->insert_perc) FATAL(...)".
InsertStep ==
  /\ pc = "insert"
  /\ pc' = IF conf.perc["INSERT"] > 0 THEN "exit" ELSE "generic"
  /\ UNCHANGED <<conf, ops, curr, ops2, curr2, oob>>

\* "if (conf->generic_perc)": FATAL unless the value size is constant, then
\* add GENERIC to the primary table and fill the secondary table with
\* READ generic_rp times and UPDATE (u8)(100 - generic_rp) times.
GenericStep ==
  /\ pc = "generic"
  /\ LET p   == conf.perc["GENERIC"]
         up  == (100 + 256 - conf.rp) % 256
         c1  == AddOpsCur(0, conf.rp)
         idx == AddOpsIdx(curr, p) \cup AddOpsIdx(0, conf.rp) \cup AddOpsIdx(c1, up)
     IN \/ p = 0 /\ pc' = "ready" /\ UNCHANGED <<ops, curr, ops2, curr2, oob>>
        \/ p > 0 /\ ~conf.constValue /\ pc' = "exit"
           /\ UNCHANGED <<ops, curr, ops2, curr2, oob>>
        \/ /\ p > 0 /\ conf.constValue
           /\ ops' = AddOps(ops, curr, "GENERIC", p)
           /\ curr' = AddOpsCur(curr, p)
           /\ ops2' = AddOps(AddOps(ops2, 0, "READ", conf.rp), c1, "UPDATE", up)
           /\ curr2' = AddOpsCur(c1, up)
           /\ oob' = (oob \/ \E j \in idx : j > 99)
           /\ pc' = "ready"
  /\ UNCHANGED conf

\* The thread is set up; its tables no longer change.
Ready == pc = "ready" /\ UNCHANGED vars

Done == pc = "exit" /\ UNCHANGED vars

Next == Validate \/ AddStep \/ InsertStep \/ GenericStep \/ Ready \/ Done

Spec == Init /\ [][Next]_vars

-----------------------------------------------------------------------------
Count(tbl, k) == Cardinality({j \in Table : tbl[j] = k})
\* Reference: the mix init_state is meant to build.
Wanted(k) == IF k = "INSERT" THEN 0 ELSE conf.perc[k]

\* Once a configuration is accepted, the primary table holds exactly
\* perc entries of each operation in ops[0..99] and no unwritten slot, and
\* the secondary table holds generic_rp READs and 100 - generic_rp UPDATEs.
MixExact ==
  pc = "ready" =>
    /\ \A k \in Kinds : Count(ops, k) = Wanted(k)
    /\ conf.perc["GENERIC"] > 0 =>
         /\ Count(ops2, "READ") = conf.rp
         /\ Count(ops2, "UPDATE") = 100 - conf.rp

\* add_ops never writes past ops[99] (nor ops2[99]) for a configuration
\* validate_and_sanitize_parameters accepts: the sum check on the
\* percentages is all that keeps the u8 cursors of the primary table inside
\* the 100-entry array.  Nothing checks generic_rp, so a configuration
\* with generic_rp above 100 is outside what this holds for.
InBounds == ~oob
=============================================================================
