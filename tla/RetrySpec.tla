------------------------------ MODULE RetrySpec ------------------------------
(***************************************************************************)
(* What the update retry of do_transaction promises (spec 4.3): up to     *)
(* Budget attempts, each made only after the previous one failed; the     *)
(* result is success as soon as one attempt succeeds, and failure only    *)
(* after Budget failed attempts.                                          *)
(***************************************************************************)
EXTENDS Naturals, Sequences

CONSTANT Budget

VARIABLES tries,   \* outcomes of the attempts made so far
          outcome  \* "pending", "ok" or "failed"

Last(s) == s[Len(s)]

Init == tries = <<>> /\ outcome = "pending"

Try ==
  /\ outcome = "pending"
  /\ Len(tries) < Budget
  /\ tries = <<>> \/ Last(tries) = "fail"
  /\ \E r \in {"ok", "fail"} : tries' = Append(tries, r)
  /\ UNCHANGED outcome

Decide ==
  /\ outcome = "pending"
  /\ tries # <<>>
  /\ Last(tries) = "ok" \/ Len(tries) = Budget
  /\ outcome' = IF Last(tries) = "ok" THEN "ok" ELSE "failed"
  /\ UNCHANGED tries

Spec == Init /\ [][Try \/ Decide]_<<tries, outcome>>
=============================================================================
