-------------------------------- MODULE Retry --------------------------------
(***************************************************************************)
(* The OP_UPDATE case of FKVB<IO>::do_transaction (FKVB.cc, RETRY_BACKOFF):*)
(*   max_retries = 18; sleep_time = 1000;                                 *)
(*   do { rc = do_update(state);                                          *)
(*        if (rc) { usleep(sleep_time); sleep_time *= 2; } else break;    *)
(*   } while (--max_retries);                                             *)
(*   if (!max_retries) failed = true;                                     *)
(* do_update is abstract: each call returns 0 or an error.  It is shown   *)
(* to implement RetrySpec.                                                *)
(***************************************************************************)
EXTENDS Naturals, Sequences

CONSTANTS MaxRetries,  \* the initial max_retries
          InitSleep    \* the initial sleep_time (usec)

VARIABLES pc,          \* "call", "backoff", "conclude" or "end"
          maxRetries,  \* max_retries
          sleepTime,   \* sleep_time
          rc,          \* rc of the last do_update
          failed,      \* the shared 'failed' flag
          calls,       \* do_update calls made
          sleeps       \* history: the arguments of usleep, in order

vars == <<pc, maxRetries, sleepTime, rc, failed, calls, sleeps>>

Init ==
  /\ pc = "call" /\ maxRetries = MaxRetries /\ sleepTime = InitSleep
  /\ rc = 0 /\ failed = FALSE /\ calls = 0 /\ sleeps = <<>>

\* "rc = do_update(state)"; a zero rc breaks out of the loop.
Attempt ==
  /\ pc = "call"
  /\ \E r \in {0, 1} :
       /\ rc' = r
       /\ pc' = IF r # 0 THEN "backoff" ELSE "conclude"
  /\ calls' = calls + 1
  /\ UNCHANGED <<maxRetries, sleepTime, failed, sleeps>>

\* Mutant: the loop test as "while (max_retries--)".
BackoffPostDec ==
  /\ pc = "backoff"
  /\ sleeps' = Append(sleeps, sleepTime)
  /\ sleepTime' = sleepTime * 2
  /\ maxRetries' = maxRetries - 1
  /\ pc' = IF maxRetries # 0 THEN "call" ELSE "conclude"
  /\ UNCHANGED <<rc, failed, calls>>

\* Mutant: the sleep doubled before it is slept.
BackoffDoubleFirst ==
  /\ pc = "backoff"
  /\ sleeps' = Append(sleeps, sleepTime * 2)
  /\ sleepTime' = sleepTime * 2
  /\ maxRetries' = maxRetries - 1
  /\ pc' = IF maxRetries - 1 # 0 THEN "call" ELSE "conclude"
  /\ UNCHANGED <<rc, failed, calls>>

\* "usleep(sleep_time); sleep_time *= 2;" then "while (--max_retries)".
Backoff ==
  /\ pc = "backoff"
  /\ sleeps' = Append(sleeps, sleepTime)
  /\ sleepTime' = sleepTime * 2
  /\ maxRetries' = maxRetries - 1
  /\ pc' = IF maxRetries - 1 # 0 THEN "call" ELSE "conclude"
  /\ UNCHANGED <<rc, failed, calls>>

\* Mutant: the test inverted, "if (max_retries)".
ConcludeInverted ==
  /\ pc = "conclude"
  /\ failed' = (failed \/ maxRetries # 0)
  /\ pc' = "end"
  /\ UNCHANGED <<maxRetries, sleepTime, rc, calls, sleeps>>

\* "if (!max_retries) failed = true".
Conclude ==
  /\ pc = "conclude"
  /\ failed' = (failed \/ maxRetries = 0)
  /\ pc' = "end"
  /\ UNCHANGED <<maxRetries, sleepTime, rc, calls, sleeps>>

\* Another worker's failure or sigint_handler sets 'failed' meanwhile; the
\* loop does not look at it.
OtherFails ==
  /\ ~failed
  /\ failed' = TRUE
  /\ UNCHANGED <<pc, maxRetries, sleepTime, rc, calls, sleeps>>

Finished == pc = "end" /\ UNCHANGED vars

Next == Attempt \/ Backoff \/ Conclude \/ OtherFails \/ Finished

Spec == Init /\ [][Next]_vars /\ WF_vars(Attempt \/ Backoff \/ Conclude)

-----------------------------------------------------------------------------
\* Refinement mapping: every call before the last failed; the verdict is
\* the "!max_retries" test, known once it has run ('failed' itself may
\* have been set by someone else).
Abs == INSTANCE RetrySpec WITH
         Budget <- MaxRetries,
         tries <- [i \in 1 .. calls |->
                     IF i < calls \/ rc # 0 THEN "fail" ELSE "ok"],
         outcome <- IF pc = "end" THEN (IF maxRetries = 0 THEN "failed" ELSE "ok")
                    ELSE "pending"

\* The retry loop implements RetrySpec: at most MaxRetries calls of
\* do_update, a success is never reported as a failure, and 'failed' is
\* set only after MaxRetries failed calls.
ImplementsRetrySpec == Abs!Spec

\* Spec 4.3 / retry test: the sleeps between attempts start at sleep_time
\* and double each time.
BackoffSchedule ==
  \A k \in 1 .. Len(sleeps) : sleeps[k] = InitSleep * 2 ^ (k - 1)

\* The update always comes to a verdict, and when every attempt failed the
\* shared flag is set.
Decides == <>(pc = "end" /\ (calls = MaxRetries /\ rc # 0 => failed))
=============================================================================
