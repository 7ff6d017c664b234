------------------------------- MODULE Solve -------------------------------
(***************************************************************************)
(* MultipleMiningFunction.Solve: some threads look for a nonce of the same *)
(* block; the first to find one stores it, once, and cancels the others;   *)
(* Solve returns when all of them have ended.  The context of the job may  *)
(* be cancelled at any time (module Mining), also while a thread finds a   *)
(* nonce.                                                                  *)
(*                                                                         *)
(* Abstractions.  A nonce is a model value.  A batch of 1001 tries finds a *)
(* nonce or does not.                                                      *)
(***************************************************************************)
CONSTANTS Thread,
          Nonce,    \* the nonces that solve the block
          NoNonce

ASSUME SolveAssumption == NoNonce \notin Nonce

VARIABLES cancelled,  \* the context of the job
          halted,     \* miningContext
          thread,     \* where each thread is
          nonce,      \* the nonce it has found
          once,       \* once.Do has been called
          total,      \* totalNonce
          result,
          returned

solveVars == <<cancelled, halted, thread, nonce, once, total, result, returned>>

SolveTypeOK ==
  /\ cancelled \in BOOLEAN /\ halted \in BOOLEAN
  /\ thread \in [Thread -> {"check", "try", "found", "ended"}]
  /\ nonce \in [Thread -> Nonce \cup {NoNonce}]
  /\ once \in BOOLEAN /\ result \in BOOLEAN
  /\ total \in Nonce \cup {NoNonce}
  /\ returned \in BOOLEAN
  /\ result <=> total # NoNonce

SolveInit ==
  /\ cancelled = FALSE /\ halted = FALSE
  /\ thread = [t \in Thread |-> "check"]
  /\ nonce = [t \in Thread |-> NoNonce]
  /\ once = FALSE /\ total = NoNonce /\ result = FALSE
  /\ returned = FALSE
----------------------------------------------------------------------------
\* Mistaken forms of the actions below, used by none of them: see "mutants" in
\* PROJECT.json.

\* A result stored by every thread that has one.
StoreAlways(t) ==
  /\ thread[t] = "found"
  /\ once' = TRUE /\ result' = TRUE /\ halted' = TRUE
  /\ total' = nonce[t]
  /\ thread' = [thread EXCEPT ![t] = "ended"]
  /\ UNCHANGED <<cancelled, nonce, returned>>

\* A result that does not stop the other threads.
StoreAndGoOn(t) ==
  /\ thread[t] = "found"
  /\ once' = TRUE /\ result' = TRUE
  /\ total' = IF once THEN total ELSE nonce[t]
  /\ thread' = [thread EXCEPT ![t] = "ended"]
  /\ UNCHANGED <<cancelled, halted, nonce, returned>>

\* A Solve that waits for one thread only.
ReturnFirst ==
  /\ ~returned /\ \E t \in Thread : thread[t] = "ended"
  /\ returned' = TRUE
  /\ UNCHANGED <<cancelled, halted, thread, nonce, once, total, result>>
----------------------------------------------------------------------------
\* mineBase looks at its context before every batch.
Check(t) ==
  /\ thread[t] = "check"
  /\ thread' = [thread EXCEPT ![t] = IF halted THEN "ended" ELSE "try"]
  /\ UNCHANGED <<cancelled, halted, nonce, once, total, result, returned>>

Try(t) ==
  /\ thread[t] = "try"
  /\ \/ thread' = [thread EXCEPT ![t] = "check"] /\ UNCHANGED nonce
     \/ \E n \in Nonce : /\ nonce' = [nonce EXCEPT ![t] = n]
                         /\ thread' = [thread EXCEPT ![t] = "found"]
  /\ UNCHANGED <<cancelled, halted, once, total, result, returned>>

\* once.Do and wg.Done.
Store(t) ==
  /\ thread[t] = "found"
  /\ once' = TRUE /\ result' = TRUE /\ halted' = TRUE
  /\ total' = IF once THEN total ELSE nonce[t]
  /\ thread' = [thread EXCEPT ![t] = "ended"]
  /\ UNCHANGED <<cancelled, nonce, returned>>

\* wg.Wait is over.
Finish ==
  /\ ~returned /\ \A t \in Thread : thread[t] = "ended"
  /\ returned' = TRUE
  /\ UNCHANGED <<cancelled, halted, thread, nonce, once, total, result>>

\* The context of the job is cancelled, and miningContext with it.
CancelJob ==
  /\ ~cancelled
  /\ cancelled' = TRUE /\ halted' = TRUE
  /\ UNCHANGED <<thread, nonce, once, total, result, returned>>

ThreadStep(t) == Check(t) \/ Try(t) \/ Store(t)

SolveNext == Finish \/ CancelJob \/ \E t \in Thread : ThreadStep(t)

SolveSpec == SolveInit /\ [][SolveNext]_solveVars

\* The threads run.  Whether a nonce is found is luck.
FairSolve ==
  /\ SolveSpec
  /\ WF_solveVars(Finish)
  /\ \A t \in Thread : WF_solveVars(ThreadStep(t))
----------------------------------------------------------------------------
\* What Solve returns is what a thread found, whether it was cancelled or not,
\* and it returns nothing only if no thread found anything.
SolutionKept ==
  returned => IF result THEN \E t \in Thread : nonce[t] = total
              ELSE \A t \in Thread : nonce[t] = NoNonce

\* The nonce that is returned is the one that was stored first.
StoredOnce == [][total # NoNonce => total' = total]_solveVars

\* Solve comes back when a nonce is found or the job is cancelled: no thread goes
\* on alone.
SolveReturns == result \/ cancelled ~> returned
=============================================================================
