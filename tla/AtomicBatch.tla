----------------------------- MODULE AtomicBatch -----------------------------
(***************************************************************************)
(* What a client may assume of process_many and build_state_only: a call   *)
(* either succeeds and has processed its whole batch, or reports an error  *)
(* and has processed nothing.                                              *)
(***************************************************************************)
EXTENDS Sequences

CONSTANTS Batches

VARIABLES
  reviews,  \* the reviews processed
  batch,    \* the input of the call in progress, or <<>>
  success   \* whether the last call to return succeeded, so far as decided

Init == reviews = <<>> /\ batch = <<>> /\ success = TRUE

Submit(b) ==
  /\ batch = <<>>
  /\ batch' = b
  /\ UNCHANGED <<reviews, success>>

\* The call has decided what to answer, and has not changed anything yet.
Decide == batch # <<>> /\ success' \in BOOLEAN /\ UNCHANGED <<reviews, batch>>

\* It returns, having done what it answers.
Answer ==
  /\ batch # <<>>
  /\ batch' = <<>>
  /\ reviews' = IF success THEN reviews \o batch ELSE reviews
  /\ UNCHANGED success

Empty == batch = <<>> /\ success' = TRUE /\ UNCHANGED <<reviews, batch>>

Next == (\E b \in Batches : Submit(b)) \/ Decide \/ Answer \/ Empty
Spec == Init /\ [][Next]_<<reviews, batch, success>>
===============================================================================
