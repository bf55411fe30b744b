---------------------------- MODULE CommittedPrefix ----------------------------
(***************************************************************************)
(* What a client may assume of processing on the GPU.  A call commits rows *)
(* of its input, in order, a few at a time, and always returns.  If it     *)
(* succeeds it has committed them all; if it reports an error, the error   *)
(* names as many rows as it has committed, and they stay committed.        *)
(***************************************************************************)
EXTENDS Naturals, Sequences

CONSTANT Inputs

VARIABLES
  log,     \* the reviews processed
  call,    \* the input of the call in progress and where it began, or none
  report   \* how the last call ended, and how many rows it said it committed

vars == <<log, call, report>>

NoCall == [input |-> <<>>, start |-> 0]
InCall == call # NoCall
Done == Len(log) - call.start

\* These endings name the rows that were committed; an exception that is not
\* of the GPU's says nothing about them.
Naming == {"ok", "error", "lost"}
Silent == {"raised", "interrupted"}

Silence == [told |-> "nothing", committed |-> 0]

Init == log = <<>> /\ call = NoCall /\ report = Silence

Begin ==
  /\ ~InCall
  /\ \E input \in Inputs : call' = [input |-> input, start |-> Len(log)]
  /\ report' = Silence
  /\ UNCHANGED log

Commit ==
  /\ InCall
  /\ \E n \in 1 .. Len(call.input) - Done :
       log' = log \o SubSeq(call.input, Done + 1, Done + n)
  /\ UNCHANGED <<call, report>>

Return ==
  /\ InCall
  /\ \/ \E told \in Naming :
          /\ told = "ok" => Done = Len(call.input)
          /\ report' = [told |-> told, committed |-> Done]
     \/ \E told \in Silent, said \in 0 .. Done :
          report' = [told |-> told, committed |-> said]
  /\ call' = NoCall
  /\ UNCHANGED log

Next == Begin \/ Commit \/ Return

Safety == Init /\ [][Next]_vars

Spec == Safety /\ WF_vars(Commit \/ Return)
===============================================================================
