---------------------- MODULE ReviewTransactionInvariant ----------------------
(***************************************************************************)
(* The inductive strengthening of the safety properties of                 *)
(* ReviewTransaction.  A journal can only be played back exactly if the    *)
(* entries it does not hold are the ones of the snapshot it was taken of:  *)
(* that is what Untouched says, of the frames of the undo stack, each with *)
(* the snapshot after it, and of the call that runs.                       *)
(***************************************************************************)
EXTENDS ReviewTransaction

JournalOf(p, keys) == Journal(p.states, p.features, keys)

\* The committed state, and the snapshot that follows the n-th frame's.
Committed == IF Busy THEN call.start ELSE Snapshot
After(n) == IF n = Len(past) THEN Committed ELSE past[n + 1]

\* Each frame journals the row it was taken for, and nothing else changed
\* between its snapshot and the next one.
FramesAreExact ==
  /\ undoStack \in Seq({undoStack[n] : n \in DOMAIN undoStack})
  /\ Len(undoStack) = Len(past)
  /\ \A n \in 1 .. Len(past) :
       /\ undoStack[n].row \in Reviews
       /\ undoStack[n].journal = JournalOf(past[n], KeysOf(undoStack[n].row))
       /\ Untouched(past[n], After(n), KeysOf(undoStack[n].row))

\* A call has changed nothing before its journal, and afterwards nothing the
\* journal does not hold; a batch runs with no history.
JournalPending ==
  call.phase \in {"materialize", "capture"}
    \/ (call.phase = "predict" /\ call.kind = "undoable")

CallIsExact ==
  Busy =>
    /\ call.kind # "undoable" => undoStack = <<>>
    /\ JournalPending <=> call.journal = <<>>
    /\ JournalPending => Snapshot = call.start
    /\ ~JournalPending =>
         /\ call.journal = <<JournalOf(call.start, Touched(call))>>
         /\ Untouched(call.start, Snapshot, Touched(call))

\* A journal holds canonical entries only, so nothing may be flat any more.
NothingFlat ==
  undoStack # <<>> \/ (Busy /\ call.phase # "materialize")
    => flat = NoStates

\* The GPU cache needs no strengthening: it follows the newest states.
IInv ==
  /\ TypeOK
  /\ OneHome
  /\ FramesAreExact
  /\ CallIsExact
  /\ NothingFlat
  /\ GpuMirrorsState
  /\ CachedSlotsAreCurrent
===============================================================================
