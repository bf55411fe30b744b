---------------------- MODULE ReviewTransactionRefinement ----------------------
(***************************************************************************)
(* What the transactions of a native runtime amount to.  Every completed   *)
(* review is in the global recurrent state, so that state is the log of    *)
(* what was processed; all the rest is a function of the log, and calls    *)
(* and undos only append to the log or take its newest reviews back.       *)
(***************************************************************************)
EXTENDS ReviewTransactionInvariant, Subsequences

\* Without a review there would be no global identity either.
ASSUME SomeReviewAssumption == Reviews # {}

GlobalKey == <<"global", Placeholder>>

\* The reviews a snapshot was made of: its global state.
LogOf(p) ==
  IF p.states[GlobalKey] = None THEN <<>> ELSE p.states[GlobalKey]

\* What processing a log from scratch gives.
FeaturesAfter(log) ==
  LET after[n \in 0 .. Len(log)] ==
        IF n = 0 THEN EmptyFeatures ELSE ProcessedFeatures(after[n - 1], log[n])
  IN  after[Len(log)]
StateAfter(log, k) ==
  LET mine == Chosen(log, {r \in Reviews : k \in KeysOf(r)})
  IN  IF mine = <<>> THEN None ELSE mine

StatesFollow(states, log) == \A k \in Keys : states[k] = StateAfter(log, k)
Follows(p, log) ==
  p.features = FeaturesAfter(log) /\ StatesFollow(p.states, log)

\* The reviews processed for good: while a call runs, those before it.
CommittedLog == LogOf(Committed)

\* The features (with the encodings drawn, the counters and the generator) and
\* each recurrent state are what processing the log from scratch would give:
\* no prediction, failure, rollback, undo, GPU cache or change of home shows.
StateFollowsLog == Follows(Committed, CommittedLog)

\* The runtime keeps the promise of its undo interface.
Abstract ==
  INSTANCE UndoableLog WITH log <- CommittedLog, depth <- Len(undoStack)

ImplementsUndoableLog == Abstract!Spec

-------------------------------------------------------------------------------
(* The inductive strengthening.                                             *)

\* Each frame is one review below the next one.
FramesFollow ==
  \A n \in DOMAIN past :
    /\ Follows(past[n], LogOf(past[n]))
    /\ LogOf(After(n)) = Append(LogOf(past[n]), undoStack[n].row)

\* The rows of a call that are all processed, and what there is of them.
Done == IF call.phase = "curves" THEN call.row ELSE call.row - 1
Processed == LogOf(call.start) \o SubSeq(call.rows, 1, Done)

CallFollows ==
  Busy =>
    /\ call.kind = "undoable" => UndoLimit > 0
    /\ call.phase = "done" => call.row > Len(call.rows)
    /\ StatesFollow(Effective, IF call.phase = "record"
                               THEN Append(Processed, Row) ELSE Processed)
    /\ feat = IF call.phase \in {"store", "record"}
              THEN FeatureVector(FeaturesAfter(Processed), Row, TRUE)
              ELSE FeaturesAfter(Processed)

LogInv ==
  /\ StateFollowsLog
  /\ FramesFollow
  /\ CallFollows
  /\ Len(undoStack) <= UndoLimit
===============================================================================
