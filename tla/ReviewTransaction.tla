--------------------------- MODULE ReviewTransaction ---------------------------
(***************************************************************************)
(* How a native runtime keeps one review, or one batch, all or nothing.    *)
(* A call first moves the flat CPU states to the canonical maps, journals  *)
(* the entries it is about to touch, then works row by row: predict, draw  *)
(* the features, run the model, store five recurrent states (mirrored in   *)
(* the GPU prediction cache), record the review.  Every step may fail; the *)
(* journal is then played back.  An undoable call keeps its journal on the *)
(* undo stack, and undoing plays it back later.                            *)
(*                                                                         *)
(* A call is one native method that holds the runtime exclusively, so only *)
(* its own steps happen while it runs.                                     *)
(***************************************************************************)
EXTENDS GpuArena

CONSTANTS
  Batches,     \* the rows of one batch call
  UndoLimit,   \* undo_limit
  MaxReviews   \* bound: reviews in the state

ASSUME TransactionAssumption ==
  /\ Batches \subseteq Seq(Reviews)
  /\ UndoLimit \in Nat
  /\ MaxReviews \in Nat

VARIABLES
  canon,      \* rnn.card_states .. rnn.global_state
  flat,       \* rnn.flat_cpu_state
  feat,       \* deterministic
  undoStack,  \* undo_stack, oldest first
  gpu,        \* rnn.gpu
  call,       \* the native call that runs
  past        \* history variable: the snapshot each frame was taken of

vars == <<canon, flat, feat, undoStack, gpu, call, past>>

Effective == [k \in Keys |-> IF canon[k] # None THEN canon[k] ELSE flat[k]]
Snapshot == [states |-> Effective, features |-> feat]

Idle == [phase |-> "idle"]
Busy == call.phase # "idle"

\* A fresh runtime.
Init ==
  /\ canon = NoStates
  /\ feat = EmptyFeatures
  /\ flat = NoStates
  /\ undoStack = <<>> /\ past = <<>>
  /\ gpu = None
  /\ call = Idle

-------------------------------------------------------------------------------
CallKinds == {"undoable", "process", "state_only"}

\* A batch call drops the undo history before anything else.
Begin(kind, rows) ==
  /\ ~Busy
  /\ kind = "undoable" => UndoLimit > 0
  /\ feat.i + Len(rows) <= MaxReviews
  /\ call' = [kind |-> kind, rows |-> rows, row |-> 1, phase |-> "materialize",
              journal |-> <<>>, start |-> Snapshot]
  /\ undoStack' = IF kind = "undoable" THEN undoStack ELSE <<>>
  /\ past' = IF kind = "undoable" THEN past ELSE <<>>
  /\ UNCHANGED <<canon, flat, feat, gpu>>

BeginUndoable == \E r \in Reviews : Begin("undoable", <<r>>)
BeginBatch ==
  \E kind \in CallKinds \ {"undoable"}, rows \in Batches : Begin(kind, rows)

InPhase(phase) == call.phase = phase
Go(phase) == call' = [call EXCEPT !.phase = phase]
Row == call.rows[call.row]

\* The rows of the call, and what follows the last phase of one of them.
RowsDone == call.row > Len(call.rows)
FirstPhase == IF call.kind = "state_only" THEN "features" ELSE "predict"

HasFlat == {k \in Keys : flat[k] # None}

MoveToCanonical(moved) ==
  /\ canon' = [k \in Keys |-> IF k \in moved THEN flat[k] ELSE canon[k]]
  /\ flat' = [k \in Keys |-> IF k \in moved THEN None ELSE flat[k]]

MaterializeFlatCpuState ==
  /\ InPhase("materialize")
  /\ MoveToCanonical(HasFlat)
  /\ Go(IF call.kind = "undoable" THEN "predict" ELSE "capture")
  /\ UNCHANGED <<feat, undoStack, gpu, past>>

\* A state that cannot be converted stays flat, those moved before it do not
\* go back, and the call ends there.
MaterializeFails ==
  /\ InPhase("materialize")
  /\ \E moved \in SUBSET HasFlat : moved # HasFlat /\ MoveToCanonical(moved)
  /\ call' = Idle
  /\ UNCHANGED <<feat, undoStack, gpu, past>>

\* An undoable call journals its row after predicting it, a batch call the
\* identities of all its rows before predicting any.
Capture ==
  /\ InPhase("capture")
  /\ call' = [call EXCEPT
       !.journal = <<IF call.kind = "undoable" THEN UndoFrame(canon, feat, Row)
                     ELSE BatchUndoFrame(canon, feat, {call.rows[n] :
                                                       n \in DOMAIN call.rows})>>,
       !.phase = IF call.kind = "undoable" THEN "features"
                 ELSE IF RowsDone THEN "done" ELSE FirstPhase]
  /\ UNCHANGED <<canon, flat, feat, undoStack, gpu, past>>

Predict ==
  /\ InPhase("predict")
  /\ feat' = PredictFeatureVector(feat, Row)
  /\ Go(IF call.kind = "undoable" THEN "capture" ELSE "features")
  /\ UNCHANGED <<canon, flat, undoStack, gpu, past>>

Features ==
  /\ InPhase("features")
  /\ feat' = FeatureVector(feat, Row, TRUE)
  /\ Go("store")
  /\ UNCHANGED <<canon, flat, undoStack, gpu, past>>

\* The forward pass reads the canonical maps only.
StoreReviewStates ==
  /\ InPhase("store")
  /\ flat' = [k \in Keys |-> IF k \in KeysOf(Row) THEN None ELSE flat[k]]
  /\ canon' = NextStates(canon, Row)
  /\ gpu' \in SyncGpuReviewStates(gpu, canon', Row)
  /\ Go("record")
  /\ UNCHANGED <<feat, undoStack, past>>

Record ==
  /\ InPhase("record")
  /\ feat' = RecordProcessedRow(RecordRecurrentStateUpdate(feat, Row), Row)
  /\ Go("curves")
  /\ UNCHANGED <<canon, flat, undoStack, gpu, past>>

\* The next row of a batch, once the curves of this one are converted.
NextRow ==
  /\ InPhase("curves")
  /\ call' = [call EXCEPT !.row = @ + 1,
       !.phase = IF call.row = Len(call.rows) THEN "done" ELSE FirstPhase]
  /\ UNCHANGED <<canon, flat, feat, undoStack, gpu, past>>

\* Mutant of Newest: the oldest frame is never dropped.
Untrimmed(s) == s

Newest(s) == IF Len(s) > UndoLimit THEN Tail(s) ELSE s

Commit ==
  /\ InPhase("done")
  /\ IF call.kind = "undoable"
     THEN /\ undoStack' = Newest(Append(undoStack,
                            [row |-> call.rows[1], journal |-> call.journal[1]]))
          /\ past' = Newest(Append(past, call.start))
     ELSE UNCHANGED <<undoStack, past>>
  /\ call' = Idle
  /\ UNCHANGED <<canon, flat, feat, gpu>>

PlayBack(journal) ==
  /\ canon' = RestoreEntries(canon, journal.recurrent)
  /\ feat' = RestoreDeterministic(feat, journal.deterministic)

\* A row cannot be prepared, featurized, run, converted or returned.
CanFail(phase) ==
  \/ phase \in {"predict", "features", "store"}
  \/ phase = "capture" /\ call.kind = "undoable"
  \/ phase = "curves" /\ call.kind # "state_only"

Fail ==
  /\ Busy
  /\ CanFail(call.phase)
  /\ IF call.journal = <<>>
     THEN UNCHANGED <<canon, feat, gpu>>
     ELSE /\ PlayBack(call.journal[1])
          /\ IF call.kind = "undoable"
             THEN gpu' \in RestoreGpuAfterUndo(gpu, canon', Row)
             ELSE gpu' = None
  /\ call' = Idle
  /\ UNCHANGED <<flat, undoStack, past>>

-------------------------------------------------------------------------------
UndoLastProcess ==
  /\ ~Busy
  /\ undoStack # <<>>
  /\ LET frame == undoStack[Len(undoStack)]
     IN  /\ PlayBack(frame.journal)
         /\ gpu' \in RestoreGpuAfterUndo(gpu, canon', frame.row)
  /\ undoStack' = SubSeq(undoStack, 1, Len(undoStack) - 1)
  /\ past' = SubSeq(past, 1, Len(past) - 1)
  /\ UNCHANGED <<flat, call>>

\* A GPU prediction builds the cache if there is none, from both homes.
PredictGpu ==
  /\ ~Busy
  /\ gpu = None => Fits(Effective)
  /\ \E t \in Tuples :
       gpu' = Queried(IF gpu = None THEN StateArena(Effective) ELSE gpu, t)
  /\ UNCHANGED <<canon, flat, feat, undoStack, call, past>>

ReleaseGpu ==
  /\ ~Busy
  /\ gpu' = None
  /\ UNCHANGED <<canon, flat, feat, undoStack, call, past>>

\* A review processed by the GPU scan, as the CPU side sees it once the scan is
\* synchronized: no history is left to undo, and each touched state has gone to
\* the flat maps or to the canonical ones.
ProcessByScan ==
  /\ ~Busy
  /\ feat.i < MaxReviews
  /\ \E r \in Reviews, toFlat \in BOOLEAN :
       LET next == NextStates(Effective, r)
           Put(map, here) == [k \in Keys |-> IF k \notin KeysOf(r) THEN map[k]
                                             ELSE IF here THEN next[k] ELSE None]
       IN  /\ flat' = Put(flat, toFlat)
           /\ canon' = Put(canon, ~toFlat)
           /\ feat' = ProcessedFeatures(feat, r)
  /\ undoStack' = <<>> /\ past' = <<>>
  /\ gpu' = None
  /\ UNCHANGED call

CallStep ==
  \/ MaterializeFlatCpuState \/ MaterializeFails \/ Capture \/ Predict
  \/ Features \/ StoreReviewStates \/ Record \/ NextRow \/ Commit \/ Fail

Next ==
  \/ BeginUndoable \/ BeginBatch
  \/ CallStep
  \/ UndoLastProcess
  \/ PredictGpu \/ ReleaseGpu
  \/ ProcessByScan

Spec == Init /\ [][Next]_vars

-------------------------------------------------------------------------------
Phases == {"materialize", "capture", "predict", "features", "store", "record",
           "curves", "done"}

\* The keys a call journals: its row's, or those of all its rows.
Touched(c) == KeysOfAll({c.rows[n] : n \in DOMAIN c.rows})

CallTypeOK ==
  /\ DOMAIN call = {"kind", "rows", "row", "phase", "journal", "start"}
  /\ call.kind \in CallKinds
  /\ call.rows \in Seq(Reviews)
  /\ call.kind = "undoable" => Len(call.rows) = 1
  /\ call.row \in 1 .. Len(call.rows) + 1
  /\ call.phase \in Phases
  /\ call.phase \notin {"materialize", "capture", "done"}
       => call.row <= Len(call.rows)
  /\ call.phase \in {"materialize", "capture"} => call.row = 1
  /\ call.start \in Snapshots

\* Every variable has its type: the maps cover the identities of the instance,
\* a call is inside its rows, a predictor inside its buffers.
TypeOK ==
  /\ canon \in MaybeStates
  /\ flat \in MaybeStates
  /\ feat \in FeatureStates
  /\ past \in Seq(Snapshots)
  /\ Busy => CallTypeOK
  /\ gpu # None => gpu \in Predictors

\* A recurrent state has one CPU home.  Two would be a stale copy, and
\* materialize_flat_cpu_state and StateArena::new refuse to run on them.
OneHome == \A k \in Keys : canon[k] = None \/ flat[k] = None

\* What the GPU predicts from is what the CPU holds: every state has a slot of
\* its own, the slots of an arena are packed, and the bytes are the newest ones,
\* whatever was processed, rolled back or undone since the arena was built.
GpuMirrorsState == gpu # None => Mirrors(gpu, Effective)

\* A cached slot tuple never outlives the slots it names: a prediction that
\* skips the lookup reads the states of the five identities it asked for.
CachedSlotsAreCurrent == gpu # None => CacheIsCurrent(gpu)

\* A call that fails, at whatever step and row, leaves every recurrent state
\* and every feature map, counter and random draw as it found them.
FailureLeavesNoTrace ==
  [][Fail \/ MaterializeFails => Snapshot' = call.start]_vars

\* Undoing plays back exactly what its review changed: the state after it is the
\* state before that review, whatever was predicted, rolled back or undone since.
UndoRestoresExactly ==
  [][UndoLastProcess => Snapshot' = past[Len(past)]]_vars
===============================================================================
