---------------------------- MODULE RuntimeSession ----------------------------
(***************************************************************************)
(* One Python RWKV_SRS runtime and the native runtime it owns: the life of *)
(* a live prediction session (staged, finalized, closed by its token), the *)
(* native undo stack shared by plain and live answers, and the metadata    *)
(* stack Python keeps beside it so that undoing also takes back the        *)
(* processed-review count, last review and history digest.                 *)
(*                                                                         *)
(* A model state is the sequence of reviews processed into it, and the     *)
(* metadata is the sequence it describes.  Faults names the exceptional    *)
(* outcomes an instance admits: an exception raised between a native       *)
(* commit and the Python bookkeeping that mirrors it.                      *)
(***************************************************************************)
EXTENDS Naturals, Sequences

CONSTANTS
  Reviews,      \* reviews a client processes
  Batches,      \* the committed prefixes of one plain process call
  UndoLimit,    \* undo_limit; 0 disables undoable processing
  Orphans,      \* facades that can be open without being the registered one
  Faults,       \* the exceptional outcomes admitted
  MaxReviews,   \* bound: reviews in the model
  MaxToken      \* bound: sessions finalized

FaultKinds ==
  {"late_error",           \* the result of a committed answer cannot be built
   "lost_result",          \* nor can that of a committed plain batch
   "interrupted",          \* so interrupted that `except Exception` is passed
   "lost_construction",    \* a built facade is dropped before finalization
   "interrupted_finalize", \* a facade is dropped just after finalization
   "leaked_pending",       \* the staged token is lost before its try block
   "foreign_finalizer"}    \* the facade is finalized on another thread

ASSUME RuntimeAssumption ==
  /\ Batches \subseteq Seq(Reviews)
  /\ UndoLimit \in Nat
  /\ Faults \subseteq FaultKinds
  /\ MaxReviews \in Nat
  /\ MaxToken \in Nat

VARIABLES
  model,      \* native: the reviews processed into the recurrent state
  frames,     \* native undo_stack, oldest first
  live,       \* native live_session: its token, or NoSession
  pending,    \* native pending_live_session: its token, or NoSession
  nextToken,  \* native next_live_session_token
  described,  \* Python: what last_review_id, count and digest describe
  metas,      \* Python _undo_metadata_stack, oldest first
  handle,     \* Python: token of the registered open facade, or NoSession
  stage,      \* Python: how far predict_many_live_session has come
  orphans     \* Python: tokens of the open facades nobody registered

native == <<model, frames, live, pending, nextToken>>
python == <<described, metas, handle, stage, orphans>>
vars == <<model, frames, live, pending, nextToken,
          described, metas, handle, stage, orphans>>

NoSession == 0
AtLeastOne(n) == IF n = 0 THEN 1 ELSE n

Newest(stack) == stack[Len(stack)]
Older(stack) == SubSeq(stack, 1, Len(stack) - 1)

UndoFrame == [token : Nat, model : Seq(Reviews)]

\* Mutant: nothing trims the stack.
PushedUntrimmed(stack, x) == Append(stack, x)

\* push_back, then pop_front when that exceeds the limit.
Pushed(stack, x) ==
  LET grown == Append(stack, x)
  IN  IF Len(grown) > UndoLimit THEN Tail(grown) ELSE grown

Init ==
  /\ model = <<>> /\ frames = <<>>
  /\ live = NoSession /\ pending = NoSession /\ nextToken = 1
  /\ described = <<>> /\ metas = <<>>
  /\ handle = NoSession /\ stage = "idle"
  /\ orphans = [k \in Orphans |-> NoSession]

-------------------------------------------------------------------------------
(* Who may touch the runtime.                                              *)

RequireNoLiveSession == live = NoSession /\ pending = NoSession
LiveSessionRef(token) == pending # token /\ live = token

\* The native side accepts the call the registered facade, or in its absence
\* the runtime object, makes.
CallAccepted ==
  /\ stage = "idle"
  /\ IF handle = NoSession THEN RequireNoLiveSession ELSE LiveSessionRef(handle)

-------------------------------------------------------------------------------
(* Processing.                                                             *)

\* Mutant: the native batch relies on Python to have cleared its stack.
KeptByProcessUnlessMirrored(reached) == IF metas # <<>> THEN <<>> ELSE frames

\* process, process_many, build_state_only: history is forgotten first, then
\* each native batch forgets its own and commits.  Metadata follows a batch
\* unless its result is lost.
KeptByProcess(reached) == IF metas # <<>> \/ reached THEN <<>> ELSE frames

Process(batch, reached, lost) ==
  /\ stage = "idle" /\ handle = NoSession
  /\ batch # <<>> => reached
  /\ lost => "lost_result" \in Faults /\ batch # <<>>
  /\ Len(model) + Len(batch) <= MaxReviews
  /\ RequireNoLiveSession
  /\ model' = model \o batch
  /\ described' = IF lost THEN described ELSE described \o batch
  /\ metas' = <<>>
  /\ frames' = KeptByProcess(reached)
  /\ UNCHANGED <<live, pending, nextToken, handle, stage, orphans>>

\* The native side refuses once Python has dropped its own undo history.
ProcessRefused ==
  /\ stage = "idle" /\ handle = NoSession
  /\ ~RequireNoLiveSession
  /\ metas' = <<>>
  /\ UNCHANGED <<model, frames, live, pending, nextToken,
                 described, handle, stage, orphans>>

\* The native half of undoable_process and of a live answer.
CommitAnswer(review) ==
  /\ CallAccepted
  /\ UndoLimit > 0
  /\ Len(model) < MaxReviews
  /\ model' = Append(model, review)
  /\ frames' = Pushed(frames, [token |-> handle, model |-> model])
  /\ UNCHANGED <<live, pending, nextToken>>

\* Mutant: the metadata is saved after it was advanced.
AnswerSavingTooLate(review) ==
  /\ CommitAnswer(review)
  /\ described' = Append(described, review)
  /\ metas' = Pushed(metas, described')
  /\ UNCHANGED <<handle, stage, orphans>>

Answer(review) ==
  /\ CommitAnswer(review)
  /\ described' = Append(described, review)
  /\ metas' = Pushed(metas, described)
  /\ UNCHANGED <<handle, stage, orphans>>

\* An exception after the native commit.  The handlers undo natively if the
\* stack grew, which leaves no trace; on a full stack it did not grow.
AnswerLost(review) ==
  /\ "late_error" \in Faults
  /\ CommitAnswer(review)
  /\ Len(frames') = Len(frames)
  /\ UNCHANGED python

\* An exception no handler catches, KeyboardInterrupt for one.
AnswerInterrupted(review) ==
  /\ "interrupted" \in Faults
  /\ CommitAnswer(review)
  /\ UNCHANGED python

-------------------------------------------------------------------------------
(* Undo.                                                                   *)

NativeUndoAvailable ==
  /\ CallAccepted
  /\ frames # <<>>
  /\ handle # NoSession => Newest(frames).token = handle

Diverged == Len(frames) # Len(metas)

FramesAfterUndo ==
  IF Diverged /\ handle = NoSession THEN <<>> ELSE Older(frames)

UndoLast ==
  /\ metas # <<>>
  /\ NativeUndoAvailable
  /\ model' = Newest(frames).model
  /\ described' = Newest(metas)
  /\ frames' = FramesAfterUndo
  /\ metas' = IF Diverged THEN <<>> ELSE Older(metas)
  /\ UNCHANGED <<live, pending, nextToken, handle, stage, orphans>>

UndoRefused ==
  /\ stage = "idle" /\ metas # <<>>
  /\ ~NativeUndoAvailable
  /\ metas' = <<>>
  /\ UNCHANGED <<model, frames, live, pending, nextToken,
                 described, handle, stage, orphans>>

-------------------------------------------------------------------------------
(* The life of a live session.                                             *)

\* create_live_prediction_session: predictions are ready, nothing committed.
Create ==
  /\ stage = "idle" /\ handle = NoSession
  /\ RequireNoLiveSession
  /\ nextToken <= MaxToken
  /\ pending' = AtLeastOne(nextToken)
  /\ stage' = "staged"
  /\ UNCHANGED <<model, frames, live, nextToken, described, metas, handle, orphans>>

\* The compact result cannot be converted: the adapter aborts and re-raises.
AbortConversion ==
  /\ stage = "staged"
  /\ pending' = NoSession
  /\ stage' = "idle"
  /\ UNCHANGED <<model, frames, live, nextToken, described, metas, handle, orphans>>

\* The token is lost between two try blocks: nobody aborts.
LeakPending ==
  /\ "leaked_pending" \in Faults
  /\ stage = "staged"
  /\ stage' = "idle"
  /\ UNCHANGED native
  /\ UNCHANGED <<described, metas, handle, orphans>>

BuildFacade ==
  /\ stage = "staged"
  /\ stage' = "built"
  /\ UNCHANGED native
  /\ UNCHANGED <<described, metas, handle, orphans>>

\* finalize_live_prediction_session, the native commit point.
InstallPending ==
  /\ stage = "built" /\ live = NoSession
  /\ live' = pending
  /\ pending' = NoSession
  /\ frames' = <<>>
  /\ nextToken' = AtLeastOne(pending + 1)
  /\ UNCHANGED model

Finalize ==
  /\ InstallPending
  /\ handle' = pending
  /\ metas' = <<>>
  /\ stage' = "idle"
  /\ UNCHANGED <<described, orphans>>

\* The exception keeps the built facade alive; its finalizer is still to come.
Abandon(k) ==
  /\ orphans[k] = NoSession
  /\ orphans' = [orphans EXCEPT ![k] = pending]
  /\ stage' = "idle"
  /\ UNCHANGED <<described, metas, handle>>

FinalizeInterrupted(k) ==
  /\ "interrupted_finalize" \in Faults
  /\ InstallPending
  /\ Abandon(k)

AbortBuilt(k) ==
  /\ "lost_construction" \in Faults
  /\ stage = "built"
  /\ pending' = NoSession
  /\ Abandon(k)
  /\ UNCHANGED <<model, frames, live, nextToken>>

\* Mutant: closing drops the session and keeps its undo frames.
NativeCloseKeepingFrames(token) ==
  /\ live' = IF LiveSessionRef(token) THEN NoSession ELSE live
  /\ UNCHANGED <<model, frames, pending, nextToken>>

\* close_live_prediction_session: by token, and only the session that has it.
NativeClose(token) ==
  /\ live' = IF LiveSessionRef(token) THEN NoSession ELSE live
  /\ frames' = IF LiveSessionRef(token) THEN <<>> ELSE frames
  /\ UNCHANGED <<model, pending, nextToken>>

\* Mutant: closing is left to the native object's own end of life.
CloseInPythonOnly ==
  /\ stage = "idle" /\ handle # NoSession
  /\ metas' = <<>>
  /\ handle' = NoSession
  /\ UNCHANGED native
  /\ UNCHANGED <<described, stage, orphans>>

Close ==
  /\ stage = "idle" /\ handle # NoSession
  /\ NativeClose(handle)
  /\ metas' = <<>>
  /\ handle' = NoSession
  /\ UNCHANGED <<described, stage, orphans>>

\* __del__ of an unregistered facade, at any point of the program.
FinalizeOrphan(k) ==
  /\ orphans[k] # NoSession
  /\ NativeClose(orphans[k])
  /\ metas' = <<>>
  /\ orphans' = [orphans EXCEPT ![k] = NoSession]
  /\ UNCHANGED <<described, handle, stage>>

\* The native object refuses calls from other threads; Python closes anyway.
CloseElsewhere ==
  /\ "foreign_finalizer" \in Faults
  /\ stage = "idle" /\ handle # NoSession
  /\ metas' = <<>>
  /\ handle' = NoSession
  /\ UNCHANGED native
  /\ UNCHANGED <<described, stage, orphans>>

\* Mutant: Python does not follow the native stack.
ReplaceCandidatesNativeOnly ==
  /\ CallAccepted /\ handle # NoSession
  /\ frames' = <<>>
  /\ UNCHANGED <<model, live, pending, nextToken>>
  /\ UNCHANGED python

\* live_replace_candidates drops the answers given on the old universe.
ReplaceCandidates ==
  /\ CallAccepted /\ handle # NoSession
  /\ frames' = <<>>
  /\ metas' = <<>>
  /\ UNCHANGED <<model, live, pending, nextToken, described, handle, stage, orphans>>

-------------------------------------------------------------------------------
Next ==
  \/ \E batch \in Batches, reached, lost \in BOOLEAN : Process(batch, reached, lost)
  \/ ProcessRefused
  \/ \E review \in Reviews :
       Answer(review) \/ AnswerLost(review) \/ AnswerInterrupted(review)
  \/ UndoLast \/ UndoRefused
  \/ Create \/ AbortConversion \/ LeakPending \/ BuildFacade \/ Finalize
  \/ \E k \in Orphans :
       FinalizeInterrupted(k) \/ AbortBuilt(k) \/ FinalizeOrphan(k)
  \/ Close \/ CloseElsewhere \/ ReplaceCandidates

Spec == Init /\ [][Next]_vars

-------------------------------------------------------------------------------
(* Properties.                                                             *)

\* Every component keeps its type and neither undo stack outgrows undo_limit:
\* the trims of undoable_process_review_with_state and
\* _trim_undo_metadata_stack.
TypeOK ==
  /\ model \in Seq(Reviews) /\ described \in Seq(Reviews)
  /\ frames \in Seq(UndoFrame) /\ Len(frames) <= UndoLimit
  /\ metas \in Seq(Seq(Reviews)) /\ Len(metas) <= UndoLimit
  /\ live \in Nat /\ pending \in Nat /\ nextToken \in Nat \ {0} /\ handle \in Nat
  /\ stage \in {"idle", "staged", "built"}
  /\ orphans \in [Orphans -> Nat]

\* Whatever goes wrong around it, the native undo stack holds frames of the
\* open live session only, or plain ones when none is open: no undo can touch
\* a session other than the one its answer was given in, which is what lets
\* live_undo_last_process take the session it restores for granted.
FramesBelongToSession == \A i \in DOMAIN frames : frames[i].token = live

\* A staged session and an open one never coexist, so finalization can never
\* be refused for an open session and abort never drops one.
PendingExcludesLive == pending # NoSession => live = NoSession

\* Undoing the newest frame takes back exactly the newest review, and leaves
\* the model the next frame was captured on: the stack is a contiguous suffix
\* of history although plain processing, live sessions, lost results and
\* closed sessions cut into it.
ModelAfter(i) == IF i = Len(frames) THEN model ELSE frames[i + 1].model

UndoRemovesOneReview ==
  \A i \in DOMAIN frames :
    /\ ModelAfter(i) # <<>>
    /\ Older(ModelAfter(i)) = frames[i].model

\* The Python stack mirrors the native one, frame by frame: each saved
\* metadata describes the model its native frame restores.
UndoHistoryMirrored ==
  /\ Len(metas) = Len(frames)
  /\ \A i \in DOMAIN frames : metas[i] = frames[i].model

\* last_review_id, processed_review_count and history_digest describe the
\* reviews the native model has processed, which a checkpoint will record.
DescribesModel == described = model

\* The registered facade, and only it, has the open native session: a client
\* neither holds a dead session nor is locked out by one nobody holds.
HandleIsLive == handle = live

\* A staged session does not outlive the call that creates it; if it did,
\* every later mutation and creation would be refused.
PendingIsTransient == stage = "idle" => pending = NoSession

Log == INSTANCE UndoableLog WITH log <- model, depth <- Len(metas)

\* Seen from the public interface, undo is a bounded stack of single reviews:
\* no schedule of answers, live sessions and plain processing takes back more
\* than was promised or anything else.
ImplementsUndoableLog == Log!Spec
===============================================================================
