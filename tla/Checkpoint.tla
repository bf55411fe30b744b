------------------------------- MODULE Checkpoint -------------------------------
(***************************************************************************)
(* Saving and loading checkpoints.  A runtime may be loaded whole or for   *)
(* some cards only.  Loaded for some, it keeps the path of the file it     *)
(* came from, its backing, and a save merges what the file has of the      *)
(* other cards with what the runtime has of its own.  A save writes to a   *)
(* temporary file beside its destination and publishes it by renaming, so  *)
(* that a failure, an interrupt or a crash in the middle leaves the        *)
(* destination as it was.                                                  *)
(*                                                                         *)
(* A history is a pair: the reviews, for which a file's digest, its review *)
(* count and last review stand, and `makes`, a history variable, the       *)
(* native state that a runtime comes to that processes these reviews and   *)
(* nothing else.                                                           *)
(***************************************************************************)
EXTENDS CheckpointState

CONSTANTS
  Runtimes,
  Paths,
  Scopes,        \* the identities of the cards a client asks for
  MaxReviews,    \* bound: reviews of a history
  UndoLimit,
  Exclusive      \* clients do not publish over a file another runtime uses

ASSUME CheckpointAssumption ==
  /\ Scopes \subseteq SUBSET Identities
  /\ MaxReviews \in Nat /\ UndoLimit \in Nat
  /\ Exclusive \in BOOLEAN
  /\ None \notin Paths

VARIABLES
  files,     \* files[path]: the checkpoint published at path
  temp,      \* temp[p]: what the temporary file of p's save holds
  runtime,   \* runtime[p]
  save       \* save[p]: the save p is carrying out

vars == <<files, temp, runtime, save>>

Nowhere == [phase |-> "none"]
Everything == Identities

Beginning == [reviews |-> <<>>, makes |-> EmptyState]
Continued(h, r) == [reviews |-> Append(h.reviews, r), makes |-> Reviewed(h.makes, r)]

Init ==
  /\ files = [path \in Paths |-> Nowhere]
  /\ temp = [p \in Runtimes |-> Nowhere]
  /\ runtime = [p \in Runtimes |-> Nowhere]
  /\ save = [p \in Runtimes |-> Nowhere]

Exists(path) == files[path] # Nowhere
\* What is cut off is refused before any of it is used.
Readable(path) == files[path].phase = "whole"
Ready(p) == runtime[p].phase = "ready" /\ save[p] = Nowhere

\* Another runtime came from this file, or is reading or writing it.
UsedByOther(p, path) ==
  \E q \in Runtimes \ {p} :
    \/ runtime[q].phase = "loading" /\ runtime[q].path = path
    \/ runtime[q].phase = "ready" /\ runtime[q].backing = path
    \/ save[q].phase # "none" /\ save[q].path = path

WrittenByOther(p, path) ==
  \E q \in Runtimes \ {p} : save[q].phase # "none" /\ save[q].path = path

-------------------------------------------------------------------------------
(* Life of a runtime.                                                       *)

NewRuntime(scope, backing, native, history) ==
  [phase |-> "ready", scope |-> scope, backing |-> backing, native |-> native,
   history |-> history, undo |-> <<>>]

Create(p) ==
  /\ runtime[p] = Nowhere
  /\ runtime' = [runtime EXCEPT ![p] = NewRuntime(Everything, None, EmptyState, Beginning)]
  /\ UNCHANGED <<files, temp, save>>

\* The metadata is read: history, and what may be asked of this file.
BeginLoad(p) ==
  /\ runtime[p] = Nowhere
  /\ \E path \in Paths, scope \in Scopes \cup {Everything} :
       /\ Readable(path)
       /\ Exclusive => ~WrittenByOther(p, path)
       /\ runtime' = [runtime EXCEPT ![p] =
            [phase |-> "loading", path |-> path, scope |-> scope,
             backing |-> IF scope = Everything THEN None ELSE path,
             history |-> files[path].history]]
  /\ UNCHANGED <<files, temp, save>>

\* The native runtime opens the file again and reads the state.
RestoreCheckpoint(p) ==
  /\ runtime[p].phase = "loading"
  /\ runtime' = [runtime EXCEPT ![p] =
       NewRuntime(@.scope, @.backing,
                  Selected(files[@.path].native, @.scope), @.history)]
  /\ UNCHANGED <<files, temp, save>>

LoadFails(p) ==
  /\ runtime[p].phase = "loading"
  /\ runtime' = [runtime EXCEPT ![p] = Nowhere]
  /\ UNCHANGED <<files, temp, save>>

\* The newest frames, as many as the stack holds.
Trimmed(stack) ==
  SubSeq(stack, (IF Len(stack) > UndoLimit THEN Len(stack) - UndoLimit ELSE 0) + 1,
         Len(stack))

\* Mutant of WithinScope: rows of unselected identities are processed.
AnyRow(p, r) == TRUE
WithinScope(p, r) == Touched(r) \subseteq runtime[p].scope

\* process or undoable_process, of a row whose identities are loaded.
Review(p, undoably) ==
  /\ Ready(p)
  /\ \E r \in Reviews :
       LET old == runtime[p]
           frame == [native |-> old.native, history |-> old.history]
       IN  /\ WithinScope(p, r)
           /\ Len(old.history.reviews) < MaxReviews
           /\ runtime' = [runtime EXCEPT ![p] =
                [phase |-> "ready", scope |-> old.scope, backing |-> old.backing,
                 native |-> Reviewed(old.native, r),
                 history |-> Continued(old.history, r),
                 undo |-> IF undoably THEN Trimmed(Append(old.undo, frame))
                          ELSE <<>>]]
  /\ UNCHANGED <<files, temp, save>>

UndoLast(p) ==
  /\ Ready(p)
  /\ runtime[p].undo # <<>>
  /\ LET old == runtime[p]
         frame == old.undo[Len(old.undo)]
     IN  runtime' = [runtime EXCEPT ![p] =
           [phase |-> "ready", scope |-> old.scope, backing |-> old.backing,
            native |-> frame.native, history |-> frame.history,
            undo |-> SubSeq(old.undo, 1, Len(old.undo) - 1)]]
  /\ UNCHANGED <<files, temp, save>>

\* The process ends, at any moment: what it wrote to a temporary file stays
\* there under a name nobody asks for again.
Crash(p) ==
  /\ runtime[p] # Nowhere
  /\ runtime' = [runtime EXCEPT ![p] = Nowhere]
  /\ save' = [save EXCEPT ![p] = Nowhere]
  /\ temp' = [temp EXCEPT ![p] = Nowhere]
  /\ UNCHANGED files

-------------------------------------------------------------------------------
(* A save.                                                                  *)

Saving(p, phase) == save[p].phase = phase
Enter(p, phase) ==
  save' = [save EXCEPT ![p] = [phase |-> phase, path |-> @.path, history |-> @.history,
                               source |-> @.source]]

\* The metadata is composed and the temporary file made.
BeginSave(p) ==
  /\ Ready(p)
  /\ \E path \in Paths :
       /\ Exclusive => ~UsedByOther(p, path)
       /\ save' = [save EXCEPT ![p] =
            [phase |-> "write", path |-> path, history |-> runtime[p].history,
             source |-> None]]
  /\ temp' = [temp EXCEPT ![p] = [phase |-> "partial"]]
  /\ UNCHANGED <<files, runtime>>

Backed(p) == runtime[p].backing # None

File(p, native) ==
  [phase |-> "whole", history |-> save[p].history, native |-> native]

WriteCheckpoint(p) ==
  /\ Saving(p, "write")
  /\ ~Backed(p)
  /\ temp' = [temp EXCEPT ![p] = File(p, runtime[p].native)]
  /\ Enter(p, "publish")
  /\ UNCHANGED <<files, runtime>>

\* Once opened, the backing file is read as it was, whatever is published
\* under its name.
OpenBacking(p) ==
  /\ Saving(p, "write")
  /\ Backed(p)
  /\ Readable(runtime[p].backing)
  /\ save' = [save EXCEPT ![p] =
       [phase |-> "merge", path |-> @.path, history |-> @.history,
        source |-> files[runtime[p].backing].native]]
  /\ UNCHANGED <<files, temp, runtime>>

WriteMerged(p) ==
  /\ Saving(p, "merge")
  /\ temp' = [temp EXCEPT ![p] =
       File(p, Merged(save[p].source, runtime[p].native, runtime[p].scope))]
  /\ Enter(p, "publish")
  /\ UNCHANGED <<files, runtime>>

\* An error or an interrupt before the rename, in the middle of a write or not.
SaveFails(p) ==
  /\ save[p].phase \in {"write", "merge", "publish"}
  /\ Enter(p, "failed")
  /\ UNCHANGED <<files, temp, runtime>>

\* Mutant of IsComplete: the file is renamed whatever was written.
AnyTemporary(p) == save[p].phase \in {"publish", "failed"}
IsComplete(p) == Saving(p, "publish")

\* os.replace
Publish(p) ==
  /\ IsComplete(p)
  /\ files' = [files EXCEPT ![save[p].path] = temp[p]]
  /\ temp' = [temp EXCEPT ![p] = Nowhere]
  /\ Enter(p, "published")
  /\ UNCHANGED runtime

\* The temporary is unlinked if it is still there.
CleanUp(p) ==
  /\ Saving(p, "failed")
  /\ temp' = [temp EXCEPT ![p] = Nowhere]
  /\ save' = [save EXCEPT ![p] = Nowhere]
  /\ UNCHANGED <<files, runtime>>

NewBacking(p) == IF Backed(p) THEN save[p].path ELSE None

\* A runtime of some cards is backed by what it saved last, unless an interrupt
\* comes first.
Saved(p) ==
  /\ Saving(p, "published")
  /\ LET old == runtime[p]
     IN  \E backing \in {old.backing, NewBacking(p)} :
           runtime' = [runtime EXCEPT ![p] =
             [phase |-> "ready", scope |-> old.scope, backing |-> backing,
              native |-> old.native, history |-> old.history, undo |-> old.undo]]
  /\ save' = [save EXCEPT ![p] = Nowhere]
  /\ UNCHANGED <<files, temp>>

-------------------------------------------------------------------------------
SaveStep(p) ==
  \/ WriteCheckpoint(p) \/ OpenBacking(p) \/ WriteMerged(p)
  \/ SaveFails(p) \/ Publish(p) \/ CleanUp(p) \/ Saved(p)

Next ==
  \E p \in Runtimes :
    \/ Create(p) \/ BeginLoad(p) \/ RestoreCheckpoint(p) \/ LoadFails(p)
    \/ Review(p, TRUE) \/ Review(p, FALSE) \/ UndoLast(p) \/ Crash(p)
    \/ BeginSave(p) \/ SaveStep(p)

Spec == Init /\ [][Next]_vars
-------------------------------------------------------------------------------
\* What is published is complete, and its state is the one its history makes:
\* of all identities, whichever runtimes had which of them loaded, saved and
\* undid on the way.
FilesAreWhole ==
  \A path \in Paths : Exists(path) =>
    /\ files[path].phase = "whole"
    /\ files[path].native = files[path].history.makes

\* A runtime loaded for some cards is the whole one without the others: the
\* same states, encodings and generator.
RuntimesAreSelections ==
  \A p \in Runtimes : runtime[p].phase = "ready" =>
    runtime[p].native = Selected(runtime[p].history.makes, runtime[p].scope)

Store == INSTANCE CheckpointStore WITH
  stored <- [path \in Paths |->
              IF Readable(path) THEN files[path].native.log ELSE None],
  open <- [p \in Runtimes |->
            IF runtime[p].phase = "ready" THEN runtime[p].native.log ELSE None]

\* Loads and saves are atomic.
ImplementsCheckpointStore == Store!Spec
===============================================================================
