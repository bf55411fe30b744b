-------------------------- MODULE CheckpointInvariant --------------------------
(***************************************************************************)
(* The inductive strengthening of the safety properties of Checkpoint.     *)
(*                                                                         *)
(* Two invariants.  The first holds whatever clients do: the types, what a *)
(* save can rely on, and that the frames of an undo stack go back one      *)
(* review each.  The second needs clients not to publish over a file that  *)
(* another runtime uses: a file a runtime came from still agrees with the  *)
(* runtime's history about the entries that were not loaded.               *)
(***************************************************************************)
EXTENDS Checkpoint

Histories == [reviews : Seq(Reviews), makes : NativeStates]
Frames == [native : NativeStates, history : Histories]

Files == [phase : {"whole"}, history : Histories, native : NativeStates]
Partial == [phase |-> "partial"]

Loading ==
  [phase : {"loading"}, path : Paths, scope : SUBSET Identities,
   backing : Paths \cup {None}, history : Histories]

ReadyRuntimes ==
  [phase : {"ready"}, scope : SUBSET Identities, backing : Paths \cup {None},
   native : NativeStates, history : Histories, undo : Seq(Frames)]

Saves ==
  [phase : {"write", "merge", "publish", "published", "failed"}, path : Paths,
   history : Histories, source : NativeStates \cup {None}]

TypeOK ==
  /\ files \in [Paths -> {Nowhere} \cup Files]
  /\ temp \in [Runtimes -> {Nowhere, Partial} \cup Files]
  /\ runtime \in [Runtimes -> {Nowhere} \cup Loading \cup ReadyRuntimes]
  /\ save \in [Runtimes -> {Nowhere} \cup Saves]

-------------------------------------------------------------------------------
(* Whatever clients do.                                                     *)

\* The oldest of n frames goes n reviews back.
GoBack(stack, log) ==
  /\ Len(stack) <= Len(log)
  /\ \A n \in 1 .. Len(stack) :
       stack[n].native.log = SubSeq(log, 1, Len(log) - Len(stack) + n - 1)

FramesGoBack ==
  \A p \in Runtimes : runtime[p] \in ReadyRuntimes =>
    GoBack(runtime[p].undo, runtime[p].native.log)

\* A runtime stays as it is while it is saved.
SavesAreOfReady ==
  \A p \in Runtimes : save[p] \in Saves =>
    /\ runtime[p] \in ReadyRuntimes
    /\ save[p].phase = "merge" => save[p].source \in NativeStates
    /\ save[p].phase = "publish" =>
         temp[p] \in Files /\ temp[p].native.log = runtime[p].native.log

LoadedFilesExist ==
  \A p \in Runtimes : runtime[p] \in Loading => files[runtime[p].path] \in Files

ShapeInv ==
  TypeOK /\ FramesGoBack /\ SavesAreOfReady /\ LoadedFilesExist

-------------------------------------------------------------------------------
(* While clients leave files alone that others use.                         *)

\* Two native states have the same entries of the cards that are not in scope.
AgreeOutside(m, n, scope) ==
  \A k \in Identities \ scope : m.entries[k] = n.entries[k]

FramesAreSelections ==
  \A p \in Runtimes : runtime[p] \in ReadyRuntimes =>
    \A n \in 1 .. Len(runtime[p].undo) :
      LET frame == runtime[p].undo[n]
      IN  /\ frame.native = Selected(frame.history.makes, runtime[p].scope)
          /\ AgreeOutside(frame.history.makes, runtime[p].history.makes, runtime[p].scope)

\* What a runtime is loading is still what its metadata said.
LoadsAreStable ==
  \A p \in Runtimes : runtime[p] \in Loading =>
    /\ files[runtime[p].path].history = runtime[p].history
    /\ runtime[p].backing \in {None, runtime[p].path}
    /\ runtime[p].backing = None => runtime[p].scope = Everything

\* What is not loaded can still be read where it was left.
BackingAgrees ==
  \A p \in Runtimes : runtime[p] \in ReadyRuntimes =>
    IF Backed(p)
    THEN /\ files[runtime[p].backing] \in Files
         /\ AgreeOutside(files[runtime[p].backing].native, runtime[p].history.makes,
                         runtime[p].scope)
    ELSE runtime[p].scope = Everything

\* A save writes the state that the runtime's history makes, and what it
\* published stays until it is over.
SavesAreExact ==
  \A p \in Runtimes : save[p] \in Saves =>
    /\ save[p].history = runtime[p].history
    /\ save[p].phase = "merge" =>
         AgreeOutside(save[p].source, runtime[p].history.makes, runtime[p].scope)
    /\ save[p].phase = "publish" =>
         temp[p] = File(p, save[p].history.makes)
    /\ save[p].phase = "published" =>
         files[save[p].path] = File(p, save[p].history.makes)

SavesAreAlone ==
  \A p \in Runtimes : save[p] \in Saves => ~UsedByOther(p, save[p].path)

IInv ==
  /\ ShapeInv
  /\ FilesAreWhole
  /\ RuntimesAreSelections
  /\ FramesAreSelections
  /\ LoadsAreStable
  /\ BackingAgrees
  /\ SavesAreExact
  /\ SavesAreAlone
===============================================================================
