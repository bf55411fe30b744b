---------------------------- MODULE CheckpointProofs ----------------------------
(***************************************************************************)
(* The safety properties of Checkpoint, and that it implements             *)
(* CheckpointStore, for every set of runtimes, paths, reviews and          *)
(* identities.                                                             *)
(***************************************************************************)
EXTENDS CheckpointInvariant, FiniteSetTheorems, TLAPS

-------------------------------------------------------------------------------
(* Native states as values.                                                 *)

LEMMA SelectedType ==
  ASSUME NEW m \in NativeStates, NEW scope
  PROVE  Selected(m, scope) \in NativeStates /\ Selected(m, scope).log = m.log
BY DEF NativeStates, Selected

LEMMA EmptyType ==
  EmptyState \in NativeStates /\ Selected(EmptyState, Everything) = EmptyState
BY DEF EmptyState, NativeStates, Selected, Everything

LEMMA UnseenIsFinite ==
  ASSUME NEW m, NEW r \in Reviews, NEW i
  PROVE  Cardinality(UnseenUpTo(m, r, i)) \in Nat
<1>1. IdentitiesOf[r] \in Seq(Identities)
  BY IdentityAssumption
<1>2. DOMAIN IdentitiesOf[r] = 1 .. Len(IdentitiesOf[r]) /\ Len(IdentitiesOf[r]) \in Nat
  BY <1>1
<1>3. IsFiniteSet(DOMAIN IdentitiesOf[r])
  BY <1>2, FS_Interval
<1>4. UnseenUpTo(m, r, i) \subseteq DOMAIN IdentitiesOf[r]
  BY DEF UnseenUpTo
<1>. QED BY <1>3, <1>4, FS_Subset, FS_CardinalityType

LEMMA EntryType ==
  ASSUME NEW m \in NativeStates, NEW r \in Reviews, NEW k \in Identities
  PROVE  Entry(m, r, k) \in Entries
<1>1. m.entries[k] \in Entries \cup {None} /\ m.draws \in Nat
  BY DEF NativeStates
<1>2. CASE m.entries[k] = None
  <2>1. DrawOf(m, r, k) \in Nat
    BY <1>1, UnseenIsFinite DEF DrawOf
  <2>2. <<r>> \in Seq(Reviews)
    OBVIOUS
  <2>. QED BY <1>2, <2>1, <2>2 DEF Entry, Entries
<1>3. CASE m.entries[k] # None
  <2>1. /\ m.entries[k].encoding \in Nat
        /\ Append(m.entries[k].reviews, r) \in Seq(Reviews)
    BY <1>1, <1>3 DEF Entries
  <2>. QED BY <1>3, <2>1 DEF Entry, Entries
<1>. QED BY <1>2, <1>3

LEMMA ReviewedType ==
  ASSUME NEW m \in NativeStates, NEW r \in Reviews
  PROVE  /\ Reviewed(m, r) \in NativeStates
         /\ Reviewed(m, r).log = Append(m.log, r)
         /\ m.log \in Seq(Reviews)
<1>1. /\ m.entries \in [Identities -> Entries \cup {None}]
      /\ m.draws \in Nat /\ m.log \in Seq(Reviews)
  BY DEF NativeStates
<1>2. \A k \in Identities :
        (IF k \in Touched(r) THEN Entry(m, r, k) ELSE m.entries[k]) \in Entries \cup {None}
  BY <1>1, EntryType
<1>3. m.draws + Cardinality(UnseenUpTo(m, r, Len(IdentitiesOf[r]))) \in Nat
  BY <1>1, UnseenIsFinite
<1>4. Append(m.log, r) \in Seq(Reviews)
  BY <1>1
<1>. QED BY <1>1, <1>2, <1>3, <1>4 DEF Reviewed, NativeStates

\* A runtime of some cards makes of their reviews what the whole one does.
LEMMA ReviewCommutes ==
  ASSUME NEW m \in NativeStates, NEW r \in Reviews, NEW scope, Touched(r) \subseteq scope
  PROVE  Reviewed(Selected(m, scope), r) = Selected(Reviewed(m, r), scope)
<1> DEFINE part == Selected(m, scope)
<1>1. IdentitiesOf[r] \in Seq(Identities)
  BY IdentityAssumption
<1>2. \A j \in DOMAIN IdentitiesOf[r] :
        IdentitiesOf[r][j] \in Identities /\ IdentitiesOf[r][j] \in scope
  BY <1>1 DEF Touched
<1>3. /\ part.draws = m.draws /\ part.log = m.log
      /\ part.entries = [k \in Identities |-> IF k \in scope THEN m.entries[k] ELSE None]
  BY DEF Selected
<1> HIDE DEF part
<1>4. \A j \in DOMAIN IdentitiesOf[r] :
        part.entries[IdentitiesOf[r][j]] = m.entries[IdentitiesOf[r][j]]
  BY <1>2, <1>3
<1>5. \A i : UnseenUpTo(part, r, i) = UnseenUpTo(m, r, i)
  BY <1>4 DEF UnseenUpTo
<1>6. \A k : DrawOf(part, r, k) = DrawOf(m, r, k)
  BY <1>3, <1>5 DEF DrawOf
<1>7. \A k \in Identities \cap scope : Entry(part, r, k) = Entry(m, r, k)
  BY <1>3, <1>6 DEF Entry
<1>8. Reviewed(part, r).entries = Selected(Reviewed(m, r), scope).entries
  <2>1. Reviewed(part, r).entries =
          [k \in Identities |-> IF k \in Touched(r) THEN Entry(part, r, k) ELSE part.entries[k]]
    BY DEF Reviewed
  <2>2. Reviewed(m, r).entries =
          [k \in Identities |-> IF k \in Touched(r) THEN Entry(m, r, k) ELSE m.entries[k]]
    BY DEF Reviewed
  <2>3. Selected(Reviewed(m, r), scope).entries =
          [k \in Identities |-> IF k \in scope THEN Reviewed(m, r).entries[k] ELSE None]
    BY DEF Selected
  <2>4. \A k \in Identities :
          (IF k \in Touched(r) THEN Entry(part, r, k) ELSE part.entries[k])
            = (IF k \in scope THEN Reviewed(m, r).entries[k] ELSE None)
    BY <1>3, <1>7, <2>2
  <2>. QED BY <2>1, <2>3, <2>4
<1>9. Reviewed(part, r).draws = Selected(Reviewed(m, r), scope).draws
  BY <1>3, <1>5 DEF Reviewed, Selected
<1>10. Reviewed(part, r).log = Selected(Reviewed(m, r), scope).log
  BY <1>3 DEF Reviewed, Selected
<1>11. Reviewed(part, r) = [entries |-> Reviewed(part, r).entries,
                            draws |-> Reviewed(part, r).draws, log |-> Reviewed(part, r).log]
  BY DEF Reviewed
<1>12. Selected(Reviewed(m, r), scope) =
         [entries |-> Selected(Reviewed(m, r), scope).entries,
          draws |-> Selected(Reviewed(m, r), scope).draws,
          log |-> Selected(Reviewed(m, r), scope).log]
  BY DEF Selected
<1>. QED BY <1>8, <1>9, <1>10, <1>11, <1>12 DEF part

LEMMA ReviewLeavesOthers ==
  ASSUME NEW m, NEW r, NEW scope, Touched(r) \subseteq scope
  PROVE  AgreeOutside(m, Reviewed(m, r), scope)
BY DEF AgreeOutside, Reviewed

\* What a file has of the other cards makes a part whole again.
LEMMA MergeRestores ==
  ASSUME NEW m \in NativeStates, NEW source, NEW scope, AgreeOutside(source, m, scope)
  PROVE  Merged(source, Selected(m, scope), scope) = m
<1>1. /\ m = [entries |-> m.entries, draws |-> m.draws, log |-> m.log]
      /\ m.entries = [k \in Identities |-> m.entries[k]]
  BY DEF NativeStates
<1>2. \A k \in Identities :
        (IF Selected(m, scope).entries[k] # None THEN Selected(m, scope).entries[k]
         ELSE IF k \in scope THEN None ELSE source.entries[k]) = m.entries[k]
  BY DEF Selected, AgreeOutside
<1>3. Selected(m, scope).draws = m.draws /\ Selected(m, scope).log = m.log
  BY DEF Selected
<1>. QED BY <1>1, <1>2, <1>3 DEF Merged

LEMMA SelectedEverything ==
  ASSUME NEW m \in NativeStates
  PROVE  Selected(m, Everything) = m
BY DEF NativeStates, Selected, Everything

LEMMA MergedType ==
  ASSUME NEW m \in NativeStates, NEW source \in NativeStates, NEW scope
  PROVE  Merged(source, m, scope) \in NativeStates /\ Merged(source, m, scope).log = m.log
BY DEF NativeStates, Merged

LEMMA AgreeTransitive ==
  ASSUME NEW m, NEW n, NEW o, NEW scope, AgreeOutside(m, n, scope), AgreeOutside(n, o, scope)
  PROVE  AgreeOutside(m, o, scope)
BY DEF AgreeOutside

-------------------------------------------------------------------------------
(* The phases tell the kinds of records apart.                              *)

LEMMA Kinds ==
  ASSUME TypeOK, NEW p \in Runtimes
  PROVE  /\ runtime[p].phase = "loading" <=> runtime[p] \in Loading
         /\ runtime[p].phase = "ready" <=> runtime[p] \in ReadyRuntimes
         /\ runtime[p] = Nowhere => runtime[p] \notin Loading \cup ReadyRuntimes
         /\ runtime[p] \notin Loading \cap ReadyRuntimes
         /\ save[p].phase # "none" <=> save[p] \in Saves
         /\ save[p] = Nowhere <=> save[p] \notin Saves
         /\ \A phase \in {"write", "merge", "publish", "published", "failed"} :
              Saving(p, phase) => save[p] \in Saves
<1>1. Nowhere.phase = "none" /\ \A x \in Loading : x.phase = "loading"
  BY DEF Nowhere, Loading
<1>2. /\ \A x \in ReadyRuntimes : x.phase = "ready"
      /\ \A x \in Saves : x.phase \in {"write", "merge", "publish", "published", "failed"}
  BY DEF ReadyRuntimes, Saves
<1>3. runtime[p] \in {Nowhere} \cup Loading \cup ReadyRuntimes /\ save[p] \in {Nowhere} \cup Saves
  BY DEF TypeOK
<1>. QED BY <1>1, <1>2, <1>3 DEF Saving

LEMMA FileKinds ==
  ASSUME TypeOK, NEW path \in Paths
  PROVE  /\ Readable(path) <=> files[path] \in Files
         /\ Exists(path) <=> files[path] \in Files
<1>1. Nowhere.phase = "none" /\ \A x \in Files : x.phase = "whole"
  BY DEF Nowhere, Files
<1>2. files[path] \in {Nowhere} \cup Files
  BY DEF TypeOK
<1>. QED BY <1>1, <1>2 DEF Readable, Exists

LEMMA ReadyFields ==
  ASSUME NEW x \in ReadyRuntimes
  PROVE  /\ x.phase = "ready" /\ x.scope \subseteq Identities
         /\ x.backing \in Paths \cup {None}
         /\ x.native \in NativeStates /\ x.native.log \in Seq(Reviews)
         /\ x.history \in Histories /\ x.undo \in Seq(Frames)
BY DEF ReadyRuntimes, NativeStates

LEMMA SaveFields ==
  ASSUME NEW x \in Saves
  PROVE  /\ x.path \in Paths /\ x.history \in Histories
         /\ x.source \in NativeStates \cup {None}
         /\ x.phase \in {"write", "merge", "publish", "published", "failed"}
BY DEF Saves

LEMMA FrameFields ==
  ASSUME NEW x \in Frames
  PROVE  /\ x.native \in NativeStates /\ x.native.log \in Seq(Reviews)
         /\ x.history \in Histories
BY DEF Frames, NativeStates

LEMMA NewRuntimeType ==
  ASSUME NEW scope \in SUBSET Identities, NEW backing \in Paths \cup {None},
         NEW native \in NativeStates, NEW history \in Histories
  PROVE  /\ NewRuntime(scope, backing, native, history) \in ReadyRuntimes
         /\ GoBack(NewRuntime(scope, backing, native, history).undo, native.log)
<1>1. <<>> \in Seq(Frames) /\ native.log \in Seq(Reviews)
  BY DEF NativeStates
<1>2. GoBack(<<>>, native.log)
  BY <1>1 DEF GoBack
<1>. QED BY <1>1, <1>2 DEF NewRuntime, ReadyRuntimes

LEMMA EmptyHistory == Beginning \in Histories
BY EmptyType DEF Beginning, Histories

LEMMA ContinuedType ==
  ASSUME NEW h \in Histories, NEW r \in Reviews
  PROVE  /\ Continued(h, r) \in Histories
         /\ Continued(h, r).makes = Reviewed(h.makes, r)
         /\ h.makes \in NativeStates
<1>1. h.reviews \in Seq(Reviews) /\ h.makes \in NativeStates
  BY DEF Histories
<1>2. Append(h.reviews, r) \in Seq(Reviews) /\ Reviewed(h.makes, r) \in NativeStates
  BY <1>1, ReviewedType
<1>. QED BY <1>1, <1>2 DEF Continued, Histories

-------------------------------------------------------------------------------
(* The undo stack.                                                          *)

LEMMA Prefix ==
  ASSUME NEW S, NEW s \in Seq(S), NEW m \in 0 .. Len(s)
  PROVE  /\ SubSeq(s, 1, m) \in Seq(S) /\ Len(SubSeq(s, 1, m)) = m
         /\ \A n \in 1 .. m : SubSeq(s, 1, m)[n] = s[n]
OBVIOUS

LEMMA PrefixOfPrefix ==
  ASSUME NEW S, NEW s \in Seq(S), NEW l \in 0 .. Len(s), NEW m \in 0 .. l
  PROVE  SubSeq(SubSeq(s, 1, l), 1, m) = SubSeq(s, 1, m)
<1> DEFINE t == SubSeq(s, 1, l)
<1>1. t \in Seq(S) /\ Len(t) = l /\ \A n \in 1 .. l : t[n] = s[n]
  BY Prefix
<1>2. m \in 0 .. Len(s) /\ m \in 0 .. Len(t) /\ 1 .. m \subseteq 1 .. l
  BY <1>1
<1> HIDE DEF t
<1>3. SubSeq(t, 1, m) = [n \in 1 .. m |-> t[n]] /\ SubSeq(s, 1, m) = [n \in 1 .. m |-> s[n]]
  BY <1>1, <1>2
<1>4. \A n \in 1 .. m : t[n] = s[n]
  BY <1>1, <1>2
<1>. QED BY <1>3, <1>4 DEF t

LEMMA TrimmedStack ==
  ASSUME NEW stack \in Seq(Frames)
  PROVE  /\ Trimmed(stack) \in Seq(Frames)
         /\ \E d \in 0 .. Len(stack) :
              /\ Len(Trimmed(stack)) = Len(stack) - d
              /\ \A n \in 1 .. Len(stack) - d : Trimmed(stack)[n] = stack[n + d]
<1> DEFINE d == IF Len(stack) > UndoLimit THEN Len(stack) - UndoLimit ELSE 0
           t == SubSeq(stack, d + 1, Len(stack))
<1>1. UndoLimit \in Nat /\ Len(stack) \in Nat
  BY CheckpointAssumption
<1>2. d \in 0 .. Len(stack)
  BY <1>1
<1>3. Trimmed(stack) = t
  BY DEF Trimmed
<1> HIDE DEF d
<1>4. t \in Seq(Frames) /\ Len(t) = Len(stack) - d
  BY <1>1, <1>2
<1>5. \A n \in 1 .. Len(stack) - d : t[n] = stack[n + d]
  BY <1>1, <1>2
<1>. QED BY <1>2, <1>3, <1>4, <1>5

LEMMA PushGoesBack ==
  ASSUME NEW stack \in Seq(Frames), NEW frame \in Frames, NEW r \in Reviews,
         GoBack(stack, frame.native.log)
  PROVE  GoBack(Trimmed(Append(stack, frame)), Append(frame.native.log, r))
<1> DEFINE log == frame.native.log
           longer == Append(log, r)
           pushed == Append(stack, frame)
<1>1. log \in Seq(Reviews)
  BY FrameFields
<1>2. /\ Len(stack) <= Len(log)
      /\ \A n \in 1 .. Len(stack) :
           stack[n].native.log = SubSeq(log, 1, Len(log) - Len(stack) + n - 1)
  BY DEF GoBack
<1>3. pushed \in Seq(Frames) /\ Len(pushed) = Len(stack) + 1 /\ Len(stack) \in Nat
  OBVIOUS
<1>4. pushed[Len(stack) + 1] = frame /\ \A n \in 1 .. Len(stack) : pushed[n] = stack[n]
  OBVIOUS
<1>5. PICK d \in 0 .. Len(pushed) :
        /\ Len(Trimmed(pushed)) = Len(pushed) - d
        /\ \A n \in 1 .. Len(pushed) - d : Trimmed(pushed)[n] = pushed[n + d]
  BY <1>3, TrimmedStack
<1> HIDE DEF log, pushed
<1>6. Len(longer) = Len(log) + 1 /\ Len(log) \in Nat
  BY <1>1
<1>7. \A m \in 0 .. Len(log) : SubSeq(longer, 1, m) = SubSeq(log, 1, m)
  BY <1>1
<1>8. SubSeq(longer, 1, Len(log)) = log
  BY <1>1
<1>9. \A n \in 1 .. Len(pushed) :
        pushed[n].native.log = SubSeq(longer, 1, Len(log) - Len(stack) + n - 1)
  <2> TAKE n \in 1 .. Len(pushed)
  <2>1. CASE n = Len(stack) + 1
    BY <2>1, <1>2, <1>3, <1>4, <1>6, <1>8 DEF log
  <2>2. CASE n # Len(stack) + 1
    <3>1. n \in 1 .. Len(stack)
      BY <2>2, <1>3
    <3>2. Len(log) - Len(stack) + n - 1 \in 0 .. Len(log)
      BY <3>1, <1>2, <1>3, <1>6
    <3>. QED BY <3>1, <3>2, <1>2, <1>4, <1>7
  <2>. QED BY <2>1, <2>2
<1> HIDE DEF longer
<1>10. ASSUME NEW n \in 1 .. Len(Trimmed(pushed))
       PROVE  Trimmed(pushed)[n].native.log
                = SubSeq(longer, 1, Len(longer) - Len(Trimmed(pushed)) + n - 1)
  <2>1. n + d \in 1 .. Len(pushed) /\ Trimmed(pushed)[n] = pushed[n + d]
    BY <1>3, <1>5
  <2>2. Len(log) - Len(stack) + (n + d) - 1 = Len(longer) - Len(Trimmed(pushed)) + n - 1
    BY <1>3, <1>5, <1>6
  <2>. QED BY <2>1, <2>2, <1>9
<1>11. Len(Trimmed(pushed)) <= Len(longer)
  BY <1>2, <1>3, <1>5, <1>6
<1>. QED BY <1>10, <1>11 DEF GoBack, longer, log, pushed

LEMMA PopGoesBack ==
  ASSUME NEW stack \in Seq(Frames), stack # <<>>, NEW log \in Seq(Reviews),
         GoBack(stack, log)
  PROVE  LET last == stack[Len(stack)]
         IN  /\ last \in Frames
             /\ SubSeq(stack, 1, Len(stack) - 1) \in Seq(Frames)
             /\ log # <<>> /\ last.native.log = SubSeq(log, 1, Len(log) - 1)
             /\ GoBack(SubSeq(stack, 1, Len(stack) - 1), last.native.log)
<1> DEFINE last == stack[Len(stack)]
           shorter == SubSeq(log, 1, Len(log) - 1)
           popped == SubSeq(stack, 1, Len(stack) - 1)
<1>1. Len(stack) \in Nat \ {0} /\ Len(log) \in Nat /\ Len(stack) <= Len(log)
  BY DEF GoBack
<1>2. \A n \in 1 .. Len(stack) :
        stack[n].native.log = SubSeq(log, 1, Len(log) - Len(stack) + n - 1)
  BY DEF GoBack
<1>3. last \in Frames /\ log # <<>>
  BY <1>1
<1>4. popped \in Seq(Frames) /\ Len(popped) = Len(stack) - 1
  <2>1. Len(stack) - 1 \in 0 .. Len(stack)
    BY <1>1
  <2>. QED BY <2>1, Prefix
<1>5. \A n \in 1 .. Len(popped) : popped[n] = stack[n]
  BY <1>1, <1>4, Prefix
<1>6. last.native.log = shorter
  <2>1. Len(stack) \in 1 .. Len(stack) /\ Len(log) - Len(stack) + Len(stack) - 1 = Len(log) - 1
    BY <1>1
  <2>. QED BY <2>1, <1>2
<1>7. Len(shorter) = Len(log) - 1
  <2>1. Len(log) - 1 \in 0 .. Len(log)
    BY <1>1
  <2>. QED BY <2>1, Prefix
<1>8. \A m \in 0 .. Len(log) - 1 : SubSeq(shorter, 1, m) = SubSeq(log, 1, m)
  BY <1>1, PrefixOfPrefix
<1> HIDE DEF shorter, popped, last
<1>9. ASSUME NEW n \in 1 .. Len(popped)
      PROVE  popped[n].native.log = SubSeq(shorter, 1, Len(shorter) - Len(popped) + n - 1)
  <2>1. n \in 1 .. Len(stack) /\ Len(log) - Len(stack) + n - 1 \in 0 .. Len(log) - 1
    BY <1>1, <1>4
  <2>2. Len(shorter) - Len(popped) + n - 1 = Len(log) - Len(stack) + n - 1
    BY <1>1, <1>4, <1>7
  <2>. QED BY <2>1, <2>2, <1>2, <1>5, <1>8
<1>10. GoBack(popped, shorter)
  BY <1>1, <1>4, <1>7, <1>9 DEF GoBack
<1>. QED BY <1>3, <1>4, <1>6, <1>10 DEF last, shorter, popped

-------------------------------------------------------------------------------
(* The first invariant, action by action.                                   *)

\* What a step on p leaves alone of another runtime.
Untouched(q) == runtime'[q] = runtime[q] /\ save'[q] = save[q] /\ temp'[q] = temp[q]

\* The first invariant, of one runtime.
ShapeOf(p) ==
  /\ runtime[p] \in ReadyRuntimes => GoBack(runtime[p].undo, runtime[p].native.log)
  /\ save[p] \in Saves =>
       /\ runtime[p] \in ReadyRuntimes
       /\ save[p].phase = "merge" => save[p].source \in NativeStates
       /\ save[p].phase = "publish" =>
            temp[p] \in Files /\ temp[p].native.log = runtime[p].native.log
  /\ runtime[p] \in Loading => files[runtime[p].path] \in Files

LEMMA ShapeByRuntime == ShapeInv <=> TypeOK /\ \A p \in Runtimes : ShapeOf(p)
BY DEF ShapeInv, FramesGoBack, SavesAreOfReady, LoadedFilesExist, ShapeOf

\* A step that keeps the files, or publishes one more, and changes nothing but p.
LEMMA ShapeStep ==
  ASSUME ShapeInv, NEW p \in Runtimes, TypeOK', ShapeOf(p)',
         \A path \in Paths : files[path] \in Files => files'[path] \in Files,
         \A q \in Runtimes \ {p} : Untouched(q)
  PROVE  ShapeInv'
<1>1. ASSUME NEW q \in Runtimes, q # p
      PROVE  ShapeOf(q)'
  <2>1. runtime'[q] = runtime[q] /\ save'[q] = save[q] /\ temp'[q] = temp[q]
    BY <1>1 DEF Untouched
  <2>2. ShapeOf(q)
    BY ShapeByRuntime
  <2>3. runtime[q] \in Loading => runtime[q].path \in Paths
    BY DEF Loading
  <2>. QED BY <2>1, <2>2, <2>3 DEF ShapeOf
<1>2. \A q \in Runtimes : ShapeOf(q)'
  BY <1>1
<1>3. ShapeInv' <=> TypeOK' /\ \A q \in Runtimes : ShapeOf(q)'
  BY DEF ShapeInv, FramesGoBack, SavesAreOfReady, LoadedFilesExist, ShapeOf
<1>. QED BY <1>2, <1>3

LEMMA TypeAfter ==
  ASSUME TypeOK, NEW p \in Runtimes,
         runtime'[p] \in {Nowhere} \cup Loading \cup ReadyRuntimes,
         save'[p] \in {Nowhere} \cup Saves,
         temp'[p] \in {Nowhere, Partial} \cup Files,
         runtime' = [runtime EXCEPT ![p] = runtime'[p]],
         save' = [save EXCEPT ![p] = save'[p]],
         temp' = [temp EXCEPT ![p] = temp'[p]],
         files' \in [Paths -> {Nowhere} \cup Files]
  PROVE  TypeOK' /\ \A q \in Runtimes \ {p} : Untouched(q)
<1>1. /\ runtime \in [Runtimes -> {Nowhere} \cup Loading \cup ReadyRuntimes]
      /\ save \in [Runtimes -> {Nowhere} \cup Saves]
      /\ temp \in [Runtimes -> {Nowhere, Partial} \cup Files]
  BY DEF TypeOK
<1>2. runtime' \in [Runtimes -> {Nowhere} \cup Loading \cup ReadyRuntimes]
  BY <1>1
<1>3. save' \in [Runtimes -> {Nowhere} \cup Saves]
  BY <1>1
<1>4. temp' \in [Runtimes -> {Nowhere, Partial} \cup Files]
  BY <1>1
<1>5. \A q \in Runtimes \ {p} : Untouched(q)
  BY <1>1 DEF Untouched
<1>. QED BY <1>2, <1>3, <1>4, <1>5 DEF TypeOK

\* A step that changes the runtime p and nothing else.
LEMMA RuntimeStep ==
  ASSUME ShapeInv, NEW p \in Runtimes, NEW next,
         runtime' = [runtime EXCEPT ![p] = next],
         next \in {Nowhere} \cup Loading \cup ReadyRuntimes,
         next \in ReadyRuntimes => GoBack(next.undo, next.native.log),
         next \in Loading => files[next.path] \in Files,
         save[p] \notin Saves,
         UNCHANGED <<files, temp, save>>
  PROVE  ShapeInv'
<1>1. TypeOK /\ runtime'[p] = next
  BY DEF ShapeInv, TypeOK
<1>2. save[p] \in {Nowhere} \cup Saves /\ temp[p] \in {Nowhere, Partial} \cup Files
  BY <1>1 DEF TypeOK
<1>3. save = [save EXCEPT ![p] = save[p]] /\ temp = [temp EXCEPT ![p] = temp[p]]
  BY <1>1 DEF TypeOK
<1>4. files' \in [Paths -> {Nowhere} \cup Files]
  BY <1>1 DEF TypeOK
<1>5. TypeOK' /\ \A q \in Runtimes \ {p} : Untouched(q)
  BY <1>1, <1>2, <1>3, <1>4, TypeAfter
<1>6. ShapeOf(p)'
  BY <1>1 DEF ShapeOf
<1>. QED BY <1>5, <1>6, ShapeStep

\* A step that changes the save of p and what it writes, and no file.
LEMMA SaveStepShape ==
  ASSUME ShapeInv, NEW p \in Runtimes, NEW next, NEW written,
         save' = [save EXCEPT ![p] = next],
         temp' = [temp EXCEPT ![p] = written],
         next \in {Nowhere} \cup Saves,
         written \in {Nowhere, Partial} \cup Files,
         runtime[p] \in ReadyRuntimes,
         next.phase = "merge" => next.source \in NativeStates,
         next.phase = "publish" =>
           written \in Files /\ written.native.log = runtime[p].native.log,
         files' \in [Paths -> {Nowhere} \cup Files],
         \A path \in Paths : files[path] \in Files => files'[path] \in Files,
         UNCHANGED runtime
  PROVE  ShapeInv'
<1>1. TypeOK /\ save'[p] = next /\ temp'[p] = written
  BY DEF ShapeInv, TypeOK
<1>2. runtime = [runtime EXCEPT ![p] = runtime[p]]
  BY <1>1 DEF TypeOK
<1>3. TypeOK' /\ \A q \in Runtimes \ {p} : Untouched(q)
  BY <1>1, <1>2, TypeAfter
<1>4. ShapeOf(p)'
  <2>1. ShapeOf(p) /\ runtime[p] \notin Loading
    BY <1>1, ShapeByRuntime, Kinds
  <2>. QED BY <1>1, <2>1 DEF ShapeOf
<1>. QED BY <1>3, <1>4, ShapeStep

\* Only a ready runtime is being saved.
LEMMA NotSaving ==
  ASSUME ShapeInv, NEW p \in Runtimes, runtime[p].phase # "ready"
  PROVE  save[p] \notin Saves
BY Kinds DEF ShapeInv, SavesAreOfReady

LEMMA CreateShape ==
  ASSUME ShapeInv, NEW p \in Runtimes, Create(p)
  PROVE  ShapeInv'
<1> DEFINE next == NewRuntime(Everything, None, EmptyState, Beginning)
<1>1. next \in ReadyRuntimes /\ GoBack(next.undo, next.native.log)
  <2>1. Everything \in SUBSET Identities /\ next.native = EmptyState
    BY DEF Everything, NewRuntime
  <2>. QED BY <2>1, EmptyType, EmptyHistory, NewRuntimeType
<1>2. save[p] \notin Saves
  BY NotSaving DEF Create, Nowhere
<1>3. next \notin Loading
  BY DEF NewRuntime, Loading
<1>4. runtime' = [runtime EXCEPT ![p] = next] /\ UNCHANGED <<files, temp, save>>
  BY DEF Create
<1> HIDE DEF next
<1>. QED BY <1>1, <1>2, <1>3, <1>4, RuntimeStep

LEMMA BeginLoadShape ==
  ASSUME ShapeInv, NEW p \in Runtimes, BeginLoad(p)
  PROVE  ShapeInv'
<1>1. PICK path \in Paths, scope \in Scopes \cup {Everything} :
        /\ Readable(path)
        /\ runtime' = [runtime EXCEPT ![p] =
             [phase |-> "loading", path |-> path, scope |-> scope,
              backing |-> IF scope = Everything THEN None ELSE path,
              history |-> files[path].history]]
  BY DEF BeginLoad
<1> DEFINE next == [phase |-> "loading", path |-> path, scope |-> scope,
                    backing |-> IF scope = Everything THEN None ELSE path,
                    history |-> files[path].history]
<1>2. files[path] \in Files /\ files[path].history \in Histories
  BY <1>1, FileKinds DEF ShapeInv, Files
<1>3. scope \in SUBSET Identities
  BY CheckpointAssumption DEF Everything
<1>4. next \in Loading /\ next.path = path
  BY <1>2, <1>3 DEF Loading
<1>5. next \notin ReadyRuntimes
  BY DEF ReadyRuntimes
<1>6. save[p] \notin Saves
  BY NotSaving DEF BeginLoad, Nowhere
<1>7. runtime' = [runtime EXCEPT ![p] = next] /\ UNCHANGED <<files, temp, save>>
  BY <1>1 DEF BeginLoad
<1> HIDE DEF next
<1>. QED BY <1>2, <1>4, <1>5, <1>6, <1>7, RuntimeStep

LEMMA RestoreShape ==
  ASSUME ShapeInv, NEW p \in Runtimes, RestoreCheckpoint(p)
  PROVE  ShapeInv'
<1> DEFINE old == runtime[p]
           next == NewRuntime(old.scope, old.backing,
                              Selected(files[old.path].native, old.scope), old.history)
<1>1. old \in Loading /\ files[old.path] \in Files
  BY Kinds DEF RestoreCheckpoint, ShapeInv, LoadedFilesExist
<1>2. /\ old.scope \in SUBSET Identities /\ old.backing \in Paths \cup {None}
      /\ old.history \in Histories
  BY <1>1 DEF Loading
<1>3. Selected(files[old.path].native, old.scope) \in NativeStates
  BY <1>1, SelectedType DEF Files
<1>4. next \in ReadyRuntimes /\ GoBack(next.undo, next.native.log)
  <2>1. next.native = Selected(files[old.path].native, old.scope)
    BY DEF NewRuntime
  <2>. QED BY <2>1, <1>2, <1>3, NewRuntimeType
<1>5. next \notin Loading
  BY DEF NewRuntime, Loading
<1>6. save[p] \notin Saves
  BY NotSaving DEF RestoreCheckpoint
<1>7. runtime' = [runtime EXCEPT ![p] = next] /\ UNCHANGED <<files, temp, save>>
  <2>1. p \in DOMAIN runtime
    BY DEF ShapeInv, TypeOK
  <2>. QED BY <2>1 DEF RestoreCheckpoint
<1> HIDE DEF next
<1>. QED BY <1>4, <1>5, <1>6, <1>7, RuntimeStep

LEMMA LoadFailsShape ==
  ASSUME ShapeInv, NEW p \in Runtimes, LoadFails(p)
  PROVE  ShapeInv'
<1>1. Nowhere \notin Loading /\ Nowhere \notin ReadyRuntimes
  BY DEF Nowhere, Loading, ReadyRuntimes
<1>2. save[p] \notin Saves
  BY NotSaving DEF LoadFails
<1>. QED BY <1>1, <1>2, RuntimeStep DEF LoadFails

\* What a ready runtime has.
LEMMA ReadyRuntime ==
  ASSUME ShapeInv, NEW p \in Runtimes, Ready(p)
  PROVE  /\ runtime[p] \in ReadyRuntimes /\ save[p] \notin Saves
         /\ runtime[p].native \in NativeStates /\ runtime[p].history \in Histories
         /\ runtime[p].undo \in Seq(Frames)
         /\ [native |-> runtime[p].native, history |-> runtime[p].history] \in Frames
         /\ GoBack(runtime[p].undo, runtime[p].native.log)
<1>1. runtime[p] \in ReadyRuntimes /\ save[p] \notin Saves
  BY Kinds DEF ShapeInv, Ready
<1>. QED BY <1>1, ReadyFields DEF ShapeInv, FramesGoBack, Frames

\* The runtime after one more review.
After(old, r, undoably) ==
  LET frame == [native |-> old.native, history |-> old.history]
  IN  [phase |-> "ready", scope |-> old.scope, backing |-> old.backing,
       native |-> Reviewed(old.native, r), history |-> Continued(old.history, r),
       undo |-> IF undoably THEN Trimmed(Append(old.undo, frame)) ELSE <<>>]

LEMMA ReviewDefinition ==
  ASSUME NEW p \in Runtimes, NEW undoably \in BOOLEAN, Review(p, undoably)
  PROVE  /\ Ready(p) /\ UNCHANGED <<files, temp, save>>
         /\ \E r \in Reviews :
              /\ WithinScope(p, r)
              /\ runtime' = [runtime EXCEPT ![p] = After(runtime[p], r, undoably)]
BY DEF Review, After

LEMMA AfterType ==
  ASSUME NEW old \in ReadyRuntimes, NEW r \in Reviews, NEW undoably \in BOOLEAN,
         GoBack(old.undo, old.native.log)
  PROVE  /\ After(old, r, undoably) \in ReadyRuntimes
         /\ GoBack(After(old, r, undoably).undo, After(old, r, undoably).native.log)
<1> DEFINE frame == [native |-> old.native, history |-> old.history]
           stack == IF undoably THEN Trimmed(Append(old.undo, frame)) ELSE <<>>
           next == After(old, r, undoably)
<1>1. /\ frame \in Frames /\ frame.native = old.native
      /\ old.undo \in Seq(Frames) /\ old.native \in NativeStates
  BY ReadyFields DEF Frames
<1>2. /\ next.native = Reviewed(old.native, r) /\ next.undo = stack
      /\ next = [phase |-> "ready", scope |-> old.scope, backing |-> old.backing,
                 native |-> Reviewed(old.native, r), history |-> Continued(old.history, r),
                 undo |-> stack]
  BY DEF After
<1> HIDE DEF next, frame
<1>3. Append(old.undo, frame) \in Seq(Frames)
  BY <1>1
<1>4. stack \in Seq(Frames)
  <2>1. <<>> \in Seq(Frames)
    OBVIOUS
  <2>2. Trimmed(Append(old.undo, frame)) \in Seq(Frames)
    BY <1>3, TrimmedStack
  <2>. QED BY <2>1, <2>2
<1>5. next.native \in NativeStates /\ next.native.log = Append(old.native.log, r)
  BY <1>1, <1>2, ReviewedType
<1>6. GoBack(stack, Append(old.native.log, r))
  <2>1. CASE undoably
    BY <2>1, <1>1, PushGoesBack
  <2>2. CASE ~undoably
    <3>1. Append(old.native.log, r) \in Seq(Reviews)
      BY <1>1, ReviewedType
    <3>. QED BY <2>2, <3>1 DEF GoBack
  <2>. QED BY <2>1, <2>2
<1>7. Continued(old.history, r) \in Histories
  BY ReadyFields, ContinuedType
<1>8. next \in ReadyRuntimes
  BY <1>2, <1>4, <1>5, <1>7, ReadyFields DEF ReadyRuntimes
<1>. QED BY <1>2, <1>5, <1>6, <1>8 DEF next

LEMMA ReviewShape ==
  ASSUME ShapeInv, NEW p \in Runtimes, NEW undoably \in BOOLEAN, Review(p, undoably)
  PROVE  ShapeInv'
<1>1. Ready(p) /\ UNCHANGED <<files, temp, save>>
  BY ReviewDefinition
<1>2. PICK r \in Reviews :
        runtime' = [runtime EXCEPT ![p] = After(runtime[p], r, undoably)]
  BY ReviewDefinition
<1>3. runtime[p] \in ReadyRuntimes /\ save[p] \notin Saves
        /\ GoBack(runtime[p].undo, runtime[p].native.log)
  BY <1>1, ReadyRuntime
<1>4. /\ After(runtime[p], r, undoably) \in ReadyRuntimes
      /\ GoBack(After(runtime[p], r, undoably).undo, After(runtime[p], r, undoably).native.log)
  BY <1>3, AfterType
<1>5. After(runtime[p], r, undoably) \notin Loading
  BY DEF After, Loading
<1>. QED BY <1>1, <1>2, <1>3, <1>4, <1>5, RuntimeStep

\* The runtime after an undo.
Before(old) ==
  LET frame == old.undo[Len(old.undo)]
  IN  [phase |-> "ready", scope |-> old.scope, backing |-> old.backing,
       native |-> frame.native, history |-> frame.history,
       undo |-> SubSeq(old.undo, 1, Len(old.undo) - 1)]

LEMMA UndoDefinition ==
  ASSUME NEW p \in Runtimes, UndoLast(p)
  PROVE  /\ Ready(p) /\ UNCHANGED <<files, temp, save>> /\ runtime[p].undo # <<>>
         /\ runtime' = [runtime EXCEPT ![p] = Before(runtime[p])]
BY DEF UndoLast, Before

LEMMA BeforeType ==
  ASSUME NEW old \in ReadyRuntimes, old.undo # <<>>, GoBack(old.undo, old.native.log)
  PROVE  /\ Before(old) \in ReadyRuntimes
         /\ GoBack(Before(old).undo, Before(old).native.log)
         /\ Before(old).native.log = SubSeq(old.native.log, 1, Len(old.native.log) - 1)
         /\ old.native.log # <<>>
<1> DEFINE last == old.undo[Len(old.undo)]
           popped == SubSeq(old.undo, 1, Len(old.undo) - 1)
<1>1. old.undo \in Seq(Frames) /\ old.native.log \in Seq(Reviews)
  BY ReadyFields
<1>2. /\ last \in Frames /\ popped \in Seq(Frames) /\ old.native.log # <<>>
      /\ last.native.log = SubSeq(old.native.log, 1, Len(old.native.log) - 1)
      /\ GoBack(popped, last.native.log)
  BY <1>1, PopGoesBack
<1>3. Before(old) = [phase |-> "ready", scope |-> old.scope, backing |-> old.backing,
                     native |-> last.native, history |-> last.history, undo |-> popped]
  BY DEF Before
<1>4. Before(old).native = last.native /\ Before(old).undo = popped
  BY <1>3
<1> HIDE DEF last, popped
<1>5. Before(old) \in ReadyRuntimes
  BY <1>2, <1>3, ReadyFields, FrameFields DEF ReadyRuntimes
<1>. QED BY <1>2, <1>4, <1>5

LEMMA UndoShape ==
  ASSUME ShapeInv, NEW p \in Runtimes, UndoLast(p)
  PROVE  ShapeInv'
<1>1. /\ Ready(p) /\ UNCHANGED <<files, temp, save>> /\ runtime[p].undo # <<>>
      /\ runtime' = [runtime EXCEPT ![p] = Before(runtime[p])]
  BY UndoDefinition
<1>2. runtime[p] \in ReadyRuntimes /\ save[p] \notin Saves
        /\ GoBack(runtime[p].undo, runtime[p].native.log)
  BY <1>1, ReadyRuntime
<1>3. Before(runtime[p]) \in ReadyRuntimes
        /\ GoBack(Before(runtime[p]).undo, Before(runtime[p]).native.log)
  BY <1>1, <1>2, BeforeType
<1>4. Before(runtime[p]) \notin Loading
  BY DEF Before, Loading
<1>. QED BY <1>1, <1>2, <1>3, <1>4, RuntimeStep

LEMMA CrashShape ==
  ASSUME ShapeInv, NEW p \in Runtimes, Crash(p)
  PROVE  ShapeInv'
<1>1. TypeOK /\ runtime'[p] = Nowhere /\ save'[p] = Nowhere /\ temp'[p] = Nowhere
  BY DEF ShapeInv, TypeOK, Crash
<1>2. /\ runtime' = [runtime EXCEPT ![p] = runtime'[p]]
      /\ save' = [save EXCEPT ![p] = save'[p]]
      /\ temp' = [temp EXCEPT ![p] = temp'[p]] /\ files' = files
  BY <1>1 DEF Crash
<1>3. TypeOK' /\ \A q \in Runtimes \ {p} : Untouched(q)
  <2>1. files' \in [Paths -> {Nowhere} \cup Files]
    BY <1>1, <1>2 DEF TypeOK
  <2>. QED BY <1>1, <1>2, <2>1, TypeAfter
<1>4. ShapeOf(p)'
  BY <1>1, <1>3, Kinds DEF ShapeOf, Nowhere, Loading, ReadyRuntimes, Saves
<1>. QED BY <1>2, <1>3, <1>4, ShapeStep

\* The records a save goes through.
LEMMA SaveRecord ==
  ASSUME NEW phase \in {"write", "merge", "publish", "published", "failed"},
         NEW path \in Paths, NEW history \in Histories,
         NEW source \in NativeStates \cup {None}
  PROVE  [phase |-> phase, path |-> path, history |-> history, source |-> source] \in Saves
BY DEF Saves

LEMMA FileType ==
  ASSUME NEW p, save[p].history \in Histories, NEW native \in NativeStates
  PROVE  File(p, native) \in Files /\ File(p, native).native = native
BY DEF File, Files

\* What a save under way has, and the record it has in its next phase.
Entered(p, phase) ==
  [phase |-> phase, path |-> save[p].path, history |-> save[p].history,
   source |-> save[p].source]

LEMMA EnterDefinition ==
  ASSUME TypeOK, NEW p \in Runtimes, NEW phase, Enter(p, phase)
  PROVE  save' = [save EXCEPT ![p] = Entered(p, phase)]
BY DEF TypeOK, Enter, Entered

LEMMA SaveUnderWay ==
  ASSUME ShapeInv, NEW p \in Runtimes, save[p].phase # "none"
  PROVE  /\ save[p] \in Saves /\ runtime[p] \in ReadyRuntimes
         /\ save[p].path \in Paths /\ save[p].history \in Histories
         /\ save[p].source \in NativeStates \cup {None}
         /\ runtime[p].native \in NativeStates
         /\ temp[p] \in {Nowhere, Partial} \cup Files
         /\ \A phase \in {"write", "merge", "publish", "published", "failed"} :
              Entered(p, phase) \in Saves /\ Entered(p, phase).phase = phase
<1>1. save[p] \in Saves /\ runtime[p] \in ReadyRuntimes
  BY Kinds DEF ShapeInv, SavesAreOfReady
<1>2. /\ save[p].path \in Paths /\ save[p].history \in Histories
      /\ save[p].source \in NativeStates \cup {None}
      /\ runtime[p].native \in NativeStates
  BY <1>1, SaveFields, ReadyFields
<1>3. temp[p] \in {Nowhere, Partial} \cup Files
  BY DEF ShapeInv, TypeOK
<1>. QED BY <1>1, <1>2, <1>3, SaveRecord DEF Entered

LEMMA BeginSaveShape ==
  ASSUME ShapeInv, NEW p \in Runtimes, BeginSave(p)
  PROVE  ShapeInv'
<1>1. PICK path \in Paths :
        save' = [save EXCEPT ![p] =
          [phase |-> "write", path |-> path, history |-> runtime[p].history,
           source |-> None]]
  BY DEF BeginSave
<1> DEFINE next == [phase |-> "write", path |-> path, history |-> runtime[p].history,
                    source |-> None]
<1>2. runtime[p] \in ReadyRuntimes /\ runtime[p].history \in Histories
  BY ReadyRuntime DEF BeginSave
<1>3. next \in Saves /\ next.phase = "write"
  BY <1>2, SaveRecord
<1>4. save' = [save EXCEPT ![p] = next] /\ temp' = [temp EXCEPT ![p] = Partial]
        /\ UNCHANGED <<files, runtime>>
  BY <1>1 DEF BeginSave, Partial
<1>5. files' \in [Paths -> {Nowhere} \cup Files]
  BY <1>4 DEF ShapeInv, TypeOK
<1> HIDE DEF next
<1>. QED BY <1>2, <1>3, <1>4, <1>5, SaveStepShape

LEMMA WriteShape ==
  ASSUME ShapeInv, NEW p \in Runtimes, WriteCheckpoint(p)
  PROVE  ShapeInv'
<1> DEFINE written == File(p, runtime[p].native)
<1>1. TypeOK /\ save[p].phase # "none"
  BY DEF ShapeInv, WriteCheckpoint, Saving
<1>2. /\ Entered(p, "publish") \in Saves /\ Entered(p, "publish").phase = "publish"
      /\ runtime[p] \in ReadyRuntimes
      /\ written \in Files /\ written.native = runtime[p].native
  BY <1>1, SaveUnderWay, FileType
<1>3. /\ save' = [save EXCEPT ![p] = Entered(p, "publish")]
      /\ temp' = [temp EXCEPT ![p] = written] /\ UNCHANGED <<files, runtime>>
  BY <1>1, EnterDefinition DEF WriteCheckpoint
<1>4. files' \in [Paths -> {Nowhere} \cup Files]
  BY <1>1, <1>3 DEF TypeOK
<1> HIDE DEF written
<1>. QED BY <1>2, <1>3, <1>4, SaveStepShape

LEMMA OpenBackingShape ==
  ASSUME ShapeInv, NEW p \in Runtimes, OpenBacking(p)
  PROVE  ShapeInv'
<1> DEFINE next == [phase |-> "merge", path |-> save[p].path, history |-> save[p].history,
                    source |-> files[runtime[p].backing].native]
<1>1. TypeOK /\ save[p].phase # "none"
  BY DEF ShapeInv, OpenBacking, Saving
<1>2. /\ runtime[p] \in ReadyRuntimes /\ save[p].path \in Paths
      /\ save[p].history \in Histories /\ temp[p] \in {Nowhere, Partial} \cup Files
  BY <1>1, SaveUnderWay
<1>3. files[runtime[p].backing].native \in NativeStates
  <2>1. runtime[p].backing \in Paths
    BY <1>2, ReadyFields DEF OpenBacking, Backed
  <2>2. files[runtime[p].backing] \in Files
    BY <1>1, <2>1, FileKinds DEF OpenBacking
  <2>. QED BY <2>2 DEF Files
<1>4. next \in Saves /\ next.phase = "merge" /\ next.source \in NativeStates
  BY <1>2, <1>3, SaveRecord
<1>5. /\ save' = [save EXCEPT ![p] = next]
      /\ temp' = [temp EXCEPT ![p] = temp[p]] /\ UNCHANGED <<files, runtime>>
  BY <1>1 DEF OpenBacking, TypeOK
<1>6. files' \in [Paths -> {Nowhere} \cup Files]
  BY <1>1, <1>5 DEF TypeOK
<1> HIDE DEF next
<1>. QED BY <1>2, <1>4, <1>5, <1>6, SaveStepShape

LEMMA WriteMergedShape ==
  ASSUME ShapeInv, NEW p \in Runtimes, WriteMerged(p)
  PROVE  ShapeInv'
<1> DEFINE merged == Merged(save[p].source, runtime[p].native, runtime[p].scope)
           written == File(p, merged)
<1>1. TypeOK /\ save[p].phase # "none"
  BY DEF ShapeInv, WriteMerged, Saving
<1>2. save[p].source \in NativeStates
  BY <1>1, SaveUnderWay DEF ShapeInv, SavesAreOfReady, WriteMerged, Saving
<1>3. merged \in NativeStates /\ merged.log = runtime[p].native.log
  BY <1>1, <1>2, SaveUnderWay, MergedType
<1> HIDE DEF merged
<1>4. /\ Entered(p, "publish") \in Saves /\ Entered(p, "publish").phase = "publish"
      /\ runtime[p] \in ReadyRuntimes
      /\ written \in Files /\ written.native.log = runtime[p].native.log
  BY <1>1, <1>3, SaveUnderWay, FileType
<1>5. /\ save' = [save EXCEPT ![p] = Entered(p, "publish")]
      /\ temp' = [temp EXCEPT ![p] = written] /\ UNCHANGED <<files, runtime>>
  BY <1>1, EnterDefinition DEF WriteMerged, merged
<1>6. files' \in [Paths -> {Nowhere} \cup Files]
  BY <1>1, <1>5 DEF TypeOK
<1> HIDE DEF written
<1>. QED BY <1>4, <1>5, <1>6, SaveStepShape

LEMMA SaveFailsShape ==
  ASSUME ShapeInv, NEW p \in Runtimes, SaveFails(p)
  PROVE  ShapeInv'
<1>1. TypeOK /\ save[p].phase # "none"
  BY DEF ShapeInv, SaveFails
<1>2. /\ Entered(p, "failed") \in Saves /\ Entered(p, "failed").phase = "failed"
      /\ runtime[p] \in ReadyRuntimes /\ temp[p] \in {Nowhere, Partial} \cup Files
  BY <1>1, SaveUnderWay
<1>3. /\ save' = [save EXCEPT ![p] = Entered(p, "failed")]
      /\ temp' = [temp EXCEPT ![p] = temp[p]] /\ UNCHANGED <<files, runtime>>
  BY <1>1, EnterDefinition DEF SaveFails, TypeOK
<1>4. files' \in [Paths -> {Nowhere} \cup Files]
  BY <1>1, <1>3 DEF TypeOK
<1>. QED BY <1>2, <1>3, <1>4, SaveStepShape

LEMMA PublishShape ==
  ASSUME ShapeInv, NEW p \in Runtimes, Publish(p)
  PROVE  /\ ShapeInv'
         /\ save[p].path \in Paths /\ temp[p] \in Files /\ runtime[p] \in ReadyRuntimes
         /\ temp[p].native.log = runtime[p].native.log
<1>1. TypeOK /\ save[p].phase = "publish"
  BY DEF ShapeInv, Publish, IsComplete, Saving
<1>2. /\ save[p] \in Saves /\ save[p].path \in Paths /\ runtime[p] \in ReadyRuntimes
      /\ Entered(p, "published") \in Saves /\ Entered(p, "published").phase = "published"
  BY <1>1, SaveUnderWay
<1>3. temp[p] \in Files /\ temp[p].native.log = runtime[p].native.log
  BY <1>1, <1>2 DEF ShapeInv, SavesAreOfReady
<1>4. /\ save' = [save EXCEPT ![p] = Entered(p, "published")]
      /\ temp' = [temp EXCEPT ![p] = Nowhere]
      /\ files' = [files EXCEPT ![save[p].path] = temp[p]] /\ UNCHANGED runtime
  BY <1>1, EnterDefinition DEF Publish
<1>5. files \in [Paths -> {Nowhere} \cup Files]
  BY <1>1 DEF TypeOK
<1>6. /\ files' \in [Paths -> {Nowhere} \cup Files]
      /\ \A path \in Paths : files[path] \in Files => files'[path] \in Files
  BY <1>3, <1>4, <1>5
<1>. QED BY <1>2, <1>3, <1>4, <1>6, SaveStepShape

LEMMA CleanUpShape ==
  ASSUME ShapeInv, NEW p \in Runtimes, CleanUp(p)
  PROVE  ShapeInv'
<1>1. TypeOK /\ save[p].phase # "none"
  BY DEF ShapeInv, CleanUp, Saving
<1>2. runtime[p] \in ReadyRuntimes /\ Nowhere.phase = "none"
  BY <1>1, SaveUnderWay DEF Nowhere
<1>3. /\ save' = [save EXCEPT ![p] = Nowhere]
      /\ temp' = [temp EXCEPT ![p] = Nowhere] /\ UNCHANGED <<files, runtime>>
  BY DEF CleanUp
<1>4. files' \in [Paths -> {Nowhere} \cup Files]
  BY <1>1, <1>3 DEF TypeOK
<1>. QED BY <1>2, <1>3, <1>4, SaveStepShape

\* The runtime that was saved, with the backing it has from then on.
WithBacking(old, backing) ==
  [phase |-> "ready", scope |-> old.scope, backing |-> backing,
   native |-> old.native, history |-> old.history, undo |-> old.undo]

LEMMA SavedDefinition ==
  ASSUME ShapeInv, NEW p \in Runtimes, Saved(p)
  PROVE  /\ save[p] \in Saves /\ save[p].phase = "published"
         /\ runtime[p] \in ReadyRuntimes
         /\ save' = [save EXCEPT ![p] = Nowhere] /\ UNCHANGED <<files, temp>>
         /\ \E backing \in {runtime[p].backing, NewBacking(p)} :
              /\ WithBacking(runtime[p], backing) \in ReadyRuntimes
              /\ runtime' = [runtime EXCEPT ![p] = WithBacking(runtime[p], backing)]
<1>1. save[p].phase = "published"
  BY DEF Saved, Saving
<1>2. save[p] \in Saves /\ runtime[p] \in ReadyRuntimes /\ save[p].path \in Paths
  BY <1>1, SaveUnderWay
<1>3. PICK backing \in {runtime[p].backing, NewBacking(p)} :
        runtime' = [runtime EXCEPT ![p] = WithBacking(runtime[p], backing)]
  BY DEF Saved, WithBacking
<1>4. backing \in Paths \cup {None}
  BY <1>2, ReadyFields DEF NewBacking
<1>5. WithBacking(runtime[p], backing) \in ReadyRuntimes
  BY <1>2, <1>4, ReadyFields DEF WithBacking, ReadyRuntimes
<1>. QED BY <1>1, <1>2, <1>3, <1>5 DEF Saved

LEMMA SavedShape ==
  ASSUME ShapeInv, NEW p \in Runtimes, Saved(p)
  PROVE  ShapeInv'
<1>1. PICK backing \in {runtime[p].backing, NewBacking(p)} :
        /\ WithBacking(runtime[p], backing) \in ReadyRuntimes
        /\ runtime' = [runtime EXCEPT ![p] = WithBacking(runtime[p], backing)]
  BY SavedDefinition
<1>2. TypeOK /\ runtime[p] \in ReadyRuntimes /\ GoBack(runtime[p].undo, runtime[p].native.log)
  BY SavedDefinition DEF ShapeInv, FramesGoBack
<1>3. /\ runtime'[p] = WithBacking(runtime[p], backing) /\ save'[p] = Nowhere
      /\ temp' = temp /\ files' = files /\ save' = [save EXCEPT ![p] = Nowhere]
  BY <1>1, <1>2, SavedDefinition DEF TypeOK
<1>4. TypeOK' /\ \A q \in Runtimes \ {p} : Untouched(q)
  <2>1. files' \in [Paths -> {Nowhere} \cup Files]
    BY <1>2, <1>3 DEF TypeOK
  <2>2. temp'[p] \in {Nowhere, Partial} \cup Files /\ temp' = [temp EXCEPT ![p] = temp'[p]]
    BY <1>2, <1>3 DEF TypeOK
  <2>. QED BY <1>1, <1>2, <1>3, <2>1, <2>2, TypeAfter
<1>5. ShapeOf(p)'
  <2>1. WithBacking(runtime[p], backing) \notin Loading /\ Nowhere \notin Saves
    BY DEF WithBacking, Loading, Nowhere, Saves
  <2>2. /\ WithBacking(runtime[p], backing).undo = runtime[p].undo
        /\ WithBacking(runtime[p], backing).native = runtime[p].native
    BY DEF WithBacking
  <2>. QED BY <1>2, <1>3, <2>1, <2>2 DEF ShapeOf
<1>. QED BY <1>2, <1>3, <1>4, <1>5, ShapeStep

LEMMA ShapeInitially == Init => ShapeInv
<1> SUFFICES ASSUME Init PROVE ShapeInv
  OBVIOUS
<1>1. TypeOK
  BY DEF Init, TypeOK
<1>2. \A p \in Runtimes : runtime[p] = Nowhere /\ save[p] = Nowhere
  BY DEF Init
<1>3. Nowhere \notin ReadyRuntimes /\ Nowhere \notin Loading /\ Nowhere \notin Saves
  BY DEF Nowhere, ReadyRuntimes, Loading, Saves
<1>. QED BY <1>1, <1>2, <1>3 DEF ShapeInv, FramesGoBack, SavesAreOfReady, LoadedFilesExist

LEMMA ShapePreserved == ShapeInv /\ [Next]_vars => ShapeInv'
<1> SUFFICES ASSUME ShapeInv, [Next]_vars PROVE ShapeInv'
  OBVIOUS
<1>1. CASE UNCHANGED vars
  BY <1>1 DEF vars, ShapeInv, TypeOK, FramesGoBack, SavesAreOfReady, LoadedFilesExist
<1>2. ASSUME NEW p \in Runtimes, Create(p) PROVE ShapeInv'
  BY <1>2, CreateShape
<1>3. ASSUME NEW p \in Runtimes, BeginLoad(p) PROVE ShapeInv'
  BY <1>3, BeginLoadShape
<1>4. ASSUME NEW p \in Runtimes, RestoreCheckpoint(p) PROVE ShapeInv'
  BY <1>4, RestoreShape
<1>5. ASSUME NEW p \in Runtimes, LoadFails(p) PROVE ShapeInv'
  BY <1>5, LoadFailsShape
<1>6. ASSUME NEW p \in Runtimes, NEW undoably \in BOOLEAN, Review(p, undoably) PROVE ShapeInv'
  BY <1>6, ReviewShape
<1>7. ASSUME NEW p \in Runtimes, UndoLast(p) PROVE ShapeInv'
  BY <1>7, UndoShape
<1>8. ASSUME NEW p \in Runtimes, Crash(p) PROVE ShapeInv'
  BY <1>8, CrashShape
<1>9. ASSUME NEW p \in Runtimes, BeginSave(p) PROVE ShapeInv'
  BY <1>9, BeginSaveShape
<1>10. ASSUME NEW p \in Runtimes, SaveStep(p) PROVE ShapeInv'
  BY <1>10, WriteShape, OpenBackingShape, WriteMergedShape, SaveFailsShape,
     PublishShape, CleanUpShape, SavedShape DEF SaveStep
<1>. QED
  BY <1>1, <1>2, <1>3, <1>4, <1>5, <1>6, <1>7, <1>8, <1>9, <1>10 DEF Next

\* Whatever clients do, every value has its type, a save is of a runtime that
\* stays as it is, and each frame of an undo stack is one review older than the
\* next one (rust.py: save, undo; lib.rs: the runtime's undo stack).
THEOREM CheckpointTypeCorrect == Spec => []ShapeInv
BY ShapeInitially, ShapePreserved, PTL DEF Spec

-------------------------------------------------------------------------------
(* Loads and saves are atomic: each step is one of CheckpointStore, or none. *)

StoredAt(path) == IF Readable(path) THEN files[path].native.log ELSE None
OpenIn(p) == IF runtime[p].phase = "ready" THEN runtime[p].native.log ELSE None

Stored == [path \in Paths |-> StoredAt(path)]
OpenLogs == [p \in Runtimes |-> OpenIn(p)]

\* A step that keeps the files, and what every runtime has open but for p.
LEMMA MapsRuntime ==
  ASSUME ShapeInv, NEW p \in Runtimes, NEW next,
         runtime' = [runtime EXCEPT ![p] = next], UNCHANGED files
  PROVE  /\ Stored' = Stored
         /\ OpenLogs' = [OpenLogs EXCEPT ![p] =
                          IF next.phase = "ready" THEN next.native.log ELSE None]
<1>1. runtime \in [Runtimes -> {Nowhere} \cup Loading \cup ReadyRuntimes]
  BY DEF ShapeInv, TypeOK
<1>2. Stored' = Stored
  BY DEF Stored, StoredAt, Readable
<1>3. \A q \in Runtimes : OpenIn(q)' =
        IF q = p THEN IF next.phase = "ready" THEN next.native.log ELSE None
        ELSE OpenIn(q)
  BY <1>1 DEF OpenIn
<1>. QED BY <1>2, <1>3 DEF OpenLogs

LEMMA MapsNothing ==
  ASSUME UNCHANGED <<files, runtime>>
  PROVE  Stored' = Stored /\ OpenLogs' = OpenLogs
BY DEF Stored, StoredAt, Readable, OpenLogs, OpenIn

\* The variables of CheckpointStore under the mapping, and its actions.
LEMMA StoreActions ==
  ASSUME NEW p \in Runtimes
  PROVE  /\ Store!Open(p) <=>
              /\ OpenLogs[p] = None
              /\ \E h \in {<<>>} \cup {Stored[path] : path \in Paths} :
                   OpenLogs' = [OpenLogs EXCEPT ![p] = h]
              /\ Stored' = Stored
         /\ Store!Review(p) <=>
              /\ OpenLogs[p] # None
              /\ \E r \in Reviews : OpenLogs' = [OpenLogs EXCEPT ![p] = Append(@, r)]
              /\ Stored' = Stored
         /\ Store!Undo(p) <=>
              /\ OpenLogs[p] \notin {None, <<>>}
              /\ OpenLogs' = [OpenLogs EXCEPT ![p] = SubSeq(@, 1, Len(@) - 1)]
              /\ Stored' = Stored
         /\ Store!Save(p) <=>
              /\ OpenLogs[p] # None
              /\ \E path \in Paths : Stored' = [Stored EXCEPT ![path] = OpenLogs[p]]
              /\ OpenLogs' = OpenLogs
         /\ Store!Vanish(p) <=>
              /\ OpenLogs' = [OpenLogs EXCEPT ![p] = None]
              /\ Stored' = Stored
BY DEF Store!Open, Store!Review, Store!Undo, Store!Save, Store!Vanish,
       Stored, StoredAt, OpenLogs, OpenIn

Stutter == Stored' = Stored /\ OpenLogs' = OpenLogs

LEMMA LogOfReady ==
  ASSUME ShapeInv, NEW p \in Runtimes, runtime[p] \in ReadyRuntimes
  PROVE  /\ OpenLogs[p] = runtime[p].native.log
         /\ OpenLogs[p] \in Seq(Reviews) /\ OpenLogs[p] # None
BY ReadyFields, NoneAssumption DEF OpenLogs, OpenIn

LEMMA LogOfOthers ==
  ASSUME ShapeInv, NEW p \in Runtimes, runtime[p].phase # "ready"
  PROVE  OpenLogs[p] = None
BY DEF OpenLogs, OpenIn

LEMMA CreateMaps ==
  ASSUME ShapeInv, NEW p \in Runtimes, Create(p)
  PROVE  Store!Open(p)
<1> DEFINE next == NewRuntime(Everything, None, EmptyState, Beginning)
<1>1. next.phase = "ready" /\ next.native.log = <<>>
  BY DEF NewRuntime, EmptyState
<1>2. runtime' = [runtime EXCEPT ![p] = next] /\ UNCHANGED files
  BY DEF Create
<1>3. OpenLogs[p] = None
  BY LogOfOthers DEF Create, Nowhere
<1> HIDE DEF next
<1>4. Stored' = Stored /\ OpenLogs' = [OpenLogs EXCEPT ![p] = <<>>]
  BY <1>1, <1>2, MapsRuntime
<1>. QED BY <1>3, <1>4, StoreActions

\* Reading the metadata of a file opens nothing yet.
LEMMA BeginLoadMaps ==
  ASSUME ShapeInv, NEW p \in Runtimes, BeginLoad(p)
  PROVE  Stutter
<1>1. PICK path \in Paths, scope \in Scopes \cup {Everything} :
        runtime' = [runtime EXCEPT ![p] =
          [phase |-> "loading", path |-> path, scope |-> scope,
           backing |-> IF scope = Everything THEN None ELSE path,
           history |-> files[path].history]]
  BY DEF BeginLoad
<1> DEFINE next == [phase |-> "loading", path |-> path, scope |-> scope,
                    backing |-> IF scope = Everything THEN None ELSE path,
                    history |-> files[path].history]
<1>2. next.phase # "ready"
  OBVIOUS
<1>3. runtime' = [runtime EXCEPT ![p] = next] /\ UNCHANGED files
  BY <1>1 DEF BeginLoad
<1>4. OpenLogs[p] = None
  BY LogOfOthers DEF BeginLoad, Nowhere
<1> HIDE DEF next
<1>5. Stored' = Stored /\ OpenLogs' = [OpenLogs EXCEPT ![p] = None]
  BY <1>2, <1>3, MapsRuntime
<1>. QED BY <1>4, <1>5 DEF Stutter, OpenLogs

LEMMA RestoreMaps ==
  ASSUME ShapeInv, NEW p \in Runtimes, RestoreCheckpoint(p)
  PROVE  Store!Open(p)
<1> DEFINE old == runtime[p]
           next == NewRuntime(old.scope, old.backing,
                              Selected(files[old.path].native, old.scope), old.history)
<1>1. TypeOK /\ old \in Loading /\ files[old.path] \in Files /\ old.path \in Paths
  BY Kinds DEF RestoreCheckpoint, ShapeInv, LoadedFilesExist, Loading
<1>2. Stored[old.path] = files[old.path].native.log
  BY <1>1, FileKinds DEF Stored, StoredAt
<1>3. next.phase = "ready" /\ next.native.log = files[old.path].native.log
  BY DEF NewRuntime, Selected
<1>4. runtime' = [runtime EXCEPT ![p] = next] /\ UNCHANGED files
  BY <1>1 DEF RestoreCheckpoint, TypeOK
<1>5. OpenLogs[p] = None
  BY LogOfOthers DEF RestoreCheckpoint
<1> HIDE DEF next
<1>6. Stored' = Stored /\ OpenLogs' = [OpenLogs EXCEPT ![p] = Stored[old.path]]
  BY <1>2, <1>3, <1>4, MapsRuntime
<1>. QED BY <1>1, <1>5, <1>6, StoreActions

\* Whatever was open is gone.
LEMMA NowhereMaps ==
  ASSUME ShapeInv, NEW p \in Runtimes, runtime' = [runtime EXCEPT ![p] = Nowhere],
         UNCHANGED files
  PROVE  Store!Vanish(p)
<1>1. Nowhere.phase # "ready"
  BY DEF Nowhere
<1>2. Stored' = Stored /\ OpenLogs' = [OpenLogs EXCEPT ![p] = None]
  BY <1>1, MapsRuntime
<1>. QED BY <1>2, StoreActions

LEMMA ReviewMaps ==
  ASSUME ShapeInv, NEW p \in Runtimes, NEW undoably \in BOOLEAN, Review(p, undoably)
  PROVE  Store!Review(p)
<1>1. Ready(p) /\ UNCHANGED files
  BY ReviewDefinition
<1>2. PICK r \in Reviews :
        runtime' = [runtime EXCEPT ![p] = After(runtime[p], r, undoably)]
  BY ReviewDefinition
<1>3. runtime[p] \in ReadyRuntimes
  BY <1>1, ReadyRuntime
<1>4. /\ After(runtime[p], r, undoably).phase = "ready"
      /\ After(runtime[p], r, undoably).native.log = Append(runtime[p].native.log, r)
  BY DEF After, Reviewed
<1>5. Stored' = Stored
        /\ OpenLogs' = [OpenLogs EXCEPT ![p] = Append(runtime[p].native.log, r)]
  BY <1>1, <1>2, <1>4, MapsRuntime
<1>6. OpenLogs[p] = runtime[p].native.log /\ OpenLogs[p] # None
  BY <1>3, LogOfReady
<1>. QED BY <1>5, <1>6, StoreActions

LEMMA UndoMaps ==
  ASSUME ShapeInv, NEW p \in Runtimes, UndoLast(p)
  PROVE  Store!Undo(p)
<1>1. /\ Ready(p) /\ UNCHANGED files /\ runtime[p].undo # <<>>
      /\ runtime' = [runtime EXCEPT ![p] = Before(runtime[p])]
  BY UndoDefinition
<1>2. runtime[p] \in ReadyRuntimes /\ GoBack(runtime[p].undo, runtime[p].native.log)
  BY <1>1, ReadyRuntime
<1> DEFINE log == runtime[p].native.log
<1>3. /\ Before(runtime[p]).phase = "ready" /\ log # <<>>
      /\ Before(runtime[p]).native.log = SubSeq(log, 1, Len(log) - 1)
  BY <1>1, <1>2, BeforeType, ReadyFields
<1>4. Stored' = Stored /\ OpenLogs' = [OpenLogs EXCEPT ![p] = SubSeq(log, 1, Len(log) - 1)]
  BY <1>1, <1>3, MapsRuntime
<1>5. OpenLogs[p] = log /\ OpenLogs[p] # None
  BY <1>2, LogOfReady
<1>. QED BY <1>3, <1>4, <1>5, StoreActions

LEMMA PublishMaps ==
  ASSUME ShapeInv, NEW p \in Runtimes, Publish(p)
  PROVE  Store!Save(p)
<1> DEFINE path == save[p].path
<1>1. /\ path \in Paths /\ temp[p] \in Files /\ runtime[p] \in ReadyRuntimes
      /\ temp[p].native.log = runtime[p].native.log
  BY PublishShape
<1>2. files' = [files EXCEPT ![path] = temp[p]] /\ UNCHANGED runtime
  BY DEF Publish
<1>3. files \in [Paths -> {Nowhere} \cup Files] /\ temp[p].phase = "whole"
  BY <1>1 DEF ShapeInv, TypeOK, Files
<1>4. \A x \in Paths : StoredAt(x)' = IF x = path THEN runtime[p].native.log ELSE StoredAt(x)
  BY <1>1, <1>2, <1>3 DEF StoredAt, Readable
<1>5. Stored' = [Stored EXCEPT ![path] = runtime[p].native.log]
  BY <1>4 DEF Stored
<1>6. OpenLogs' = OpenLogs
  BY <1>2 DEF OpenLogs, OpenIn
<1>7. OpenLogs[p] = runtime[p].native.log /\ OpenLogs[p] # None
  BY <1>1, LogOfReady
<1>. QED BY <1>1, <1>5, <1>6, <1>7, StoreActions

LEMMA SavedMaps ==
  ASSUME ShapeInv, NEW p \in Runtimes, Saved(p)
  PROVE  Stutter
<1>1. PICK backing \in {runtime[p].backing, NewBacking(p)} :
        runtime' = [runtime EXCEPT ![p] = WithBacking(runtime[p], backing)]
  BY SavedDefinition
<1>2. runtime[p] \in ReadyRuntimes /\ UNCHANGED files
  BY SavedDefinition
<1>3. /\ WithBacking(runtime[p], backing).phase = "ready"
      /\ WithBacking(runtime[p], backing).native = runtime[p].native
  BY DEF WithBacking
<1>4. Stored' = Stored /\ OpenLogs' = [OpenLogs EXCEPT ![p] = runtime[p].native.log]
  BY <1>1, <1>2, <1>3, MapsRuntime
<1>. QED BY <1>2, <1>4, LogOfReady DEF Stutter, OpenLogs

LEMMA StepMaps ==
  ASSUME ShapeInv, [Next]_vars
  PROVE  Stutter \/ \E p \in Runtimes :
           Store!Open(p) \/ Store!Review(p) \/ Store!Undo(p) \/ Store!Save(p) \/ Store!Vanish(p)
<1>1. CASE UNCHANGED vars
  BY <1>1, MapsNothing DEF vars, Stutter
<1>2. ASSUME NEW p \in Runtimes, Create(p) \/ RestoreCheckpoint(p) PROVE Store!Open(p)
  BY <1>2, CreateMaps, RestoreMaps
<1>3. ASSUME NEW p \in Runtimes, BeginLoad(p) PROVE Stutter
  BY <1>3, BeginLoadMaps
<1>4. ASSUME NEW p \in Runtimes, LoadFails(p) \/ Crash(p) PROVE Store!Vanish(p)
  BY <1>4, NowhereMaps DEF LoadFails, Crash
<1>5. ASSUME NEW p \in Runtimes, NEW undoably \in BOOLEAN, Review(p, undoably)
      PROVE  Store!Review(p)
  BY <1>5, ReviewMaps
<1>6. ASSUME NEW p \in Runtimes, UndoLast(p) PROVE Store!Undo(p)
  BY <1>6, UndoMaps
<1>7. ASSUME NEW p \in Runtimes,
             \/ BeginSave(p) \/ WriteCheckpoint(p) \/ OpenBacking(p) \/ WriteMerged(p)
             \/ SaveFails(p) \/ CleanUp(p)
      PROVE  Stutter
  BY <1>7, MapsNothing
     DEF Stutter, BeginSave, WriteCheckpoint, OpenBacking, WriteMerged, SaveFails, CleanUp
<1>8. ASSUME NEW p \in Runtimes, Publish(p) PROVE Store!Save(p)
  BY <1>8, PublishMaps
<1>9. ASSUME NEW p \in Runtimes, Saved(p) PROVE Stutter
  BY <1>9, SavedMaps
<1>. QED
  BY <1>1, <1>2, <1>3, <1>4, <1>5, <1>6, <1>7, <1>8, <1>9 DEF Next, SaveStep

\* Loads and saves are atomic, whoever crashes, fails or is interrupted in the
\* middle and whatever others publish meanwhile: a reader finds the reviews of
\* one save or of none, a runtime goes on from what was stored or from nothing,
\* and an undo takes back the last review (rust.py: _save_checkpoint, load).
THEOREM CheckpointStoreImplemented == Spec => ImplementsCheckpointStore
<1>1. Init => Store!Init
  <2> SUFFICES ASSUME Init PROVE Store!Init
    OBVIOUS
  <2>1. Nowhere.phase = "none"
    BY DEF Nowhere
  <2>2. \A path \in Paths : ~Readable(path)
    BY <2>1 DEF Init, Readable
  <2>3. \A p \in Runtimes : runtime[p].phase # "ready"
    BY <2>1 DEF Init
  <2>. QED BY <2>2, <2>3 DEF Store!Init
<1>2. ShapeInv /\ [Next]_vars => [Store!Next]_<<Stored, OpenLogs>>
  BY StepMaps DEF Stutter, Store!Next
<1>3. ShapeInv /\ [Next]_vars =>
        [Store!Next]_<<[path \in Paths |->
                          IF Readable(path) THEN files[path].native.log ELSE None],
                       [p \in Runtimes |->
                          IF runtime[p].phase = "ready" THEN runtime[p].native.log ELSE None]>>
  BY <1>2 DEF Stored, StoredAt, OpenLogs, OpenIn
<1>. QED BY <1>1, <1>3, CheckpointTypeCorrect, PTL DEF Spec, ImplementsCheckpointStore, Store!Spec

-------------------------------------------------------------------------------
(* The second invariant.  First, of one runtime: what it holds, what it is  *)
(* loading, and what a save of it is about to write or has written.         *)

FramesSelect(x) ==
  \A n \in 1 .. Len(x.undo) :
    /\ x.undo[n].native = Selected(x.undo[n].history.makes, x.scope)
    /\ AgreeOutside(x.undo[n].history.makes, x.history.makes, x.scope)

Selects(x) == x.native = Selected(x.history.makes, x.scope) /\ FramesSelect(x)

BackedExactly(x) ==
  IF x.backing # None
  THEN /\ files[x.backing] \in Files
       /\ AgreeOutside(files[x.backing].native, x.history.makes, x.scope)
  ELSE x.scope = Everything

LoadsExactly(x) ==
  /\ files[x.path].history = x.history
  /\ x.backing \in {None, x.path}
  /\ x.backing = None => x.scope = Everything

SavesExactly(p) ==
  /\ save[p].history = runtime[p].history
  /\ save[p].phase = "merge" =>
       AgreeOutside(save[p].source, runtime[p].history.makes, runtime[p].scope)
  /\ save[p].phase = "publish" => temp[p] = File(p, save[p].history.makes)
  /\ save[p].phase = "published" => files[save[p].path] = File(p, save[p].history.makes)

ExactOf(p) ==
  /\ runtime[p] \in ReadyRuntimes => Selects(runtime[p]) /\ BackedExactly(runtime[p])
  /\ runtime[p] \in Loading => LoadsExactly(runtime[p])
  /\ save[p] \in Saves => SavesExactly(p)

AllExact == \A p \in Runtimes : ExactOf(p)

\* The paths a runtime uses, and the one it writes.
Uses(p) ==
  {path \in Paths :
     \/ runtime[p].phase = "loading" /\ runtime[p].path = path
     \/ runtime[p].phase = "ready" /\ runtime[p].backing = path
     \/ save[p].phase # "none" /\ save[p].path = path}
Writes(p) == {path \in Paths : save[p].phase # "none" /\ save[p].path = path}

Apart == \A p \in Runtimes, q \in Runtimes : p # q => Writes(p) \cap Uses(q) = {}

LEMMA ReadyIsReady ==
  ASSUME TypeOK
  PROVE  \A p \in Runtimes : runtime[p].phase = "ready" <=> runtime[p] \in ReadyRuntimes
BY Kinds

LEMMA AloneIsApart ==
  ASSUME TypeOK
  PROVE  SavesAreAlone <=> Apart
<1>1. ASSUME NEW p \in Runtimes, NEW q \in Runtimes, NEW path \in Paths
      PROVE  path \in Uses(q) <=>
               \/ runtime[q].phase = "loading" /\ runtime[q].path = path
               \/ runtime[q].phase = "ready" /\ runtime[q].backing = path
               \/ save[q].phase # "none" /\ save[q].path = path
  BY DEF Uses
<1>2. ASSUME NEW p \in Runtimes, NEW path \in Paths
      PROVE  UsedByOther(p, path) <=> \E q \in Runtimes \ {p} : path \in Uses(q)
  BY <1>1 DEF UsedByOther
<1>3. ASSUME NEW p \in Runtimes
      PROVE  /\ save[p] \in Saves => Writes(p) = {save[p].path} /\ save[p].path \in Paths
             /\ save[p] \notin Saves => Writes(p) = {}
  BY Kinds, SaveFields DEF Writes
<1>. QED BY <1>2, <1>3 DEF SavesAreAlone, Apart

LEMMA ExactByRuntime ==
  ASSUME TypeOK
  PROVE  IInv <=> ShapeInv /\ FilesAreWhole /\ Apart /\ AllExact
<1>1. RuntimesAreSelections /\ FramesAreSelections /\ BackingAgrees <=>
        \A p \in Runtimes : runtime[p] \in ReadyRuntimes =>
          Selects(runtime[p]) /\ BackedExactly(runtime[p])
  BY ReadyIsReady
     DEF RuntimesAreSelections, FramesAreSelections, BackingAgrees, Selects, FramesSelect,
         BackedExactly, Backed
<1>2. LoadsAreStable <=>
        \A p \in Runtimes : runtime[p] \in Loading => LoadsExactly(runtime[p])
  BY DEF LoadsAreStable, LoadsExactly
<1>3. SavesAreExact <=> \A p \in Runtimes : save[p] \in Saves => SavesExactly(p)
  BY DEF SavesAreExact, SavesExactly
<1>4. SavesAreAlone <=> Apart
  BY AloneIsApart
<1>. QED BY <1>1, <1>2, <1>3, <1>4 DEF IInv, AllExact, ExactOf

\* A file that is not written stays what it was to those who use it.
LEMMA ExactUntouched ==
  ASSUME ShapeInv, NEW q \in Runtimes, Untouched(q), ExactOf(q),
         \A path \in Uses(q) : files'[path] = files[path]
  PROVE  ExactOf(q)'
<1>1. runtime'[q] = runtime[q] /\ save'[q] = save[q] /\ temp'[q] = temp[q]
  BY DEF Untouched
<1>2. TypeOK
  BY DEF ShapeInv
<1>3. ASSUME runtime[q] \in ReadyRuntimes
      PROVE  BackedExactly(runtime[q])' <=> BackedExactly(runtime[q])
  <2>1. runtime[q].backing # None => runtime[q].backing \in Uses(q)
    BY <1>2, <1>3, Kinds, ReadyFields DEF Uses
  <2>. QED BY <1>1, <2>1 DEF BackedExactly
<1>4. ASSUME runtime[q] \in Loading
      PROVE  LoadsExactly(runtime[q])' <=> LoadsExactly(runtime[q])
  <2>1. runtime[q].path \in Uses(q)
    BY <1>2, <1>4, Kinds DEF Uses, Loading
  <2>. QED BY <1>1, <2>1 DEF LoadsExactly
<1>5. ASSUME save[q] \in Saves
      PROVE  SavesExactly(q)' <=> SavesExactly(q)
  <2>1. save[q].path \in Uses(q)
    BY <1>2, <1>5, Kinds, SaveFields DEF Uses
  <2>. QED BY <1>1, <2>1 DEF SavesExactly, File
<1>6. Selects(runtime[q])' <=> Selects(runtime[q])
  BY <1>1 DEF Selects, FramesSelect
<1>. QED BY <1>1, <1>3, <1>4, <1>5, <1>6 DEF ExactOf

\* A step of p that writes at most the file it was alone with.
LEMMA ExactStep ==
  ASSUME IInv, ShapeInv', NEW p \in Runtimes, ExactOf(p)', FilesAreWhole',
         \A q \in Runtimes \ {p} : Untouched(q),
         \A path \in Paths \ Writes(p) : files'[path] = files[path],
         \A q \in Runtimes \ {p} : Uses(p)' \cap Writes(q) = {} /\ Writes(p)' \cap Uses(q) = {}
  PROVE  IInv'
<1>1. /\ ShapeInv /\ TypeOK /\ Apart /\ \A q \in Runtimes : ExactOf(q)
  BY ExactByRuntime DEF IInv, ShapeInv, AllExact
<1>2. ASSUME NEW q \in Runtimes \ {p}
      PROVE  ExactOf(q)'
  <2>1. \A path \in Uses(q) : path \in Paths /\ path \notin Writes(p)
    BY <1>1 DEF Apart, Uses
  <2>. QED BY <1>1, <2>1, ExactUntouched
<1>3. \A q \in Runtimes \ {p} : Uses(q)' = Uses(q) /\ Writes(q)' = Writes(q)
  BY DEF Untouched, Uses, Writes
<1>4. Apart'
  <2>1. ASSUME NEW q \in Runtimes, NEW o \in Runtimes, q # o
        PROVE  Writes(q)' \cap Uses(o)' = {}
    <3>1. CASE q = p
      BY <2>1, <3>1, <1>3
    <3>2. CASE o = p
      BY <2>1, <3>2, <1>3
    <3>3. CASE q # p /\ o # p
      BY <2>1, <3>3, <1>1, <1>3 DEF Apart
    <3>. QED BY <3>1, <3>2, <3>3
  <2>. QED BY <2>1 DEF Apart
<1>5. TypeOK'
  BY DEF ShapeInv
<1>6. AllExact'
  BY <1>2 DEF AllExact
<1>. QED BY <1>4, <1>5, <1>6, ExactByRuntime, PTL

LEMMA ExactParts ==
  ASSUME IInv
  PROVE  ShapeInv /\ TypeOK /\ FilesAreWhole /\ Apart /\ \A q \in Runtimes : ExactOf(q)
BY ExactByRuntime DEF IInv, ShapeInv, AllExact

\* A step of p that uses no path it did not use before.
LEMMA UsesNoMore ==
  ASSUME IInv, NEW p \in Runtimes, Uses(p)' \subseteq Uses(p), Writes(p)' \subseteq Writes(p)
  PROVE  \A q \in Runtimes \ {p} :
           Uses(p)' \cap Writes(q) = {} /\ Writes(p)' \cap Uses(q) = {}
BY ExactParts DEF Apart

\* What a step that changes the runtime p and nothing else has to show.
LEMMA RuntimeStepExact ==
  ASSUME IInv, ShapeInv', NEW p \in Runtimes, NEW next,
         runtime' = [runtime EXCEPT ![p] = next],
         UNCHANGED <<files, temp, save>>, save[p] \notin Saves,
         next \in ReadyRuntimes => Selects(next) /\ BackedExactly(next),
         next \in Loading => LoadsExactly(next),
         \A q \in Runtimes \ {p}, path \in Paths :
           \/ next.phase = "loading" /\ next.path = path
           \/ next.phase = "ready" /\ next.backing = path
           => path \notin Writes(q)
  PROVE  IInv'
<1>1. ShapeInv /\ TypeOK /\ FilesAreWhole /\ Apart
  BY ExactParts
<1>2. runtime'[p] = next /\ \A q \in Runtimes \ {p} : Untouched(q)
  BY <1>1 DEF TypeOK, Untouched
<1>3. ExactOf(p)'
  BY <1>2 DEF ExactOf, Selects, FramesSelect, BackedExactly, LoadsExactly
<1>4. FilesAreWhole'
  BY <1>1 DEF FilesAreWhole, Exists
<1>5. save[p].phase = "none"
  BY <1>1, Kinds
<1>6. Writes(p)' = {} /\ \A q \in Runtimes \ {p} : Uses(p)' \cap Writes(q) = {}
  BY <1>2, <1>5 DEF Uses, Writes
<1>. QED BY <1>2, <1>3, <1>4, <1>6, ExactStep

LEMMA NotWritten ==
  ASSUME IInv, NEW p \in Runtimes, NEW q \in Runtimes \ {p}, NEW path \in Uses(p)
  PROVE  path \notin Writes(q)
BY ExactParts DEF Apart

LEMMA CreateExact ==
  ASSUME IInv, NEW p \in Runtimes, Create(p)
  PROVE  IInv'
<1> DEFINE next == NewRuntime(Everything, None, EmptyState, Beginning)
<1>1. ShapeInv /\ ShapeInv'
  BY ExactParts, CreateShape
<1>2. /\ next.phase = "ready" /\ next.scope = Everything /\ next.backing = None
      /\ next.native = EmptyState /\ next.history.makes = EmptyState /\ next.undo = <<>>
  BY DEF NewRuntime, Beginning
<1>3. runtime' = [runtime EXCEPT ![p] = next] /\ UNCHANGED <<files, temp, save>>
  BY DEF Create
<1>4. save[p] \notin Saves
  BY <1>1, NotSaving DEF Create, Nowhere
<1> HIDE DEF next
<1>5. Selects(next) /\ BackedExactly(next)
  BY <1>2, EmptyType DEF Selects, FramesSelect, BackedExactly
<1>6. next \notin Loading /\ None \notin Paths
  BY <1>2, CheckpointAssumption DEF Loading
<1>. QED BY <1>1, <1>2, <1>3, <1>4, <1>5, <1>6, RuntimeStepExact

LEMMA BeginLoadExact ==
  ASSUME Exclusive, IInv, NEW p \in Runtimes, BeginLoad(p)
  PROVE  IInv'
<1>1. PICK path \in Paths, scope \in Scopes \cup {Everything} :
        /\ ~WrittenByOther(p, path)
        /\ runtime' = [runtime EXCEPT ![p] =
             [phase |-> "loading", path |-> path, scope |-> scope,
              backing |-> IF scope = Everything THEN None ELSE path,
              history |-> files[path].history]]
  BY DEF BeginLoad
<1> DEFINE next == [phase |-> "loading", path |-> path, scope |-> scope,
                    backing |-> IF scope = Everything THEN None ELSE path,
                    history |-> files[path].history]
<1>2. ShapeInv /\ ShapeInv'
  BY ExactParts, BeginLoadShape
<1>3. LoadsExactly(next) /\ next.phase = "loading" /\ next.path = path
  BY CheckpointAssumption DEF LoadsExactly
<1>4. save[p] \notin Saves
  BY <1>2, NotSaving DEF BeginLoad, Nowhere
<1>5. runtime' = [runtime EXCEPT ![p] = next] /\ UNCHANGED <<files, temp, save>>
  BY <1>1 DEF BeginLoad
<1>6. \A q \in Runtimes \ {p} : path \notin Writes(q)
  BY <1>1 DEF WrittenByOther, Writes
<1> HIDE DEF next
<1>7. next \notin ReadyRuntimes
  BY <1>3 DEF ReadyRuntimes
<1>. QED BY <1>2, <1>3, <1>4, <1>5, <1>6, <1>7, RuntimeStepExact

LEMMA RestoreExact ==
  ASSUME IInv, NEW p \in Runtimes, RestoreCheckpoint(p)
  PROVE  IInv'
<1> DEFINE old == runtime[p]
           next == NewRuntime(old.scope, old.backing,
                              Selected(files[old.path].native, old.scope), old.history)
<1>1. ShapeInv /\ ShapeInv' /\ TypeOK
  BY ExactParts, RestoreShape
<1>2. /\ old \in Loading /\ files[old.path] \in Files /\ old.path \in Paths
      /\ LoadsExactly(old)
  BY <1>1, ExactParts, Kinds DEF RestoreCheckpoint, ShapeInv, LoadedFilesExist, Loading, ExactOf
<1>3. files[old.path].native = old.history.makes
  BY <1>1, <1>2, ExactParts, FileKinds DEF FilesAreWhole, LoadsExactly
<1>4. /\ next.phase = "ready" /\ next.scope = old.scope /\ next.backing = old.backing
      /\ next.native = Selected(old.history.makes, old.scope)
      /\ next.history = old.history /\ next.undo = <<>>
  BY <1>3 DEF NewRuntime
<1>5. runtime' = [runtime EXCEPT ![p] = next] /\ UNCHANGED <<files, temp, save>>
  BY <1>1 DEF RestoreCheckpoint, TypeOK
<1>6. save[p] \notin Saves
  BY <1>1, NotSaving DEF RestoreCheckpoint
<1>7. old.path \in Uses(p)
  BY <1>2 DEF Uses, RestoreCheckpoint
<1>8. \A q \in Runtimes \ {p} : old.path \notin Writes(q)
  BY <1>7, NotWritten
<1> HIDE DEF next
<1>9. Selects(next)
  BY <1>4 DEF Selects, FramesSelect
<1>10. BackedExactly(next)
  <2>1. AgreeOutside(files[old.path].native, next.history.makes, next.scope)
    BY <1>3, <1>4 DEF AgreeOutside
  <2>. QED BY <2>1, <1>2, <1>4, CheckpointAssumption DEF BackedExactly, LoadsExactly
<1>11. next \notin Loading
  BY <1>4 DEF Loading
<1>12. next.backing \in {None, old.path} /\ None \notin Paths
  BY <1>2, <1>4, CheckpointAssumption DEF LoadsExactly
<1>13. \A q \in Runtimes \ {p}, path \in Paths : next.backing = path => path \notin Writes(q)
  BY <1>8, <1>12
<1>. QED
  BY <1>1, <1>4, <1>5, <1>6, <1>9, <1>10, <1>11, <1>13, RuntimeStepExact

LEMMA NowhereExact ==
  ASSUME IInv, NEW p \in Runtimes, LoadFails(p)
  PROVE  IInv'
<1>1. ShapeInv /\ ShapeInv' /\ save[p] \notin Saves
  BY ExactParts, LoadFailsShape, NotSaving DEF LoadFails
<1>2. Nowhere \notin Loading /\ Nowhere \notin ReadyRuntimes /\ Nowhere.phase = "none"
  BY DEF Nowhere, Loading, ReadyRuntimes
<1>. QED BY <1>1, <1>2, RuntimeStepExact DEF LoadFails

\* A review keeps the runtime a selection, and its frames too.
LEMMA AfterSelects ==
  ASSUME NEW old \in ReadyRuntimes, NEW r \in Reviews, NEW undoably \in BOOLEAN,
         Touched(r) \subseteq old.scope, Selects(old)
  PROVE  /\ Selects(After(old, r, undoably))
         /\ AgreeOutside(old.history.makes, After(old, r, undoably).history.makes, old.scope)
<1> DEFINE frame == [native |-> old.native, history |-> old.history]
           pushed == Append(old.undo, frame)
           next == After(old, r, undoably)
           makes == Reviewed(old.history.makes, r)
<1>1. /\ old.history \in Histories /\ old.undo \in Seq(Frames) /\ frame \in Frames
      /\ frame.native = old.native /\ frame.history = old.history
  BY ReadyFields DEF Frames
<1>2. old.history.makes \in NativeStates /\ Continued(old.history, r).makes = makes
  BY <1>1, ContinuedType
<1>3. /\ next.scope = old.scope /\ next.native = Reviewed(old.native, r)
      /\ next.history.makes = makes
      /\ next.undo = IF undoably THEN Trimmed(pushed) ELSE <<>>
  BY <1>2 DEF After
<1> HIDE DEF next, frame, makes
<1>4. next.native = Selected(makes, old.scope)
  BY <1>2, <1>3, ReviewCommutes DEF Selects, makes
<1>5. AgreeOutside(old.history.makes, makes, old.scope)
  BY ReviewLeavesOthers DEF makes
<1>6. pushed \in Seq(Frames) /\ Len(pushed) = Len(old.undo) + 1
        /\ pushed[Len(old.undo) + 1] = frame
        /\ \A n \in 1 .. Len(old.undo) : pushed[n] = old.undo[n]
  BY <1>1
<1> HIDE DEF pushed
<1>7. ASSUME NEW n \in 1 .. Len(pushed)
      PROVE  /\ pushed[n].native = Selected(pushed[n].history.makes, old.scope)
             /\ AgreeOutside(pushed[n].history.makes, makes, old.scope)
  <2>1. CASE n = Len(old.undo) + 1
    BY <2>1, <1>1, <1>5, <1>6 DEF Selects
  <2>2. CASE n \in 1 .. Len(old.undo)
    <3>1. /\ old.undo[n].native = Selected(old.undo[n].history.makes, old.scope)
          /\ AgreeOutside(old.undo[n].history.makes, old.history.makes, old.scope)
      BY <2>2 DEF Selects, FramesSelect
    <3>. QED BY <2>2, <3>1, <1>5, <1>6, AgreeTransitive
  <2>3. Len(old.undo) \in Nat
    BY <1>1
  <2>. QED BY <2>1, <2>2, <2>3, <1>6
<1>8. FramesSelect(next)
  <2>1. CASE ~undoably
    BY <2>1, <1>3 DEF FramesSelect
  <2>2. CASE undoably
    <3>1. PICK d \in 0 .. Len(pushed) :
            /\ Len(Trimmed(pushed)) = Len(pushed) - d
            /\ \A n \in 1 .. Len(pushed) - d : Trimmed(pushed)[n] = pushed[n + d]
      BY <1>6, TrimmedStack
    <3>2. next.undo = Trimmed(pushed) /\ Len(pushed) \in Nat
      BY <2>2, <1>3, <1>6
    <3>3. \A n \in 1 .. Len(next.undo) :
            n + d \in 1 .. Len(pushed) /\ next.undo[n] = pushed[n + d]
      BY <3>1, <3>2
    <3>. QED BY <3>3, <1>3, <1>7 DEF FramesSelect
  <2>. QED BY <2>1, <2>2
<1>. QED BY <1>3, <1>4, <1>5, <1>8 DEF Selects, next

LEMMA ReviewExact ==
  ASSUME IInv, NEW p \in Runtimes, NEW undoably \in BOOLEAN, Review(p, undoably)
  PROVE  IInv'
<1> DEFINE old == runtime[p]
<1>1. ShapeInv /\ ShapeInv' /\ TypeOK
  BY ExactParts, ReviewShape
<1>2. Ready(p) /\ UNCHANGED <<files, temp, save>>
  BY ReviewDefinition
<1>3. PICK r \in Reviews :
        /\ WithinScope(p, r)
        /\ runtime' = [runtime EXCEPT ![p] = After(old, r, undoably)]
  BY ReviewDefinition
<1> DEFINE next == After(old, r, undoably)
<1>4. old \in ReadyRuntimes /\ save[p] \notin Saves
  BY <1>1, <1>2, ReadyRuntime
<1>5. Selects(old) /\ BackedExactly(old)
  BY <1>4, ExactParts DEF ExactOf
<1>6. Selects(next) /\ AgreeOutside(old.history.makes, next.history.makes, old.scope)
  BY <1>3, <1>4, <1>5, AfterSelects DEF WithinScope
<1>7. next.phase = "ready" /\ next.scope = old.scope /\ next.backing = old.backing
  BY DEF After
<1> HIDE DEF next
<1>8. BackedExactly(next)
  BY <1>5, <1>6, <1>7, AgreeTransitive DEF BackedExactly
<1>9. next \notin Loading
  BY <1>7 DEF Loading
<1>10. \A q \in Runtimes \ {p}, path \in Paths : old.backing = path => path \notin Writes(q)
  <2>1. \A path \in Paths : old.backing = path => path \in Uses(p)
    BY <1>2 DEF Uses, Ready
  <2>. QED BY <2>1, NotWritten
<1>. QED
  BY <1>1, <1>2, <1>3, <1>4, <1>6, <1>7, <1>8, <1>9, <1>10, RuntimeStepExact DEF next

LEMMA BeforeSelects ==
  ASSUME NEW old \in ReadyRuntimes, old.undo # <<>>, Selects(old)
  PROVE  /\ Selects(Before(old))
         /\ AgreeOutside(old.history.makes, Before(old).history.makes, old.scope)
<1> DEFINE last == old.undo[Len(old.undo)]
           popped == SubSeq(old.undo, 1, Len(old.undo) - 1)
<1>1. old.undo \in Seq(Frames) /\ Len(old.undo) \in Nat \ {0}
  BY ReadyFields
<1>2. Len(popped) = Len(old.undo) - 1 /\ \A n \in 1 .. Len(popped) : popped[n] = old.undo[n]
  <2>1. Len(old.undo) - 1 \in 0 .. Len(old.undo)
    BY <1>1
  <2>. QED BY <1>1, <2>1, Prefix
<1>3. /\ Before(old).scope = old.scope /\ Before(old).native = last.native
      /\ Before(old).history = last.history /\ Before(old).undo = popped
  BY DEF Before
<1>4. \A n \in 1 .. Len(old.undo) :
        /\ old.undo[n].native = Selected(old.undo[n].history.makes, old.scope)
        /\ AgreeOutside(old.undo[n].history.makes, old.history.makes, old.scope)
  BY DEF Selects, FramesSelect
<1>5. /\ last.native = Selected(last.history.makes, old.scope)
      /\ AgreeOutside(last.history.makes, old.history.makes, old.scope)
  BY <1>1, <1>4
<1>6. AgreeOutside(old.history.makes, last.history.makes, old.scope)
  BY <1>5 DEF AgreeOutside
<1> HIDE DEF last, popped
<1>7. \A n \in 1 .. Len(popped) :
        /\ popped[n].native = Selected(popped[n].history.makes, old.scope)
        /\ AgreeOutside(popped[n].history.makes, last.history.makes, old.scope)
  <2> TAKE n \in 1 .. Len(popped)
  <2>1. n \in 1 .. Len(old.undo) /\ popped[n] = old.undo[n]
    BY <1>1, <1>2
  <2>. QED BY <2>1, <1>4, <1>6, AgreeTransitive
<1>. QED BY <1>3, <1>5, <1>6, <1>7 DEF Selects, FramesSelect

LEMMA UndoExact ==
  ASSUME IInv, NEW p \in Runtimes, UndoLast(p)
  PROVE  IInv'
<1> DEFINE old == runtime[p]
           next == Before(old)
<1>1. ShapeInv /\ ShapeInv' /\ TypeOK
  BY ExactParts, UndoShape
<1>2. /\ Ready(p) /\ UNCHANGED <<files, temp, save>> /\ old.undo # <<>>
      /\ runtime' = [runtime EXCEPT ![p] = next]
  BY UndoDefinition
<1>3. old \in ReadyRuntimes /\ save[p] \notin Saves
  BY <1>1, <1>2, ReadyRuntime
<1>4. Selects(old) /\ BackedExactly(old)
  BY <1>3, ExactParts DEF ExactOf
<1>5. Selects(next) /\ AgreeOutside(old.history.makes, next.history.makes, old.scope)
  BY <1>2, <1>3, <1>4, BeforeSelects
<1>6. next.phase = "ready" /\ next.scope = old.scope /\ next.backing = old.backing
  BY DEF Before
<1> HIDE DEF next
<1>7. BackedExactly(next)
  BY <1>4, <1>5, <1>6, AgreeTransitive DEF BackedExactly
<1>8. next \notin Loading
  BY <1>6 DEF Loading
<1>9. \A q \in Runtimes \ {p}, path \in Paths : old.backing = path => path \notin Writes(q)
  <2>1. \A path \in Paths : old.backing = path => path \in Uses(p)
    BY <1>2 DEF Uses, Ready
  <2>. QED BY <2>1, NotWritten
<1>. QED
  BY <1>1, <1>2, <1>3, <1>5, <1>6, <1>7, <1>8, <1>9, RuntimeStepExact

LEMMA CrashExact ==
  ASSUME IInv, NEW p \in Runtimes, Crash(p)
  PROVE  IInv'
<1>1. ShapeInv /\ ShapeInv' /\ TypeOK /\ FilesAreWhole
  BY ExactParts, CrashShape
<1>2. /\ runtime'[p] = Nowhere /\ save'[p] = Nowhere /\ files' = files
      /\ \A q \in Runtimes \ {p} : Untouched(q)
  BY <1>1 DEF Crash, TypeOK, Untouched
<1>3. Nowhere.phase = "none" /\ Nowhere \notin Loading \cup ReadyRuntimes \cup Saves
  BY DEF Nowhere, Loading, ReadyRuntimes, Saves
<1>4. ExactOf(p)'
  BY <1>2, <1>3 DEF ExactOf
<1>5. FilesAreWhole'
  BY <1>1, <1>2 DEF FilesAreWhole, Exists
<1>6. Uses(p)' = {} /\ Writes(p)' = {}
  BY <1>2, <1>3 DEF Uses, Writes
<1>. QED BY <1>1, <1>2, <1>4, <1>5, <1>6, ExactStep

\* What a step of a save has to show, that changes neither runtime nor files.
LEMMA SaveStepExact ==
  ASSUME IInv, ShapeInv', NEW p \in Runtimes, NEW next, NEW written,
         save' = [save EXCEPT ![p] = next],
         temp' = [temp EXCEPT ![p] = written],
         UNCHANGED <<files, runtime>>,
         next \in Saves => SavesExactly(p)',
         next.phase # "none" => \A q \in Runtimes \ {p} : next.path \notin Uses(q)
  PROVE  IInv'
<1>1. ShapeInv /\ TypeOK /\ FilesAreWhole /\ Apart /\ ExactOf(p)
  BY ExactParts
<1>2. save'[p] = next /\ \A q \in Runtimes \ {p} : Untouched(q)
  BY <1>1 DEF TypeOK, Untouched
<1>3. ExactOf(p)'
  BY <1>1, <1>2 DEF ExactOf, Selects, FramesSelect, BackedExactly, LoadsExactly
<1>4. FilesAreWhole'
  BY <1>1 DEF FilesAreWhole, Exists
<1>5. \A q \in Runtimes \ {p} : Writes(p)' \cap Uses(q) = {}
  BY <1>2 DEF Writes
<1>6. \A q \in Runtimes : Writes(q) \subseteq Uses(q)
  BY DEF Uses, Writes
<1>7. \A q \in Runtimes \ {p} : Uses(p)' \cap Writes(q) = {}
  <2>1. Uses(p)' \subseteq Uses(p) \cup Writes(p)'
    BY <1>2 DEF Uses, Writes
  <2>. QED BY <2>1, <1>1, <1>5, <1>6 DEF Apart
<1>. QED BY <1>2, <1>3, <1>4, <1>5, <1>7, ExactStep

\* A save that goes on is still alone with its path.
LEMMA StillAlone ==
  ASSUME IInv, NEW p \in Runtimes, save[p] \in Saves
  PROVE  \A q \in Runtimes \ {p} : save[p].path \notin Uses(q)
<1>1. save[p].path \in Writes(p)
  BY ExactParts, Kinds, SaveFields DEF Writes
<1>. QED BY <1>1, ExactParts DEF Apart

\* What is known of a save under way.
LEMMA SavingRuntime ==
  ASSUME IInv, NEW p \in Runtimes, save[p].phase # "none"
  PROVE  /\ TypeOK /\ save[p] \in Saves /\ runtime[p] \in ReadyRuntimes
         /\ save[p].path \in Paths
         /\ Selects(runtime[p]) /\ BackedExactly(runtime[p]) /\ SavesExactly(p)
         /\ save[p].history = runtime[p].history
         /\ runtime[p].history.makes \in NativeStates
<1>1. /\ TypeOK /\ save[p] \in Saves /\ runtime[p] \in ReadyRuntimes
      /\ save[p].path \in Paths
  BY ExactParts, SaveUnderWay
<1>2. Selects(runtime[p]) /\ BackedExactly(runtime[p]) /\ SavesExactly(p)
  BY <1>1, ExactParts DEF ExactOf
<1>3. runtime[p].history.makes \in NativeStates
  BY <1>1, ReadyFields DEF Histories
<1>. QED BY <1>1, <1>2, <1>3 DEF SavesExactly

LEMMA BeginSaveExact ==
  ASSUME Exclusive, IInv, NEW p \in Runtimes, BeginSave(p)
  PROVE  IInv'
<1>1. PICK path \in Paths :
        /\ ~UsedByOther(p, path)
        /\ save' = [save EXCEPT ![p] =
             [phase |-> "write", path |-> path, history |-> runtime[p].history,
              source |-> None]]
  BY DEF BeginSave
<1> DEFINE next == [phase |-> "write", path |-> path, history |-> runtime[p].history,
                    source |-> None]
<1>2. TypeOK /\ ShapeInv'
  BY ExactParts, BeginSaveShape
<1>3. next.phase = "write" /\ next.path = path /\ next.history = runtime[p].history
  OBVIOUS
<1>4. save' = [save EXCEPT ![p] = next] /\ temp' = [temp EXCEPT ![p] = Partial]
        /\ UNCHANGED <<files, runtime>>
  BY <1>1 DEF BeginSave, Partial
<1> HIDE DEF next
<1>5. save'[p] = next
  BY <1>2, <1>4 DEF TypeOK
<1>6. SavesExactly(p)'
  BY <1>3, <1>4, <1>5 DEF SavesExactly
<1>7. \A q \in Runtimes \ {p} : path \notin Uses(q)
  BY <1>1 DEF UsedByOther, Uses
<1>. QED BY <1>2, <1>3, <1>4, <1>6, <1>7, SaveStepExact

\* The phase that a save of the state its history makes goes to next.
LEMMA EnteredExact ==
  ASSUME IInv, ShapeInv', NEW p \in Runtimes, save[p] \in Saves,
         NEW phase \in {"publish", "failed"}, NEW written,
         save' = [save EXCEPT ![p] = Entered(p, phase)],
         temp' = [temp EXCEPT ![p] = written],
         UNCHANGED <<files, runtime>>,
         phase = "publish" => written = File(p, runtime[p].history.makes)
  PROVE  IInv'
<1>1. TypeOK /\ save[p].phase # "none" /\ save[p].history = runtime[p].history
  BY ExactParts, Kinds, SavingRuntime
<1>2. /\ save'[p] = Entered(p, phase) /\ temp'[p] = written
      /\ Entered(p, phase).phase = phase /\ Entered(p, phase).path = save[p].path
      /\ Entered(p, phase).history = save[p].history
  BY <1>1 DEF TypeOK, Entered
<1>3. SavesExactly(p)'
  BY <1>1, <1>2 DEF SavesExactly, File
<1>4. \A q \in Runtimes \ {p} : save[p].path \notin Uses(q)
  BY StillAlone
<1>. QED BY <1>2, <1>3, <1>4, SaveStepExact

LEMMA WriteExact ==
  ASSUME IInv, NEW p \in Runtimes, WriteCheckpoint(p)
  PROVE  IInv'
<1>1. ShapeInv' /\ save[p].phase # "none"
  BY ExactParts, WriteShape DEF WriteCheckpoint, Saving
<1>2. /\ TypeOK /\ save[p] \in Saves /\ Selects(runtime[p]) /\ BackedExactly(runtime[p])
      /\ runtime[p].history.makes \in NativeStates
  BY <1>1, SavingRuntime
<1>3. runtime[p].native = runtime[p].history.makes
  BY <1>2, SelectedEverything DEF WriteCheckpoint, Backed, BackedExactly, Selects
<1>4. /\ save' = [save EXCEPT ![p] = Entered(p, "publish")]
      /\ temp' = [temp EXCEPT ![p] = File(p, runtime[p].history.makes)]
      /\ UNCHANGED <<files, runtime>>
  BY <1>2, <1>3, EnterDefinition DEF WriteCheckpoint
<1>. QED BY <1>1, <1>2, <1>4, EnteredExact

LEMMA OpenBackingExact ==
  ASSUME IInv, NEW p \in Runtimes, OpenBacking(p)
  PROVE  IInv'
<1> DEFINE next == [phase |-> "merge", path |-> save[p].path, history |-> save[p].history,
                    source |-> files[runtime[p].backing].native]
<1>1. ShapeInv' /\ save[p].phase # "none"
  BY ExactParts, OpenBackingShape DEF OpenBacking, Saving
<1>2. /\ TypeOK /\ save[p] \in Saves /\ BackedExactly(runtime[p])
      /\ save[p].history = runtime[p].history
  BY <1>1, SavingRuntime
<1>3. /\ save' = [save EXCEPT ![p] = next]
      /\ temp' = [temp EXCEPT ![p] = temp[p]] /\ UNCHANGED <<files, runtime>>
  BY <1>2 DEF OpenBacking, TypeOK
<1>4. /\ next.phase = "merge" /\ next.path = save[p].path
      /\ next.history = save[p].history
      /\ next.source = files[runtime[p].backing].native
  OBVIOUS
<1> HIDE DEF next
<1>5. save'[p] = next
  BY <1>2, <1>3 DEF TypeOK
<1>6. AgreeOutside(next.source, runtime[p].history.makes, runtime[p].scope)
  BY <1>2, <1>4 DEF OpenBacking, Backed, BackedExactly
<1>7. SavesExactly(p)'
  BY <1>2, <1>3, <1>4, <1>5, <1>6 DEF SavesExactly
<1>8. \A q \in Runtimes \ {p} : save[p].path \notin Uses(q)
  BY <1>2, StillAlone
<1>. QED BY <1>1, <1>3, <1>4, <1>7, <1>8, SaveStepExact

LEMMA WriteMergedExact ==
  ASSUME IInv, NEW p \in Runtimes, WriteMerged(p)
  PROVE  IInv'
<1> DEFINE merged == Merged(save[p].source, runtime[p].native, runtime[p].scope)
<1>1. ShapeInv' /\ save[p].phase = "merge"
  BY ExactParts, WriteMergedShape DEF WriteMerged, Saving
<1>2. /\ TypeOK /\ save[p] \in Saves /\ Selects(runtime[p]) /\ SavesExactly(p)
      /\ runtime[p].history.makes \in NativeStates
  BY <1>1, SavingRuntime
<1>3. merged = runtime[p].history.makes
  BY <1>1, <1>2, MergeRestores DEF Selects, SavesExactly
<1> HIDE DEF merged
<1>4. /\ save' = [save EXCEPT ![p] = Entered(p, "publish")]
      /\ temp' = [temp EXCEPT ![p] = File(p, runtime[p].history.makes)]
      /\ UNCHANGED <<files, runtime>>
  BY <1>2, <1>3, EnterDefinition DEF WriteMerged, merged
<1>. QED BY <1>1, <1>2, <1>4, EnteredExact

LEMMA SaveFailsExact ==
  ASSUME IInv, NEW p \in Runtimes, SaveFails(p)
  PROVE  IInv'
<1>1. ShapeInv' /\ save[p].phase # "none"
  BY ExactParts, SaveFailsShape DEF SaveFails
<1>2. TypeOK /\ save[p] \in Saves
  BY <1>1, SavingRuntime
<1>3. /\ save' = [save EXCEPT ![p] = Entered(p, "failed")]
      /\ temp' = [temp EXCEPT ![p] = temp[p]] /\ UNCHANGED <<files, runtime>>
  BY <1>2, EnterDefinition DEF SaveFails, TypeOK
<1>. QED BY <1>1, <1>2, <1>3, EnteredExact

\* The file that appears is whole, and nobody but its writer looked at the old.
LEMMA PublishExact ==
  ASSUME IInv, NEW p \in Runtimes, Publish(p)
  PROVE  IInv'
<1> DEFINE path == save[p].path
           makes == runtime[p].history.makes
<1>1. ShapeInv' /\ save[p].phase = "publish"
  BY ExactParts, PublishShape DEF Publish, IsComplete, Saving
<1>2. /\ TypeOK /\ save[p] \in Saves /\ runtime[p] \in ReadyRuntimes /\ path \in Paths
      /\ Selects(runtime[p]) /\ BackedExactly(runtime[p])
      /\ save[p].history = runtime[p].history
      /\ temp[p] = File(p, makes) /\ temp[p] \in Files
  <2>1. /\ TypeOK /\ save[p] \in Saves /\ runtime[p] \in ReadyRuntimes /\ path \in Paths
        /\ Selects(runtime[p]) /\ BackedExactly(runtime[p]) /\ SavesExactly(p)
        /\ save[p].history = runtime[p].history
    BY <1>1, SavingRuntime
  <2>2. temp[p] \in Files
    BY ExactParts, PublishShape
  <2>3. temp[p] = File(p, makes)
    BY <1>1, <2>1 DEF SavesExactly
  <2>. QED BY <2>1, <2>2, <2>3
<1>3. /\ save' = [save EXCEPT ![p] = Entered(p, "published")]
      /\ temp' = [temp EXCEPT ![p] = Nowhere]
      /\ files' = [files EXCEPT ![path] = temp[p]] /\ UNCHANGED runtime
  BY <1>2, EnterDefinition DEF Publish
<1>4. /\ temp[p].phase = "whole" /\ temp[p].native = makes
      /\ temp[p].history = runtime[p].history
  BY <1>2 DEF File
<1>5. files'[path] = temp[p] /\ \A x \in Paths \ {path} : files'[x] = files[x]
  BY <1>2, <1>3 DEF TypeOK
<1>6. FilesAreWhole'
  <2>1. ASSUME NEW x \in Paths, Exists(x)'
        PROVE  files'[x].phase = "whole" /\ files'[x].native = files'[x].history.makes
    <3>1. CASE x = path
      BY <3>1, <1>4, <1>5
    <3>2. CASE x # path
      BY <2>1, <3>2, <1>5, ExactParts DEF FilesAreWhole, Exists
    <3>. QED BY <3>1, <3>2
  <2>. QED BY <2>1 DEF FilesAreWhole
<1>7. /\ save'[p] = Entered(p, "published") /\ save'[p].phase = "published"
      /\ save'[p].path = path /\ save'[p].history = runtime[p].history
  BY <1>2, <1>3 DEF TypeOK, Entered
<1>8. SavesExactly(p)'
  BY <1>2, <1>3, <1>4, <1>5, <1>7 DEF SavesExactly, File
<1>9. BackedExactly(runtime[p])'
  <2>1. CASE runtime[p].backing = path
    <3>1. path # None /\ AgreeOutside(makes, makes, runtime[p].scope)
      BY <1>2, CheckpointAssumption DEF AgreeOutside
    <3>. QED BY <2>1, <3>1, <1>2, <1>3, <1>4, <1>5 DEF BackedExactly
  <2>2. CASE runtime[p].backing # path
    <3>1. runtime[p].backing \in Paths \cup {None}
      BY <1>2, ReadyFields
    <3>. QED BY <2>2, <3>1, <1>2, <1>3, <1>5 DEF BackedExactly
  <2>. QED BY <2>1, <2>2
<1>10. ExactOf(p)'
  <2>1. runtime[p] \notin Loading
    BY <1>2, Kinds
  <2>2. Selects(runtime[p])'
    BY <1>2, <1>3 DEF Selects, FramesSelect
  <2>. QED BY <2>1, <2>2, <1>3, <1>8, <1>9 DEF ExactOf
<1>11. /\ \A q \in Runtimes \ {p} : Untouched(q)
       /\ \A x \in Paths \ Writes(p) : files'[x] = files[x]
  <2>1. path \in Writes(p)
    BY <1>1, <1>2 DEF Writes
  <2>. QED BY <2>1, <1>2, <1>3, <1>5 DEF Untouched, TypeOK
<1>12. Uses(p)' \subseteq Uses(p) /\ Writes(p)' \subseteq Writes(p)
  BY <1>1, <1>3, <1>7 DEF Uses, Writes
<1>. QED BY <1>1, <1>6, <1>10, <1>11, <1>12, UsesNoMore, ExactStep

LEMMA CleanUpExact ==
  ASSUME IInv, NEW p \in Runtimes, CleanUp(p)
  PROVE  IInv'
<1>1. ShapeInv'
  BY ExactParts, CleanUpShape
<1>2. Nowhere \notin Saves /\ Nowhere.phase = "none"
  BY DEF Nowhere, Saves
<1>. QED BY <1>1, <1>2, SaveStepExact DEF CleanUp

LEMMA SavedExact ==
  ASSUME IInv, NEW p \in Runtimes, Saved(p)
  PROVE  IInv'
<1>1. PICK backing \in {runtime[p].backing, NewBacking(p)} :
        runtime' = [runtime EXCEPT ![p] = WithBacking(runtime[p], backing)]
  BY ExactParts, SavedDefinition
<1> DEFINE next == WithBacking(runtime[p], backing)
<1>2. ShapeInv' /\ save[p].phase = "published" /\ FilesAreWhole
  BY ExactParts, SavedShape, SavedDefinition
<1>3. /\ TypeOK /\ save[p] \in Saves /\ runtime[p] \in ReadyRuntimes
      /\ save[p].path \in Paths
      /\ Selects(runtime[p]) /\ BackedExactly(runtime[p]) /\ SavesExactly(p)
      /\ save[p].history = runtime[p].history
  BY <1>2, SavingRuntime
<1>4. save' = [save EXCEPT ![p] = Nowhere] /\ UNCHANGED <<files, temp>>
  BY ExactParts, SavedDefinition
<1>5. /\ next.phase = "ready" /\ next.scope = runtime[p].scope /\ next.backing = backing
      /\ next.native = runtime[p].native /\ next.history = runtime[p].history
      /\ next.undo = runtime[p].undo
  BY DEF WithBacking
<1> HIDE DEF next
<1>6. /\ runtime'[p] = next /\ save'[p] = Nowhere
      /\ \A q \in Runtimes \ {p} : Untouched(q)
  BY <1>1, <1>3, <1>4 DEF TypeOK, Untouched, next
<1>7. Selects(next)
  BY <1>3, <1>5 DEF Selects, FramesSelect
<1>8. BackedExactly(next)
  <2>1. CASE backing = runtime[p].backing
    BY <2>1, <1>3, <1>5 DEF BackedExactly
  <2>2. CASE backing # runtime[p].backing /\ Backed(p)
    <3>1. backing = save[p].path
      BY <2>2 DEF NewBacking
    <3>2. files[backing] = File(p, runtime[p].history.makes)
      BY <3>1, <1>2, <1>3 DEF SavesExactly
    <3>3. files[backing] \in Files
      <4>1. files[backing] # Nowhere
        BY <3>2 DEF File, Nowhere
      <4>. QED BY <4>1, <3>1, <1>3 DEF TypeOK
    <3>4. AgreeOutside(files[backing].native, runtime[p].history.makes, runtime[p].scope)
      BY <3>2 DEF File, AgreeOutside
    <3>. QED BY <3>1, <3>3, <3>4, <1>3, <1>5, CheckpointAssumption DEF BackedExactly
  <2>3. backing # runtime[p].backing => Backed(p)
    BY DEF NewBacking, Backed
  <2>. QED BY <2>1, <2>2, <2>3
<1>9. Nowhere.phase = "none" /\ Nowhere \notin Saves
  BY DEF Nowhere, Saves
<1>10. ExactOf(p)'
  <2>1. next \notin Loading
    BY <1>5 DEF Loading
  <2>2. Selects(runtime[p])' /\ BackedExactly(runtime[p])'
    BY <1>4, <1>6, <1>7, <1>8 DEF Selects, FramesSelect, BackedExactly
  <2>. QED BY <2>1, <2>2, <1>6, <1>9 DEF ExactOf
<1>11. FilesAreWhole'
  BY <1>2, <1>4 DEF FilesAreWhole, Exists
<1>12. Writes(p)' \subseteq Writes(p) /\ Uses(p)' \subseteq Uses(p)
  <2>1. backing \in {runtime[p].backing, save[p].path, None}
    BY DEF NewBacking
  <2>2. \A x \in Paths : x = runtime[p].backing \/ x = save[p].path => x \in Uses(p)
    BY <1>2, <1>3, ReadyFields DEF Uses
  <2>. QED BY <2>1, <2>2, <1>5, <1>6, <1>9, CheckpointAssumption DEF Uses, Writes
<1>. QED BY <1>2, <1>4, <1>6, <1>10, <1>11, <1>12, UsesNoMore, ExactStep

LEMMA ExactInitially == Init => IInv
<1> SUFFICES ASSUME Init PROVE IInv
  OBVIOUS
<1>1. /\ \A p \in Runtimes : runtime[p] = Nowhere /\ save[p] = Nowhere
      /\ \A path \in Paths : files[path] = Nowhere
  BY DEF Init
<1>2. ShapeInv /\ TypeOK
  BY ShapeInitially DEF ShapeInv
<1>3. Nowhere.phase = "none" /\ Nowhere \notin Loading \cup ReadyRuntimes \cup Saves
  BY DEF Nowhere, Loading, ReadyRuntimes, Saves
<1>4. FilesAreWhole /\ Apart /\ AllExact
  BY <1>1, <1>3 DEF FilesAreWhole, Exists, Apart, Uses, Writes, AllExact, ExactOf
<1>. QED BY <1>2, <1>4, ExactByRuntime

LEMMA ExactPreserved == Exclusive /\ IInv /\ [Next]_vars => IInv'
<1> SUFFICES ASSUME Exclusive, IInv, [Next]_vars PROVE IInv'
  OBVIOUS
<1>1. CASE UNCHANGED vars
  <2>1. UNCHANGED <<files, temp, runtime, save>>
    BY <1>1 DEF vars
  <2>2. ShapeInv'
    BY <1>1, ShapePreserved DEF IInv
  <2>. QED
    BY <2>1, <2>2
       DEF IInv, FilesAreWhole, Exists, RuntimesAreSelections, FramesAreSelections,
           LoadsAreStable, BackingAgrees, Backed, SavesAreExact, File, SavesAreAlone,
           UsedByOther
<1>2. ASSUME NEW p \in Runtimes, Create(p) PROVE IInv'
  BY <1>2, CreateExact
<1>3. ASSUME NEW p \in Runtimes, BeginLoad(p) PROVE IInv'
  BY <1>3, BeginLoadExact
<1>4. ASSUME NEW p \in Runtimes, RestoreCheckpoint(p) PROVE IInv'
  BY <1>4, RestoreExact
<1>5. ASSUME NEW p \in Runtimes, LoadFails(p) PROVE IInv'
  BY <1>5, NowhereExact
<1>6. ASSUME NEW p \in Runtimes, NEW undoably \in BOOLEAN, Review(p, undoably) PROVE IInv'
  BY <1>6, ReviewExact
<1>7. ASSUME NEW p \in Runtimes, UndoLast(p) PROVE IInv'
  BY <1>7, UndoExact
<1>8. ASSUME NEW p \in Runtimes, Crash(p) PROVE IInv'
  BY <1>8, CrashExact
<1>9. ASSUME NEW p \in Runtimes, BeginSave(p) PROVE IInv'
  BY <1>9, BeginSaveExact
<1>10. ASSUME NEW p \in Runtimes, SaveStep(p) PROVE IInv'
  BY <1>10, WriteExact, OpenBackingExact, WriteMergedExact, SaveFailsExact, PublishExact,
     CleanUpExact, SavedExact DEF SaveStep
<1>. QED
  BY <1>1, <1>2, <1>3, <1>4, <1>5, <1>6, <1>7, <1>8, <1>9, <1>10 DEF Next

LEMMA CheckpointInvariantHolds == Exclusive /\ Spec => []IInv
<1> SUFFICES ASSUME Exclusive PROVE Spec => []IInv
  OBVIOUS
<1>1. IInv /\ [Next]_vars => IInv'
  BY ExactPreserved
<1>. QED BY <1>1, ExactInitially, PTL DEF Spec

\* While clients do not publish over a file another runtime uses: whatever is
\* found under a path is complete, and its state is the one that its history
\* makes, of all identities, though each runtime that wrote to it may have had
\* only some of them (checkpoint_bin.rs: write_merged_runtime_state_bin_v2;
\* rust.py: _save_checkpoint).
THEOREM PublishedFilesAreWhole == Exclusive /\ Spec => []FilesAreWhole
BY CheckpointInvariantHolds, PTL DEF IInv

\* While clients do not publish over a file another runtime uses: a runtime that
\* loaded some cards of a file, reviewed them, undid reviews and saved, has of
\* them what a runtime has that loaded them all, and draws what it would draw
\* (bindings.rs: filter_runtime_state; checkpoint_bin.rs: the selected reads).
THEOREM SelectionsFollowTheWhole == Exclusive /\ Spec => []RuntimesAreSelections
BY CheckpointInvariantHolds, PTL DEF IInv
===============================================================================
