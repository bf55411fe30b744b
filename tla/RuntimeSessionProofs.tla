------------------------ MODULE RuntimeSessionProofs ------------------------
(***************************************************************************)
(* Whatever exceptional outcomes are admitted, the native undo stack stays *)
(* a suffix of history that belongs to the open session.  When none are,   *)
(* the Python bookkeeping mirrors it, and the runtime implements the       *)
(* bounded log of UndoableLog.                                             *)
(***************************************************************************)
EXTENDS RuntimeSession, SequenceTheorems, TLAPS

-------------------------------------------------------------------------------
(* Stacks.                                                                 *)

\* The length, domain and elements of a stack.
LEMMA StackFacts ==
  ASSUME NEW S, NEW q \in Seq(S)
  PROVE  /\ Len(q) \in Nat /\ DOMAIN q = 1..Len(q)
         /\ \A i \in 1..Len(q) : q[i] \in S
OBVIOUS

\* Pushing onto a stack within its limit: the newest element is the pushed
\* one, and below it are the newest old ones that still fit.
IsPush(after, q, x) ==
  /\ Len(after) = IF Len(q) = UndoLimit THEN UndoLimit ELSE Len(q) + 1
  /\ after[Len(after)] = x
  /\ Len(q) < UndoLimit => \A i \in 1..Len(q) : after[i] = q[i]
  /\ Len(q) = UndoLimit => \A i \in 1..(UndoLimit - 1) : after[i] = q[i + 1]

LEMMA PushedFacts ==
  ASSUME NEW S, NEW q \in Seq(S), NEW x \in S,
         UndoLimit \in Nat \ {0}, Len(q) <= UndoLimit
  PROVE  Pushed(q, x) \in Seq(S) /\ IsPush(Pushed(q, x), q, x)
<1> DEFINE grown == Append(q, x)
<1>1. /\ grown \in Seq(S) /\ grown # <<>>
      /\ Len(grown) = Len(q) + 1
      /\ \A i \in 1..Len(q) : grown[i] = q[i]
      /\ grown[Len(q) + 1] = x
  BY AppendProperties
<1>2. /\ Tail(grown) \in Seq(S)
      /\ Len(Tail(grown)) = Len(grown) - 1
      /\ \A i \in 1..Len(Tail(grown)) : Tail(grown)[i] = grown[i + 1]
  BY <1>1, HeadTailProperties
<1>3. Len(q) \in Nat
  OBVIOUS
<1>4. Pushed(q, x) = IF Len(grown) > UndoLimit THEN Tail(grown) ELSE grown
  BY DEF Pushed
<1> HIDE DEF grown
<1>5. CASE Len(q) = UndoLimit
  <2>1. Pushed(q, x) = Tail(grown)
    BY <1>1, <1>3, <1>4, <1>5
  <2> QED BY <2>1, <1>1, <1>2, <1>3, <1>5 DEF IsPush
<1>6. CASE Len(q) < UndoLimit
  <2>1. Pushed(q, x) = grown
    BY <1>1, <1>3, <1>4, <1>6
  <2> QED BY <2>1, <1>1, <1>3, <1>6 DEF IsPush
<1> QED BY <1>3, <1>5, <1>6

\* Taking the newest element off a stack.
LEMMA OlderFacts ==
  ASSUME NEW S, NEW q \in Seq(S), q # <<>>
  PROVE  /\ Older(q) \in Seq(S)
         /\ Len(Older(q)) = Len(q) - 1
         /\ \A i \in 1..(Len(q) - 1) : Older(q)[i] = q[i]
         /\ Newest(q) \in S
<1>1. Len(q) \in Nat /\ Len(q) # 0 /\ \A i \in 1..Len(q) : q[i] \in S
  BY EmptySeq, StackFacts
<1>2. \A i \in 1..(Len(q) - 1) : q[i] \in S
  BY <1>1
<1> DEFINE n == Len(q) - 1
<1>n. n \in Int /\ 1 \in Int
  BY <1>1
<1>m. \A i \in 1..n : q[i] \in S
  BY <1>2
<1> HIDE DEF n
<1>3. /\ SubSeq(q, 1, n) \in Seq(S)
      /\ Len(SubSeq(q, 1, n)) = IF 1 <= n THEN n - 1 + 1 ELSE 0
      /\ \A i \in 1..(n - 1 + 1) : SubSeq(q, 1, n)[i] = q[1 + i - 1]
  BY <1>n, <1>m, SubSeqProperties
<1>e. Older(q) = SubSeq(q, 1, n)
  BY DEF Older, n
<1>k. Len(q) = n + 1 /\ n >= 0
  BY <1>1 DEF n
<1>4. Newest(q) \in S
  BY <1>1 DEF Newest
<1>5. Len(Older(q)) = n
  BY <1>n, <1>k, <1>3, <1>e
<1>6. \A i \in 1..n : Older(q)[i] = q[i]
  BY <1>n, <1>3, <1>e
<1>7. Older(q) \in Seq(S)
  BY <1>3, <1>e
<1> QED BY <1>4, <1>5, <1>6, <1>7 DEF n

\* Undoing an appended review gives the sequence it was appended to.
LEMMA OlderOfAppend ==
  ASSUME NEW S, NEW q \in Seq(S), NEW x \in S
  PROVE  Append(q, x) # <<>> /\ Older(Append(q, x)) = q
<1> DEFINE grown == Append(q, x)
           older == Older(grown)
<1>1. /\ grown \in Seq(S) /\ grown # <<>> /\ Len(grown) = Len(q) + 1
      /\ \A i \in 1..Len(q) : grown[i] = q[i]
  BY AppendProperties
<1> HIDE DEF grown
<1>2. /\ older \in Seq(S) /\ Len(older) = Len(grown) - 1
      /\ \A i \in 1..(Len(grown) - 1) : older[i] = grown[i]
  BY <1>1, OlderFacts
<1> HIDE DEF older
<1>3. Len(q) \in Nat
  BY StackFacts
<1>4. Len(older) = Len(q) /\ \A i \in 1..Len(older) : older[i] = q[i]
  BY <1>1, <1>2, <1>3
<1>5. older = q
  BY <1>2, <1>4, SeqEqual
<1> QED BY <1>1, <1>5 DEF grown, older

-------------------------------------------------------------------------------
(* Types.                                                                  *)

\* The types of the native undo stack and of the metadata stack, which the
\* actions below rebuild.
StacksOK ==
  /\ model \in Seq(Reviews) /\ described \in Seq(Reviews)
  /\ frames \in Seq(UndoFrame) /\ Len(frames) <= UndoLimit
  /\ metas \in Seq(Seq(Reviews)) /\ Len(metas) <= UndoLimit

\* The types of what says which session is open.
TokensOK ==
  /\ live \in Nat /\ pending \in Nat /\ nextToken \in Nat \ {0} /\ handle \in Nat
  /\ stage \in {"idle", "staged", "built"}
  /\ orphans \in [Orphans -> Nat]

\* The type invariant is the conjunction of the two.
LEMMA TypeOKParts == TypeOK <=> StacksOK /\ TokensOK
BY DEF TypeOK, StacksOK, TokensOK

\* A stack a step empties keeps its type.
LEMMA EmptyStack ==
  ASSUME NEW S
  PROVE  <<>> \in Seq(S) /\ Len(<<>>) <= UndoLimit
BY EmptySeq, RuntimeAssumption

\* An answer's native half keeps the native stack's type.
LEMMA CommitAnswerTypes ==
  ASSUME StacksOK, TokensOK, NEW review \in Reviews, CommitAnswer(review)
  PROVE  /\ model' \in Seq(Reviews)
         /\ frames' \in Seq(UndoFrame) /\ Len(frames') <= UndoLimit
<1>1. model' \in Seq(Reviews)
  BY DEF StacksOK, CommitAnswer
<1> DEFINE frame == [token |-> handle, model |-> model]
<1>2. frame \in UndoFrame
  BY DEF StacksOK, TokensOK, UndoFrame
<1>3. frames' = Pushed(frames, frame) /\ UndoLimit \in Nat \ {0}
  BY RuntimeAssumption DEF CommitAnswer
<1>4. frames \in Seq(UndoFrame) /\ Len(frames) <= UndoLimit
  BY DEF StacksOK
<1> HIDE DEF frame
<1>p. Pushed(frames, frame) \in Seq(UndoFrame) /\ IsPush(Pushed(frames, frame), frames, frame)
  BY <1>2, <1>3, <1>4, PushedFacts
<1>5. /\ Pushed(frames, frame) \in Seq(UndoFrame)
      /\ Len(Pushed(frames, frame)) =
           IF Len(frames) = UndoLimit THEN UndoLimit ELSE Len(frames) + 1
  BY <1>p DEF IsPush
<1>6. Len(frames) \in Nat
  BY <1>4, StackFacts
<1> QED BY <1>1, <1>3, <1>4, <1>5, <1>6

\* Every action keeps the types of the stacks.
LEMMA StacksStep ==
  ASSUME StacksOK, TokensOK, Next
  PROVE  StacksOK'
<1>e. /\ <<>> \in Seq(UndoFrame) /\ <<>> \in Seq(Seq(Reviews))
      /\ Len(<<>>) <= UndoLimit
  BY EmptyStack
<1>1. ASSUME NEW batch \in Batches, NEW reached \in BOOLEAN, NEW lost \in BOOLEAN,
             Process(batch, reached, lost)
      PROVE  StacksOK'
  <2>1. batch \in Seq(Reviews)
    BY RuntimeAssumption
  <2>2. model' \in Seq(Reviews) /\ described' \in Seq(Reviews)
    BY <1>1, <2>1, ConcatProperties DEF Process, StacksOK
  <2>3. metas' \in Seq(Seq(Reviews)) /\ Len(metas') <= UndoLimit
    BY <1>1, <1>e DEF Process
  <2>4. frames' \in Seq(UndoFrame) /\ Len(frames') <= UndoLimit
    BY <1>1, <1>e DEF Process, KeptByProcess, StacksOK
  <2> QED BY <2>2, <2>3, <2>4 DEF StacksOK
<1>2. CASE ProcessRefused
  BY <1>2, <1>e DEF ProcessRefused, StacksOK
<1>3. ASSUME NEW review \in Reviews, Answer(review)
      PROVE  StacksOK'
  <2>1. CommitAnswer(review)
    BY <1>3 DEF Answer
  <2>2. described' \in Seq(Reviews)
    BY <1>3 DEF Answer, StacksOK
  <2>3. UndoLimit \in Nat \ {0}
    BY <2>1, RuntimeAssumption DEF CommitAnswer
  <2>4. /\ metas' = Pushed(metas, described) /\ described \in Seq(Reviews)
        /\ metas \in Seq(Seq(Reviews)) /\ Len(metas) <= UndoLimit
    BY <1>3 DEF Answer, StacksOK
  <2>p. /\ Pushed(metas, described) \in Seq(Seq(Reviews))
        /\ IsPush(Pushed(metas, described), metas, described)
    BY <2>3, <2>4, PushedFacts
  <2>5. /\ Pushed(metas, described) \in Seq(Seq(Reviews))
        /\ Len(Pushed(metas, described)) =
             IF Len(metas) = UndoLimit THEN UndoLimit ELSE Len(metas) + 1
    BY <2>p DEF IsPush
  <2>6. Len(metas) \in Nat
    BY <2>4, StackFacts
  <2>7. metas' \in Seq(Seq(Reviews)) /\ Len(metas') <= UndoLimit
    BY <2>3, <2>4, <2>5, <2>6
  <2> QED BY <2>1, <2>2, <2>7, CommitAnswerTypes DEF StacksOK
<1>4. ASSUME NEW review \in Reviews, AnswerLost(review) \/ AnswerInterrupted(review)
      PROVE  StacksOK'
  <2>1. CommitAnswer(review) /\ UNCHANGED <<described, metas>>
    BY <1>4 DEF AnswerLost, AnswerInterrupted, python
  <2> QED BY <2>1, CommitAnswerTypes DEF StacksOK
<1>5. CASE UndoLast
  <2>1. /\ frames # <<>> /\ metas # <<>>
        /\ frames \in Seq(UndoFrame) /\ metas \in Seq(Seq(Reviews))
    BY <1>5 DEF UndoLast, NativeUndoAvailable, StacksOK
  <2>2. /\ Older(frames) \in Seq(UndoFrame) /\ Len(Older(frames)) = Len(frames) - 1
        /\ Newest(frames) \in UndoFrame
    BY <2>1, OlderFacts
  <2>3. /\ Older(metas) \in Seq(Seq(Reviews)) /\ Len(Older(metas)) = Len(metas) - 1
        /\ Newest(metas) \in Seq(Reviews)
    BY <2>1, OlderFacts
  <2>4. Len(frames) \in Nat /\ Len(metas) \in Nat /\ UndoLimit \in Nat
    BY <2>1, StackFacts, RuntimeAssumption
  <2>5. model' \in Seq(Reviews) /\ described' \in Seq(Reviews)
    BY <1>5, <2>2, <2>3 DEF UndoLast, UndoFrame
  <2>6. Len(frames) - 1 <= UndoLimit /\ Len(metas) - 1 <= UndoLimit
    BY <2>4 DEF StacksOK
  <2>7. frames' \in Seq(UndoFrame) /\ Len(frames') <= UndoLimit
    BY <1>5, <1>e, <2>2, <2>6 DEF UndoLast, FramesAfterUndo
  <2>8. metas' \in Seq(Seq(Reviews)) /\ Len(metas') <= UndoLimit
    BY <1>5, <1>e, <2>3, <2>6 DEF UndoLast
  <2> QED BY <2>5, <2>7, <2>8 DEF StacksOK
<1>6. CASE UndoRefused
  BY <1>6, <1>e DEF UndoRefused, StacksOK
<1>7. CASE Create \/ AbortConversion \/ LeakPending \/ BuildFacade
  BY <1>7 DEF Create, AbortConversion, LeakPending, BuildFacade, native, StacksOK
<1>8. CASE Finalize
  BY <1>8, <1>e DEF Finalize, InstallPending, StacksOK
<1>9. ASSUME NEW k \in Orphans, FinalizeInterrupted(k) \/ AbortBuilt(k)
      PROVE  StacksOK'
  BY <1>9, <1>e DEF FinalizeInterrupted, AbortBuilt, Abandon, InstallPending, StacksOK
<1>10. ASSUME NEW k \in Orphans, FinalizeOrphan(k)
       PROVE  StacksOK'
  BY <1>10, <1>e DEF FinalizeOrphan, NativeClose, StacksOK
<1>11. CASE Close
  BY <1>11, <1>e DEF Close, NativeClose, StacksOK
<1>12. CASE CloseElsewhere
  BY <1>12, <1>e DEF CloseElsewhere, native, StacksOK
<1>13. CASE ReplaceCandidates
  BY <1>13, <1>e DEF ReplaceCandidates, StacksOK
<1> QED BY <1>1, <1>2, <1>3, <1>4, <1>5, <1>6, <1>7, <1>8, <1>9, <1>10, <1>11,
           <1>12, <1>13 DEF Next

\* Every action keeps the types of the tokens.
LEMMA TokensStep ==
  ASSUME TokensOK, Next
  PROVE  TokensOK'
<1> NoSession \in Nat /\ 1 \in Nat \ {0}
  BY DEF NoSession
<1> USE DEF TokensOK
<1>1. ASSUME NEW batch \in Batches, NEW reached \in BOOLEAN, NEW lost \in BOOLEAN,
             Process(batch, reached, lost)
      PROVE  TokensOK'
  BY <1>1 DEF Process
<1>2. CASE ProcessRefused \/ UndoLast \/ UndoRefused
  BY <1>2 DEF ProcessRefused, UndoLast, UndoRefused
<1>3. ASSUME NEW review \in Reviews,
             Answer(review) \/ AnswerLost(review) \/ AnswerInterrupted(review)
      PROVE  TokensOK'
  BY <1>3 DEF Answer, AnswerLost, AnswerInterrupted, CommitAnswer, python
<1>4. CASE Create
  BY <1>4 DEF Create, AtLeastOne
<1>5. CASE AbortConversion
  BY <1>5 DEF AbortConversion
<1>6. CASE LeakPending \/ BuildFacade
  BY <1>6 DEF LeakPending, BuildFacade, native
<1>7. ASSUME InstallPending
      PROVE  live' \in Nat /\ pending' \in Nat /\ nextToken' \in Nat \ {0}
  BY <1>7 DEF InstallPending, AtLeastOne
<1>8. ASSUME NEW k \in Orphans, Abandon(k)
      PROVE  stage' = "idle" /\ handle' \in Nat /\ orphans' \in [Orphans -> Nat]
  BY <1>8 DEF Abandon
<1>9. CASE Finalize
  BY <1>9, <1>7 DEF Finalize
<1>10. ASSUME NEW k \in Orphans, FinalizeInterrupted(k)
       PROVE  TokensOK'
  BY <1>10, <1>7, <1>8 DEF FinalizeInterrupted
<1>11. ASSUME NEW k \in Orphans, AbortBuilt(k)
       PROVE  TokensOK'
  BY <1>11, <1>8 DEF AbortBuilt
<1>12. ASSUME NEW k \in Orphans, FinalizeOrphan(k)
       PROVE  TokensOK'
  BY <1>12 DEF FinalizeOrphan, NativeClose
<1>13. CASE Close
  BY <1>13 DEF Close, NativeClose
<1>14. CASE CloseElsewhere
  BY <1>14 DEF CloseElsewhere, native
<1>15. CASE ReplaceCandidates
  BY <1>15 DEF ReplaceCandidates
<1> QED BY <1>1, <1>2, <1>3, <1>4, <1>5, <1>6, <1>9, <1>10, <1>11, <1>12, <1>13,
           <1>14, <1>15 DEF Next

\* The type invariant holds in every instance, whatever faults it admits.
THEOREM RuntimeTypeCorrect == Spec => []TypeOK
<1>1. Init => StacksOK /\ TokensOK
  <2> SUFFICES ASSUME Init PROVE StacksOK /\ TokensOK
    OBVIOUS
  <2>1. StacksOK
    BY EmptyStack DEF Init, StacksOK
  <2>2. TokensOK
    BY DEF Init, TokensOK, NoSession
  <2> QED BY <2>1, <2>2
<1>2. StacksOK /\ TokensOK /\ [Next]_vars => (StacksOK /\ TokensOK)'
  <2>1. CASE UNCHANGED vars
    BY <2>1 DEF vars, StacksOK, TokensOK
  <2> QED BY <2>1, StacksStep, TokensStep
<1>3. StacksOK /\ TokensOK => TypeOK
  BY TypeOKParts
<1> QED BY <1>1, <1>2, <1>3, PTL DEF Spec

-------------------------------------------------------------------------------
(* The native undo stack.                                                  *)

\* The invariant of the native side, which no fault in Python disturbs.
NativeInv ==
  /\ StacksOK /\ TokensOK
  /\ FramesBelongToSession
  /\ PendingExcludesLive
  /\ UndoRemovesOneReview

\* What a step may do to the native stack, the model and the open session.
KeepsFrames == frames' = frames /\ model' = model /\ live' = live
DropsFrames == frames' = <<>>
PushesFrame == \E review \in Reviews : CommitAnswer(review)
PopsFrame ==
  /\ frames # <<>>
  /\ frames' = Older(frames) /\ model' = Newest(frames).model /\ live' = live

\* Every step does one of the four.
LEMMA NativeStackSteps ==
  ASSUME StacksOK, TokensOK, Next
  PROVE  KeepsFrames \/ DropsFrames \/ PushesFrame \/ PopsFrame
<1>1. ASSUME NEW batch \in Batches, NEW reached \in BOOLEAN, NEW lost \in BOOLEAN,
             Process(batch, reached, lost)
      PROVE  KeepsFrames \/ DropsFrames
  <2>1. CASE metas # <<>> \/ reached
    BY <1>1, <2>1 DEF Process, KeptByProcess, DropsFrames
  <2>2. CASE ~(metas # <<>> \/ reached)
    <3>1. batch = <<>> /\ model \in Seq(Reviews)
      BY <1>1, <2>2 DEF Process, StacksOK
    <3>2. model \o <<>> = model
      BY <3>1, ConcatEmptySeq
    <3> QED BY <1>1, <2>2, <3>1, <3>2 DEF Process, KeptByProcess, KeepsFrames
  <2> QED BY <2>1, <2>2
<1>2. ASSUME ProcessRefused \/ UndoRefused \/ Create \/ AbortConversion
      PROVE  KeepsFrames
  BY <1>2 DEF ProcessRefused, UndoRefused, Create, AbortConversion, KeepsFrames
<1>3. ASSUME LeakPending \/ BuildFacade \/ CloseElsewhere
      PROVE  KeepsFrames
  BY <1>3 DEF LeakPending, BuildFacade, CloseElsewhere, native, KeepsFrames
<1>4. ASSUME NEW review \in Reviews,
             Answer(review) \/ AnswerLost(review) \/ AnswerInterrupted(review)
      PROVE  PushesFrame
  BY <1>4 DEF Answer, AnswerLost, AnswerInterrupted, PushesFrame
<1>5. CASE UndoLast
  BY <1>5 DEF UndoLast, NativeUndoAvailable, FramesAfterUndo, DropsFrames, PopsFrame
<1>6. ASSUME Finalize \/ ReplaceCandidates
      PROVE  DropsFrames
  BY <1>6 DEF Finalize, InstallPending, ReplaceCandidates, DropsFrames
<1>7. ASSUME NEW k \in Orphans, FinalizeInterrupted(k) \/ AbortBuilt(k) \/ FinalizeOrphan(k)
      PROVE  KeepsFrames \/ DropsFrames
  BY <1>7 DEF FinalizeInterrupted, AbortBuilt, FinalizeOrphan, InstallPending,
              NativeClose, KeepsFrames, DropsFrames
<1>8. CASE Close
  BY <1>8 DEF Close, NativeClose, KeepsFrames, DropsFrames
<1> QED BY <1>1, <1>2, <1>3, <1>4, <1>5, <1>6, <1>7, <1>8 DEF Next

\* The frame an answer pushes belongs to the session the answer is given in.
LEMMA AcceptedFromSession ==
  ASSUME CallAccepted
  PROVE  live = handle
BY DEF CallAccepted, RequireNoLiveSession, LiveSessionRef

\* The native stack after an answer: a frame of the open session that saves
\* the model is on top, and below it are the old frames that still fit.
LEMMA CommittedFrames ==
  ASSUME StacksOK, TokensOK, \E review \in Reviews : CommitAnswer(review)
  PROVE  /\ frames' \in Seq(UndoFrame)
         /\ Len(frames') = IF Len(frames) = UndoLimit THEN UndoLimit ELSE Len(frames) + 1
         /\ frames'[Len(frames')].token = live
         /\ frames'[Len(frames')].model = model
         /\ Len(frames) < UndoLimit =>
              \A i \in 1..Len(frames) : frames'[i] = frames[i]
         /\ Len(frames) = UndoLimit =>
              \A i \in 1..(UndoLimit - 1) : frames'[i] = frames[i + 1]
<1> DEFINE frame == [token |-> handle, model |-> model]
<1>1. frames' = Pushed(frames, frame) /\ CallAccepted
  BY DEF CommitAnswer
<1>2. frame \in UndoFrame
  BY DEF StacksOK, TokensOK, UndoFrame
<1>3. frame.token = live /\ frame.model = model
  BY <1>1, AcceptedFromSession
<1>4. UndoLimit \in Nat \ {0}
  BY RuntimeAssumption DEF CommitAnswer
<1>5. frames \in Seq(UndoFrame) /\ Len(frames) <= UndoLimit
  BY DEF StacksOK
<1> HIDE DEF frame
<1>p. Pushed(frames, frame) \in Seq(UndoFrame) /\ IsPush(Pushed(frames, frame), frames, frame)
  BY <1>2, <1>4, <1>5, PushedFacts
<1>6. /\ Pushed(frames, frame) \in Seq(UndoFrame)
      /\ Len(Pushed(frames, frame)) =
           IF Len(frames) = UndoLimit THEN UndoLimit ELSE Len(frames) + 1
      /\ Pushed(frames, frame)[Len(Pushed(frames, frame))] = frame
      /\ Len(frames) < UndoLimit =>
           \A i \in 1..Len(frames) : Pushed(frames, frame)[i] = frames[i]
      /\ Len(frames) = UndoLimit =>
           \A i \in 1..(UndoLimit - 1) : Pushed(frames, frame)[i] = frames[i + 1]
  BY <1>p DEF IsPush
<1>7. frames' = Pushed(frames, frame)
  BY <1>1
<1> QED BY <1>3, <1>6, <1>7

\* Frames keep belonging to the open session.
LEMMA FramesBelongStep ==
  ASSUME NativeInv, Next
  PROVE  FramesBelongToSession'
<1> USE DEF NativeInv
<1>0. frames \in Seq(UndoFrame) /\ Len(frames) \in Nat /\ DOMAIN frames = 1..Len(frames)
  BY StackFacts DEF StacksOK
<1>1. CASE KeepsFrames
  BY <1>1 DEF KeepsFrames, FramesBelongToSession
<1>2. CASE DropsFrames
  BY <1>2 DEF DropsFrames, FramesBelongToSession
<1>3. CASE PushesFrame
  <2> DEFINE pushed == frames'
  <2>1. live' = live
    BY <1>3 DEF PushesFrame, CommitAnswer
  <2>2. UndoLimit \in Nat \ {0} /\ Len(frames) <= UndoLimit
    BY <1>3, RuntimeAssumption DEF PushesFrame, CommitAnswer, StacksOK
  <2>c. Len(frames) < UndoLimit \/ Len(frames) = UndoLimit
    <3>1. Len(frames) \in Nat
      BY <1>0
    <3> QED BY <2>2, <3>1
  <2>4. /\ pushed \in Seq(UndoFrame)
        /\ Len(pushed) = IF Len(frames) = UndoLimit THEN UndoLimit ELSE Len(frames) + 1
        /\ pushed[Len(pushed)].token = live
        /\ Len(frames) < UndoLimit => \A i \in 1..Len(frames) : pushed[i] = frames[i]
        /\ Len(frames) = UndoLimit => \A i \in 1..(UndoLimit - 1) : pushed[i] = frames[i + 1]
    BY <1>3, CommittedFrames DEF PushesFrame
  <2> HIDE DEF pushed
  <2>5. \A i \in 1..Len(frames) : frames[i].token = live
    BY <1>0 DEF FramesBelongToSession
  <2>6. ASSUME NEW i \in 1..Len(pushed)
        PROVE  pushed[i].token = live
    <3>1. CASE i = Len(pushed)
      BY <3>1, <2>4
    <3>2. CASE i # Len(pushed) /\ Len(frames) < UndoLimit
      <4>1. i \in 1..Len(frames)
        BY <1>0, <2>4, <3>2
      <4> QED BY <2>4, <2>5, <3>2, <4>1
    <3>3. CASE i # Len(pushed) /\ Len(frames) = UndoLimit
      <4>1. i \in 1..(UndoLimit - 1) /\ i + 1 \in 1..Len(frames)
        BY <1>0, <2>4, <3>3
      <4>2. pushed[i] = frames[i + 1]
        BY <2>4, <3>3, <4>1
      <4>3. frames[i + 1].token = live
        BY <2>5, <4>1
      <4> QED BY <4>2, <4>3
    <3> QED BY <2>c, <3>1, <3>2, <3>3
  <2>7. DOMAIN pushed = 1..Len(pushed)
    BY <2>4, StackFacts
  <2> QED BY <2>1, <2>6, <2>7 DEF FramesBelongToSession, pushed
<1>4. CASE PopsFrame
  <2>1. /\ Older(frames) \in Seq(UndoFrame) /\ Len(Older(frames)) = Len(frames) - 1
        /\ \A i \in 1..(Len(frames) - 1) : Older(frames)[i] = frames[i]
    BY <1>0, <1>4, OlderFacts DEF PopsFrame
  <2>2. DOMAIN Older(frames) = 1..(Len(frames) - 1)
    BY <2>1, StackFacts
  <2>3. \A i \in 1..(Len(frames) - 1) : frames[i].token = live
    BY <1>0 DEF FramesBelongToSession
  <2> QED BY <1>4, <2>1, <2>2, <2>3 DEF PopsFrame, FramesBelongToSession
<1> QED BY <1>1, <1>2, <1>3, <1>4, NativeStackSteps

\* No session is staged while one is open.
LEMMA PendingExcludesLiveStep ==
  ASSUME PendingExcludesLive, Next
  PROVE  PendingExcludesLive'
<1> USE DEF PendingExcludesLive
<1>1. ASSUME NEW batch \in Batches, NEW reached \in BOOLEAN, NEW lost \in BOOLEAN,
             Process(batch, reached, lost)
      PROVE  PendingExcludesLive'
  BY <1>1 DEF Process
<1>2. CASE ProcessRefused \/ UndoLast \/ UndoRefused \/ ReplaceCandidates
  BY <1>2 DEF ProcessRefused, UndoLast, UndoRefused, ReplaceCandidates
<1>3. ASSUME NEW review \in Reviews,
             Answer(review) \/ AnswerLost(review) \/ AnswerInterrupted(review)
      PROVE  PendingExcludesLive'
  BY <1>3 DEF Answer, AnswerLost, AnswerInterrupted, CommitAnswer
<1>4. CASE Create
  BY <1>4 DEF Create, RequireNoLiveSession
<1>5. CASE AbortConversion
  BY <1>5 DEF AbortConversion
<1>6. CASE LeakPending \/ BuildFacade \/ CloseElsewhere
  BY <1>6 DEF LeakPending, BuildFacade, CloseElsewhere, native
<1>7. CASE Finalize
  BY <1>7 DEF Finalize, InstallPending
<1>8. ASSUME NEW k \in Orphans, FinalizeInterrupted(k) \/ AbortBuilt(k)
      PROVE  PendingExcludesLive'
  BY <1>8 DEF FinalizeInterrupted, AbortBuilt, InstallPending
<1>9. ASSUME NEW k \in Orphans, FinalizeOrphan(k)
      PROVE  PendingExcludesLive'
  BY <1>9 DEF FinalizeOrphan, NativeClose
<1>10. CASE Close
  BY <1>10 DEF Close, NativeClose
<1> QED BY <1>1, <1>2, <1>3, <1>4, <1>5, <1>6, <1>7, <1>8, <1>9, <1>10 DEF Next

\* The stack stays a contiguous suffix of history.
LEMMA UndoRemovesOneStep ==
  ASSUME NativeInv, Next
  PROVE  UndoRemovesOneReview'
<1>0. /\ frames \in Seq(UndoFrame) /\ Len(frames) \in Nat /\ DOMAIN frames = 1..Len(frames)
      /\ model \in Seq(Reviews)
  BY StackFacts DEF NativeInv, StacksOK
<1>n. Len(frames) \in Nat
  BY <1>0
<1>1. CASE KeepsFrames
  BY <1>1 DEF NativeInv, KeepsFrames, UndoRemovesOneReview, ModelAfter
<1>2. CASE DropsFrames
  BY <1>2 DEF DropsFrames, UndoRemovesOneReview
<1> DEFINE after(i) == IF i = Len(frames) THEN model ELSE frames[i + 1].model
<1>c. \A i \in 1..Len(frames) : after(i) # <<>> /\ Older(after(i)) = frames[i].model
  BY <1>0 DEF NativeInv, UndoRemovesOneReview, ModelAfter
<1>3. CASE PushesFrame
  <2> DEFINE pushed == frames'
             afterPush(i) == IF i = Len(pushed) THEN model' ELSE pushed[i + 1].model
  <2>1. PICK review \in Reviews : model' = Append(model, review)
    BY <1>3 DEF PushesFrame, CommitAnswer
  <2>2. model' # <<>> /\ Older(model') = model
    BY <1>0, <2>1, OlderOfAppend
  <2>3. UndoLimit \in Nat \ {0} /\ Len(frames) <= UndoLimit
    BY <1>3, RuntimeAssumption DEF PushesFrame, CommitAnswer, NativeInv, StacksOK
  <2>c. Len(frames) < UndoLimit \/ Len(frames) = UndoLimit
    <3>1. Len(frames) \in Nat
      BY <1>0
    <3> QED BY <2>3, <3>1
  <2>4. /\ pushed \in Seq(UndoFrame)
        /\ Len(pushed) = IF Len(frames) = UndoLimit THEN UndoLimit ELSE Len(frames) + 1
        /\ pushed[Len(pushed)].model = model
        /\ Len(frames) < UndoLimit => \A i \in 1..Len(frames) : pushed[i] = frames[i]
        /\ Len(frames) = UndoLimit => \A i \in 1..(UndoLimit - 1) : pushed[i] = frames[i + 1]
    BY <1>3, CommittedFrames DEF PushesFrame, NativeInv
  <2>5. DOMAIN pushed = 1..Len(pushed)
    BY <2>4, StackFacts
  <2> HIDE DEF pushed
  <2>6. ASSUME NEW i \in 1..Len(pushed)
        PROVE  afterPush(i) # <<>> /\ Older(afterPush(i)) = pushed[i].model
    <3>1. CASE i = Len(pushed)
      BY <3>1, <2>2, <2>4
    <3>2. CASE i # Len(pushed) /\ Len(frames) < UndoLimit
      <4>1. i \in 1..Len(frames) /\ Len(pushed) = Len(frames) + 1
        BY <1>0, <2>4, <3>2
      <4>2. pushed[i] = frames[i]
        BY <2>4, <3>2, <4>1
      <4>3. afterPush(i) = after(i)
        <5>1. CASE i = Len(frames)
          BY <2>4, <3>2, <4>1, <5>1
        <5>2. CASE i # Len(frames)
          <6>1. i + 1 \in 1..Len(frames)
            BY <1>n, <4>1, <5>2
          <6>2. pushed[i + 1] = frames[i + 1]
            BY <2>4, <3>2, <6>1
          <6>3. afterPush(i) = pushed[i + 1].model
            BY <3>2
          <6>4. after(i) = frames[i + 1].model
            BY <5>2
          <6> QED BY <6>2, <6>3, <6>4
        <5> QED BY <5>1, <5>2
      <4> QED BY <1>c, <4>1, <4>2, <4>3
    <3>3. CASE i # Len(pushed) /\ Len(frames) = UndoLimit
      <4>1. i \in 1..(UndoLimit - 1) /\ i + 1 \in 1..Len(frames) /\ Len(pushed) = UndoLimit
        BY <1>0, <2>4, <3>3
      <4>2. pushed[i] = frames[i + 1]
        BY <2>4, <3>3, <4>1
      <4>3. afterPush(i) = after(i + 1)
        <5>1. CASE i + 1 = UndoLimit
          BY <2>4, <3>3, <4>1, <5>1
        <5>2. CASE i + 1 # UndoLimit
          <6>1. i + 1 \in 1..(UndoLimit - 1)
            BY <2>3, <4>1, <5>2
          <6>2. pushed[i + 1] = frames[(i + 1) + 1]
            BY <2>4, <3>3, <6>1
          <6> QED BY <3>3, <5>2, <6>2
        <5> QED BY <5>1, <5>2
      <4> DEFINE j == i + 1
      <4>4. j \in 1..Len(frames) /\ pushed[i] = frames[j] /\ afterPush(i) = after(j)
        BY <4>1, <4>2, <4>3
      <4> HIDE DEF j, after, afterPush
      <4> QED BY <1>c, <4>4
    <3> QED BY <2>c, <3>1, <3>2, <3>3
  <2> QED BY <2>5, <2>6 DEF UndoRemovesOneReview, ModelAfter, pushed
<1>4. CASE PopsFrame
  <2> DEFINE older == Older(frames)
             afterPop(i) == IF i = Len(older) THEN model' ELSE older[i + 1].model
  <2>1. /\ older \in Seq(UndoFrame) /\ Len(older) = Len(frames) - 1
        /\ \A i \in 1..(Len(frames) - 1) : older[i] = frames[i]
    BY <1>0, <1>4, OlderFacts DEF PopsFrame
  <2>2. DOMAIN older = 1..(Len(frames) - 1)
    BY <2>1, StackFacts
  <2>3. frames' = older /\ model' = frames[Len(frames)].model
    BY <1>4 DEF PopsFrame, Newest
  <2> HIDE DEF older
  <2>4. ASSUME NEW i \in 1..(Len(frames) - 1)
        PROVE  afterPop(i) # <<>> /\ Older(afterPop(i)) = older[i].model
    <3>0. Len(frames) \in Nat
      BY <1>0
    <3>1. i \in 1..Len(frames) /\ i # Len(frames) /\ i + 1 \in 1..Len(frames)
      BY <3>0
    <3>2. afterPop(i) = after(i)
      <4>1. CASE i = Len(frames) - 1
        BY <2>1, <2>3, <3>1, <4>1
      <4>2. CASE i # Len(frames) - 1
        <5>1. i + 1 \in 1..(Len(frames) - 1)
          BY <1>n, <4>2
        <5>2. older[i + 1] = frames[i + 1]
          BY <2>1, <5>1
        <5>3. i # Len(older)
          BY <2>1, <4>2
        <5>4. afterPop(i) = older[i + 1].model
          BY <5>3
        <5>5. after(i) = frames[i + 1].model
          BY <3>1
        <5> QED BY <5>2, <5>4, <5>5
      <4> QED BY <4>1, <4>2
    <3> HIDE DEF after, afterPop
    <3> QED BY <1>c, <2>1, <3>1, <3>2
  <2> QED BY <2>1, <2>2, <2>3, <2>4 DEF UndoRemovesOneReview, ModelAfter
<1> QED BY <1>1, <1>2, <1>3, <1>4, NativeStackSteps DEF NativeInv

\* The native invariant holds in every instance.
THEOREM NativeInvariantHolds == Spec => []NativeInv
<1>1. Init => NativeInv
  <2> SUFFICES ASSUME Init PROVE NativeInv
    OBVIOUS
  <2>1. StacksOK
    BY EmptyStack DEF Init, StacksOK
  <2>2. TokensOK
    BY DEF Init, TokensOK, NoSession
  <2>3. FramesBelongToSession /\ UndoRemovesOneReview /\ PendingExcludesLive
    BY DEF Init, FramesBelongToSession, UndoRemovesOneReview, PendingExcludesLive
  <2> QED BY <2>1, <2>2, <2>3 DEF NativeInv
<1>2. NativeInv /\ [Next]_vars => NativeInv'
  <2> SUFFICES ASSUME NativeInv, [Next]_vars PROVE NativeInv'
    OBVIOUS
  <2>1. CASE Next
    <3>1. StacksOK' /\ TokensOK'
      BY <2>1, StacksStep, TokensStep DEF NativeInv
    <3>2. FramesBelongToSession' /\ UndoRemovesOneReview'
      BY <2>1, FramesBelongStep, UndoRemovesOneStep
    <3>3. PendingExcludesLive'
      BY <2>1, PendingExcludesLiveStep DEF NativeInv
    <3> QED BY <3>1, <3>2, <3>3 DEF NativeInv
  <2>2. CASE UNCHANGED vars
    BY <2>2 DEF vars, NativeInv, StacksOK, TokensOK, FramesBelongToSession,
                PendingExcludesLive, UndoRemovesOneReview, ModelAfter
  <2> QED BY <2>1, <2>2
<1> QED BY <1>1, <1>2, PTL DEF Spec

\* Whatever faults occur, an undo frame never outlives its session.
THEOREM FramesBelong == Spec => []FramesBelongToSession
<1>1. NativeInv => FramesBelongToSession
  BY DEF NativeInv
<1> QED BY <1>1, NativeInvariantHolds, PTL

\* Whatever faults occur, a staged session and an open one never coexist.
THEOREM StagedExcludesOpen == Spec => []PendingExcludesLive
<1>1. NativeInv => PendingExcludesLive
  BY DEF NativeInv
<1> QED BY <1>1, NativeInvariantHolds, PTL

\* Whatever faults occur, each native undo takes back exactly one review.
THEOREM UndoIsOneReview == Spec => []UndoRemovesOneReview
<1>1. NativeInv => UndoRemovesOneReview
  BY DEF NativeInv
<1> QED BY <1>1, NativeInvariantHolds, PTL

-------------------------------------------------------------------------------
(* The Python bookkeeping, where no exception strikes between a native     *)
(* commit and what mirrors it.                                             *)

\* The invariant of both sides.
RuntimeInv ==
  /\ NativeInv
  /\ UndoHistoryMirrored
  /\ DescribesModel
  /\ HandleIsLive
  /\ PendingIsTransient
  /\ \A k \in Orphans : orphans[k] = NoSession

\* A plain call whose result is delivered.
Delivered(batch, reached) == Process(batch, reached, FALSE)

\* Without faults no native call is refused, and only these steps remain.
LEMMA FaultFreeSteps ==
  ASSUME RuntimeInv, Next, Faults = {}
  PROVE  \/ \E batch \in Batches, reached \in BOOLEAN : Delivered(batch, reached)
         \/ \E review \in Reviews : Answer(review)
         \/ UndoLast
         \/ Create \/ AbortConversion \/ BuildFacade \/ Finalize
         \/ Close \/ ReplaceCandidates
<1>1. ASSUME NEW batch \in Batches, NEW reached \in BOOLEAN, NEW lost \in BOOLEAN,
             Process(batch, reached, lost)
      PROVE  Delivered(batch, reached)
  <2>1. ~lost
    BY <1>1 DEF Process
  <2>2. lost = FALSE
    BY <2>1
  <2> QED BY <1>1, <2>2 DEF Delivered
<1>2. ~ProcessRefused
  BY DEF RuntimeInv, HandleIsLive, PendingIsTransient, ProcessRefused, RequireNoLiveSession
<1>3. \A review \in Reviews : ~AnswerLost(review) /\ ~AnswerInterrupted(review)
  BY DEF AnswerLost, AnswerInterrupted
<1>4. ~UndoRefused
  <2> SUFFICES ASSUME UndoRefused PROVE FALSE
    OBVIOUS
  <2>1. CallAccepted
    BY DEF RuntimeInv, HandleIsLive, PendingIsTransient, UndoRefused, CallAccepted,
           RequireNoLiveSession, LiveSessionRef
  <2>2. /\ frames \in Seq(UndoFrame) /\ metas \in Seq(Seq(Reviews)) /\ metas # <<>>
        /\ Len(frames) = Len(metas)
    BY DEF RuntimeInv, NativeInv, StacksOK, UndoHistoryMirrored, UndoRefused
  <2>3. frames # <<>> /\ Len(frames) \in DOMAIN frames
    BY <2>2, EmptySeq, StackFacts
  <2>4. Newest(frames).token = handle
    BY <2>3 DEF RuntimeInv, NativeInv, FramesBelongToSession, HandleIsLive, Newest
  <2> QED BY <2>1, <2>3, <2>4 DEF UndoRefused, NativeUndoAvailable
<1>5. ~LeakPending /\ ~CloseElsewhere
  BY DEF LeakPending, CloseElsewhere
<1>6. \A k \in Orphans : ~FinalizeInterrupted(k) /\ ~AbortBuilt(k) /\ ~FinalizeOrphan(k)
  BY DEF FinalizeInterrupted, AbortBuilt, FinalizeOrphan, RuntimeInv
<1> QED BY <1>1, <1>2, <1>3, <1>4, <1>5, <1>6 DEF Next

\* Both stacks take a frame each for the same answer.
LEMMA AnswerMirrors ==
  ASSUME RuntimeInv, NEW review \in Reviews, Answer(review)
  PROVE  UndoHistoryMirrored'
<1>1. /\ frames \in Seq(UndoFrame) /\ metas \in Seq(Seq(Reviews))
      /\ described \in Seq(Reviews)
  BY DEF RuntimeInv, NativeInv, StacksOK
<1>2. UndoLimit \in Nat \ {0} /\ Len(frames) <= UndoLimit /\ Len(metas) <= UndoLimit
  BY RuntimeAssumption DEF Answer, CommitAnswer, RuntimeInv, NativeInv, StacksOK
<1>3. Len(metas) = Len(frames) /\ \A i \in DOMAIN frames : metas[i] = frames[i].model
  BY DEF RuntimeInv, UndoHistoryMirrored
<1>4. described = model
  BY DEF RuntimeInv, DescribesModel
<1> DEFINE n == Len(frames)
           fs == frames'
           ms == metas'
<1>5. /\ fs \in Seq(UndoFrame)
      /\ Len(fs) = IF n = UndoLimit THEN UndoLimit ELSE n + 1
      /\ fs[Len(fs)].model = model
      /\ n < UndoLimit => \A i \in 1..n : fs[i] = frames[i]
      /\ n = UndoLimit => \A i \in 1..(UndoLimit - 1) : fs[i] = frames[i + 1]
  BY CommittedFrames DEF Answer, RuntimeInv, NativeInv
<1>6. metas' = Pushed(metas, described)
  BY DEF Answer
<1>7. /\ ms \in Seq(Seq(Reviews))
      /\ Len(ms) = IF Len(metas) = UndoLimit THEN UndoLimit ELSE Len(metas) + 1
      /\ ms[Len(ms)] = described
      /\ Len(metas) < UndoLimit => \A i \in 1..Len(metas) : ms[i] = metas[i]
      /\ Len(metas) = UndoLimit => \A i \in 1..(UndoLimit - 1) : ms[i] = metas[i + 1]
  <2>p. /\ Pushed(metas, described) \in Seq(Seq(Reviews))
        /\ IsPush(Pushed(metas, described), metas, described)
    BY <1>1, <1>2, PushedFacts
  <2>1. /\ Pushed(metas, described) \in Seq(Seq(Reviews))
        /\ Len(Pushed(metas, described)) =
             IF Len(metas) = UndoLimit THEN UndoLimit ELSE Len(metas) + 1
        /\ Pushed(metas, described)[Len(Pushed(metas, described))] = described
        /\ Len(metas) < UndoLimit =>
             \A i \in 1..Len(metas) : Pushed(metas, described)[i] = metas[i]
        /\ Len(metas) = UndoLimit =>
             \A i \in 1..(UndoLimit - 1) : Pushed(metas, described)[i] = metas[i + 1]
    BY <2>p DEF IsPush
  <2> QED BY <1>6, <2>1
<1>8. n \in Nat /\ DOMAIN frames = 1..n
  BY <1>1, StackFacts
<1>9. DOMAIN fs = 1..Len(fs)
  BY <1>5, StackFacts
<1>10. Len(metas) = n /\ n \in Nat /\ n <= UndoLimit /\ UndoLimit \in Nat
  BY <1>2, <1>3, <1>8
<1>11. \A i \in 1..n : metas[i] = frames[i].model
  BY <1>3, <1>8
<1> HIDE DEF n, fs, ms
<1>12. Len(ms) = Len(fs)
  BY <1>5, <1>7, <1>10
<1>13. ASSUME NEW i \in 1..Len(fs)
       PROVE  ms[i] = fs[i].model
  <2>1. CASE i = Len(fs)
    BY <1>4, <1>5, <1>7, <1>12, <2>1
  <2>2. CASE i # Len(fs) /\ n < UndoLimit
    <3>1. i \in 1..n
      BY <1>5, <1>10, <2>2
    <3>2. fs[i] = frames[i] /\ ms[i] = metas[i]
      BY <1>5, <1>7, <1>10, <2>2, <3>1
    <3> QED BY <1>11, <3>1, <3>2
  <2>3. CASE i # Len(fs) /\ n = UndoLimit
    <3>1. i \in 1..(UndoLimit - 1) /\ i + 1 \in 1..n
      BY <1>5, <1>10, <2>3
    <3>2. fs[i] = frames[i + 1] /\ ms[i] = metas[i + 1]
      BY <1>5, <1>7, <1>10, <2>3, <3>1
    <3> QED BY <1>11, <3>1, <3>2
  <2>4. n < UndoLimit \/ n = UndoLimit
    BY <1>10
  <2> QED BY <2>1, <2>2, <2>3, <2>4
<1> QED BY <1>9, <1>12, <1>13 DEF UndoHistoryMirrored, fs, ms

\* Undoing pops a frame off both stacks, and both describe the same model.
LEMMA UndoMirrors ==
  ASSUME RuntimeInv, UndoLast
  PROVE  /\ UndoHistoryMirrored' /\ DescribesModel'
         /\ metas # <<>> /\ metas' = Older(metas)
         /\ model # <<>> /\ model' = Older(model)
<1>1. /\ frames \in Seq(UndoFrame) /\ metas \in Seq(Seq(Reviews))
      /\ frames # <<>> /\ metas # <<>>
  BY DEF RuntimeInv, NativeInv, StacksOK, UndoLast, NativeUndoAvailable
<1>2. Len(metas) = Len(frames) /\ \A i \in DOMAIN frames : metas[i] = frames[i].model
  BY DEF RuntimeInv, UndoHistoryMirrored
<1>3. ~Diverged
  BY <1>2 DEF Diverged
<1>4. /\ frames' = Older(frames) /\ metas' = Older(metas)
      /\ model' = Newest(frames).model /\ described' = Newest(metas)
  BY <1>3 DEF UndoLast, FramesAfterUndo
<1> DEFINE n == Len(frames)
<1>5. n \in Nat \ {0} /\ DOMAIN frames = 1..n
  BY <1>1, EmptySeq, StackFacts
<1>6. /\ Older(frames) \in Seq(UndoFrame) /\ Len(Older(frames)) = n - 1
      /\ \A i \in 1..(n - 1) : Older(frames)[i] = frames[i]
  BY <1>1, OlderFacts
<1>7. /\ Older(metas) \in Seq(Seq(Reviews)) /\ Len(Older(metas)) = Len(metas) - 1
      /\ \A i \in 1..(Len(metas) - 1) : Older(metas)[i] = metas[i]
  BY <1>1, OlderFacts
<1>8. DOMAIN Older(frames) = 1..(n - 1)
  BY <1>6, StackFacts
<1>9. Len(metas) = n /\ \A i \in 1..n : metas[i] = frames[i].model
  BY <1>2, <1>5
<1>10. n \in DOMAIN frames /\ ModelAfter(n) = model
  BY <1>5 DEF ModelAfter
<1> HIDE DEF n
<1>11. \A i \in 1..(n - 1) : Older(metas)[i] = Older(frames)[i].model
  <2> TAKE i \in 1..(n - 1)
  <2>1. i \in 1..n
    BY <1>5
  <2>2. Older(metas)[i] = metas[i] /\ Older(frames)[i] = frames[i]
    BY <1>6, <1>7, <1>9
  <2> QED BY <1>9, <2>1, <2>2
<1>12. UndoHistoryMirrored'
  <2>1. Len(Older(metas)) = Len(Older(frames))
    BY <1>6, <1>7, <1>9
  <2> QED BY <1>4, <1>8, <1>11, <2>1 DEF UndoHistoryMirrored
<1>13. Newest(metas) = metas[n] /\ Newest(frames) = frames[n] /\ n \in 1..n
  BY <1>5, <1>9 DEF Newest, n
<1>14. DescribesModel'
  BY <1>4, <1>9, <1>13 DEF DescribesModel
<1>15. model # <<>> /\ Older(model) = frames[n].model
  BY <1>10 DEF RuntimeInv, NativeInv, UndoRemovesOneReview
<1> QED BY <1>1, <1>4, <1>12, <1>13, <1>14, <1>15

\* Without faults the Python side keeps mirroring the native one.
LEMMA MirrorStep ==
  ASSUME RuntimeInv, Next, Faults = {}
  PROVE  UndoHistoryMirrored' /\ DescribesModel'
<1>0. /\ Len(metas) = Len(frames) /\ described = model
      /\ frames \in Seq(UndoFrame) /\ metas \in Seq(Seq(Reviews))
  BY DEF RuntimeInv, NativeInv, StacksOK, UndoHistoryMirrored, DescribesModel
<1>1. ASSUME metas' = <<>>, frames' = <<>>
      PROVE  UndoHistoryMirrored'
  BY <1>1 DEF UndoHistoryMirrored
<1>2. ASSUME metas' = metas, frames' = frames, model' = model, described' = described
      PROVE  UndoHistoryMirrored' /\ DescribesModel'
  BY <1>2 DEF RuntimeInv, UndoHistoryMirrored, DescribesModel
<1>3. ASSUME NEW batch \in Batches, NEW reached \in BOOLEAN, Delivered(batch, reached)
      PROVE  UndoHistoryMirrored' /\ DescribesModel'
  <2>1. metas' = <<>> /\ model' = model \o batch /\ described' = described \o batch
    BY <1>3 DEF Delivered, Process
  <2>2. metas = <<>> => frames = <<>>
    BY <1>0, EmptySeq
  <2>3. frames' = <<>>
    BY <1>3, <2>2 DEF Delivered, Process, KeptByProcess
  <2> QED BY <1>0, <1>1, <2>1, <2>3 DEF DescribesModel
<1>4. ASSUME NEW review \in Reviews, Answer(review)
      PROVE  UndoHistoryMirrored' /\ DescribesModel'
  BY <1>0, <1>4, AnswerMirrors DEF Answer, CommitAnswer, DescribesModel
<1>5. CASE UndoLast
  BY <1>5, UndoMirrors
<1>6. CASE Create \/ AbortConversion
  BY <1>2, <1>6 DEF Create, AbortConversion
<1>7. CASE BuildFacade
  BY <1>2, <1>7 DEF BuildFacade, native
<1>8. CASE Finalize
  BY <1>0, <1>1, <1>8 DEF Finalize, InstallPending, DescribesModel
<1>9. CASE Close
  <2>1. LiveSessionRef(handle)
    BY <1>9 DEF Close, RuntimeInv, HandleIsLive, PendingIsTransient, LiveSessionRef
  <2> QED BY <1>0, <1>1, <1>9, <2>1 DEF Close, NativeClose, DescribesModel
<1>10. CASE ReplaceCandidates
  BY <1>0, <1>1, <1>10 DEF ReplaceCandidates, DescribesModel
<1> QED BY <1>3, <1>4, <1>5, <1>6, <1>7, <1>8, <1>9, <1>10, FaultFreeSteps

\* Without faults the registered facade has the open session, and a staged
\* session ends with the call that creates it.
LEMMA LifecycleStep ==
  ASSUME RuntimeInv, Next, Faults = {}
  PROVE  /\ HandleIsLive' /\ PendingIsTransient'
         /\ \A k \in Orphans : orphans'[k] = NoSession
<1> DEFINE Goal == /\ HandleIsLive' /\ PendingIsTransient'
                   /\ \A k \in Orphans : orphans'[k] = NoSession
<1>0. /\ handle = live /\ (stage = "idle" => pending = NoSession)
      /\ \A k \in Orphans : orphans[k] = NoSession
  BY DEF RuntimeInv, HandleIsLive, PendingIsTransient
<1> USE DEF HandleIsLive, PendingIsTransient
<1>1. ASSUME UNCHANGED <<handle, live, pending, stage, orphans>>
      PROVE  Goal
  BY <1>0, <1>1
<1>2. ASSUME NEW batch \in Batches, NEW reached \in BOOLEAN, Delivered(batch, reached)
      PROVE  Goal
  BY <1>1, <1>2 DEF Delivered, Process
<1>3. ASSUME NEW review \in Reviews, Answer(review)
      PROVE  Goal
  BY <1>1, <1>3 DEF Answer, CommitAnswer
<1>4. CASE UndoLast \/ ReplaceCandidates
  BY <1>1, <1>4 DEF UndoLast, ReplaceCandidates
<1>5. CASE Create
  BY <1>0, <1>5 DEF Create
<1>6. CASE AbortConversion
  BY <1>0, <1>6 DEF AbortConversion
<1>7. CASE BuildFacade
  BY <1>0, <1>7 DEF BuildFacade, native
<1>8. CASE Finalize
  BY <1>0, <1>8 DEF Finalize, InstallPending
<1>9. CASE Close
  <2>1. LiveSessionRef(handle)
    BY <1>0, <1>9 DEF Close, LiveSessionRef
  <2> QED BY <1>0, <1>9, <2>1 DEF Close, NativeClose
<1> QED BY <1>2, <1>3, <1>4, <1>5, <1>6, <1>7, <1>8, <1>9, FaultFreeSteps

\* The invariant of both sides, where no fault is admitted.
THEOREM RuntimeInvariantHolds ==
  ASSUME Faults = {}
  PROVE  Spec => []RuntimeInv
<1>1. Init => (NativeInv => RuntimeInv)
  BY DEF Init, RuntimeInv, UndoHistoryMirrored, DescribesModel, HandleIsLive,
         PendingIsTransient
<1>2. RuntimeInv /\ [Next]_vars => (NativeInv' => RuntimeInv')
  <2> SUFFICES ASSUME RuntimeInv, [Next]_vars, NativeInv' PROVE RuntimeInv'
    OBVIOUS
  <2>1. CASE Next
    <3>1. UndoHistoryMirrored' /\ DescribesModel'
      BY <2>1, MirrorStep
    <3>2. /\ HandleIsLive' /\ PendingIsTransient'
          /\ \A k \in Orphans : orphans'[k] = NoSession
      BY <2>1, LifecycleStep
    <3> QED BY <3>1, <3>2 DEF RuntimeInv
  <2>2. CASE UNCHANGED vars
    BY <2>2 DEF vars, RuntimeInv, UndoHistoryMirrored, DescribesModel, HandleIsLive,
                PendingIsTransient
  <2> QED BY <2>1, <2>2
<1> QED BY <1>1, <1>2, NativeInvariantHolds, PTL DEF Spec

\* Python's metadata stack mirrors the native undo stack.
THEOREM HistoriesMirrored ==
  ASSUME Faults = {}
  PROVE  Spec => []UndoHistoryMirrored
<1>1. RuntimeInv => UndoHistoryMirrored
  BY DEF RuntimeInv
<1> QED BY <1>1, RuntimeInvariantHolds, PTL

\* Python's metadata describes the reviews the native model has processed.
THEOREM MetadataDescribes ==
  ASSUME Faults = {}
  PROVE  Spec => []DescribesModel
<1>1. RuntimeInv => DescribesModel
  BY DEF RuntimeInv
<1> QED BY <1>1, RuntimeInvariantHolds, PTL

\* The registered facade, and only it, has the open session.
THEOREM HandleHasSession ==
  ASSUME Faults = {}
  PROVE  Spec => []HandleIsLive
<1>1. RuntimeInv => HandleIsLive
  BY DEF RuntimeInv
<1> QED BY <1>1, RuntimeInvariantHolds, PTL

-------------------------------------------------------------------------------
(* The runtime implements the bounded log.                                 *)

\* Forgetting what could be undone, with or without more reviews, is the
\* log's AnswerForGood.
LEMMA ForgettingIsForGood ==
  ASSUME model \in Seq(Reviews), NEW batch \in Seq(Reviews),
         model' = model \o batch, metas' = <<>>
  PROVE  Log!AnswerForGood
<1> DEFINE longer == model \o batch
           prefix == SubSeq(longer, 1, Len(model))
<1>1. /\ longer \in Seq(Reviews) /\ Len(longer) = Len(model) + Len(batch)
      /\ \A i \in 1..Len(model) + Len(batch) :
           longer[i] = IF i <= Len(model) THEN model[i] ELSE batch[i - Len(model)]
  BY ConcatProperties
<1>2. Len(model) \in Nat /\ Len(batch) \in Nat
  BY StackFacts
<1> HIDE DEF longer
<1>3. \A i \in 1..Len(model) : longer[i] = model[i] /\ longer[i] \in Reviews
  <2> TAKE i \in 1..Len(model)
  <2>1. i \in 1..Len(model) + Len(batch) /\ i <= Len(model)
    BY <1>2
  <2>2. longer[i] = model[i]
    BY <1>1, <2>1
  <2> QED BY <2>2, StackFacts
<1>4. 1 \in Int /\ Len(model) \in Int
  BY <1>2
<1>5. /\ SubSeq(longer, 1, Len(model)) \in Seq(Reviews)
      /\ Len(SubSeq(longer, 1, Len(model))) =
           IF 1 <= Len(model) THEN Len(model) - 1 + 1 ELSE 0
      /\ \A i \in 1..(Len(model) - 1 + 1) : SubSeq(longer, 1, Len(model))[i] = longer[1 + i - 1]
  BY <1>3, <1>4, SubSeqProperties
<1> HIDE DEF prefix
<1>6. prefix \in Seq(Reviews) /\ Len(prefix) = Len(model)
  BY <1>2, <1>5 DEF prefix
<1>7. \A i \in 1..Len(prefix) : prefix[i] = model[i]
  <2> TAKE i \in 1..Len(prefix)
  <2>1. i \in 1..Len(model) /\ i \in 1..(Len(model) - 1 + 1) /\ 1 + i - 1 = i
    BY <1>2, <1>6
  <2> QED BY <1>3, <1>5, <2>1 DEF prefix
<1>8. prefix = model
  BY <1>6, <1>7, SeqEqual
<1>9. Len(longer) >= Len(model)
  BY <1>1, <1>2
<1> QED BY <1>1, <1>8, <1>9 DEF Log!AnswerForGood, longer, prefix

\* An answer adds one review and one undoable entry, up to the limit.
LEMMA AnswerIsUndoable ==
  ASSUME RuntimeInv, NEW review \in Reviews, Answer(review)
  PROVE  Log!AnswerUndoably
<1>1. /\ metas \in Seq(Seq(Reviews)) /\ Len(metas) <= UndoLimit
      /\ described \in Seq(Reviews)
  BY DEF RuntimeInv, NativeInv, StacksOK
<1>2. UndoLimit \in Nat \ {0} /\ metas' = Pushed(metas, described)
  BY RuntimeAssumption DEF Answer, CommitAnswer
<1>p. IsPush(Pushed(metas, described), metas, described)
  BY <1>1, <1>2, PushedFacts
<1>3. Len(Pushed(metas, described)) =
        IF Len(metas) = UndoLimit THEN UndoLimit ELSE Len(metas) + 1
  BY <1>p DEF IsPush
<1>4. model' = Append(model, review)
  BY DEF Answer, CommitAnswer
<1> QED BY <1>2, <1>3, <1>4 DEF Log!AnswerUndoably

\* Without faults every behaviour of the runtime is one of the bounded log.
THEOREM RuntimeImplementsLog ==
  ASSUME Faults = {}
  PROVE  Spec => ImplementsUndoableLog
<1>1. Init => Log!Init
  BY DEF Init, Log!Init
<1>2. RuntimeInv /\ [Next]_vars => [Log!Next]_(Log!lvars)
  <2> SUFFICES ASSUME RuntimeInv, [Next]_vars PROVE [Log!Next]_(Log!lvars)
    OBVIOUS
  <2>0. model \in Seq(Reviews) /\ metas \in Seq(Seq(Reviews))
    BY DEF RuntimeInv, NativeInv, StacksOK
  <2>e. <<>> \in Seq(Reviews) /\ model \o <<>> = model
    BY <2>0, EmptySeq, ConcatEmptySeq
  <2>1. ASSUME NEW batch \in Batches, NEW reached \in BOOLEAN, Delivered(batch, reached)
        PROVE  Log!Next
    <3>1. batch \in Seq(Reviews) /\ model' = model \o batch /\ metas' = <<>>
      BY <2>1, RuntimeAssumption DEF Delivered, Process
    <3> QED BY <2>0, <3>1, ForgettingIsForGood DEF Log!Next
  <2>2. ASSUME NEW review \in Reviews, Answer(review)
        PROVE  Log!Next
    BY <2>2, AnswerIsUndoable DEF Log!Next
  <2>3. CASE UndoLast
    <3>1. /\ metas # <<>> /\ metas' = Older(metas)
          /\ model # <<>> /\ model' = Older(model)
      BY <2>3, UndoMirrors
    <3>2. Len(metas) \in Nat \ {0} /\ Len(Older(metas)) = Len(metas) - 1
      BY <2>0, <3>1, EmptySeq, OlderFacts
    <3>3. Len(metas) > 0
      BY <3>2
    <3> QED BY <3>1, <3>2, <3>3 DEF Log!Next, Log!Undo, Older
  <2>4. ASSUME model' = model, metas' = <<>>
        PROVE  Log!Next
    BY <2>0, <2>4, <2>e, ForgettingIsForGood DEF Log!Next
  <2>5. ASSUME UNCHANGED <<model, metas>>
        PROVE  UNCHANGED Log!lvars
    BY <2>5 DEF Log!lvars
  <2>6. CASE Create \/ AbortConversion
    BY <2>5, <2>6 DEF Create, AbortConversion
  <2>7. CASE BuildFacade
    BY <2>5, <2>7 DEF BuildFacade, native
  <2>8. CASE Finalize
    BY <2>4, <2>8 DEF Finalize, InstallPending
  <2>9. CASE Close
    BY <2>4, <2>9 DEF Close, NativeClose
  <2>10. CASE ReplaceCandidates
    BY <2>4, <2>10 DEF ReplaceCandidates
  <2>11. CASE UNCHANGED vars
    BY <2>5, <2>11 DEF vars
  <2> QED BY <2>1, <2>2, <2>3, <2>6, <2>7, <2>8, <2>9, <2>10, <2>11, FaultFreeSteps
<1> QED BY <1>1, <1>2, RuntimeInvariantHolds, PTL DEF Spec, ImplementsUndoableLog, Log!Spec
===============================================================================
