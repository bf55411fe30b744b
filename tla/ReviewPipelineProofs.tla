------------------------ MODULE ReviewPipelineProofs ------------------------
(***************************************************************************)
(* Proofs about the pipelined executors, for any number of stages, rows    *)
(* and keys, any capacities and any failures.                              *)
(***************************************************************************)
EXTENDS ReviewPipelineInvariant, SubsequenceProofs

-------------------------------------------------------------------------------
(* The reviews of a key.                                                     *)

LEMMA OfKeyEmpty == \A s, k : OfKey(s, k, <<>>) = <<>>
BY ChosenEmpty DEF OfKey

LEMMA OfKeyType == \A s, k : \A x \in Seq(Reviews) : OfKey(s, k, x) \in Seq(Reviews)
BY ChosenType DEF OfKey

LEMMA OfKeyConcat ==
  \A s, k : \A x, y \in Seq(Reviews) : OfKey(s, k, x \o y) = OfKey(s, k, x) \o OfKey(s, k, y)
BY ChosenConcat DEF OfKey

LEMMA ReviewsAssociate ==
  \A x, y, z \in Seq(Reviews) : (x \o y) \o z = x \o (y \o z)
BY ConcatAssociative

\* A key that none of the reviews is for.
LEMMA OfKeyNone ==
  ASSUME NEW s, NEW k, NEW x \in Seq(Reviews), \A i \in 1..Len(x) : KeyOf[s][x[i]] # k
  PROVE  OfKey(s, k, x) = <<>>
<1> DEFINE C == {r \in Reviews : KeyOf[s][r] = k}
           S == Reviews \ C
<1>1. \A i \in 1..Len(x) : x[i] \in S
  OBVIOUS
<1>2. x \in Seq(S)
  BY <1>1
<1>3. S \cap C = {}
  OBVIOUS
<1> HIDE DEF C, S
<1>4. Chosen(x, C) = <<>>
  BY <1>2, <1>3, ChosenNone
<1>. QED BY <1>4 DEF OfKey, C

\* The one state of the last stage.
LEMMA GlobalState ==
  /\ GlobalKey \in Keys
  /\ \A x \in Seq(Reviews) : OfKey(StageCount, GlobalKey, x) = x
<1>1. GlobalKey \in Keys /\ \A r \in Reviews : KeyOf[StageCount][r] = GlobalKey
  BY PipelineAssumption DEF GlobalKey
<1> DEFINE C == {r \in Reviews : KeyOf[StageCount][r] = GlobalKey}
<1>2. Reviews \subseteq C
  BY <1>1
<1> HIDE DEF C
<1>3. \A x \in Seq(Reviews) : Chosen(x, C) = x
  BY <1>2, ChosenAll
<1>. QED BY <1>1, <1>3 DEF OfKey, C

-------------------------------------------------------------------------------
(* Channels.                                                                 *)

LEMMA StatusFacts ==
  /\ NoFailure # Running /\ NoFailure # Ok /\ Running # Ok
  /\ NoFailure \notin RowErrors /\ NoFailure \in Errors
  /\ \A e \in RowErrors : e # NoFailure /\ e # Running /\ e # Ok /\ e.kind = "compute"
  /\ \A e \in Errors : e # NoFailure => e \in RowErrors
  /\ \A s \in Stages : Status("compute", s) \in RowErrors
  /\ NoFailure.kind = "none" /\ Running.kind = "running" /\ Ok.kind = "ok"
BY DEF Status, NoFailure, Running, Ok, RowErrors, Errors

LEMMA MessageFacts ==
  /\ \A n \in Nat : Row(n) \in Messages /\ Row(n).error = NoFailure /\ Row(n).row = n
  /\ \A e \in RowErrors : Failed(e) \in Messages /\ Failed(e).error = e
BY StatusFacts DEF Row, Failed, Messages, Errors

LEMMA EmptyQueue ==
  /\ <<>> \in Seq(Messages) /\ ErrorIsLast(<<>>) /\ ~HasError(<<>>) /\ RowsIn(<<>>) = 0
  /\ \A n : Follow(<<>>, n)
BY DEF ErrorIsLast, HasError, RowsIn, Follow

LEMMA RowsInNat ==
  ASSUME NEW q \in Seq(Messages)
  PROVE  RowsIn(q) \in Nat
<1>1. Len(q) \in Nat /\ (q # <<>> => Len(q) - 1 \in Nat)
  OBVIOUS
<1>. QED BY <1>1 DEF RowsIn, HasError

LEMMA AppendFacts ==
  ASSUME NEW S, NEW q \in Seq(S), NEW m \in S
  PROVE  LET p == Append(q, m) IN
         /\ p \in Seq(S) /\ Len(q) \in Nat /\ Len(p) = Len(q) + 1
         /\ p[Len(p)] = m /\ \A i \in 1..Len(q) : p[i] = q[i]
         /\ DOMAIN p = 1..Len(p) /\ DOMAIN q = 1..Len(q) /\ p # <<>>
BY AppendProperties

\* A row is sent.
LEMMA QueueRow ==
  ASSUME NEW q \in Seq(Messages), ErrorIsLast(q), ~HasError(q), NEW n \in Nat
  PROVE  LET p == Append(q, Row(n)) IN
         /\ p \in Seq(Messages) /\ ErrorIsLast(p) /\ ~HasError(p) /\ RowsIn(p) = RowsIn(q) + 1
         /\ \A t \in Nat : Follow(q, t) /\ n = t + RowsIn(q) + 1 => Follow(p, t)
<1> DEFINE p == Append(q, Row(n))
<1>1. /\ p \in Seq(Messages) /\ Len(q) \in Nat /\ Len(p) = Len(q) + 1
      /\ p[Len(p)] = Row(n) /\ \A i \in 1..Len(q) : p[i] = q[i]
      /\ DOMAIN p = 1..Len(p) /\ DOMAIN q = 1..Len(q) /\ p # <<>>
  <2>1. Row(n) \in Messages
    BY MessageFacts
  <2>. QED BY <2>1, AppendFacts
<1> HIDE DEF p
<1>2. \A i \in 1..Len(q) : q[i].error = NoFailure
  BY <1>1 DEF ErrorIsLast, HasError
<1>3. \A i \in 1..Len(p) : i \in 1..Len(q) \/ i = Len(p)
  BY <1>1
<1>4. \A i \in 1..Len(p) : p[i].error = NoFailure
  BY <1>1, <1>2, <1>3, MessageFacts
<1>5. ErrorIsLast(p) /\ ~HasError(p)
  BY <1>1, <1>4 DEF ErrorIsLast, HasError
<1>6. RowsIn(p) = RowsIn(q) + 1 /\ RowsIn(q) = Len(q)
  BY <1>1, <1>5 DEF RowsIn
<1>7. ASSUME NEW t \in Nat, Follow(q, t), n = t + RowsIn(q) + 1
      PROVE  Follow(p, t)
  <2>1. \A i \in 1..Len(q) : q[i].row = t + i
    BY <1>1, <1>2, <1>7 DEF Follow
  <2>2. p[Len(p)].row = t + Len(p)
    <3>1. n = t + Len(p)
      BY <1>1, <1>6, <1>7
    <3>. QED BY <3>1, <1>1, MessageFacts
  <2>3. \A i \in 1..Len(p) : p[i].row = t + i
    BY <1>1, <1>3, <2>1, <2>2
  <2>. QED BY <2>3, <1>1 DEF Follow
<1>. QED BY <1>1, <1>5, <1>6, <1>7 DEF p

\* An error is sent.
LEMMA QueueError ==
  ASSUME NEW q \in Seq(Messages), ErrorIsLast(q), ~HasError(q), NEW e \in RowErrors
  PROVE  LET p == Append(q, Failed(e)) IN
         /\ p \in Seq(Messages) /\ ErrorIsLast(p) /\ HasError(p) /\ RowsIn(p) = RowsIn(q)
         /\ \A t \in Nat : Follow(q, t) => Follow(p, t)
<1> DEFINE p == Append(q, Failed(e))
<1>1. /\ p \in Seq(Messages) /\ Len(q) \in Nat /\ Len(p) = Len(q) + 1
      /\ p[Len(p)] = Failed(e) /\ \A i \in 1..Len(q) : p[i] = q[i]
      /\ DOMAIN p = 1..Len(p) /\ DOMAIN q = 1..Len(q) /\ p # <<>>
  <2>1. Failed(e) \in Messages
    BY MessageFacts
  <2>. QED BY <2>1, AppendFacts
<1> HIDE DEF p
<1>2. \A i \in 1..Len(q) : q[i].error = NoFailure
  BY <1>1 DEF ErrorIsLast, HasError
<1>3. \A i \in 1..Len(p) : i \in 1..Len(q) \/ i = Len(p)
  BY <1>1
<1>4. p[Len(p)].error # NoFailure
  BY <1>1, MessageFacts, StatusFacts
<1>5. ErrorIsLast(p) /\ HasError(p)
  BY <1>1, <1>2, <1>3, <1>4 DEF ErrorIsLast, HasError
<1>6. RowsIn(p) = RowsIn(q)
  BY <1>1, <1>5 DEF RowsIn
<1>7. ASSUME NEW t \in Nat, Follow(q, t) PROVE Follow(p, t)
  BY <1>1, <1>3, <1>4, <1>7 DEF Follow
<1>. QED BY <1>1, <1>5, <1>6, <1>7 DEF p

\* A row is received.
LEMMA TakeRow ==
  ASSUME NEW q \in Seq(Messages), ErrorIsLast(q), q # <<>>, Head(q).error = NoFailure
  PROVE  /\ Head(q).row \in Nat /\ Tail(q) \in Seq(Messages)
         /\ ErrorIsLast(Tail(q)) /\ (HasError(Tail(q)) <=> HasError(q))
         /\ RowsIn(q) = RowsIn(Tail(q)) + 1
         /\ \A t \in Nat : Follow(q, t) => Head(q).row = t + 1 /\ Follow(Tail(q), t + 1)
<1> DEFINE p == Tail(q)
<1>1. /\ p \in Seq(Messages) /\ Len(q) \in Nat \ {0} /\ Len(p) = Len(q) - 1
      /\ \A i \in 1..Len(p) : p[i] = q[i + 1] /\ i + 1 \in 1..Len(q)
      /\ DOMAIN p = 1..Len(p) /\ DOMAIN q = 1..Len(q)
      /\ Head(q) = q[1] /\ q[1] \in Messages
  OBVIOUS
<1>2. Head(q).row \in Nat
  BY <1>1 DEF Messages
<1> HIDE DEF p
<1>3. p = <<>> <=> Len(p) = 0
  BY <1>1
<1>4. ErrorIsLast(p)
  <2> SUFFICES ASSUME NEW i \in 1..Len(p), i < Len(p) PROVE p[i].error = NoFailure
    BY <1>1 DEF ErrorIsLast
  <2>1. i + 1 \in 1..Len(q) /\ i + 1 < Len(q) /\ p[i] = q[i + 1]
    BY <1>1
  <2>. QED BY <2>1, <1>1 DEF ErrorIsLast
<1>5. HasError(p) <=> HasError(q)
  <2>1. CASE Len(p) = 0
    <3>1. Len(q) = 1 /\ q[Len(q)].error = NoFailure
      BY <2>1, <1>1
    <3>. QED BY <3>1, <2>1, <1>3 DEF HasError
  <2>2. CASE Len(p) # 0
    <3>1. p # <<>> /\ p[Len(p)] = q[Len(q)]
      BY <2>2, <1>1, <1>3
    <3>. QED BY <3>1 DEF HasError
  <2>. QED BY <2>1, <2>2
<1>6. RowsIn(q) = RowsIn(p) + 1
  BY <1>1, <1>5 DEF RowsIn
<1>7. ASSUME NEW t \in Nat, Follow(q, t) PROVE Head(q).row = t + 1 /\ Follow(p, t + 1)
  <2>1. Head(q).row = t + 1
    BY <1>1, <1>7 DEF Follow
  <2>2. ASSUME NEW i \in 1..Len(p), p[i].error = NoFailure PROVE p[i].row = (t + 1) + i
    <3>1. i + 1 \in 1..Len(q) /\ p[i] = q[i + 1]
      BY <1>1
    <3>2. q[i + 1].row = t + (i + 1)
      BY <3>1, <2>2, <1>1, <1>7 DEF Follow
    <3>. QED BY <3>1, <3>2
  <2>. QED BY <2>1, <2>2, <1>1 DEF Follow
<1>. QED BY <1>1, <1>2, <1>4, <1>5, <1>6, <1>7 DEF p

\* An error is received, and the channel is empty.
LEMMA TakeError ==
  ASSUME NEW q \in Seq(Messages), ErrorIsLast(q), q # <<>>, Head(q).error # NoFailure
  PROVE  Tail(q) = <<>> /\ HasError(q) /\ RowsIn(q) = 0 /\ Head(q).error \in RowErrors
<1>1. /\ Len(q) \in Nat \ {0} /\ DOMAIN q = 1..Len(q)
      /\ Head(q) = q[1] /\ q[1] \in Messages
  OBVIOUS
<1>2. Len(q) = 1
  BY <1>1 DEF ErrorIsLast
<1>3. Tail(q) = <<>>
  <2>1. Tail(q) \in Seq(Messages) /\ Len(Tail(q)) = 0
    BY <1>1, <1>2
  <2>2. \A p \in Seq(Messages) : Len(p) = 0 => p = <<>>
    OBVIOUS
  <2>. QED BY <2>1, <2>2
<1>4. HasError(q)
  BY <1>1, <1>2 DEF HasError
<1>5. RowsIn(q) = 0
  BY <1>2, <1>4 DEF RowsIn
<1>6. q[1].error \in Errors
  BY <1>1 DEF Messages
<1>. QED BY <1>1, <1>3, <1>4, <1>5, <1>6, StatusFacts

-------------------------------------------------------------------------------
(* What every step needs of the invariant.                                   *)

LEMMA StageFacts ==
  /\ StageCount \in Nat \ {0} /\ Output = StageCount + 1 /\ Output \in Nat
  /\ \A s \in Stages : s \in Nat \ {0} /\ s \in Threads /\ s - 1 \in Threads
  /\ \A s \in Stages : s \in 1..Output /\ s + 1 \in 1..Output /\ s # Output
  /\ \A s \in Stages : s # StageCount => s + 1 \in Stages
  /\ \A c \in 1..Output : c - 1 \in Threads /\ (c = Output \/ c \in Stages)
  /\ \A t \in Threads : t \in Nat /\ t + 1 \in 1..Output
  /\ \A t \in Threads : t # StageCount => t + 1 \in Stages
  /\ \A t \in Threads : t = Producer \/ t \in Stages
  /\ Producer \in Threads /\ Producer \notin Stages /\ 1 \in Stages /\ StageCount \in Stages
BY PipelineAssumption DEF Stages, Threads, Output, Producer

\* A thread runs only during a call.
LEMMA RunningCall ==
  ASSUME IInv, NEW t \in Threads, Going(t)
  PROVE  call = "running" /\ TypeOK /\ NeighboursAgree /\ RowsFlow
BY DEF IInv, CallOK

\* During a call nothing but its threads, channels and rows has to be looked at.
LEMMA CallGoesOn ==
  ASSUME IInv, call = "running",
         UNCHANGED <<authority, call, stateOnly, inputs, outcome>>,
         TypeOK', NeighboursAgree', RowsFlow'
  PROVE  IInv'
<1>1. StatesMatchFeatures'
  <2>1. Committed' = Committed
    BY DEF Committed, authority
  <2>. QED BY <2>1 DEF IInv, StatesMatchFeatures, authority
<1>2. CallOK'
  BY DEF IInv, CallOK, authority
<1>3. FailureIsReported'
  BY DEF FailureIsReported
<1>. QED BY <1>1, <1>2, <1>3 DEF IInv

\* The arithmetic of a row that moves on.
LEMMA Regroup == \A n, x \in Nat : (n + 1) + x = n + (x + 1)
OBVIOUS

LEMMA OneLess == \A n, x \in Nat : n - x = (n + 1) - (x + 1)
OBVIOUS

LEMMA TakeAndPut == \A x, y \in Nat : x - y + y = x
OBVIOUS

LEMMA ShiftByOne == \A x, y, z \in Nat : x - (y + 1) + (z + 1) = x - y + z
OBVIOUS

LEMMA PutInNat ==
  ASSUME TypeOK, NEW taken \in [1..Output -> Nat], NEW c \in 1..Output
  PROVE  Put(taken, c) \in Nat /\ taken[c] <= Put(taken, c) /\ RowsIn(channel[c]) \in Nat
<1>1. channel[c] \in Seq(Messages)
  BY DEF TypeOK
<1>. QED BY <1>1, RowsInNat DEF Put

\* A row is taken after it was sent, and folded after it was taken.
LEMMA Bounds ==
  ASSUME TypeOK, NEW taken \in [1..Output -> 0..Len(inputs)], Flow(taken)
  PROVE  /\ Len(inputs) \in Nat /\ taken \in [1..Output -> Nat]
         /\ \A c \in 1..Output : Put(taken, c) \in 0..Len(inputs)
         /\ \A s \in Stages :
              /\ Len(stage[s].rows) \in Nat
              /\ Folded(taken, s) \in 0..Len(inputs) /\ Put(taken, s + 1) <= Folded(taken, s)
              /\ Folded(taken, s) <= taken[s] /\ taken[s] <= Put(taken, s)
<1>1. Len(inputs) \in Nat
  BY DEF TypeOK
<1>2. taken \in [1..Output -> Nat]
  BY <1>1
<1>3. \A c \in 1..Output : Put(taken, c) \in Nat /\ taken[c] <= Put(taken, c)
  BY <1>2, PutInNat
<1>4. ASSUME NEW s \in Stages
      PROVE  /\ Len(stage[s].rows) \in Nat
             /\ Put(taken, s + 1) + Len(stage[s].rows) <= taken[s]
             /\ taken[s] \in 0..Len(inputs)
  <2>1. stage[s].rows \in Seq(Nat)
    BY DEF TypeOK
  <2>2. Put(taken, s + 1) + Len(stage[s].rows) <= taken[s]
    BY DEF Flow, HoldsRows
  <2>3. s \in 1..Output
    BY StageFacts
  <2>. QED BY <2>1, <2>2, <2>3
<1>5. ASSUME NEW c \in 1..Output PROVE Put(taken, c) <= Len(inputs)
  <2>1. CASE c = 1
    BY <2>1 DEF Flow
  <2>2. CASE c # 1
    <3>1. c - 1 \in Stages /\ (c - 1) + 1 = c
      BY <2>2, StageFacts DEF Stages
    <3>2. Put(taken, (c - 1) + 1) + Len(stage[c - 1].rows) <= taken[c - 1]
      BY <3>1, <1>4
    <3>3. Put(taken, c) + Len(stage[c - 1].rows) <= taken[c - 1]
      BY <3>1, <3>2
    <3>. QED BY <3>1, <3>3, <1>1, <1>3, <1>4
  <2>. QED BY <2>1, <2>2
<1>6. ASSUME NEW s \in Stages
      PROVE  /\ Folded(taken, s) \in 0..Len(inputs) /\ Put(taken, s + 1) <= Folded(taken, s)
             /\ Folded(taken, s) <= taken[s] /\ taken[s] <= Put(taken, s)
  <2>1. s \in 1..Output /\ s + 1 \in 1..Output
    BY StageFacts
  <2>. QED BY <2>1, <1>1, <1>3, <1>4 DEF Folded
<1>. QED BY <1>1, <1>2, <1>3, <1>4, <1>5, <1>6

\* The states of a stage stay right if neither they nor how far they are changes.
LEMMA StatesHeld ==
  ASSUME NEW taken, NEW taken2, NEW s \in Stages, HoldsStates(taken, s),
         detached'[s] = detached[s], Folded(taken2, s)' = Folded(taken, s),
         inputs' = inputs, journal' = journal
  PROVE  HoldsStates(taken2, s)'
<1>1. \A k \in Keys : Touches(s, k)' <=> Touches(s, k)
  BY DEF Touches
<1>. QED BY <1>1 DEF HoldsStates

\* Folding consecutive rows.
LEMMA RowsFolded ==
  ASSUME NEW s \in Stages, NEW k \in Keys, NEW rows \in Seq(Nat), NEW n \in Nat,
         inputs \in Seq(Reviews), journal \in Seq(Reviews),
         \A j \in DOMAIN rows : rows[j] = n + j, n + Len(rows) <= Len(inputs)
  PROVE  /\ Reviewed(rows) \in Seq(Reviews)
         /\ OfKey(s, k, journal \o SubSeq(inputs, 1, n + Len(rows)))
              = OfKey(s, k, journal \o SubSeq(inputs, 1, n)) \o OfKey(s, k, Reviewed(rows))
         /\ ~Touches(s, k) => OfKey(s, k, Reviewed(rows)) = <<>>
<1>1. /\ Len(rows) \in Nat /\ Len(inputs) \in Nat
      /\ DOMAIN rows = 1..Len(rows) /\ DOMAIN inputs = 1..Len(inputs)
  OBVIOUS
<1>2. \A j \in 1..Len(rows) : rows[j] \in DOMAIN inputs /\ rows[j] = n + j
  <2> TAKE j \in 1..Len(rows)
  <2>1. rows[j] = n + j
    BY <1>1
  <2>2. n + j \in 1..Len(inputs)
    BY <1>1
  <2>. QED BY <2>1, <2>2, <1>1
<1>3. \A j \in 1..Len(rows) : inputs[rows[j]] \in Reviews
  BY <1>2
<1>4. Reviewed(rows) \in Seq(Reviews) /\ Len(Reviewed(rows)) = Len(rows)
  BY <1>1, <1>3 DEF Reviewed
<1> DEFINE old == SubSeq(inputs, 1, n)
           new == SubSeq(inputs, 1, n + Len(rows))
           add == SubSeq(inputs, n + 1, n + Len(rows))
<1>5. add \in Seq(Reviews) /\ old \in Seq(Reviews) /\ Len(add) = Len(rows)
  BY <1>1
<1>6. \A j \in 1..Len(rows) : add[j] = Reviewed(rows)[j]
  <2> TAKE j \in 1..Len(rows)
  <2>1. add[j] = inputs[n + j]
    BY <1>1
  <2>2. Reviewed(rows)[j] = inputs[rows[j]]
    BY <1>1 DEF Reviewed
  <2>. QED BY <2>1, <2>2, <1>2
<1>7. Reviewed(rows) = add
  BY <1>4, <1>5, <1>6, SeqEqual
<1>8. old \o add = new
  <2>1. 1 \in 1..(Len(inputs) + 1) /\ n \in (1 - 1)..Len(inputs)
        /\ n + Len(rows) \in n..Len(inputs)
    BY <1>1
  <2>. QED BY <2>1, ConcatAdjacentSubSeq
<1> HIDE DEF old, add, new
<1>9. (journal \o old) \o add = journal \o new
  <2>1. (journal \o old) \o add = journal \o (old \o add)
    BY <1>5, ReviewsAssociate
  <2>. QED BY <2>1, <1>8
<1>10. OfKey(s, k, (journal \o old) \o add) = OfKey(s, k, journal \o old) \o OfKey(s, k, add)
  <2>1. journal \o old \in Seq(Reviews)
    BY <1>5
  <2>. QED BY <2>1, <1>5, OfKeyConcat
<1>11. ASSUME ~Touches(s, k) PROVE OfKey(s, k, Reviewed(rows)) = <<>>
  <2>1. \A j \in 1..Len(Reviewed(rows)) : KeyOf[s][Reviewed(rows)[j]] # k
    <3> TAKE j \in 1..Len(Reviewed(rows))
    <3>1. Reviewed(rows)[j] = inputs[rows[j]] /\ rows[j] \in DOMAIN inputs
      BY <1>1, <1>2, <1>4 DEF Reviewed
    <3>. QED BY <3>1, <1>11 DEF Touches
  <2>. QED BY <2>1, <1>4, OfKeyNone
<1>. QED BY <1>4, <1>7, <1>9, <1>10, <1>11 DEF old, new

-------------------------------------------------------------------------------
(* The producer.                                                             *)

LEMMA ProduceKeeps ==
  ASSUME IInv, Produce
  PROVE  IInv'
<1>1. call = "running" /\ TypeOK /\ NeighboursAgree /\ RowsFlow
  BY RunningCall, StageFacts DEF Produce, Going
<1>2. PICK taken \in [1..Output -> 0..Len(inputs)] : Flow(taken)
  BY <1>1 DEF RowsFlow
<1> DEFINE q == channel[1]
           p == Append(q, Row(sent + 1))
<1>3. /\ sent' = sent + 1 /\ sent < Len(inputs) /\ result[Producer] = Running
      /\ channel' = [channel EXCEPT ![1] = p]
      /\ UNCHANGED <<authority, call, stateOnly, inputs, detached, stage, result, rowsOut,
                     failure, outcome>>
  BY DEF Produce, Sent
<1>4. 1 \in 1..Output /\ 1 \in Stages /\ Producer = 1 - 1
  BY StageFacts DEF Producer
<1>5. q \in Seq(Messages) /\ ErrorIsLast(q) /\ ~HasError(q) /\ sent \in Nat /\ q = channel[1]
  BY <1>1, <1>3, <1>4 DEF TypeOK, NeighboursAgree, ChannelOK, Broken
<1> HIDE DEF q
<1>6. /\ p \in Seq(Messages) /\ ErrorIsLast(p) /\ ~HasError(p) /\ RowsIn(p) = RowsIn(q) + 1
      /\ \A t \in Nat : Follow(q, t) /\ sent + 1 = t + RowsIn(q) + 1 => Follow(p, t)
  <2>1. sent + 1 \in Nat
    BY <1>5
  <2>. QED BY <2>1, <1>5, QueueRow
<1> HIDE DEF p
<1>7. TypeOK'
  <2>1. channel' \in [1..Output -> Seq(Messages)]
    BY <1>1, <1>3, <1>6 DEF TypeOK
  <2>2. sent' \in Nat
    BY <1>3, <1>5
  <2>. QED BY <2>1, <2>2, <1>1, <1>3 DEF TypeOK, authority
<1>8. \A c \in 1..Output : channel'[c] = IF c = 1 THEN p ELSE channel[c]
  BY <1>1, <1>3 DEF TypeOK
<1>9. NeighboursAgree'
  <2>1. \A c \in 1..Output : ChannelOK(c)'
    <3>1. 1 # Output
      BY StageFacts
    <3>. QED BY <3>1, <1>1, <1>3, <1>6, <1>8 DEF NeighboursAgree, ChannelOK, Broken
  <2>2. \A s \in Stages : StageOK(s)'
    <3> TAKE s \in Stages
    <3>1. s = 1 => ~(stage[s].at = "finish" \/ stage[s].ended)
      BY <1>1, <1>3, <1>4 DEF NeighboursAgree, StageOK, Going
    <3>2. s # 1 => channel'[s] = channel[s]
      BY <1>8, StageFacts
    <3>. QED BY <3>1, <3>2, <1>1, <1>3 DEF NeighboursAgree, StageOK, Going, IsSink
  <2>3. \A t \in Threads : ThreadOK(t)'
    <3> TAKE t \in Threads
    <3>1. HasError(channel[t + 1]) => HasError(channel'[t + 1])
      BY <1>5, <1>8, StageFacts
    <3>2. Told(t) => Told(t)'
      BY <3>1, <1>3 DEF Told, Broken
    <3>. QED BY <3>2, <1>1, <1>3, StatusFacts DEF NeighboursAgree, ThreadOK, Broken
  <2>. QED BY <2>1, <2>2, <2>3 DEF NeighboursAgree
<1>10. \A c \in 1..Output : Put(taken, c)' = IF c = 1 THEN sent + 1 ELSE Put(taken, c)
  <2>1. Len(inputs) \in Nat /\ taken[1] \in Nat /\ RowsIn(q) \in Nat
    <3>1. RowsIn(q) \in Nat
      BY <1>5, RowsInNat
    <3>2. Len(inputs) \in Nat /\ taken \in [1..Output -> Nat]
      BY <1>1, <1>2, Bounds
    <3>. QED BY <3>1, <3>2, <1>4
  <2>2. taken[1] + RowsIn(q) = sent
    BY <1>2, <1>5 DEF Flow, Put
  <2> TAKE c \in 1..Output
  <2>3. CASE c = 1
    <3>1. Put(taken, c)' = taken[1] + RowsIn(p)
      BY <2>3, <1>8 DEF Put
    <3>. QED BY <2>1, <2>2, <2>3, <3>1, <1>6
  <2>4. CASE c # 1
    BY <2>4, <1>8 DEF Put
  <2>. QED BY <2>3, <2>4
<1>11. RowsFlow'
  <2>1. \A s \in Stages : Put(taken, s + 1)' = Put(taken, s + 1)
    BY <1>10, StageFacts
  <2>2. \A s \in Stages : HoldsRows(taken, s)'
    BY <2>1, <1>2, <1>3 DEF Flow, HoldsRows
  <2>3. \A s \in Stages : HoldsStates(taken, s)'
    <3> TAKE s \in Stages
    <3>1. Folded(taken, s)' = Folded(taken, s)
      BY <2>1, <1>3 DEF Folded
    <3>. QED BY <3>1, <1>2, <1>3, StatesHeld DEF Flow, authority
  <2>4. \A c \in 1..Output : Follow(channel'[c], taken[c])
    <3>1. taken[1] \in Nat /\ RowsIn(q) \in Nat
      <4>1. RowsIn(q) \in Nat
        BY <1>5, RowsInNat
      <4>2. taken \in [1..Output -> Nat]
        BY <1>1, <1>2, Bounds
      <4>. QED BY <4>1, <4>2, <1>4
    <3>2. sent + 1 = taken[1] + RowsIn(q) + 1
      BY <3>1, <1>2, <1>5 DEF Flow, Put
    <3>3. Follow(p, taken[1])
      BY <3>1, <3>2, <1>2, <1>4, <1>5, <1>6 DEF Flow
    <3>. QED BY <3>3, <1>2, <1>8 DEF Flow
  <2>5. Put(taken, 1)' = sent' /\ sent' <= Len(inputs')
    <3>1. Len(inputs) \in Nat
      BY <1>1 DEF TypeOK
    <3>. QED BY <3>1, <1>3, <1>4, <1>5, <1>10
  <2>6. Flow(taken)'
    BY <2>2, <2>3, <2>4, <2>5, <1>2, <1>3 DEF Flow
  <2>. QED BY <2>6, <1>3 DEF RowsFlow
<1>. QED BY <1>1, <1>3, <1>7, <1>9, <1>11, CallGoesOn

-------------------------------------------------------------------------------
(* Threads that end without sending anything.                                *)

\* What may be said of the thread that ends with v.
MayEnd(t, v) ==
  /\ v \in EndsOf(t) \ {Running}
  /\ v = Ok => \/ t = Producer /\ sent = Len(inputs)
               \/ t \in Stages /\ stage[t].at = "finish"
  /\ v.kind = "closed" => t # StageCount /\ Broken(t + 1)
  /\ v.kind = "compute" => \/ t # StageCount /\ Broken(t + 1)
                           \/ t = StageCount /\ stateOnly
  /\ t = Producer => v.kind \in {"ok", "closed"}

LEMMA EndsAreStatuses ==
  \A t \in Threads : EndsOf(t) \subseteq Statuses
<1>1. Stages \subseteq Threads /\ 0 \in Threads
  BY DEF Threads, Producer
<1>. QED BY <1>1 DEF EndsOf, Statuses, StatusKinds, FaultKinds, Status, Running, Ok, RowErrors, OwnEnds

LEMMA ErrorFacts ==
  \A e \in Errors : e # NoFailure => e \in Statuses /\ e.kind = "compute"
<1>1. Stages \subseteq Threads
  BY DEF Threads
<1>. QED BY <1>1, StatusFacts DEF Errors, RowErrors, Statuses, StatusKinds, FaultKinds

LEMMA EndKinds ==
  ASSUME NEW t \in Threads, NEW v \in EndsOf(t), v # Running, v # Ok
  PROVE  v.kind \in {"compute", "closed", "panic", "conversion"}
BY DEF EndsOf, RowErrors, OwnEnds

LEMMA EndKeeps ==
  ASSUME IInv, NEW t \in Threads, Going(t), NEW v, MayEnd(t, v), Ends(t, v),
         UNCHANGED <<authority, call, stateOnly, inputs, sent, channel, detached, stage,
                     rowsOut, failure, outcome>>
  PROVE  IInv'
<1>1. call = "running" /\ TypeOK /\ NeighboursAgree /\ RowsFlow
  BY RunningCall
<1>2. \A u \in Threads : result'[u] = IF u = t THEN v ELSE result[u]
  BY <1>1 DEF TypeOK, Ends
<1>3. TypeOK'
  <2>1. v \in EndsOf(t) /\ v \in Statuses
    BY EndsAreStatuses DEF MayEnd
  <2>2. result' \in [Threads -> Statuses]
    BY <2>1, <1>1 DEF TypeOK, Ends
  <2>3. \A u \in Threads : result'[u] \in EndsOf(u)
    BY <2>1, <1>1, <1>2 DEF TypeOK
  <2>. QED BY <2>2, <2>3, <1>1 DEF TypeOK, authority
<1>4. \A u \in Threads : (Broken(u) => Broken(u)') /\ (~Going(u) => ~Going(u)')
  BY <1>2 DEF Broken, Going, MayEnd
<1>5. NeighboursAgree'
  <2>1. ASSUME NEW c \in 1..Output PROVE ChannelOK(c)'
    <3>1. c - 1 \in Threads
      BY StageFacts
    <3>. QED BY <3>1, <1>1, <1>4 DEF NeighboursAgree, ChannelOK
  <2>2. ASSUME NEW s \in Stages PROVE StageOK(s)'
    <3>1. s \in Threads /\ s - 1 \in Threads
      BY StageFacts
    <3>2. result'[s] = Ok => stage[s].at = "finish"
      <4>1. Producer \notin Stages
        BY StageFacts
      <4>. QED BY <3>1, <4>1, <1>1, <1>2 DEF NeighboursAgree, StageOK, MayEnd
    <3>. QED BY <3>1, <3>2, <1>1, <1>4 DEF NeighboursAgree, StageOK, IsSink
  <2>3. ASSUME NEW u \in Threads PROVE ThreadOK(u)'
    <3>1. u # StageCount => u + 1 \in Threads
      BY StageFacts
    <3>2. Told(u) => Told(u)'
      BY <3>1, <1>4 DEF Told
    <3>3. u # StageCount /\ Broken(u + 1) => Broken(u + 1)'
      BY <3>1, <1>4
    <3>4. CASE u = t
      <4>1. result'[u] = v
        BY <3>4, <1>2
      <4>2. v.kind = "compute" => Told(t)'
        BY <3>3, <3>4 DEF MayEnd, Told
      <4>. QED BY <3>3, <3>4, <4>1, <4>2, StageFacts DEF ThreadOK, MayEnd
    <3>5. CASE u # t
      <4>1. result'[u] = result[u]
        BY <3>5, <1>2
      <4>. QED BY <3>2, <3>3, <4>1, <1>1 DEF NeighboursAgree, ThreadOK
    <3>. QED BY <3>4, <3>5
  <2>. QED BY <2>1, <2>2, <2>3 DEF NeighboursAgree
<1>6. RowsFlow'
  <2>1. PICK taken \in [1..Output -> 0..Len(inputs)] : Flow(taken)
    BY <1>1 DEF RowsFlow
  <2>2. \A c : Put(taken, c)' = Put(taken, c)
    BY DEF Put
  <2>3. \A s \in Stages : HoldsStates(taken, s)'
    <3> TAKE s \in Stages
    <3>1. Folded(taken, s)' = Folded(taken, s)
      BY <2>2 DEF Folded
    <3>. QED BY <3>1, <2>1, StatesHeld DEF Flow, authority
  <2>4. \A s \in Stages : HoldsRows(taken, s)'
    BY <2>1, <2>2 DEF Flow, HoldsRows
  <2>5. Flow(taken)'
    BY <2>1, <2>2, <2>3, <2>4 DEF Flow
  <2>. QED BY <2>5 DEF RowsFlow
<1>. QED BY <1>1, <1>3, <1>5, <1>6, CallGoesOn

\* A receiver that is gone while its sender is not has failed.
LEMMA ReceiverGone ==
  ASSUME NeighboursAgree, NEW t \in Threads, Going(t), ~ReceiverAlive(t + 1)
  PROVE  t # StageCount /\ Broken(t + 1)
<1>1. t # StageCount /\ ~Going(t + 1)
  BY StageFacts DEF ReceiverAlive, Going
<1>2. t + 1 \in Stages /\ (t + 1) - 1 = t
  BY <1>1, StageFacts
<1>3. result[t + 1] = Ok => ~Going((t + 1) - 1)
  BY <1>2 DEF NeighboursAgree, StageOK
<1>. QED BY <1>1, <1>2, <1>3 DEF Broken, Going

\* How a thread ends for reasons of its own.
LEMMA OwnEndFacts ==
  ASSUME NEW t, NEW kind \in {"closed", "panic", "conversion"}, NEW v, v = Status(kind, t)
  PROVE  v \in EndsOf(t) /\ v # Running /\ v # Ok /\ v.kind = kind
BY DEF EndsOf, OwnEnds, Status, Running, Ok

LEMMA ProducerEndsKeeps ==
  ASSUME IInv, ProducerEnds
  PROVE  IInv'
<1>1. Going(Producer) /\ Producer \in Threads
  BY StageFacts DEF ProducerEnds, Going
<1>2. Ok \in EndsOf(Producer) \ {Running} /\ Ok.kind = "ok"
  BY StatusFacts DEF EndsOf
<1>3. CASE sent = Len(inputs) /\ Ends(Producer, Ok)
  <2>1. MayEnd(Producer, Ok)
    BY <1>2, <1>3 DEF MayEnd
  <2>. QED BY <2>1, <1>1, <1>3, EndKeeps DEF ProducerEnds
<1>4. CASE ~ReceiverAlive(1) /\ Ends(Producer, Status("closed", Producer))
  <2> DEFINE v == Status("closed", Producer)
  <2>1. v \in EndsOf(Producer) /\ v # Running /\ v # Ok /\ v.kind = "closed"
    BY OwnEndFacts
  <2>2. Producer + 1 = 1
    BY DEF Producer
  <2>3. Producer # StageCount /\ Broken(Producer + 1)
    BY <1>1, <1>4, <2>2, RunningCall, ReceiverGone
  <2>4. MayEnd(Producer, v)
    <3> HIDE DEF v
    <3>. QED BY <2>1, <2>3 DEF MayEnd
  <2>. QED BY <2>4, <1>1, <1>4, EndKeeps DEF ProducerEnds
<1>. QED BY <1>3, <1>4 DEF ProducerEnds

\* A thread of a stage that ends for reasons of its own.
LEMMA StageEndKeeps ==
  ASSUME IInv, NEW s \in Stages, Going(s),
         NEW kind \in {"closed", "panic", "conversion"}, Ends(s, Status(kind, s)),
         kind = "closed" => s # StageCount /\ Broken(s + 1),
         UNCHANGED <<authority, call, stateOnly, inputs, sent, channel, detached, stage,
                     rowsOut, failure, outcome>>
  PROVE  IInv'
<1> DEFINE v == Status(kind, s)
<1>1. v \in EndsOf(s) /\ v # Running /\ v # Ok /\ v.kind = kind
  BY OwnEndFacts
<1>2. s \in Threads /\ s # Producer
  BY StageFacts
<1>3. MayEnd(s, v)
  <2> HIDE DEF v
  <2>. QED BY <1>1, <1>2 DEF MayEnd
<1>. QED BY <1>2, <1>3, EndKeeps

LEMMA PanicKeeps ==
  ASSUME IInv, NEW s \in Stages, Panic(s)
  PROVE  IInv'
<1>1. Going(s)
  BY DEF Panic, StageAt, Going
<1>. QED BY <1>1, StageEndKeeps DEF Panic

LEMMA ConversionFailsKeeps ==
  ASSUME IInv, NEW s \in Stages, ConversionFails(s)
  PROVE  IInv'
<1>1. Going(s)
  BY DEF ConversionFails, StageAt, Going
<1>. QED BY <1>1, StageEndKeeps DEF ConversionFails

LEMMA FinishKeeps ==
  ASSUME IInv, NEW s \in Stages, Finish(s)
  PROVE  IInv'
<1>1. Going(s) /\ stage[s].at = "finish"
  BY DEF Finish, StageAt, Going
<1>2. s \in Threads /\ s # Producer
  BY StageFacts
<1>3. Ok \in EndsOf(s) \ {Running} /\ Ok.kind = "ok"
  BY StatusFacts DEF EndsOf
<1>4. MayEnd(s, Ok)
  BY <1>1, <1>2, <1>3 DEF MayEnd
<1>. QED BY <1>1, <1>2, <1>4, EndKeeps DEF Finish

-------------------------------------------------------------------------------
(* Stages that move on without folding or sending.                           *)

BatchType == [at : Places, rows : Seq(Nat), error : Errors, ended : BOOLEAN]

\* What b may be when stage s puts it in place of the batch it holds.
MayHold(s, b) ==
  /\ b \in BatchType
  /\ b.at # "send"
  /\ b.at \in {"receive", "finish", "forward"} <=> b.rows = <<>>
  /\ b.at \in {"receive", "fill", "finish"} => b.error = NoFailure
  /\ b.at = "forward" => b.error # NoFailure
  /\ stage[s].error # NoFailure => b.error # NoFailure

LEMMA MoveKeeps ==
  ASSUME IInv, NEW s \in Stages, Going(s), stage[s].at \notin {"send", "forward"},
         NEW b, MayHold(s, b), Update(s, b),
         b.at = "finish" \/ b.ended => ~Going(s - 1) /\ channel[s] = <<>>,
         b.rows = stage[s].rows \/ b.at = "forward",
         UNCHANGED <<authority, call, stateOnly, inputs, sent, channel, detached, result,
                     rowsOut, failure, outcome>>
  PROVE  IInv'
<1>1. call = "running" /\ TypeOK /\ NeighboursAgree /\ RowsFlow
  BY RunningCall, StageFacts
<1>2. \A u \in Stages : stage'[u] = IF u = s THEN b ELSE stage[u]
  BY <1>1 DEF TypeOK, Update
<1>3. TypeOK'
  <2>1. stage' \in [Stages -> BatchType]
    BY <1>1 DEF TypeOK, Update, MayHold, BatchType
  <2>. QED BY <2>1, <1>1 DEF TypeOK, authority, BatchType
<1>4. NeighboursAgree'
  <2>1. \A c \in 1..Output : ChannelOK(c)'
    BY <1>1 DEF NeighboursAgree, ChannelOK, Broken
  <2>2. ASSUME NEW u \in Stages PROVE StageOK(u)'
    <3>1. CASE u = s
      <4>1. stage'[u] = b /\ result[u] = Running
        BY <3>1, <1>2 DEF Going
      <4>. QED BY <3>1, <4>1, StatusFacts DEF StageOK, MayHold, Going, IsSink
    <3>2. CASE u # s
      BY <3>2, <1>1, <1>2 DEF NeighboursAgree, StageOK, Going, IsSink
    <3>. QED BY <3>1, <3>2
  <2>3. ASSUME NEW t \in Threads PROVE ThreadOK(t)'
    <3>1. t # StageCount => (stage[t + 1].error # NoFailure => stage'[t + 1].error # NoFailure)
      BY <1>2, StageFacts DEF MayHold
    <3>2. Told(t) => Told(t)'
      BY <3>1 DEF Told, Broken
    <3>. QED BY <3>2, <1>1 DEF NeighboursAgree, ThreadOK, Broken
  <2>. QED BY <2>1, <2>2, <2>3 DEF NeighboursAgree
<1>5. RowsFlow'
  <2>1. PICK taken \in [1..Output -> 0..Len(inputs)] : Flow(taken)
    BY <1>1 DEF RowsFlow
  <2>2. \A c : Put(taken, c)' = Put(taken, c)
    BY DEF Put
  <2>3. \A u \in Stages : HoldsStates(taken, u)'
    <3> TAKE u \in Stages
    <3>1. Folded(taken, u)' = Folded(taken, u)
      BY <1>2, <2>2 DEF Folded, MayHold
    <3>. QED BY <3>1, <2>1, StatesHeld DEF Flow, authority
  <2>4. ASSUME NEW u \in Stages PROVE HoldsRows(taken, u)'
    <3>1. CASE u # s
      BY <3>1, <1>2, <2>1, <2>2 DEF Flow, HoldsRows
    <3>2. CASE u = s /\ b.rows = stage[s].rows
      <4>1. stage'[s] = b
        BY <1>2
      <4>. QED BY <3>2, <4>1, <2>1, <2>2 DEF Flow, HoldsRows
    <3>3. CASE u = s /\ b.at = "forward"
      <4>1. stage'[s] = b /\ b.rows = <<>>
        BY <3>3, <1>2 DEF MayHold
      <4>2. Put(taken, s + 1) <= taken[s] /\ Put(taken, s + 1) \in Nat
        <5>1. /\ Put(taken, s + 1) \in 0..Len(inputs) /\ taken \in [1..Output -> Nat]
              /\ Put(taken, s + 1) <= Folded(taken, s) /\ Folded(taken, s) <= taken[s]
              /\ Folded(taken, s) \in 0..Len(inputs) /\ Len(inputs) \in Nat
          BY <1>1, <2>1, Bounds, StageFacts
        <5>2. taken[s] \in Nat
          BY <5>1, StageFacts
        <5>. QED BY <5>1, <5>2
      <4>. QED BY <3>3, <4>1, <4>2, <2>2 DEF HoldsRows
    <3>. QED BY <3>1, <3>2, <3>3
  <2>5. Flow(taken)'
    BY <2>1, <2>2, <2>3, <2>4 DEF Flow
  <2>. QED BY <2>5 DEF RowsFlow
<1>. QED BY <1>1, <1>3, <1>4, <1>5, CallGoesOn

LEMMA AppendNat ==
  ASSUME NEW q \in Seq(Nat), NEW m \in Nat
  PROVE  LET p == Append(q, m) IN
         /\ p \in Seq(Nat) /\ Len(q) \in Nat /\ Len(p) = Len(q) + 1
         /\ p[Len(p)] = m /\ \A i \in 1..Len(q) : p[i] = q[i]
         /\ DOMAIN p = 1..Len(p) /\ DOMAIN q = 1..Len(q) /\ p # <<>>
OBVIOUS

LEMMA NoBatchFacts ==
  /\ NoBatch \in BatchType /\ NoBatch.at = "receive" /\ NoBatch.rows = <<>>
  /\ NoBatch.error = NoFailure /\ NoBatch.ended = FALSE
BY StatusFacts DEF NoBatch, BatchType, Places

LEMMA ComputeFailsKeeps ==
  ASSUME IInv, NEW s \in Stages, ComputeFails(s)
  PROVE  IInv'
<1> DEFINE b == [NoBatch EXCEPT !.at = "forward", !.error = Status("compute", s)]
<1>1. Going(s) /\ stage[s].at = "compute"
  BY DEF ComputeFails, StageAt, Going
<1>2. Status("compute", s) \in Errors /\ Status("compute", s) # NoFailure
  BY StatusFacts DEF Errors
<1>3. /\ b \in BatchType /\ b.at = "forward" /\ b.rows = <<>>
      /\ b.error = Status("compute", s) /\ b.ended = FALSE
  BY <1>2, NoBatchFacts DEF BatchType, Places
<1>4. MayHold(s, b) /\ b.at = "forward" /\ ~b.ended
  <2> HIDE DEF b
  <2>. QED BY <1>2, <1>3 DEF MayHold
<1> HIDE DEF b
<1>5. Update(s, b)
  BY DEF ComputeFails, b
<1>. QED BY <1>1, <1>4, <1>5, MoveKeeps DEF ComputeFails

-------------------------------------------------------------------------------
(* Stages that receive.                                                      *)

LEMMA TakesRow ==
  ASSUME IInv, NEW s \in Stages, Going(s), stage[s].at \in {"receive", "fill"},
         channel[s] # <<>>, Head(channel[s]).error = NoFailure,
         NEW b \in BatchType, Update(s, b), b.at = "fill",
         b.rows = Append(stage[s].rows, Head(channel[s]).row),
         b.error = NoFailure, b.ended = FALSE,
         channel' = [channel EXCEPT ![s] = Tail(@)],
         UNCHANGED Unread
  PROVE  IInv'
<1>1. call = "running" /\ TypeOK /\ NeighboursAgree /\ RowsFlow
  BY RunningCall, StageFacts
<1>2. PICK taken \in [1..Output -> 0..Len(inputs)] : Flow(taken)
  BY <1>1 DEF RowsFlow
<1>3. /\ s \in 1..Output /\ s + 1 \in 1..Output /\ s # Output
      /\ s \in Threads /\ s - 1 \in Threads
  BY StageFacts
<1> DEFINE q == channel[s]
           p == Tail(q)
           row == Head(q).row
           rows == Append(stage[s].rows, row)
           taken2 == [taken EXCEPT ![s] = @ + 1]
<1>4. q \in Seq(Messages) /\ ErrorIsLast(q) /\ q # <<>> /\ Head(q).error = NoFailure
  BY <1>1, <1>3 DEF TypeOK, NeighboursAgree, ChannelOK
<1>5. /\ row \in Nat /\ p \in Seq(Messages) /\ ErrorIsLast(p)
      /\ HasError(p) <=> HasError(q)
      /\ RowsIn(q) = RowsIn(p) + 1 /\ RowsIn(p) \in Nat
      /\ \A t \in Nat : Follow(q, t) => row = t + 1 /\ Follow(p, t + 1)
  <2> HIDE DEF q
  <2>1. RowsIn(Tail(q)) \in Nat
    BY <1>4, TakeRow, RowsInNat
  <2>. QED BY <1>4, <2>1, TakeRow
<1>6. /\ rows \in Seq(Nat) /\ Len(stage[s].rows) \in Nat
      /\ Len(rows) = Len(stage[s].rows) + 1 /\ rows[Len(rows)] = row
      /\ \A i \in 1..Len(stage[s].rows) : rows[i] = stage[s].rows[i]
      /\ DOMAIN rows = 1..Len(rows) /\ DOMAIN stage[s].rows = 1..Len(stage[s].rows)
      /\ rows # <<>>
  <2>1. stage[s].rows \in Seq(Nat)
    BY <1>1 DEF TypeOK
  <2>2. row \in Nat
    BY <1>5
  <2> HIDE DEF row
  <2>. QED BY <2>1, <2>2, AppendNat
<1>7. b.at = "fill" /\ b.rows = rows /\ b.error = NoFailure /\ b.ended = FALSE
  OBVIOUS
<1>8. \A c \in 1..Output : channel'[c] = IF c = s THEN p ELSE channel[c]
  BY <1>1 DEF TypeOK
<1>9. \A u \in Stages : stage'[u] = IF u = s THEN b ELSE stage[u]
  BY <1>1 DEF TypeOK, Update
<1>10. channel' \in [1..Output -> Seq(Messages)]
  BY <1>1, <1>5 DEF TypeOK
<1> HIDE DEF q, p, row, rows
<1>11. TypeOK'
  <2>1. stage' \in [Stages -> BatchType]
    BY <1>1 DEF TypeOK, Update, BatchType
  <2>. QED BY <2>1, <1>1, <1>10 DEF TypeOK, Unread, authority, BatchType
<1>12. NeighboursAgree'
  <2>1. ASSUME NEW c \in 1..Output PROVE ChannelOK(c)'
    BY <1>1, <1>3, <1>4, <1>5, <1>8 DEF NeighboursAgree, ChannelOK, Broken, Unread, q
  <2>2. ASSUME NEW u \in Stages PROVE StageOK(u)'
    <3>1. u \in 1..Output /\ s \in 1..Output
      BY StageFacts
    <3>2. CASE u = s
      <4>1. stage'[u] = b /\ result'[u] = Running
        BY <3>2, <1>9 DEF Going, Unread
      <4>2. b.at = "fill" /\ b.rows # <<>> /\ b.error = NoFailure /\ b.ended = FALSE
        BY <1>6, <1>7
      <4>. QED BY <4>1, <4>2, StatusFacts DEF StageOK, IsSink
    <3>3. CASE u # s
      <4>1. stage'[u] = stage[u] /\ channel'[u] = channel[u]
        BY <3>1, <3>3, <1>8, <1>9
      <4>. QED BY <4>1, <1>1 DEF NeighboursAgree, StageOK, Going, IsSink, Unread
    <3>. QED BY <3>2, <3>3
  <2>3. ASSUME NEW t \in Threads PROVE ThreadOK(t)'
    <3>1. t + 1 \in 1..Output /\ (t # StageCount => t + 1 \in Stages)
      BY StageFacts
    <3>2. HasError(channel[t + 1]) => HasError(channel'[t + 1])
      BY <3>1, <1>5, <1>8 DEF q
    <3>3. t + 1 = s => stage[s].error = NoFailure
      BY <1>1 DEF NeighboursAgree, StageOK
    <3>4. Told(t) => Told(t)'
      BY <3>1, <3>2, <3>3, <1>9 DEF Told, Broken, Unread
    <3>. QED BY <3>4, <1>1 DEF NeighboursAgree, ThreadOK, Broken, Unread
  <2>. QED BY <2>1, <2>2, <2>3 DEF NeighboursAgree
<1>13. /\ taken \in [1..Output -> Nat] /\ Len(inputs) \in Nat
       /\ Put(taken, s) \in 0..Len(inputs) /\ taken[s] + 1 <= Len(inputs)
  <2>1. /\ taken \in [1..Output -> Nat] /\ Len(inputs) \in Nat
        /\ Put(taken, s) \in 0..Len(inputs)
    BY <1>1, <1>2, <1>3, Bounds
  <2>2. Put(taken, s) = taken[s] + RowsIn(q)
    BY DEF Put, q
  <2>. QED BY <2>1, <2>2, <1>3, <1>5
<1>14. /\ taken2 \in [1..Output -> 0..Len(inputs)]
       /\ \A c \in 1..Output : taken2[c] = IF c = s THEN taken[c] + 1 ELSE taken[c]
  <2>1. taken[s] + 1 \in 0..Len(inputs)
    BY <1>3, <1>13
  <2>. QED BY <2>1, <1>3
<1>15. Follow(q, taken[s]) /\ row = taken[s] + 1 /\ Follow(p, taken[s] + 1)
  <2>1. Follow(q, taken[s]) /\ taken[s] \in Nat
    BY <1>2, <1>3, <1>13 DEF Flow, q
  <2>. QED BY <2>1, <1>5
<1> HIDE DEF taken2
<1>16. \A c \in 1..Output : Put(taken2, c)' = Put(taken, c)
  <2> TAKE c \in 1..Output
  <2>1. CASE c = s
    <3>1. Put(taken2, c)' = (taken[s] + 1) + RowsIn(p) /\ Put(taken, c) = taken[s] + RowsIn(q)
      BY <2>1, <1>8, <1>14 DEF Put, q
    <3>2. /\ taken[s] \in Nat /\ RowsIn(p) \in Nat /\ RowsIn(q) \in Nat
          /\ RowsIn(q) = RowsIn(p) + 1
      BY <1>3, <1>4, <1>5, <1>13, RowsInNat
    <3>3. (taken[s] + 1) + RowsIn(p) = taken[s] + (RowsIn(p) + 1)
      BY <3>2, Regroup
    <3>. QED BY <3>1, <3>2, <3>3
  <2>2. CASE c # s
    BY <2>2, <1>8, <1>14 DEF Put
  <2>. QED BY <2>1, <2>2
<1>17. RowsFlow'
  <2>1. ASSUME NEW u \in Stages PROVE HoldsStates(taken2, u)'
    <3>1. Put(taken2, u + 1)' = Put(taken, u + 1)
      BY <1>16, StageFacts
    <3>2. Folded(taken2, u)' = Folded(taken, u)
      BY <3>1, <1>7, <1>9 DEF Folded
    <3>. QED BY <3>2, <1>2, StatesHeld DEF Flow, authority, Unread
  <2>2. ASSUME NEW u \in Stages PROVE HoldsRows(taken2, u)'
    <3>1. Put(taken2, u + 1)' = Put(taken, u + 1) /\ u \in 1..Output
      BY <1>16, StageFacts
    <3>2. CASE u # s
      <4>1. taken2[u] = taken[u] /\ stage'[u] = stage[u]
        BY <3>1, <3>2, <1>9, <1>14
      <4>. QED BY <3>1, <4>1, <1>2 DEF Flow, HoldsRows
    <3>3. CASE u = s
      <4>1. taken2[s] = taken[s] + 1 /\ stage'[s] = b
        BY <1>3, <1>9, <1>14
      <4>6. b.rows = rows /\ b.at = "fill"
        BY <1>7
      <4>2. /\ \A j \in 1..Len(stage[s].rows) :
                 stage[s].rows[j] = taken[s] - Len(stage[s].rows) + j
            /\ Put(taken, s + 1) + Len(stage[s].rows) = taken[s]
        BY <1>2, <1>6 DEF Flow, HoldsRows
      <4>3. taken[s] \in Nat /\ Put(taken, s + 1) \in Nat
        BY <1>1, <1>3, <1>13, PutInNat
      <4>7. Len(rows) = Len(stage[s].rows) + 1 /\ Len(stage[s].rows) \in Nat
        BY <1>6
      <4>4. \A j \in 1..Len(rows) : rows[j] = (taken[s] + 1) - Len(rows) + j
        <5> TAKE j \in 1..Len(rows)
        <5>1. CASE j = Len(rows)
          <6>1. rows[j] = taken[s] + 1
            BY <5>1, <1>6, <1>15
          <6>2. taken[s] + 1 \in Nat /\ Len(rows) \in Nat
            BY <4>3, <4>7
          <6>3. (taken[s] + 1) - Len(rows) + Len(rows) = taken[s] + 1
            BY <6>2, TakeAndPut
          <6>. QED BY <5>1, <6>1, <6>3
        <5>2. CASE j # Len(rows)
          <6>1. j \in 1..Len(stage[s].rows)
            BY <5>2, <4>7
          <6>2. rows[j] = taken[s] - Len(stage[s].rows) + j
            BY <6>1, <4>2, <1>6
          <6>3. taken[s] - Len(stage[s].rows) + j = (taken[s] + 1) - Len(rows) + j
            <7>1. Len(rows) \in Nat
              BY <4>7
            <7>2. taken[s] - Len(stage[s].rows)
                    = (taken[s] + 1) - (Len(stage[s].rows) + 1)
              BY <4>3, <4>7, OneLess
            <7>. QED BY <7>1, <7>2, <4>7
          <6>. QED BY <6>2, <6>3
        <5>. QED BY <5>1, <5>2
      <4>5. Put(taken, s + 1) + Len(rows) = taken[s] + 1
        BY <4>2, <4>3, <4>7
      <4>8. DOMAIN rows = 1..Len(rows)
        BY <1>6
      <4>9. Put(taken, s + 1) + Len(rows) <= taken[s] + 1
        BY <4>3, <4>5
      <4>. QED BY <3>1, <3>3, <4>1, <4>4, <4>5, <4>6, <4>8, <4>9 DEF HoldsRows
    <3>. QED BY <3>2, <3>3
  <2>3. \A c \in 1..Output : Follow(channel'[c], taken2[c])
    BY <1>2, <1>8, <1>14, <1>15 DEF Flow
  <2>4. Put(taken2, 1)' = sent' /\ sent' <= Len(inputs')
    BY <1>2, <1>16, StageFacts DEF Flow, Unread
  <2>5. rowsOut' = [i \in 1..taken2[Output] |-> i]
    <3>1. taken2[Output] = taken[Output]
      BY <1>3, <1>14, StageFacts
    <3>. QED BY <3>1, <1>2 DEF Flow, Unread
  <2>6. Flow(taken2)'
    BY <2>1, <2>2, <2>3, <2>4, <2>5 DEF Flow
  <2>. QED BY <2>6, <1>14 DEF RowsFlow, Unread
<1>. QED BY <1>1, <1>11, <1>12, <1>17, CallGoesOn DEF Unread

LEMMA TakesError ==
  ASSUME IInv, NEW s \in Stages, Going(s), stage[s].at \in {"receive", "fill"},
         channel[s] # <<>>, Head(channel[s]).error # NoFailure,
         NEW b, Update(s, b), b \in BatchType,
         b.at = IF stage[s].at = "receive" THEN "forward" ELSE "compute",
         b.rows = stage[s].rows, b.error = Head(channel[s]).error, b.ended = stage[s].ended,
         channel' = [channel EXCEPT ![s] = Tail(@)],
         UNCHANGED Unread
  PROVE  IInv'
<1>1. call = "running" /\ TypeOK /\ NeighboursAgree /\ RowsFlow
  BY RunningCall, StageFacts
<1>2. PICK taken \in [1..Output -> 0..Len(inputs)] : Flow(taken)
  BY <1>1 DEF RowsFlow
<1>3. /\ s \in 1..Output /\ s + 1 \in 1..Output /\ s # Output
      /\ s \in Threads /\ s - 1 \in Threads
  BY StageFacts
<1>4. channel[s] \in Seq(Messages) /\ ErrorIsLast(channel[s])
  BY <1>1, <1>3 DEF TypeOK, NeighboursAgree, ChannelOK
<1>5. /\ Tail(channel[s]) = <<>> /\ HasError(channel[s]) /\ RowsIn(channel[s]) = 0
      /\ b.error \in RowErrors
  BY <1>4, TakeError
<1>6. \A c \in 1..Output : channel'[c] = IF c = s THEN <<>> ELSE channel[c]
  BY <1>1, <1>5 DEF TypeOK
<1>7. \A u \in Stages : stage'[u] = IF u = s THEN b ELSE stage[u]
  BY <1>1 DEF TypeOK, Update
<1>8. TypeOK'
  <2>1. stage' \in [Stages -> BatchType]
    BY <1>1 DEF TypeOK, Update, BatchType
  <2>2. <<>> \in Seq(Messages)
    BY EmptyQueue
  <2>3. channel' \in [1..Output -> Seq(Messages)]
    BY <2>2, <1>1, <1>5 DEF TypeOK
  <2>. QED BY <2>1, <2>3, <1>1 DEF TypeOK, Unread, authority, BatchType
<1>9. b.error # NoFailure /\ b.at \in {"forward", "compute"} /\ ~b.ended
      /\ (b.at = "forward" <=> b.rows = <<>>)
  <2>1. /\ stage[s].at \in {"receive", "finish", "forward"} <=> stage[s].rows = <<>>
        /\ stage[s].ended => channel[s] = <<>>
    BY <1>1 DEF NeighboursAgree, StageOK
  <2>. QED BY <2>1, <1>5, StatusFacts
<1>10. NeighboursAgree'
  <2>1. ASSUME NEW c \in 1..Output PROVE ChannelOK(c)'
    BY <1>1, <1>3, <1>6, EmptyQueue DEF NeighboursAgree, ChannelOK, Broken, Unread
  <2>2. ASSUME NEW u \in Stages PROVE StageOK(u)'
    <3>1. u \in 1..Output
      BY StageFacts
    <3>2. CASE u = s
      <4>1. stage'[u] = b /\ result'[u] = Running
        BY <3>2, <1>7 DEF Going, Unread
      <4>. QED BY <4>1, <1>9, StatusFacts DEF StageOK, IsSink
    <3>3. CASE u # s
      <4>1. stage'[u] = stage[u] /\ channel'[u] = channel[u]
        BY <3>1, <3>3, <1>6, <1>7
      <4>. QED BY <4>1, <1>1 DEF NeighboursAgree, StageOK, Going, IsSink, Unread
    <3>. QED BY <3>2, <3>3
  <2>3. ASSUME NEW t \in Threads PROVE ThreadOK(t)'
    <3>1. t + 1 \in 1..Output /\ (t # StageCount => t + 1 \in Stages)
      BY StageFacts
    <3>2. CASE t + 1 = s
      <4>1. t # StageCount
        BY <3>2, <1>3, StageFacts
      <4>2. stage'[t + 1].error # NoFailure
        BY <3>2, <1>7, <1>9
      <4>3. Told(t)'
        BY <4>1, <4>2 DEF Told
      <4>. QED BY <4>3, <1>1 DEF NeighboursAgree, ThreadOK, Broken, Unread
    <3>3. CASE t + 1 # s
      <4>1. channel'[t + 1] = channel[t + 1]
            /\ (t # StageCount => stage'[t + 1] = stage[t + 1])
        BY <3>1, <3>3, <1>6, <1>7
      <4>2. Told(t) => Told(t)'
        BY <4>1 DEF Told, Broken, Unread
      <4>. QED BY <4>2, <1>1 DEF NeighboursAgree, ThreadOK, Broken, Unread
    <3>. QED BY <3>2, <3>3
  <2>. QED BY <2>1, <2>2, <2>3 DEF NeighboursAgree
<1>11. \A c \in 1..Output : Put(taken, c)' = Put(taken, c)
  BY <1>5, <1>6, EmptyQueue DEF Put
<1>12. RowsFlow'
  <2>1. ASSUME NEW u \in Stages PROVE HoldsStates(taken, u)'
    <3>1. Put(taken, u + 1)' = Put(taken, u + 1)
      BY <1>11, StageFacts
    <3>2. Folded(taken, u)' = Folded(taken, u)
      BY <3>1, <1>7, <1>9 DEF Folded
    <3>. QED BY <3>2, <1>2, StatesHeld DEF Flow, authority, Unread
  <2>2. ASSUME NEW u \in Stages PROVE HoldsRows(taken, u)'
    <3>1. Put(taken, u + 1)' = Put(taken, u + 1)
      BY <1>11, StageFacts
    <3>. QED BY <3>1, <1>2, <1>7 DEF Flow, HoldsRows
  <2>3. \A c \in 1..Output : Follow(channel'[c], taken[c])
    BY <1>2, <1>6, EmptyQueue DEF Flow
  <2>4. Put(taken, 1)' = sent' /\ sent' <= Len(inputs')
    BY <1>2, <1>11, StageFacts DEF Flow, Unread
  <2>5. Flow(taken)'
    BY <2>1, <2>2, <2>3, <2>4, <1>2 DEF Flow, Unread
  <2>. QED BY <2>5 DEF RowsFlow, Unread
<1>. QED BY <1>1, <1>8, <1>10, <1>12, CallGoesOn DEF Unread

\* A stage may have taken what the last message was, or seen that there is none.
LEMMA ReceiveKeeps ==
  ASSUME IInv, NEW s \in Stages, Receive(s)
  PROVE  IInv'
<1>1. Going(s) /\ stage[s].at = "receive"
  BY DEF Receive, StageAt, Going
<1>2. call = "running" /\ TypeOK /\ NeighboursAgree
  BY <1>1, RunningCall, StageFacts
<1>3. stage[s].rows = <<>> /\ stage[s].ended \in BOOLEAN /\ channel[s] \in Seq(Messages)
      /\ ErrorIsLast(channel[s]) /\ (stage[s].ended => channel[s] = <<>>)
  BY <1>1, <1>2, StageFacts DEF NeighboursAgree, StageOK, ChannelOK, TypeOK
<1>4. CASE channel[s] # <<>> /\ Head(channel[s]).error = NoFailure
  <2> DEFINE row == Head(channel[s]).row
             b == [NoBatch EXCEPT !.at = "fill", !.rows = <<row>>]
  <2>1. Update(s, b) /\ channel' = [channel EXCEPT ![s] = Tail(@)] /\ UNCHANGED Unread
    BY <1>4 DEF Receive
  <2>2. row \in Nat
    BY <1>3, <1>4, TakeRow
  <2>3. Append(stage[s].rows, row) = <<row>>
    BY <1>3, <2>2
  <2>4. <<row>> \in Seq(Nat)
    BY <2>2
  <2>5. /\ b \in BatchType /\ b.at = "fill" /\ b.rows = <<row>> /\ b.error = NoFailure
        /\ b.ended = FALSE
    BY <2>4, NoBatchFacts DEF BatchType, Places
  <2>6. b.rows = Append(stage[s].rows, row)
    BY <2>3, <2>5
  <2> HIDE DEF b
  <2>. QED BY <2>1, <2>5, <2>6, <1>1, <1>4, TakesRow
<1>5. CASE channel[s] # <<>> /\ Head(channel[s]).error # NoFailure
  <2> DEFINE e == Head(channel[s]).error
             b == [NoBatch EXCEPT !.at = "forward", !.error = e]
  <2>1. Update(s, b) /\ channel' = [channel EXCEPT ![s] = Tail(@)] /\ UNCHANGED Unread
    BY <1>5 DEF Receive
  <2>2. e \in Errors
    BY <1>3, <1>5, TakeError DEF Errors
  <2> HIDE DEF e
  <2>3. /\ b \in BatchType /\ b.at = "forward" /\ b.rows = <<>> /\ b.error = e
        /\ b.ended = FALSE
    BY <2>2, NoBatchFacts DEF BatchType, Places
  <2> HIDE DEF b
  <2>4. b.ended = stage[s].ended
    BY <2>3, <1>3, <1>5
  <2>. QED BY <2>1, <2>3, <2>4, <1>1, <1>3, <1>5, TakesError DEF e
<1>6. CASE channel[s] = <<>>
  <2> DEFINE b == [NoBatch EXCEPT !.at = "finish"]
  <2>1. ~Going(s - 1) /\ Update(s, b)
        /\ UNCHANGED <<authority, call, stateOnly, inputs, sent, channel, detached, result,
                       rowsOut, failure, outcome>>
    BY <1>6 DEF Receive, SenderAlive, Going, Unread
  <2>2. /\ b \in BatchType /\ b.at = "finish" /\ b.rows = <<>> /\ b.error = NoFailure
        /\ b.ended = FALSE
    BY NoBatchFacts DEF BatchType, Places
  <2> HIDE DEF b
  <2>3. stage[s].error = NoFailure
    BY <1>1, <1>2 DEF NeighboursAgree, StageOK
  <2>4. MayHold(s, b)
    BY <2>2, <2>3 DEF MayHold
  <2>. QED BY <2>1, <2>2, <2>4, <1>1, <1>3, <1>6, MoveKeeps
<1>. QED BY <1>4, <1>5, <1>6

LEMMA FillKeeps ==
  ASSUME IInv, NEW s \in Stages, Fill(s)
  PROVE  IInv'
<1>1. Going(s) /\ stage[s].at = "fill"
  BY DEF Fill, StageAt, Going
<1>2. call = "running" /\ TypeOK /\ NeighboursAgree
  BY <1>1, RunningCall, StageFacts
<1>3. /\ stage[s] \in BatchType /\ stage[s].rows # <<>> /\ stage[s].error = NoFailure
      /\ channel[s] \in Seq(Messages) /\ ErrorIsLast(channel[s])
      /\ (stage[s].ended => channel[s] = <<>>)
  BY <1>1, <1>2, StageFacts DEF NeighboursAgree, StageOK, ChannelOK, TypeOK, BatchType
<1> DEFINE batch == stage[s]
           full == Len(batch.rows) >= ComputeBatch
<1>4. CASE ~full /\ channel[s] # <<>> /\ Head(channel[s]).error = NoFailure
           /\ channel' = [channel EXCEPT ![s] = Tail(@)]
           /\ Update(s, [batch EXCEPT !.rows = Append(@, Head(channel[s]).row)])
  <2> DEFINE b == [batch EXCEPT !.rows = Append(@, Head(channel[s]).row)]
  <2>1. batch.ended = FALSE
    BY <1>3, <1>4 DEF BatchType
  <2>2. Head(channel[s]).row \in Nat
    BY <1>3, <1>4, TakeRow
  <2>3. Append(stage[s].rows, Head(channel[s]).row) \in Seq(Nat)
    BY <2>2, <1>3 DEF BatchType
  <2>4. /\ b \in BatchType /\ b.at = "fill" /\ b.error = NoFailure /\ b.ended = FALSE
        /\ b.rows = Append(stage[s].rows, Head(channel[s]).row)
    BY <2>1, <2>3, <1>1, <1>3 DEF BatchType
  <2> HIDE DEF b
  <2>5. Update(s, b) /\ UNCHANGED Unread
    BY <1>4 DEF Fill, b
  <2>. QED BY <2>4, <2>5, <1>1, <1>4, TakesRow
<1>5. CASE ~full /\ channel[s] # <<>> /\ Head(channel[s]).error # NoFailure
           /\ channel' = [channel EXCEPT ![s] = Tail(@)]
           /\ Update(s, [batch EXCEPT !.at = "compute", !.error = Head(channel[s]).error])
  <2> DEFINE e == Head(channel[s]).error
             b == [batch EXCEPT !.at = "compute", !.error = e]
  <2>1. e \in Errors
    BY <1>3, <1>5, TakeError DEF Errors
  <2> HIDE DEF e
  <2>2. /\ b \in BatchType /\ b.at = "compute" /\ b.rows = batch.rows /\ b.error = e
        /\ b.ended = batch.ended
    BY <2>1, <1>3 DEF BatchType, Places
  <2> HIDE DEF b
  <2>3. Update(s, b) /\ UNCHANGED Unread
    BY <1>5 DEF Fill, b, e
  <2>. QED BY <2>2, <2>3, <1>1, <1>3, <1>5, TakesError DEF e
<1>6. CASE (full \/ channel[s] = <<>>) /\ UNCHANGED channel
           /\ Update(s, [batch EXCEPT !.at = "compute", !.ended = ~full /\ ~SenderAlive(s)])
  <2> DEFINE ended == ~full /\ ~SenderAlive(s)
             b == [batch EXCEPT !.at = "compute", !.ended = ended]
  <2>1. ended \in BOOLEAN
    OBVIOUS
  <2>2. ended => ~Going(s - 1) /\ channel[s] = <<>>
    BY <1>6 DEF SenderAlive, Going
  <2> HIDE DEF ended
  <2>3. /\ b \in BatchType /\ b.at = "compute" /\ b.rows = batch.rows
        /\ b.error = batch.error /\ b.ended = ended
    BY <2>1, <1>3 DEF BatchType, Places
  <2> HIDE DEF b
  <2>4. MayHold(s, b)
    BY <2>3, <1>3 DEF MayHold
  <2>5. Update(s, b)
        /\ UNCHANGED <<authority, call, stateOnly, inputs, sent, channel, detached, result,
                       rowsOut, failure, outcome>>
    BY <1>6 DEF Fill, b, ended, Unread
  <2>. QED BY <2>2, <2>3, <2>4, <2>5, <1>1, MoveKeeps
<1>. QED BY <1>4, <1>5, <1>6 DEF Fill

-------------------------------------------------------------------------------
(* Stages that fold the rows of their batch.                                 *)

LEMMA FoldsRows ==
  ASSUME TypeOK, NEW taken \in [1..Output -> 0..Len(inputs)], Flow(taken),
         NEW s \in Stages, stage[s].at = "compute", Fold(s),
         inputs' = inputs, journal' = journal,
         NEW taken2, Folded(taken2, s)' = Put(taken, s + 1) + Len(stage[s].rows)
  PROVE  /\ detached' \in [Stages -> [Keys -> Seq(Reviews)]]
         /\ HoldsStates(taken2, s)'
         /\ \A u \in Stages : u # s => detached'[u] = detached[u]
         /\ Put(taken, s + 1) \in Nat /\ Len(stage[s].rows) \in Nat
         /\ \A j \in DOMAIN stage[s].rows : stage[s].rows[j] = Put(taken, s + 1) + j
         /\ Put(taken, s + 1) + Len(stage[s].rows) <= Len(inputs)
<1> DEFINE rows == stage[s].rows
           n == Put(taken, s + 1)
<1>1. /\ rows \in Seq(Nat) /\ Len(rows) \in Nat /\ DOMAIN rows = 1..Len(rows)
      /\ inputs \in Seq(Reviews) /\ journal \in Seq(Reviews) /\ Len(inputs) \in Nat
  BY DEF TypeOK
<1>2. n \in Nat /\ taken[s] \in 0..Len(inputs)
  <2>1. s \in 1..Output /\ s + 1 \in 1..Output
    BY StageFacts
  <2>2. Put(taken, s + 1) \in 0..Len(inputs)
    BY <2>1, Bounds
  <2>. QED BY <2>1, <2>2, <1>1
<1>3. /\ \A j \in DOMAIN rows : rows[j] = taken[s] - Len(rows) + j
      /\ n + Len(rows) = taken[s]
  BY DEF Flow, HoldsRows
<1> HIDE DEF rows, n
<1>4. n + Len(rows) <= Len(inputs)
  BY <1>1, <1>2, <1>3
<1>5. \A j \in DOMAIN rows : rows[j] = n + j
  <2> TAKE j \in DOMAIN rows
  <2>1. taken[s] \in Nat /\ taken[s] - Len(rows) = n
    BY <1>1, <1>2, <1>3
  <2>2. rows[j] = taken[s] - Len(rows) + j
    BY <1>3
  <2>. QED BY <2>1, <2>2
<1>6. \A k \in Keys :
        /\ Reviewed(rows) \in Seq(Reviews)
        /\ OfKey(s, k, journal \o SubSeq(inputs, 1, n + Len(rows)))
             = OfKey(s, k, journal \o SubSeq(inputs, 1, n)) \o OfKey(s, k, Reviewed(rows))
        /\ ~Touches(s, k) => OfKey(s, k, Reviewed(rows)) = <<>>
  BY <1>1, <1>2, <1>4, <1>5, RowsFolded
<1>7. detached' = [detached EXCEPT ![s] =
        [k \in Keys |-> detached[s][k] \o OfKey(s, k, Reviewed(rows))]]
  BY DEF Fold, rows
<1>8. \A k \in Keys : OfKey(s, k, Reviewed(rows)) \in Seq(Reviews)
  BY <1>6, OfKeyType
<1>9. detached' \in [Stages -> [Keys -> Seq(Reviews)]]
  <2>1. \A k \in Keys : detached[s][k] \in Seq(Reviews)
    BY DEF TypeOK
  <2>2. \A k \in Keys : detached[s][k] \o OfKey(s, k, Reviewed(rows)) \in Seq(Reviews)
    BY <2>1, <1>8
  <2>3. [k \in Keys |-> detached[s][k] \o OfKey(s, k, Reviewed(rows))] \in [Keys -> Seq(Reviews)]
    BY <2>2
  <2>. QED BY <2>3, <1>7 DEF TypeOK
<1>10. \A k \in Keys : detached'[s][k] = detached[s][k] \o OfKey(s, k, Reviewed(rows))
  BY <1>7 DEF TypeOK
<1>11. \A u \in Stages : u # s => detached'[u] = detached[u]
  BY <1>7 DEF TypeOK
<1>12. Folded(taken, s) = n
  <2>1. Folded(taken, s) = n + 0
    BY DEF Folded, n
  <2>. QED BY <2>1, <1>2
<1>13. HoldsStates(taken2, s)'
  <2> SUFFICES ASSUME NEW k \in Keys
               PROVE  detached'[s][k] =
                        IF Touches(s, k) THEN OfKey(s, k, journal \o SubSeq(inputs, 1, n + Len(rows)))
                                         ELSE <<>>
    <3>1. \A k \in Keys : Touches(s, k)' <=> Touches(s, k)
      BY DEF Touches
    <3>2. Folded(taken2, s)' = n + Len(rows)
      BY DEF n, rows
    <3>. QED BY <3>1, <3>2 DEF HoldsStates
  <2>1. detached[s][k] = IF Touches(s, k) THEN OfKey(s, k, journal \o SubSeq(inputs, 1, n))
                                          ELSE <<>>
    BY <1>12 DEF Flow, HoldsStates
  <2>2. CASE Touches(s, k)
    BY <2>1, <2>2, <1>6, <1>10
  <2>3. CASE ~Touches(s, k)
    <3>1. <<>> \o <<>> = <<>>
      OBVIOUS
    <3>. QED BY <3>1, <2>1, <2>3, <1>6, <1>10
  <2>. QED BY <2>2, <2>3
<1>. QED BY <1>1, <1>2, <1>4, <1>5, <1>9, <1>11, <1>13 DEF n, rows

\* What a stage holds when it has folded its rows and goes on to send them.
LEMMA ComputeKeeps ==
  ASSUME IInv, NEW s \in Stages, Compute(s)
  PROVE  IInv'
<1>1. Going(s) /\ stage[s].at = "compute" /\ ~IsSink(s) /\ Fold(s)
  BY DEF Compute, StageAt, Going
<1>2. call = "running" /\ TypeOK /\ NeighboursAgree /\ RowsFlow
  BY <1>1, RunningCall, StageFacts
<1> DEFINE b == [stage[s] EXCEPT !.at = "send"]
<1>3. Update(s, b)
      /\ UNCHANGED <<authority, call, stateOnly, inputs, sent, channel, result, rowsOut,
                     failure, outcome>>
  BY DEF Compute
<1>4. stage[s] \in BatchType /\ stage[s].rows # <<>>
  BY <1>1, <1>2 DEF TypeOK, BatchType, NeighboursAgree, StageOK
<1>5. /\ b \in BatchType /\ b.at = "send" /\ b.rows = stage[s].rows
      /\ b.error = stage[s].error /\ b.ended = stage[s].ended
  BY <1>4 DEF BatchType, Places
<1> HIDE DEF b
<1>6. \A u \in Stages : stage'[u] = IF u = s THEN b ELSE stage[u]
  BY <1>2, <1>3 DEF TypeOK, Update
<1>7. stage' \in [Stages -> BatchType]
  BY <1>2, <1>3, <1>5 DEF TypeOK, Update, BatchType
<1>8. NeighboursAgree'
  <2>1. \A c \in 1..Output : ChannelOK(c)'
    BY <1>2, <1>3 DEF NeighboursAgree, ChannelOK, Broken
  <2>2. ASSUME NEW u \in Stages PROVE StageOK(u)'
    <3>1. CASE u = s
      <4>1. stage'[u] = b /\ result'[u] = Running /\ StageOK(s)
        BY <3>1, <1>1, <1>2, <1>3, <1>6 DEF Going, NeighboursAgree
      <4>. QED BY <3>1, <4>1, <1>1, <1>3, <1>4, <1>5, StatusFacts DEF StageOK, Going, IsSink
    <3>2. CASE u # s
      BY <3>2, <1>2, <1>3, <1>6 DEF NeighboursAgree, StageOK, Going, IsSink
    <3>. QED BY <3>1, <3>2
  <2>3. ASSUME NEW t \in Threads PROVE ThreadOK(t)'
    <3>1. t # StageCount => stage'[t + 1].error = stage[t + 1].error
      BY <1>5, <1>6, StageFacts
    <3>2. Told(t) => Told(t)'
      BY <3>1, <1>3 DEF Told, Broken
    <3>. QED BY <3>2, <1>2, <1>3 DEF NeighboursAgree, ThreadOK, Broken
  <2>. QED BY <2>1, <2>2, <2>3 DEF NeighboursAgree
<1>9. PICK taken \in [1..Output -> 0..Len(inputs)] : Flow(taken)
  BY <1>2 DEF RowsFlow
<1>10. \A c : Put(taken, c)' = Put(taken, c)
  BY <1>3 DEF Put
<1>11. Folded(taken, s)' = Put(taken, s + 1) + Len(stage[s].rows)
  BY <1>5, <1>6, <1>10 DEF Folded
<1>12. inputs' = inputs /\ journal' = journal
  BY <1>3 DEF authority
<1>13. /\ detached' \in [Stages -> [Keys -> Seq(Reviews)]]
       /\ HoldsStates(taken, s)'
       /\ \A u \in Stages : u # s => detached'[u] = detached[u]
  BY <1>1, <1>2, <1>9, <1>11, <1>12, FoldsRows
<1>14. TypeOK'
  BY <1>2, <1>3, <1>7, <1>13 DEF TypeOK, authority, BatchType
<1>15. RowsFlow'
  <2>1. ASSUME NEW u \in Stages PROVE HoldsStates(taken, u)'
    <3>1. CASE u # s
      <4>1. Folded(taken, u)' = Folded(taken, u)
        BY <3>1, <1>6, <1>10 DEF Folded
      <4>. QED BY <3>1, <4>1, <1>9, <1>12, <1>13, StatesHeld DEF Flow
    <3>. QED BY <3>1, <1>13
  <2>2. ASSUME NEW u \in Stages PROVE HoldsRows(taken, u)'
    BY <1>1, <1>5, <1>6, <1>9, <1>10 DEF Flow, HoldsRows
  <2>3. Flow(taken)'
    BY <2>1, <2>2, <1>3, <1>9, <1>10 DEF Flow
  <2>. QED BY <2>3, <1>3 DEF RowsFlow
<1>. QED BY <1>2, <1>3, <1>8, <1>14, <1>15, CallGoesOn

LEMMA AfterRowsFacts ==
  ASSUME NEW batch
  PROVE  /\ AfterRows(batch) \in {"forward", "finish", "receive"}
         /\ AfterRows(batch) = "forward" <=> batch.error # NoFailure
         /\ AfterRows(batch) = "finish" => batch.ended
BY DEF AfterRows

\* The first n rows, in order.
Count(n) == [i \in 1..n |-> i]

LEMMA CountFacts ==
  ASSUME NEW n \in Nat
  PROVE  Count(n) \in Seq(Nat) /\ Len(Count(n)) = n /\ \A i \in 1..n : Count(n)[i] = i
<1>1. \A i \in 1..n : i \in Nat
  OBVIOUS
<1>2. Count(n) \in [1..n -> Nat]
  BY <1>1 DEF Count
<1>. QED BY <1>2 DEF Count

\* Where the rows end when the last stage counts them itself.
LEMMA RowsCounted ==
  ASSUME NEW n \in Nat, NEW rows \in Seq(Nat), \A j \in DOMAIN rows : rows[j] = n + j
  PROVE  Count(n) \o rows = Count(n + Len(rows))
<1> DEFINE m == n + Len(rows)
           both == Count(n) \o rows
<1>1. Count(n) \in Seq(Nat) /\ Len(Count(n)) = n /\ \A i \in 1..n : Count(n)[i] = i
  BY CountFacts
<1>2. Len(rows) \in Nat /\ DOMAIN rows = 1..Len(rows) /\ m \in Nat
  OBVIOUS
<1>3. Count(m) \in Seq(Nat) /\ Len(Count(m)) = m /\ \A i \in 1..m : Count(m)[i] = i
  BY <1>2, CountFacts
<1>4. both \in Seq(Nat) /\ Len(both) = m
  <2>1. \A x, y \in Seq(Nat) : x \o y \in Seq(Nat) /\ Len(x \o y) = Len(x) + Len(y)
    OBVIOUS
  <2> HIDE DEF m
  <2>. QED BY <2>1, <1>1 DEF m
<1>5. ASSUME NEW i \in 1..m PROVE both[i] = Count(m)[i]
  <2>1. CASE i \in 1..n
    BY <2>1, <1>1, <1>2, <1>3
  <2>2. CASE i \notin 1..n
    <3>1. i - n \in 1..Len(rows) /\ both[i] = rows[i - n]
      BY <2>2, <1>1, <1>2
    <3>2. rows[i - n] = n + (i - n)
      BY <3>1, <1>2
    <3>3. n + (i - n) = i
      OBVIOUS
    <3>. QED BY <3>1, <3>2, <3>3, <1>3
  <2>. QED BY <2>1, <2>2
<1> HIDE DEF m, both
<1>6. both = Count(m)
  BY <1>3, <1>4, <1>5, SeqEqual
<1>. QED BY <1>6 DEF m, both

\* Where they end when the caller receives them one by one.
LEMMA RowAppended ==
  ASSUME NEW n \in Nat
  PROVE  Append(Count(n), n + 1) = Count(n + 1)
<1> DEFINE m == n + 1
           more == Append(Count(n), m)
<1>1. Count(n) \in Seq(Nat) /\ Len(Count(n)) = n /\ \A i \in 1..n : Count(n)[i] = i
  BY CountFacts
<1>2. m \in Nat
  OBVIOUS
<1>3. Count(m) \in Seq(Nat) /\ Len(Count(m)) = m /\ \A i \in 1..m : Count(m)[i] = i
  BY <1>2, CountFacts
<1>4. /\ more \in Seq(Nat) /\ Len(more) = m /\ more[Len(more)] = m
      /\ \A i \in 1..n : more[i] = Count(n)[i]
  BY <1>1, <1>2, AppendNat
<1> HIDE DEF more
<1>5. \A i \in 1..m : more[i] = Count(m)[i]
  BY <1>1, <1>3, <1>4
<1> HIDE DEF m
<1>6. more = Count(m)
  BY <1>3, <1>4, <1>5, SeqEqual
<1>. QED BY <1>6 DEF m, more

LEMMA ComputeAndCountKeeps ==
  ASSUME IInv, NEW s \in Stages, ComputeAndCount(s)
  PROVE  IInv'
<1>1. Going(s) /\ stage[s].at = "compute" /\ stateOnly /\ s = StageCount /\ Fold(s)
  BY DEF ComputeAndCount, StageAt, Going, IsSink
<1>2. call = "running" /\ TypeOK /\ NeighboursAgree /\ RowsFlow
  BY <1>1, RunningCall, StageFacts
<1> DEFINE place == AfterRows(stage[s])
           b == [stage[s] EXCEPT !.at = place, !.rows = <<>>]
           rows == stage[s].rows
<1>3. /\ Update(s, b) /\ rowsOut' = rowsOut \o rows
      /\ UNCHANGED <<authority, call, stateOnly, inputs, sent, channel, result, failure, outcome>>
  BY DEF ComputeAndCount
<1>4. /\ place \in {"forward", "finish", "receive"}
      /\ place = "forward" <=> stage[s].error # NoFailure
      /\ place = "finish" => stage[s].ended
  BY AfterRowsFacts
<1> HIDE DEF place
<1>5. stage[s] \in BatchType /\ stage[s].rows # <<>> /\ rows \in Seq(Nat)
      /\ (stage[s].ended => ~Going(s - 1) /\ channel[s] = <<>>)
  BY <1>1, <1>2 DEF TypeOK, BatchType, NeighboursAgree, StageOK
<1>6. /\ b \in BatchType /\ b.at = place /\ b.rows = <<>>
      /\ b.error = stage[s].error /\ b.ended = stage[s].ended
  <2>1. <<>> \in Seq(Nat)
    OBVIOUS
  <2>. QED BY <2>1, <1>4, <1>5 DEF BatchType, Places
<1> HIDE DEF b
<1>7. \A u \in Stages : stage'[u] = IF u = s THEN b ELSE stage[u]
  BY <1>2, <1>3 DEF TypeOK, Update
<1>8. stage' \in [Stages -> BatchType]
  BY <1>2, <1>3, <1>6 DEF TypeOK, Update, BatchType
<1>9. NeighboursAgree'
  <2>1. \A c \in 1..Output : ChannelOK(c)'
    BY <1>2, <1>3 DEF NeighboursAgree, ChannelOK, Broken
  <2>2. ASSUME NEW u \in Stages PROVE StageOK(u)'
    <3>1. CASE u = s
      <4>1. stage'[u] = b /\ result'[u] = Running
        BY <3>1, <1>1, <1>3, <1>7 DEF Going
      <4>. QED BY <3>1, <4>1, <1>1, <1>3, <1>4, <1>5, <1>6, StatusFacts DEF StageOK, Going, IsSink
    <3>2. CASE u # s
      BY <3>2, <1>2, <1>3, <1>7 DEF NeighboursAgree, StageOK, Going, IsSink
    <3>. QED BY <3>1, <3>2
  <2>3. ASSUME NEW t \in Threads PROVE ThreadOK(t)'
    <3>1. t # StageCount => stage'[t + 1].error = stage[t + 1].error
      BY <1>6, <1>7, StageFacts
    <3>2. Told(t) => Told(t)'
      BY <3>1, <1>3 DEF Told, Broken
    <3>. QED BY <3>2, <1>2, <1>3 DEF NeighboursAgree, ThreadOK, Broken
  <2>. QED BY <2>1, <2>2, <2>3 DEF NeighboursAgree
<1>10. PICK taken \in [1..Output -> 0..Len(inputs)] : Flow(taken)
  BY <1>2 DEF RowsFlow
<1>11. /\ s + 1 = Output /\ Output \in 1..Output /\ s \in 1..Output /\ s # Output
       /\ channel[Output] = <<>>
  BY <1>1, <1>2, StageFacts DEF NeighboursAgree, ChannelOK
<1>12. /\ Put(taken, s + 1) = taken[Output] /\ taken[Output] \in Nat /\ Len(inputs) \in Nat
       /\ Len(rows) \in Nat /\ taken[s] \in 0..Len(inputs)
       /\ taken[Output] + Len(rows) = taken[s]
  <2>1. taken \in [1..Output -> Nat] /\ Len(inputs) \in Nat /\ Len(rows) \in Nat
    BY <1>2, <1>5, <1>10, Bounds
  <2>2. taken[Output] \in Nat /\ taken[s] \in 0..Len(inputs)
    BY <2>1, <1>10, <1>11
  <2>3. Put(taken, s + 1) = taken[Output] + 0
    BY <1>11, EmptyQueue DEF Put
  <2>4. Put(taken, s + 1) = taken[Output]
    BY <2>2, <2>3
  <2>5. Put(taken, s + 1) + Len(rows) = taken[s]
    BY <1>1, <1>10 DEF Flow, HoldsRows
  <2>. QED BY <2>1, <2>2, <2>4, <2>5
<1> DEFINE m == taken[s]
           taken2 == [taken EXCEPT ![Output] = m]
<1>13. /\ m \in Nat /\ m = taken[Output] + Len(rows) /\ m + 0 = m /\ m \in 0..Len(inputs)
       /\ \A j \in DOMAIN rows : rows[j] = taken[Output] + j
  <2>1. \A j \in DOMAIN rows : rows[j] = taken[s] - Len(rows) + j
    BY <1>10 DEF Flow, HoldsRows
  <2>2. taken[s] \in Nat /\ taken[s] - Len(rows) = taken[Output]
    BY <1>12
  <2>. QED BY <2>1, <2>2, <1>12
<1>14. /\ taken2 \in [1..Output -> 0..Len(inputs)]
       /\ taken2[Output] = m /\ \A c \in 1..Output : c # Output => taken2[c] = taken[c]
  BY <1>11, <1>13
<1> HIDE DEF m, taken2
<1>15. /\ \A c \in 1..Output : c # Output => Put(taken2, c)' = Put(taken, c)
       /\ Put(taken2, Output)' = m
  <2>1. channel' = channel /\ RowsIn(channel[Output]) = 0
    BY <1>3, <1>11, EmptyQueue
  <2>2. Put(taken2, Output)' = m + 0
    BY <2>1, <1>14 DEF Put
  <2>3. ASSUME NEW c \in 1..Output, c # Output PROVE Put(taken2, c)' = Put(taken, c)
    BY <2>1, <2>3, <1>14 DEF Put
  <2>. QED BY <2>2, <2>3, <1>13
<1>16. Folded(taken2, s)' = Put(taken, s + 1) + Len(stage[s].rows)
  <2>1. Put(taken2, s + 1)' = m
    BY <1>11, <1>15
  <2>2. Folded(taken2, s)' = m + 0
    BY <2>1, <1>4, <1>6, <1>7 DEF Folded
  <2>. QED BY <2>2, <1>12, <1>13
<1>17. inputs' = inputs /\ journal' = journal
  BY <1>3 DEF authority
<1>18. /\ detached' \in [Stages -> [Keys -> Seq(Reviews)]]
       /\ HoldsStates(taken2, s)'
       /\ \A u \in Stages : u # s => detached'[u] = detached[u]
  BY <1>1, <1>2, <1>10, <1>16, <1>17, FoldsRows
<1>19. TypeOK'
  <2>1. rowsOut' \in Seq(Nat)
    BY <1>2, <1>3, <1>5 DEF TypeOK
  <2>. QED BY <2>1, <1>2, <1>3, <1>8, <1>18 DEF TypeOK, authority, BatchType
<1>20. RowsFlow'
  <2>1. ASSUME NEW u \in Stages PROVE HoldsStates(taken2, u)'
    <3>1. CASE u # s
      <4>1. u + 1 \in 1..Output /\ u + 1 # Output
        BY <3>1, <1>1, StageFacts DEF Stages
      <4>2. Folded(taken2, u)' = Folded(taken, u)
        BY <3>1, <4>1, <1>7, <1>15 DEF Folded
      <4>. QED BY <3>1, <4>2, <1>10, <1>17, <1>18, StatesHeld DEF Flow
    <3>. QED BY <3>1, <1>18
  <2>2. ASSUME NEW u \in Stages PROVE HoldsRows(taken2, u)'
    <3>1. CASE u # s
      <4>1. u + 1 \in 1..Output /\ u + 1 # Output /\ u \in 1..Output /\ u # Output
        BY <3>1, <1>1, StageFacts DEF Stages
      <4>2. Put(taken2, u + 1)' = Put(taken, u + 1) /\ taken2[u] = taken[u]
            /\ stage'[u] = stage[u]
        BY <3>1, <4>1, <1>7, <1>14, <1>15
      <4>. QED BY <4>2, <1>10 DEF Flow, HoldsRows
    <3>2. CASE u = s
      <4>1. Put(taken2, s + 1)' = m /\ taken2[s] = m
        BY <1>11, <1>14, <1>15 DEF m
      <4>2. stage'[s].rows = <<>> /\ Len(stage'[s].rows) = 0
        BY <1>6, <1>7
      <4>3. /\ \A j \in DOMAIN stage'[s].rows : stage'[s].rows[j] = m - 0 + j
            /\ m + 0 <= m
        BY <4>2, <1>13
      <4>. QED BY <3>2, <4>1, <4>2, <4>3, <1>13 DEF HoldsRows
    <3>. QED BY <3>1, <3>2
  <2>3. rowsOut' = [i \in 1..taken2[Output] |-> i]
    <3>1. rowsOut = Count(taken[Output])
      BY <1>10 DEF Flow, Count
    <3>2. taken[Output] \in Nat /\ rows \in Seq(Nat) /\ m = taken[Output] + Len(rows)
          /\ \A j \in DOMAIN rows : rows[j] = taken[Output] + j
      BY <1>5, <1>12, <1>13
    <3>3. Count(taken[Output]) \o rows = Count(taken[Output] + Len(rows))
      BY <3>2, RowsCounted
    <3>. QED BY <3>1, <3>2, <3>3, <1>3, <1>14 DEF Count
  <2>4. ASSUME NEW c \in 1..Output PROVE Follow(channel'[c], taken2[c])
    <3>1. channel'[c] = channel[c]
      BY <1>3
    <3>. QED BY <3>1, <1>10, <1>11, <1>14, EmptyQueue DEF Flow
  <2>5. Put(taken2, 1)' = sent' /\ sent' <= Len(inputs')
    <3>1. 1 \in 1..Output /\ 1 # Output
      BY StageFacts
    <3>. QED BY <3>1, <1>3, <1>10, <1>15 DEF Flow
  <2>6. Flow(taken2)'
    BY <2>1, <2>2, <2>3, <2>4, <2>5 DEF Flow
  <2>. QED BY <2>6, <1>14, <1>17 DEF RowsFlow
<1>. QED BY <1>2, <1>3, <1>9, <1>19, <1>20, CallGoesOn

-------------------------------------------------------------------------------
(* Stages that send.                                                         *)

LEMMA TailNat ==
  ASSUME NEW rows \in Seq(Nat), rows # <<>>
  PROVE  /\ Tail(rows) \in Seq(Nat) /\ Len(Tail(rows)) \in Nat /\ Len(rows) \in Nat
         /\ Len(rows) = Len(Tail(rows)) + 1 /\ Head(rows) = rows[1] /\ Head(rows) \in Nat
         /\ 1 \in DOMAIN rows /\ DOMAIN Tail(rows) = 1..Len(Tail(rows))
         /\ \A j \in DOMAIN Tail(rows) : Tail(rows)[j] = rows[j + 1] /\ j + 1 \in DOMAIN rows
OBVIOUS

\* The first row a stage holds is the next one for the stage after it.
LEMMA SendsRow ==
  ASSUME IInv, NEW s \in Stages, SendRow(s), ReceiverAlive(s + 1)
  PROVE  IInv'
<1> DEFINE rows == stage[s].rows
           rest == Tail(rows)
           place == IF rest = <<>> THEN AfterRows(stage[s]) ELSE "send"
           b == [stage[s] EXCEPT !.rows = rest, !.at = place]
           d == s + 1
           q == channel[d]
           p == Append(q, Row(Head(rows)))
<1>1. /\ Going(s) /\ stage[s].at = "send"
      /\ Update(s, b) /\ channel' = [channel EXCEPT ![d] = p]
      /\ UNCHANGED <<authority, call, stateOnly, inputs, sent, detached, result, rowsOut,
                     failure, outcome>>
  BY DEF SendRow, StageAt, Going, Sent
<1>2. call = "running" /\ TypeOK /\ NeighboursAgree /\ RowsFlow
  BY <1>1, RunningCall, StageFacts
<1>3. /\ s \in Nat /\ s \in 1..Output /\ d \in 1..Output /\ s # d /\ d - 1 = s
      /\ s \in Threads /\ \A u \in Stages : u # s => u + 1 \in 1..Output /\ u + 1 # d
  <2>1. /\ \A u \in Stages : u \in Nat /\ u \in 1..Output /\ u + 1 \in 1..Output
        /\ s \in Threads
    BY StageFacts
  <2>. QED BY <2>1
<1> HIDE DEF d
<1>4. /\ stage[s] \in BatchType /\ rows \in Seq(Nat) /\ rows # <<>> /\ ~IsSink(s)
      /\ stage[s].ended => ~Going(s - 1) /\ channel[s] = <<>>
  BY <1>1, <1>2 DEF TypeOK, BatchType, NeighboursAgree, StageOK
<1>5. /\ rest \in Seq(Nat) /\ Len(rest) \in Nat /\ Len(rows) \in Nat
      /\ Len(rows) = Len(rest) + 1 /\ Head(rows) = rows[1] /\ Head(rows) \in Nat
      /\ 1 \in DOMAIN rows /\ DOMAIN rest = 1..Len(rest)
      /\ \A j \in DOMAIN rest : rest[j] = rows[j + 1] /\ j + 1 \in DOMAIN rows
  BY <1>4, TailNat
<1> HIDE DEF rest
<1>6. /\ place \in {"send", "forward", "finish", "receive"}
      /\ place = "send" <=> rest # <<>>
      /\ place = "forward" => stage[s].error # NoFailure
      /\ place \in {"receive", "finish"} => stage[s].error = NoFailure
      /\ place = "finish" => stage[s].ended
  BY AfterRowsFacts
<1> HIDE DEF place
<1>7. /\ b \in BatchType /\ b.at = place /\ b.rows = rest
      /\ b.error = stage[s].error /\ b.ended = stage[s].ended
  BY <1>4, <1>5, <1>6 DEF BatchType, Places
<1> HIDE DEF b
<1>8. /\ q \in Seq(Messages) /\ ErrorIsLast(q) /\ ~HasError(q)
      /\ d = Output => ~stateOnly
  <2>1. ~Broken(d - 1)
    BY <1>1, <1>3 DEF Going, Broken
  <2>2. d = Output => s = StageCount
    BY StageFacts DEF d
  <2>. QED BY <2>1, <2>2, <1>2, <1>3, <1>4 DEF TypeOK, NeighboursAgree, ChannelOK, IsSink
<1> HIDE DEF q
<1>9. /\ p \in Seq(Messages) /\ ErrorIsLast(p) /\ ~HasError(p) /\ RowsIn(p) = RowsIn(q) + 1
      /\ \A t \in Nat : Follow(q, t) /\ Head(rows) = t + RowsIn(q) + 1 => Follow(p, t)
  BY <1>5, <1>8, QueueRow
<1> HIDE DEF p
<1>10. \A c \in 1..Output : channel'[c] = IF c = d THEN p ELSE channel[c]
  BY <1>1, <1>2 DEF TypeOK
<1>11. \A u \in Stages : stage'[u] = IF u = s THEN b ELSE stage[u]
  BY <1>1, <1>2 DEF TypeOK, Update
<1>12. TypeOK'
  <2>1. stage' \in [Stages -> BatchType]
    BY <1>1, <1>2, <1>7 DEF TypeOK, Update, BatchType
  <2>2. channel' \in [1..Output -> Seq(Messages)]
    BY <1>1, <1>2, <1>9 DEF TypeOK
  <2>. QED BY <2>1, <2>2, <1>1, <1>2 DEF TypeOK, authority, BatchType
<1>13. NeighboursAgree'
  <2>1. ASSUME NEW c \in 1..Output PROVE ChannelOK(c)'
    BY <1>1, <1>2, <1>8, <1>9, <1>10 DEF NeighboursAgree, ChannelOK, Broken
  <2>2. ASSUME NEW u \in Stages PROVE StageOK(u)'
    <3>0. u \in 1..Output
      BY StageFacts
    <3>1. CASE u = s
      <4>1. stage'[u] = b /\ result'[u] = Running /\ channel'[s] = channel[s]
        BY <3>1, <1>1, <1>3, <1>10, <1>11 DEF Going
      <4>. QED BY <3>1, <4>1, <1>1, <1>4, <1>6, <1>7, StatusFacts DEF StageOK, Going, IsSink
    <3>2. CASE u # s
      <4>1. u = d => result[u - 1] = Running
        BY <1>1, <1>3 DEF Going
      <4>2. stage'[u] = stage[u]
        BY <3>2, <1>11
      <4>3. CASE u = d
        <5>1. ~(stage[u].at = "finish" \/ stage[u].ended)
          BY <4>1, <4>3, <1>2 DEF NeighboursAgree, StageOK, Going
        <5>. QED BY <5>1, <4>2, <1>1, <1>2 DEF NeighboursAgree, StageOK, Going, IsSink
      <4>4. CASE u # d
        BY <4>2, <4>4, <3>0, <1>1, <1>2, <1>10 DEF NeighboursAgree, StageOK, Going, IsSink
      <4>. QED BY <4>3, <4>4
    <3>. QED BY <3>1, <3>2
  <2>3. ASSUME NEW t \in Threads PROVE ThreadOK(t)'
    <3>1. t # StageCount => stage'[t + 1].error = stage[t + 1].error
      BY <1>7, <1>11, StageFacts
    <3>2. HasError(channel[t + 1]) => HasError(channel'[t + 1])
      <4>1. t + 1 \in 1..Output
        BY StageFacts
      <4>. QED BY <4>1, <1>8, <1>10 DEF q
    <3>3. Told(t) => Told(t)'
      BY <3>1, <3>2, <1>1 DEF Told, Broken
    <3>. QED BY <3>3, <1>1, <1>2 DEF NeighboursAgree, ThreadOK, Broken
  <2>. QED BY <2>1, <2>2, <2>3 DEF NeighboursAgree
<1>14. PICK taken \in [1..Output -> 0..Len(inputs)] : Flow(taken)
  BY <1>2 DEF RowsFlow
<1>15. /\ RowsIn(q) \in Nat /\ taken[d] \in Nat /\ taken[s] \in Nat
       /\ Put(taken, d) = taken[d] + RowsIn(q)
       /\ Put(taken, d) + Len(rows) = taken[s]
  <2>1. taken \in [1..Output -> Nat]
    BY <1>2, <1>14, Bounds
  <2>2. taken[d] \in Nat /\ taken[s] \in Nat
    BY <2>1, <1>3
  <2>. QED BY <2>2, <1>1, <1>8, <1>14, RowsInNat DEF Put, Flow, HoldsRows, q, d
<1>16. /\ Put(taken, d)' = Put(taken, d) + 1
       /\ \A c \in 1..Output : c # d => Put(taken, c)' = Put(taken, c)
  <2>1. Put(taken, d)' = taken[d] + RowsIn(p)
    BY <1>3, <1>10 DEF Put
  <2>2. \A x, y \in Nat : x + (y + 1) = (x + y) + 1
    OBVIOUS
  <2>3. Put(taken, d)' = Put(taken, d) + 1
    BY <2>1, <2>2, <1>9, <1>15
  <2>. QED BY <2>3, <1>10 DEF Put
<1>17. Put(taken, d) \in Nat /\ Put(taken, d)' + Len(rest) = taken[s]
  <2>1. Put(taken, d) \in Nat
    BY <1>15
  <2>2. \A x, y \in Nat : (x + 1) + y = x + (y + 1)
    OBVIOUS
  <2>. QED BY <2>1, <2>2, <1>5, <1>15, <1>16
<1>18. RowsFlow'
  <2>1. ASSUME NEW u \in Stages PROVE HoldsRows(taken, u)'
    <3>1. CASE u # s
      <4>1. u + 1 \in 1..Output /\ u + 1 # d
        BY <3>1, <1>3
      <4>. QED BY <3>1, <4>1, <1>11, <1>14, <1>16 DEF Flow, HoldsRows
    <3>2. CASE u = s
      <4>1. \A j \in DOMAIN rows : rows[j] = taken[s] - Len(rows) + j
        BY <1>14 DEF Flow, HoldsRows
      <4>2. \A j \in DOMAIN rest : rest[j] = taken[s] - Len(rest) + j
        <5> TAKE j \in DOMAIN rest
        <5>1. rest[j] = taken[s] - Len(rows) + (j + 1)
          BY <4>1, <1>5
        <5>2. j \in Nat
          BY <1>5
        <5>3. taken[s] \in Nat /\ Len(rest) \in Nat
          BY <1>5, <1>15
        <5>4. taken[s] - (Len(rest) + 1) + (j + 1) = taken[s] - Len(rest) + j
          BY <5>2, <5>3, ShiftByOne
        <5>. QED BY <5>1, <5>4, <1>5
      <4>3. stage'[s].rows = rest
        BY <1>7, <1>11
      <4>4. taken[s] <= taken[s]
        BY <1>15
      <4>. QED BY <3>2, <4>2, <4>3, <4>4, <1>17 DEF HoldsRows, d
    <3>. QED BY <3>1, <3>2
  <2>2. ASSUME NEW u \in Stages PROVE HoldsStates(taken, u)'
    <3>1. CASE u # s
      <4>1. u + 1 \in 1..Output /\ u + 1 # d
        BY <3>1, <1>3
      <4>2. Folded(taken, u)' = Folded(taken, u)
        BY <3>1, <4>1, <1>11, <1>16 DEF Folded
      <4>. QED BY <4>2, <1>1, <1>14, StatesHeld DEF Flow, authority
    <3>2. CASE u = s
      <4>1. Folded(taken, s) = taken[s]
        BY <1>1, <1>15 DEF Folded, d
      <4>2. Folded(taken, s)' = Put(taken, d)' + Len(rest)
        <5>1. CASE rest # <<>>
          BY <5>1, <1>6, <1>7, <1>11 DEF Folded, d
        <5>2. CASE rest = <<>>
          <6>1. Len(rest) = 0
            BY <5>2
          <6>. QED BY <5>2, <6>1, <1>6, <1>7, <1>11 DEF Folded, d
        <5>. QED BY <5>1, <5>2
      <4>. QED BY <3>2, <4>1, <4>2, <1>1, <1>14, <1>17, StatesHeld DEF Flow, authority
    <3>. QED BY <3>1, <3>2
  <2>3. ASSUME NEW c \in 1..Output PROVE Follow(channel'[c], taken[c])
    <3>1. CASE c = d
      <4>1. Head(rows) = taken[s] - Len(rows) + 1
        BY <1>5, <1>14 DEF Flow, HoldsRows
      <4>2. Head(rows) = taken[d] + RowsIn(q) + 1
        BY <4>1, <1>5, <1>15
      <4>3. Follow(q, taken[d])
        BY <1>3, <1>14 DEF Flow, q
      <4>. QED BY <3>1, <4>2, <4>3, <1>3, <1>9, <1>10, <1>15
    <3>2. CASE c # d
      BY <3>2, <1>10, <1>14 DEF Flow
    <3>. QED BY <3>1, <3>2
  <2>4. Put(taken, 1)' = sent' /\ sent' <= Len(inputs')
    <3>1. 1 \in 1..Output /\ 1 # d
      BY <1>3, StageFacts
    <3>. QED BY <3>1, <1>1, <1>14, <1>16 DEF Flow
  <2>5. Flow(taken)'
    BY <2>1, <2>2, <2>3, <2>4, <1>1, <1>14 DEF Flow
  <2>. QED BY <2>5, <1>1 DEF RowsFlow
<1>. QED BY <1>1, <1>2, <1>12, <1>13, <1>18, CallGoesOn

LEMMA SendRowKeeps ==
  ASSUME IInv, NEW s \in Stages, SendRow(s)
  PROVE  IInv'
<1>1. CASE ~ReceiverAlive(s + 1) /\ Ends(s, Status("closed", s)) /\ UNCHANGED <<channel, stage>>
  <2>1. Going(s) /\ s \in Threads
    BY StageFacts DEF SendRow, StageAt, Going
  <2>2. NeighboursAgree
    BY <2>1, RunningCall
  <2>3. s # StageCount /\ Broken(s + 1)
    BY <2>1, <2>2, <1>1, ReceiverGone
  <2>4. UNCHANGED <<authority, call, stateOnly, inputs, sent, channel, detached, stage,
                    rowsOut, failure, outcome>>
    BY <1>1 DEF SendRow
  <2>. QED BY <2>1, <2>3, <2>4, <1>1, StageEndKeeps
<1>2. CASE ReceiverAlive(s + 1)
  BY <1>2, SendsRow
<1>. QED BY <1>1, <1>2 DEF SendRow, HasRoom

\* A stage that has met an error tells the next one and ends.
LEMMA TellsNext ==
  ASSUME IInv, NEW s \in Stages, StageAt(s, "forward"), HasRoom(s + 1), ~IsSink(s),
         Sent(s + 1, Failed(stage[s].error)), Ends(s, stage[s].error),
         UNCHANGED <<authority, call, stateOnly, inputs, sent, detached, stage, rowsOut,
                     failure, outcome>>
  PROVE  IInv'
<1> DEFINE d == s + 1
           q == channel[d]
           e == stage[s].error
           p == Append(q, Failed(e))
<1>1. /\ Going(s) /\ stage[s].at = "forward"
      /\ channel' = [channel EXCEPT ![d] = p] /\ result' = [result EXCEPT ![s] = e]
  BY DEF StageAt, Going, Sent, Ends
<1>2. call = "running" /\ TypeOK /\ NeighboursAgree /\ RowsFlow
  BY <1>1, RunningCall, StageFacts
<1>3. /\ s \in Nat /\ d \in 1..Output /\ d - 1 = s /\ s \in Threads /\ s # Producer
      /\ \A u \in Threads : u # s => u + 1 \in 1..Output /\ u + 1 # d
  <2>1. /\ \A u \in Threads : u \in Nat /\ u + 1 \in 1..Output
        /\ s \in Threads /\ s # Producer
    BY StageFacts
  <2>. QED BY <2>1
<1> HIDE DEF d
<1>4. e \in RowErrors
  BY <1>1, <1>2, StatusFacts DEF TypeOK, NeighboursAgree, StageOK
<1> HIDE DEF e
<1>5. /\ q \in Seq(Messages) /\ ErrorIsLast(q) /\ ~HasError(q)
      /\ d = Output => ~stateOnly
  <2>1. ~Broken(d - 1)
    BY <1>1, <1>3 DEF Going, Broken
  <2>2. d = Output => s = StageCount
    BY StageFacts DEF d
  <2>. QED BY <2>1, <2>2, <1>2, <1>3 DEF TypeOK, NeighboursAgree, ChannelOK, IsSink
<1> HIDE DEF q
<1>6. /\ p \in Seq(Messages) /\ ErrorIsLast(p) /\ HasError(p) /\ RowsIn(p) = RowsIn(q)
      /\ \A t \in Nat : Follow(q, t) => Follow(p, t)
  BY <1>4, <1>5, QueueError
<1> HIDE DEF p
<1>7. \A c \in 1..Output : channel'[c] = IF c = d THEN p ELSE channel[c]
  BY <1>1, <1>2 DEF TypeOK
<1>8. \A u \in Threads : result'[u] = IF u = s THEN e ELSE result[u]
  BY <1>1, <1>2 DEF TypeOK
<1>9. e \in EndsOf(s) /\ e # Running /\ e # Ok /\ e.kind = "compute"
  BY <1>4, StatusFacts DEF EndsOf
<1>10. TypeOK'
  <2>1. channel' \in [1..Output -> Seq(Messages)]
    BY <1>1, <1>2, <1>6 DEF TypeOK
  <2>2. result' \in [Threads -> Statuses]
    BY <1>1, <1>2, <1>3, <1>9, EndsAreStatuses DEF TypeOK
  <2>3. \A u \in Threads : result'[u] \in EndsOf(u)
    BY <1>2, <1>8, <1>9 DEF TypeOK
  <2>. QED BY <2>1, <2>2, <2>3, <1>2 DEF TypeOK, authority
<1>11. /\ \A u \in Threads : (Broken(u) => Broken(u)') /\ (~Going(u) => ~Going(u)')
       /\ Broken(s)'
  BY <1>3, <1>8, <1>9 DEF Broken, Going
<1>12. NeighboursAgree'
  <2>1. ASSUME NEW c \in 1..Output PROVE ChannelOK(c)'
    <3>1. c - 1 \in Threads
      BY StageFacts
    <3>2. CASE c = d
      BY <3>2, <1>3, <1>5, <1>6, <1>7, <1>11 DEF ChannelOK
    <3>3. CASE c # d
      BY <3>1, <3>3, <1>2, <1>7, <1>11 DEF NeighboursAgree, ChannelOK
    <3>. QED BY <3>2, <3>3
  <2>2. ASSUME NEW u \in Stages PROVE StageOK(u)'
    <3>1. u \in 1..Output /\ u - 1 \in Threads /\ u \in Threads
      BY StageFacts
    <3>2. result'[u] = Ok => result[u] = Ok
      BY <3>1, <1>8, <1>9
    <3>3. CASE u = d
      <4>1. ~(stage[u].at = "finish" \/ stage[u].ended)
        BY <3>3, <1>1, <1>2, <1>3 DEF NeighboursAgree, StageOK
      <4>. QED BY <3>2, <4>1, <1>2 DEF NeighboursAgree, StageOK, IsSink
    <3>4. CASE u # d
      <4>1. channel'[u] = channel[u]
        BY <3>1, <3>4, <1>7
      <4>. QED BY <3>1, <3>2, <4>1, <1>2, <1>11 DEF NeighboursAgree, StageOK, IsSink
    <3>. QED BY <3>3, <3>4
  <2>3. ASSUME NEW t \in Threads PROVE ThreadOK(t)'
    <3>1. t # StageCount => t + 1 \in Threads
      BY StageFacts
    <3>2. CASE t = s
      <4>1. Told(t)'
        BY <3>2, <1>3, <1>6, <1>7 DEF Told, d
      <4>. QED BY <3>2, <4>1, <1>3, <1>8, <1>9 DEF ThreadOK
    <3>3. CASE t # s
      <4>1. result'[t] = result[t] /\ channel'[t + 1] = channel[t + 1]
        BY <3>3, <1>3, <1>7, <1>8
      <4>2. Told(t) => Told(t)'
        BY <3>1, <4>1, <1>11 DEF Told
      <4>. QED BY <3>1, <4>1, <4>2, <1>2, <1>11 DEF NeighboursAgree, ThreadOK
    <3>. QED BY <3>2, <3>3
  <2>. QED BY <2>1, <2>2, <2>3 DEF NeighboursAgree
<1>13. RowsFlow'
  <2>1. PICK taken \in [1..Output -> 0..Len(inputs)] : Flow(taken)
    BY <1>2 DEF RowsFlow
  <2>2. \A c \in 1..Output : Put(taken, c)' = Put(taken, c)
    BY <1>6, <1>7 DEF Put, q
  <2>3. \A u \in Stages : u + 1 \in 1..Output
    BY StageFacts
  <2>4. \A u \in Stages : HoldsStates(taken, u)'
    <3> TAKE u \in Stages
    <3>1. Folded(taken, u)' = Folded(taken, u)
      BY <2>2, <2>3 DEF Folded
    <3>. QED BY <3>1, <2>1, StatesHeld DEF Flow, authority
  <2>5. \A u \in Stages : HoldsRows(taken, u)'
    BY <2>1, <2>2, <2>3 DEF Flow, HoldsRows
  <2>6. ASSUME NEW c \in 1..Output PROVE Follow(channel'[c], taken[c])
    <3>1. taken \in [1..Output -> Nat]
      BY <1>2, <2>1, Bounds
    <3>2. taken[c] \in Nat /\ Follow(channel[c], taken[c])
      BY <3>1, <2>1 DEF Flow
    <3>. QED BY <3>2, <1>6, <1>7 DEF q
  <2>7. Put(taken, 1)' = sent' /\ sent' <= Len(inputs')
    BY <2>1, <2>2, StageFacts DEF Flow
  <2>8. Flow(taken)'
    BY <2>1, <2>4, <2>5, <2>6, <2>7 DEF Flow
  <2>. QED BY <2>8 DEF RowsFlow
<1>. QED BY <1>2, <1>10, <1>12, <1>13, CallGoesOn

LEMMA ForwardKeeps ==
  ASSUME IInv, NEW s \in Stages, Forward(s)
  PROVE  IInv'
<1>1. Going(s) /\ s \in Threads /\ stage[s].at = "forward" /\ s # Producer
  BY StageFacts DEF Forward, StageAt, Going
<1>2. CASE (IsSink(s) \/ ~ReceiverAlive(s + 1)) /\ UNCHANGED channel
  <2> DEFINE v == stage[s].error
  <2>1. call = "running" /\ TypeOK /\ NeighboursAgree /\ RowsFlow
    BY <1>1, RunningCall
  <2>2. v \in RowErrors
    BY <1>1, <2>1, StatusFacts DEF TypeOK, NeighboursAgree, StageOK
  <2>3. \/ s = StageCount /\ stateOnly
        \/ s # StageCount /\ Broken(s + 1)
    <3>1. ~ReceiverAlive(s + 1) => s # StageCount /\ Broken(s + 1)
      BY <1>1, <2>1, ReceiverGone
    <3>. QED BY <3>1, <1>2 DEF IsSink
  <2>4. Ends(s, v)
        /\ UNCHANGED <<authority, call, stateOnly, inputs, sent, channel, detached, stage,
                       rowsOut, failure, outcome>>
    BY <1>2 DEF Forward
  <2> HIDE DEF v
  <2>5. v \in EndsOf(s) /\ v # Running /\ v # Ok /\ v.kind = "compute"
    BY <2>2, StatusFacts DEF EndsOf
  <2>6. MayEnd(s, v)
    BY <2>3, <2>5, <1>1 DEF MayEnd
  <2>. QED BY <2>4, <2>6, <1>1, EndKeeps
<1>3. CASE ~IsSink(s) /\ HasRoom(s + 1) /\ Sent(s + 1, Failed(stage[s].error))
  BY <1>3, TellsNext DEF Forward
<1>. QED BY <1>2, <1>3 DEF Forward

-------------------------------------------------------------------------------
(* The caller while the pipeline runs.                                       *)

LEMMA OutputGivesRow ==
  ASSUME IInv, ReceiveOutput, Head(channel[Output]).error = NoFailure
  PROVE  IInv'
<1> DEFINE q == channel[Output]
           p == Tail(q)
           row == Head(q).row
<1>1. /\ call = "running" /\ failure = NoFailure /\ failure' = NoFailure
      /\ q # <<>> /\ Head(q).error = NoFailure /\ rowsOut' = Append(rowsOut, row)
      /\ channel' = [channel EXCEPT ![Output] = p]
      /\ UNCHANGED <<authority, call, stateOnly, inputs, sent, detached, stage, result, outcome>>
  BY DEF ReceiveOutput
<1>2. TypeOK /\ NeighboursAgree /\ RowsFlow
  BY <1>1 DEF IInv, CallOK
<1>3. PICK taken \in [1..Output -> 0..Len(inputs)] : Flow(taken)
  BY <1>2 DEF RowsFlow
<1>4. Output \in 1..Output /\ \A s \in Stages : s \in 1..Output /\ s + 1 \in 1..Output /\ s # Output
  BY StageFacts
<1>5. q \in Seq(Messages) /\ ErrorIsLast(q) /\ ~stateOnly
  BY <1>1, <1>2, <1>4 DEF TypeOK, NeighboursAgree, ChannelOK
<1>6. /\ row \in Nat /\ p \in Seq(Messages) /\ ErrorIsLast(p)
      /\ HasError(p) <=> HasError(q)
      /\ RowsIn(q) = RowsIn(p) + 1 /\ RowsIn(p) \in Nat
      /\ \A t \in Nat : Follow(q, t) => row = t + 1 /\ Follow(p, t + 1)
  <2> HIDE DEF q
  <2>1. RowsIn(Tail(q)) \in Nat
    BY <1>1, <1>5, TakeRow, RowsInNat
  <2>. QED BY <1>1, <1>5, <2>1, TakeRow
<1>7. \A c \in 1..Output : channel'[c] = IF c = Output THEN p ELSE channel[c]
  BY <1>1, <1>2 DEF TypeOK
<1>8. channel' \in [1..Output -> Seq(Messages)]
  BY <1>1, <1>2, <1>6 DEF TypeOK
<1> HIDE DEF p, row
<1>9. TypeOK'
  <2>1. rowsOut' \in Seq(Nat)
    BY <1>1, <1>2, <1>6 DEF TypeOK
  <2>. QED BY <2>1, <1>1, <1>2, <1>8 DEF TypeOK, authority
<1>10. NeighboursAgree'
  <2>1. ASSUME NEW c \in 1..Output PROVE ChannelOK(c)'
    BY <1>1, <1>2, <1>5, <1>6, <1>7 DEF NeighboursAgree, ChannelOK, Broken
  <2>2. ASSUME NEW u \in Stages PROVE StageOK(u)'
    <3>1. channel'[u] = channel[u]
      BY <1>4, <1>7
    <3>. QED BY <3>1, <1>1, <1>2 DEF NeighboursAgree, StageOK, Going, IsSink
  <2>3. ASSUME NEW t \in Threads PROVE ThreadOK(t)'
    <3>1. t + 1 \in 1..Output
      BY StageFacts
    <3>2. HasError(channel[t + 1]) => HasError(channel'[t + 1])
      BY <3>1, <1>6, <1>7
    <3>3. Told(t) => Told(t)'
      BY <3>2, <1>1 DEF Told, Broken
    <3>. QED BY <3>3, <1>1, <1>2 DEF NeighboursAgree, ThreadOK, Broken
  <2>. QED BY <2>1, <2>2, <2>3 DEF NeighboursAgree
<1> DEFINE n == taken[Output]
           taken2 == [taken EXCEPT ![Output] = n + 1]
<1>11. /\ Len(inputs) \in Nat /\ n \in Nat /\ n + 1 \in 0..Len(inputs)
  <2>1. /\ taken \in [1..Output -> Nat] /\ Len(inputs) \in Nat
        /\ Put(taken, Output) \in 0..Len(inputs)
    BY <1>2, <1>3, <1>4, Bounds
  <2>2. Put(taken, Output) = n + RowsIn(q)
    BY DEF Put
  <2>. QED BY <2>1, <2>2, <1>4, <1>6
<1>12. /\ taken2 \in [1..Output -> 0..Len(inputs)]
       /\ taken2[Output] = n + 1 /\ \A c \in 1..Output : c # Output => taken2[c] = taken[c]
  BY <1>4, <1>11
<1>13. row = n + 1 /\ Follow(p, n + 1)
  <2>1. Follow(q, n)
    BY <1>3, <1>4 DEF Flow
  <2>. QED BY <2>1, <1>6, <1>11
<1> HIDE DEF taken2, n
<1>14. \A c \in 1..Output : Put(taken2, c)' = Put(taken, c)
  <2> TAKE c \in 1..Output
  <2>1. CASE c = Output
    <3>1. Put(taken2, c)' = (n + 1) + RowsIn(p)
      BY <2>1, <1>4, <1>7, <1>12 DEF Put
    <3>2. Put(taken, c) = n + RowsIn(q)
      BY <2>1 DEF Put, n
    <3>3. (n + 1) + RowsIn(p) = n + (RowsIn(p) + 1)
      BY <1>6, <1>11, Regroup
    <3>. QED BY <3>1, <3>2, <3>3, <1>6
  <2>2. CASE c # Output
    BY <2>2, <1>7, <1>12 DEF Put
  <2>. QED BY <2>1, <2>2
<1>15. RowsFlow'
  <2>1. ASSUME NEW u \in Stages PROVE HoldsStates(taken2, u)'
    <3>1. Put(taken2, u + 1)' = Put(taken, u + 1)
      BY <1>4, <1>14
    <3>2. Folded(taken2, u)' = Folded(taken, u)
      BY <3>1, <1>1 DEF Folded
    <3>. QED BY <3>2, <1>1, <1>3, StatesHeld DEF Flow, authority
  <2>2. ASSUME NEW u \in Stages PROVE HoldsRows(taken2, u)'
    <3>1. Put(taken2, u + 1)' = Put(taken, u + 1) /\ taken2[u] = taken[u]
      BY <1>4, <1>12, <1>14
    <3>. QED BY <3>1, <1>1, <1>3 DEF Flow, HoldsRows
  <2>3. ASSUME NEW c \in 1..Output PROVE Follow(channel'[c], taken2[c])
    BY <1>3, <1>7, <1>12, <1>13 DEF Flow
  <2>4. Put(taken2, 1)' = sent' /\ sent' <= Len(inputs')
    BY <1>1, <1>3, <1>14, StageFacts DEF Flow
  <2>5. rowsOut' = [i \in 1..taken2[Output] |-> i]
    <3>1. rowsOut = Count(n)
      BY <1>3 DEF Flow, n, Count
    <3>2. Append(Count(n), n + 1) = Count(n + 1)
      BY <1>11, RowAppended
    <3>. QED BY <3>1, <3>2, <1>1, <1>12, <1>13 DEF Count
  <2>6. Flow(taken2)'
    BY <2>1, <2>2, <2>3, <2>4, <2>5 DEF Flow
  <2>. QED BY <2>6, <1>1, <1>12 DEF RowsFlow
<1>16. IInv'
  <2>1. StatesMatchFeatures' /\ FailureIsReported'
    BY <1>1 DEF IInv, StatesMatchFeatures, FailureIsReported, Committed, authority
  <2>2. CallOK'
    BY <1>1, <1>10, <1>15 DEF IInv, CallOK, authority
  <2>. QED BY <2>1, <2>2, <1>9 DEF IInv
<1>. QED BY <1>16

LEMMA OutputGivesError ==
  ASSUME IInv, ReceiveOutput, Head(channel[Output]).error # NoFailure
  PROVE  IInv'
<1> DEFINE q == channel[Output]
           e == Head(q).error
<1>1. /\ call = "running" /\ failure = NoFailure /\ failure' = e
      /\ q # <<>> /\ e # NoFailure /\ rowsOut' = rowsOut
      /\ channel' = [channel EXCEPT ![Output] = Tail(q)]
      /\ UNCHANGED <<authority, call, stateOnly, inputs, sent, detached, stage, result, outcome>>
  BY DEF ReceiveOutput
<1>2. TypeOK /\ NeighboursAgree /\ RowsFlow
  BY <1>1 DEF IInv, CallOK
<1>3. PICK taken \in [1..Output -> 0..Len(inputs)] : Flow(taken)
  BY <1>2 DEF RowsFlow
<1>4. Output \in 1..Output /\ \A s \in Stages : s \in 1..Output /\ s + 1 \in 1..Output /\ s # Output
  BY StageFacts
<1>5. q \in Seq(Messages) /\ ErrorIsLast(q)
  BY <1>1, <1>2, <1>4 DEF TypeOK, NeighboursAgree, ChannelOK
<1>6. Tail(q) = <<>> /\ RowsIn(q) = 0 /\ e \in RowErrors
  BY <1>1, <1>5, TakeError
<1> HIDE DEF e
<1>7. \A c \in 1..Output : channel'[c] = IF c = Output THEN <<>> ELSE channel[c]
  BY <1>1, <1>2, <1>6 DEF TypeOK
<1>8. TypeOK'
  <2>1. <<>> \in Seq(Messages)
    BY EmptyQueue
  <2>2. channel' \in [1..Output -> Seq(Messages)]
    BY <2>1, <1>1, <1>2, <1>6 DEF TypeOK
  <2>3. failure' \in Errors
    BY <1>1, <1>6 DEF Errors
  <2>. QED BY <2>2, <2>3, <1>1, <1>2 DEF TypeOK, authority
<1>9. NeighboursAgree'
  <2>1. ASSUME NEW c \in 1..Output PROVE ChannelOK(c)'
    BY <1>1, <1>2, <1>7, EmptyQueue DEF NeighboursAgree, ChannelOK, Broken
  <2>2. ASSUME NEW u \in Stages PROVE StageOK(u)'
    <3>1. channel'[u] = channel[u]
      BY <1>4, <1>7
    <3>. QED BY <3>1, <1>1, <1>2 DEF NeighboursAgree, StageOK, Going, IsSink
  <2>3. ASSUME NEW t \in Threads PROVE ThreadOK(t)'
    <3>1. CASE t = StageCount
      <4>1. Told(t)'
        BY <3>1, <1>1 DEF Told
      <4>. QED BY <4>1, <1>1, <1>2 DEF NeighboursAgree, ThreadOK, Broken
    <3>2. CASE t # StageCount
      <4>1. t + 1 \in Stages
        BY <3>2, StageFacts
      <4>2. channel'[t + 1] = channel[t + 1]
        BY <4>1, <1>4, <1>7
      <4>3. Told(t) => Told(t)'
        BY <3>2, <4>2, <1>1 DEF Told, Broken
      <4>. QED BY <4>3, <1>1, <1>2 DEF NeighboursAgree, ThreadOK, Broken
    <3>. QED BY <3>1, <3>2
  <2>. QED BY <2>1, <2>2, <2>3 DEF NeighboursAgree
<1>10. \A c \in 1..Output : Put(taken, c)' = Put(taken, c)
  BY <1>6, <1>7, EmptyQueue DEF Put
<1>11. RowsFlow'
  <2>1. ASSUME NEW u \in Stages PROVE HoldsStates(taken, u)'
    <3>1. Put(taken, u + 1)' = Put(taken, u + 1)
      BY <1>4, <1>10
    <3>2. Folded(taken, u)' = Folded(taken, u)
      BY <3>1, <1>1 DEF Folded
    <3>. QED BY <3>2, <1>1, <1>3, StatesHeld DEF Flow, authority
  <2>2. ASSUME NEW u \in Stages PROVE HoldsRows(taken, u)'
    <3>1. Put(taken, u + 1)' = Put(taken, u + 1)
      BY <1>4, <1>10
    <3>. QED BY <3>1, <1>1, <1>3 DEF Flow, HoldsRows
  <2>3. \A c \in 1..Output : Follow(channel'[c], taken[c])
    BY <1>3, <1>7, EmptyQueue DEF Flow
  <2>4. Put(taken, 1)' = sent' /\ sent' <= Len(inputs')
    BY <1>1, <1>3, <1>10, StageFacts DEF Flow
  <2>5. Flow(taken)'
    BY <2>1, <2>2, <2>3, <2>4, <1>1, <1>3 DEF Flow
  <2>. QED BY <2>5, <1>1 DEF RowsFlow
<1>12. StatesMatchFeatures' /\ FailureIsReported'
  BY <1>1 DEF IInv, StatesMatchFeatures, FailureIsReported, Committed, authority
<1>13. CallOK'
  BY <1>1, <1>9, <1>11 DEF IInv, CallOK, authority
<1>. QED BY <1>8, <1>12, <1>13 DEF IInv

LEMMA ReceiveOutputKeeps ==
  ASSUME IInv, ReceiveOutput
  PROVE  IInv'
BY OutputGivesRow, OutputGivesError

-------------------------------------------------------------------------------
(* The caller before the pipeline runs.                                      *)

LEMMA QuietTypes ==
  /\ Detached \in [Stages -> [Keys -> Seq(Reviews)]]
  /\ [c \in 1..Output |-> <<>>] \in [1..Output -> Seq(Messages)]
  /\ [s \in Stages |-> NoBatch] \in [Stages -> BatchType]
  /\ [t \in Threads |-> Ok] \in [Threads -> Statuses]
  /\ \A t \in Threads : Ok \in EndsOf(t)
  /\ <<>> \in Seq(Reviews) /\ <<>> \in Seq(Nat)
  /\ NoFailure \in Errors /\ Ok \in Statuses /\ Ok # Running
<1>1. <<>> \in Seq(Reviews) /\ <<>> \in Seq(Nat) /\ <<>> \in Seq(Messages)
  OBVIOUS
<1>2. \A t \in Threads : Ok \in EndsOf(t) /\ Ok \in Statuses
  BY EndsAreStatuses DEF EndsOf
<1>3. Producer \in Threads
  BY StageFacts
<1>. QED BY <1>1, <1>2, <1>3, NoBatchFacts, StatusFacts DEF Detached

LEMMA Initially == Init => IInv
<1> SUFFICES ASSUME Init PROVE IInv
  OBVIOUS
<1>1. TypeOK
  <2>1. stateOnly \in BOOLEAN /\ sent \in Nat /\ call \in Calls
    BY DEF Init, Calls
  <2>. QED BY <2>1, QuietTypes DEF Init, TypeOK, BatchType
<1>2. StatesMatchFeatures
  <2>1. Committed = <<>>
    BY DEF Init, Committed
  <2>. QED BY <2>1, OfKeyEmpty DEF StatesMatchFeatures, Init, Detached
<1>3. CallOK
  BY QuietTypes DEF CallOK, Init, Quiet, Going
<1>4. FailureIsReported
  BY DEF Init, FailureIsReported
<1>. QED BY <1>1, <1>2, <1>3, <1>4 DEF IInv

LEMMA StartKeeps ==
  ASSUME IInv, NEW batch \in Batches, NEW only \in BOOLEAN, Start(batch, only)
  PROVE  IInv'
<1>1. batch \in Seq(Reviews) /\ batch # <<>>
  BY PipelineAssumption
<1>2. /\ call = "idle" /\ inputs' = batch /\ journal' = features /\ call' = "features"
      /\ stateOnly' = only
      /\ UNCHANGED <<states, features, sent, channel, detached, stage, result, rowsOut,
                     failure, outcome>>
  BY DEF Start
<1>3. TypeOK /\ StatesMatchFeatures /\ Quiet /\ \A t \in Threads : ~Going(t)
  BY <1>2 DEF IInv, CallOK
<1>4. TypeOK'
  BY <1>1, <1>2, <1>3 DEF TypeOK, Calls
<1>5. StatesMatchFeatures'
  <2>1. Committed' = Committed
    BY <1>2 DEF Committed
  <2>. QED BY <2>1, <1>2, <1>3 DEF StatesMatchFeatures
<1>6. Prepared' = 0
  BY <1>2, <1>3 DEF Prepared, TypeOK
<1>7. features' = journal' \o SubSeq(inputs', 1, 0)
  <2>1. SubSeq(inputs', 1, 0) = <<>> /\ features \o <<>> = features
    BY <1>3, ConcatEmptySeq DEF TypeOK
  <2>. QED BY <2>1, <1>2
<1>8. Prepared' \in 0..Len(inputs')
  BY <1>4, <1>6 DEF TypeOK
<1>9. CallOK'
  BY <1>1, <1>2, <1>3, <1>6, <1>7, <1>8 DEF CallOK, Quiet, Going
<1>10. FailureIsReported'
  BY <1>2 DEF FailureIsReported
<1>. QED BY <1>4, <1>5, <1>9, <1>10 DEF IInv

LEMMA StartEmptyKeeps ==
  ASSUME IInv, StartEmpty
  PROVE  IInv'
<1>1. /\ call = "idle" /\ outcome' = Ok
      /\ UNCHANGED <<authority, call, stateOnly, inputs, sent, channel, detached, stage,
                     result, rowsOut, failure>>
  BY DEF StartEmpty
<1>2. TypeOK'
  BY <1>1, QuietTypes DEF IInv, TypeOK, authority
<1>3. StatesMatchFeatures' /\ FailureIsReported'
  BY <1>1 DEF IInv, StatesMatchFeatures, FailureIsReported, Committed, authority
<1>4. CallOK'
  BY <1>1 DEF IInv, CallOK, Quiet, Going, authority
<1>. QED BY <1>2, <1>3, <1>4 DEF IInv

LEMMA Prefixes ==
  ASSUME NEW x \in Seq(Reviews), NEW n \in 0..Len(x)
  PROVE  LET y == SubSeq(x, 1, n)
         IN  y \in Seq(Reviews) /\ Len(y) = n /\ \A i \in 1..n : y[i] = x[i]
<1> DEFINE y == SubSeq(x, 1, n)
<1>1. Len(x) \in Nat /\ n \in Nat
  OBVIOUS
<1>2. y \in Seq(Reviews) /\ Len(y) = n
  BY <1>1
<1>3. \A i \in 1..n : y[i] = x[i]
  BY <1>1
<1>. QED BY <1>2, <1>3

LEMMA PrefixGrows ==
  ASSUME NEW x \in Seq(Reviews), NEW n \in Nat, n + 1 \in 1..Len(x)
  PROVE  Append(SubSeq(x, 1, n), x[n + 1]) = SubSeq(x, 1, n + 1)
<1> DEFINE old == SubSeq(x, 1, n)
           new == SubSeq(x, 1, n + 1)
           r == x[n + 1]
           more == Append(old, r)
<1>1. n \in 0..Len(x) /\ n + 1 \in 0..Len(x) /\ r \in Reviews
  OBVIOUS
<1>2. /\ old \in Seq(Reviews) /\ Len(old) = n /\ \A i \in 1..n : old[i] = x[i]
      /\ new \in Seq(Reviews) /\ Len(new) = n + 1 /\ \A i \in 1..(n + 1) : new[i] = x[i]
  BY <1>1, Prefixes
<1> HIDE DEF old, new
<1>3. /\ more \in Seq(Reviews) /\ Len(more) = Len(old) + 1
      /\ more[Len(more)] = r /\ \A i \in 1..Len(old) : more[i] = old[i]
  <2> HIDE DEF r
  <2>. QED BY <1>1, <1>2, AppendFacts
<1> HIDE DEF more
<1>4. ASSUME NEW i \in 1..(n + 1) PROVE more[i] = new[i]
  <2>1. CASE i = n + 1
    BY <2>1, <1>2, <1>3
  <2>2. CASE i # n + 1
    <3>1. i \in 1..n
      BY <2>2
    <3>. QED BY <3>1, <1>2, <1>3
  <2>. QED BY <2>1, <2>2
<1>5. more = new
  BY <1>2, <1>3, <1>4, SeqEqual
<1>. QED BY <1>5 DEF old, new, more

LEMMA FeatureStepKeeps ==
  ASSUME IInv, FeatureStep
  PROVE  IInv'
<1> DEFINE n == Prepared
<1>1. /\ call = "features" /\ n < Len(inputs)
      /\ features' = Append(features, inputs[n + 1])
      /\ UNCHANGED <<states, journal, call, stateOnly, inputs, sent, channel, detached, stage,
                     result, rowsOut, failure, outcome>>
  BY DEF FeatureStep
<1>2. /\ TypeOK /\ StatesMatchFeatures /\ Quiet /\ inputs # <<>> /\ \A t \in Threads : ~Going(t)
      /\ n \in 0..Len(inputs) /\ features = journal \o SubSeq(inputs, 1, n)
  BY <1>1 DEF IInv, CallOK
<1>3. /\ inputs \in Seq(Reviews) /\ journal \in Seq(Reviews) /\ features \in Seq(Reviews)
      /\ Len(inputs) \in Nat /\ Len(journal) \in Nat /\ Len(features) \in Nat
      /\ n \in Nat /\ n + 1 \in 1..Len(inputs) /\ inputs[n + 1] \in Reviews
      /\ n = Len(features) - Len(journal)
  <2>1. inputs \in Seq(Reviews) /\ journal \in Seq(Reviews) /\ features \in Seq(Reviews)
    BY <1>2 DEF TypeOK
  <2>2. Len(inputs) \in Nat /\ Len(journal) \in Nat /\ Len(features) \in Nat
    BY <2>1
  <2>3. n \in Nat /\ n + 1 \in 1..Len(inputs)
    BY <2>2, <1>1, <1>2
  <2>4. n = Len(features) - Len(journal)
    BY DEF Prepared
  <2> HIDE DEF n
  <2>. QED BY <2>1, <2>2, <2>3, <2>4
<1>4. features' \in Seq(Reviews) /\ Len(features') = Len(features) + 1
  BY <1>1, <1>3
<1>5. Prepared' = n + 1
  <2>1. Prepared' = Len(features') - Len(journal)
    BY <1>1 DEF Prepared
  <2> HIDE DEF n
  <2>. QED BY <2>1, <1>3, <1>4
<1> HIDE DEF n
<1>6. TypeOK'
  BY <1>1, <1>2, <1>4 DEF TypeOK
<1>7. StatesMatchFeatures'
  <2>1. Committed' = Committed
    BY <1>1 DEF Committed
  <2>. QED BY <2>1, <1>1, <1>2 DEF StatesMatchFeatures
<1>8. features' = journal \o SubSeq(inputs, 1, n + 1)
  <2>1. SubSeq(inputs, 1, n) \in Seq(Reviews)
    BY <1>3
  <2>2. Append(SubSeq(inputs, 1, n), inputs[n + 1]) = SubSeq(inputs, 1, n + 1)
    BY <1>3, PrefixGrows
  <2>3. journal \o Append(SubSeq(inputs, 1, n), inputs[n + 1])
          = Append(journal \o SubSeq(inputs, 1, n), inputs[n + 1])
    BY <2>1, <1>3, ConcatAppend
  <2>. QED BY <2>2, <2>3, <1>1, <1>2
<1>9. CallOK'
  <2>1. n + 1 \in 0..Len(inputs)
    BY <1>3
  <2>. QED BY <2>1, <1>1, <1>2, <1>5, <1>8 DEF CallOK, Quiet, Going
<1>10. FailureIsReported'
  BY <1>1 DEF FailureIsReported
<1>. QED BY <1>6, <1>7, <1>9, <1>10 DEF IInv

\* A call that fails while the caller's thread works has changed no state.
LEMMA CallFails ==
  ASSUME IInv, call \in {"features", "heads"}, call' = "failed",
         outcome' \in {Status("feature", 0), Status("head", 0)},
         UNCHANGED <<authority, stateOnly, inputs, sent, channel, detached, stage, result,
                     rowsOut, failure>>
  PROVE  IInv'
<1>1. /\ outcome' \in Statuses /\ outcome' # Ok /\ outcome'.kind \in {"feature", "head"}
  BY StageFacts DEF Status, Ok, Statuses, StatusKinds, FaultKinds, Producer
<1>2. TypeOK'
  BY <1>1 DEF IInv, TypeOK, authority, Calls
<1>3. StatesMatchFeatures'
  <2>1. Committed' = Committed
    BY DEF Committed, authority
  <2>. QED BY <2>1 DEF IInv, StatesMatchFeatures, authority
<1>4. CallOK'
  BY <1>1 DEF IInv, CallOK, Going, authority
<1>5. FailureIsReported'
  BY <1>1 DEF FailureIsReported
<1>. QED BY <1>2, <1>3, <1>4, <1>5 DEF IInv

LEMMA FeatureFailsKeeps == ASSUME IInv, FeatureFails PROVE IInv'
BY CallFails DEF FeatureFails

LEMMA HeadFailsKeeps == ASSUME IInv, HeadFails PROVE IInv'
BY CallFails DEF HeadFails

LEMMA WholePrefix == \A x \in Seq(Reviews) : SubSeq(x, 1, Len(x)) = x
<1> TAKE x \in Seq(Reviews)
<1> DEFINE y == SubSeq(x, 1, Len(x))
<1>1. Len(x) \in 0..Len(x)
  OBVIOUS
<1>2. y \in Seq(Reviews) /\ Len(y) = Len(x) /\ \A i \in 1..Len(x) : y[i] = x[i]
  BY <1>1, Prefixes
<1> HIDE DEF y
<1>3. y = x
  BY <1>2, SeqEqual
<1>. QED BY <1>3 DEF y

\* The threads start with nothing taken, sent or folded.
LEMMA LaunchKeeps ==
  ASSUME IInv, Launch
  PROVE  IInv'
<1>1. /\ call = "features" /\ Prepared = Len(inputs) /\ call' = "running"
      /\ detached' = Clone /\ result' = [t \in Threads |-> Running]
      /\ UNCHANGED <<authority, stateOnly, inputs, sent, channel, stage, rowsOut, failure,
                     outcome>>
  BY DEF Launch
<1>2. /\ TypeOK /\ StatesMatchFeatures /\ Quiet /\ inputs # <<>>
      /\ features = journal \o SubSeq(inputs, 1, Prepared)
  BY <1>1 DEF IInv, CallOK
<1>3. /\ inputs \in Seq(Reviews) /\ journal \in Seq(Reviews) /\ Len(inputs) \in Nat
      /\ SubSeq(inputs, 1, Len(inputs)) = inputs /\ SubSeq(inputs, 1, 0) = <<>>
      /\ journal \o <<>> = journal
  <2>1. inputs \in Seq(Reviews) /\ journal \in Seq(Reviews)
    BY <1>2 DEF TypeOK
  <2>2. SubSeq(inputs, 1, Len(inputs)) = inputs
    BY <2>1, WholePrefix
  <2>. QED BY <2>1, <2>2, ConcatEmptySeq
<1>4. features = journal \o inputs
  BY <1>1, <1>2, <1>3
<1>5. /\ \A c \in 1..Output : channel[c] = <<>>
      /\ \A s \in Stages : stage[s] = NoBatch
      /\ \A t \in Threads : result'[t] = Running
  BY <1>1, <1>2 DEF Quiet
<1>6. \A s \in Stages, k \in Keys :
        Clone[s][k] = IF Touches(s, k) THEN OfKey(s, k, journal) ELSE <<>>
  <2>1. Committed = journal
    BY <1>1 DEF Committed
  <2>. QED BY <2>1, <1>2 DEF StatesMatchFeatures, Clone
<1>7. TypeOK'
  <2>1. Clone \in [Stages -> [Keys -> Seq(Reviews)]]
    BY <1>2, QuietTypes DEF Clone, TypeOK
  <2>2. result' \in [Threads -> Statuses] /\ \A t \in Threads : result'[t] \in EndsOf(t)
    BY <1>1, <1>5, EndsAreStatuses DEF EndsOf
  <2>. QED BY <2>1, <2>2, <1>1, <1>2 DEF TypeOK, authority, Calls
<1>8. NeighboursAgree'
  <2>1. ASSUME NEW c \in 1..Output PROVE ChannelOK(c)'
    BY <1>1, <1>5, EmptyQueue DEF ChannelOK
  <2>2. ASSUME NEW s \in Stages PROVE StageOK(s)'
    BY <1>1, <1>5, NoBatchFacts, StatusFacts, StageFacts DEF StageOK
  <2>3. ASSUME NEW t \in Threads PROVE ThreadOK(t)'
    BY <1>5, StatusFacts DEF ThreadOK
  <2>. QED BY <2>1, <2>2, <2>3 DEF NeighboursAgree
<1> DEFINE taken == [c \in 1..Output |-> 0]
<1>9. /\ taken \in [1..Output -> 0..Len(inputs)] /\ \A c \in 1..Output : taken[c] = 0
  BY <1>3
<1> HIDE DEF taken
<1>10. \A c \in 1..Output : Put(taken, c)' = 0
  BY <1>1, <1>5, <1>9, EmptyQueue DEF Put
<1>11. RowsFlow'
  <2>1. ASSUME NEW s \in Stages PROVE HoldsRows(taken, s)'
    <3>1. s \in 1..Output /\ s + 1 \in 1..Output
      BY StageFacts
    <3>2. stage'[s].rows = <<>> /\ Put(taken, s + 1)' = 0 /\ taken[s] = 0
      BY <3>1, <1>1, <1>5, <1>9, <1>10, NoBatchFacts
    <3>3. Len(<<>>) = 0 /\ \A j \in DOMAIN <<>> : FALSE
      OBVIOUS
    <3>. QED BY <3>2, <3>3 DEF HoldsRows
  <2>2. ASSUME NEW s \in Stages PROVE HoldsStates(taken, s)'
    <3>1. Folded(taken, s)' = 0
      <4>1. Put(taken, s + 1)' = 0 /\ stage'[s].at = "receive"
        BY <1>1, <1>5, <1>10, NoBatchFacts, StageFacts
      <4>. QED BY <4>1 DEF Folded
    <3>2. \A k \in Keys : Touches(s, k)' <=> Touches(s, k)
      BY <1>1 DEF Touches
    <3>3. inputs' = inputs /\ journal' = journal
      BY <1>1 DEF authority
    <3>. QED BY <3>1, <3>2, <3>3, <1>1, <1>3, <1>6 DEF HoldsStates
  <2>3. \A c \in 1..Output : Follow(channel'[c], taken[c])
    BY <1>1, <1>5, EmptyQueue
  <2>4. Put(taken, 1)' = sent' /\ sent' <= Len(inputs')
    BY <1>1, <1>2, <1>3, <1>10, StageFacts DEF Quiet
  <2>5. rowsOut' = [i \in 1..taken[Output] |-> i]
    <3>1. Output \in 1..Output
      BY StageFacts
    <3>2. [i \in 1..0 |-> i] = <<>>
      OBVIOUS
    <3>. QED BY <3>1, <3>2, <1>1, <1>2, <1>9 DEF Quiet
  <2>6. Flow(taken)'
    BY <2>1, <2>2, <2>3, <2>4, <2>5 DEF Flow
  <2>. QED BY <2>6, <1>1, <1>9 DEF RowsFlow
<1>12. StatesMatchFeatures'
  <2>1. Committed' = Committed
    BY <1>1 DEF Committed, authority
  <2>. QED BY <2>1, <1>1, <1>2 DEF StatesMatchFeatures, authority
<1>13. CallOK'
  BY <1>1, <1>2, <1>4, <1>8, <1>11 DEF CallOK, authority
<1>14. FailureIsReported'
  BY <1>1 DEF FailureIsReported
<1>. QED BY <1>7, <1>12, <1>13, <1>14 DEF IInv

-------------------------------------------------------------------------------
(* The caller once every thread has ended.                                   *)

\* A thread that has failed while no later one has did not do so because its
\* receiver was gone.
LEMMA LastToFail ==
  ASSUME NeighboursAgree, NEW t \in Threads, \A u \in Threads : u > t => result[u] = Ok
  PROVE  /\ result[t].kind # "closed"
         /\ result[t].kind = "compute" =>
              t = StageCount /\ (HasError(channel[Output]) \/ stateOnly \/ failure # NoFailure)
<1>1. t # StageCount =>
        /\ t + 1 \in Stages /\ t + 1 \in Threads /\ result[t + 1] = Ok
        /\ stage[t + 1].error = NoFailure /\ channel[t + 1] = <<>>
  <2>1. t # StageCount => t + 1 \in Stages /\ t + 1 \in Threads /\ t + 1 > t
    BY StageFacts
  <2>2. t # StageCount => stage[t + 1].at = "finish" /\ StageOK(t + 1)
    BY <2>1 DEF NeighboursAgree, StageOK
  <2>. QED BY <2>1, <2>2 DEF StageOK
<1>2. t # StageCount => ~Broken(t + 1) /\ ~HasError(channel[t + 1])
  BY <1>1, EmptyQueue DEF Broken
<1>3. t = StageCount => t + 1 = Output
  BY StageFacts
<1>4. ThreadOK(t)
  BY DEF NeighboursAgree
<1>5. result[t].kind # "closed"
  BY <1>2, <1>4 DEF ThreadOK
<1>6. result[t].kind = "compute" => Told(t)
  BY <1>4 DEF ThreadOK
<1>7. Told(t) => t = StageCount /\ (HasError(channel[Output]) \/ stateOnly \/ failure # NoFailure)
  BY <1>1, <1>2, <1>3 DEF Told
<1>. QED BY <1>5, <1>6, <1>7

\* If a thread has failed there is a first and a last to have.
LEMMA Failures ==
  ASSUME NEW t \in Threads, result[t] # Ok
  PROVE  /\ Upstream \in Threads /\ result[Upstream] # Ok
         /\ Downstream \in Threads /\ result[Downstream] # Ok
         /\ \A u \in Threads : u > Downstream => result[u] = Ok
<1> DEFINE Bad == {u \in Threads : result[u] # Ok}
<1>1. Threads \subseteq Nat /\ StageCount \in Nat /\ \A u \in Threads : u <= StageCount
  BY StageFacts DEF Stages, Threads, Producer
<1>2. \E d \in Bad : \A u \in Bad : d <= u
  <2>1. Bad \in SUBSET Nat /\ Bad # {}
    BY <1>1
  <2> HIDE DEF Bad
  <2>. QED BY <2>1, LeastNatural
<1>3. \E d \in Threads : result[d] # Ok /\ \A u \in Threads : u < d => result[u] = Ok
  <2>1. PICK d \in Bad : \A u \in Bad : d <= u
    BY <1>2
  <2>2. d \in Nat /\ \A u \in Threads : u \in Nat
    BY <2>1, <1>1
  <2>3. \A u \in Threads : u < d => result[u] = Ok
    BY <2>1, <2>2
  <2>. QED BY <2>1, <2>3
<1>4. \E d \in Threads : result[d] # Ok /\ \A u \in Threads : u > d => result[u] = Ok
  <2> DEFINE Above == {StageCount - u : u \in Bad}
  <2>1. Above \in SUBSET Nat /\ Above # {}
    BY <1>1
  <2>2. PICK n \in Above : \A m \in Above : n <= m
    <3> HIDE DEF Above
    <3>. QED BY <2>1, LeastNatural
  <2>3. PICK d \in Bad : n = StageCount - d
    BY <2>2
  <2>4. ASSUME NEW u \in Threads, u > d, result[u] # Ok PROVE FALSE
    <3>1. StageCount - u \in Above
      BY <2>4
    <3>2. StageCount - d <= StageCount - u
      BY <2>2, <2>3, <3>1
    <3>3. u \in Nat /\ d \in Nat
      BY <1>1
    <3>. QED BY <2>4, <3>2, <3>3, <1>1
  <2>. QED BY <2>3, <2>4
<1>5. Upstream \in Threads /\ result[Upstream] # Ok
  BY <1>3 DEF Upstream
<1>6. /\ Downstream \in Threads /\ result[Downstream] # Ok
      /\ \A u \in Threads : u > Downstream => result[u] = Ok
  BY <1>4 DEF Downstream
<1>. QED BY <1>5, <1>6

\* When every thread has ended well, every row has passed every stage.
LEMMA AllRowsPassed ==
  ASSUME TypeOK, NeighboursAgree, \A t \in Threads : result[t] = Ok,
         NEW taken \in [1..Output -> 0..Len(inputs)], Flow(taken)
  PROVE  /\ Len(inputs) \in Nat
         /\ \A c \in 1..Output : Put(taken, c) = Len(inputs)
         /\ \A s \in Stages : Folded(taken, s) = Len(inputs)
<1>1. Len(inputs) \in Nat /\ sent = Len(inputs) /\ Put(taken, 1) = Len(inputs)
  BY StageFacts DEF TypeOK, NeighboursAgree, ThreadOK, Flow
<1>2. ASSUME NEW s \in Stages
      PROVE  /\ stage[s].at = "finish" /\ Put(taken, s + 1) \in Nat
             /\ Put(taken, s + 1) = Put(taken, s)
  <2>1. s \in Threads /\ s \in 1..Output /\ s + 1 \in 1..Output
    BY StageFacts
  <2>2. stage[s].at = "finish" /\ stage[s].rows = <<>> /\ channel[s] = <<>>
    BY <2>1 DEF NeighboursAgree, StageOK
  <2>3. Put(taken, s + 1) \in 0..Len(inputs) /\ taken \in [1..Output -> Nat]
    BY <2>1, Bounds
  <2>4. Put(taken, s) = taken[s] + 0 /\ taken[s] \in Nat
    BY <2>1, <2>2, <2>3, EmptyQueue DEF Put
  <2>5. Put(taken, s + 1) + Len(<<>>) = taken[s]
    BY <2>2 DEF Flow, HoldsRows
  <2>6. Put(taken, s + 1) + 0 = taken[s]
    BY <2>5
  <2>. QED BY <2>2, <2>3, <2>4, <2>6, <1>1
<1> DEFINE T == {n \in Nat : n + 1 \in 1..Output => Put(taken, n + 1) = Len(inputs)}
<1>3. \A n \in Nat : n \in T
  <2>1. 0 \in T
    BY <1>1
  <2>2. ASSUME NEW n \in Nat, n \in T PROVE n + 1 \in T
    <3>1. SUFFICES ASSUME (n + 1) + 1 \in 1..Output
                   PROVE  Put(taken, (n + 1) + 1) = Len(inputs)
      OBVIOUS
    <3>2. n + 1 \in Stages /\ n + 1 \in 1..Output
      BY <3>1, StageFacts DEF Stages
    <3>. QED BY <3>2, <2>2, <1>2
  <2> HIDE DEF T
  <2>. QED BY <2>1, <2>2, Induct
<1>4. ASSUME NEW c \in 1..Output PROVE Put(taken, c) = Len(inputs)
  <2>1. c - 1 \in Nat /\ (c - 1) + 1 = c
    BY StageFacts
  <2>2. c - 1 \in T
    BY <2>1, <1>3
  <2>. QED BY <2>1, <2>2
<1>5. ASSUME NEW s \in Stages PROVE Folded(taken, s) = Len(inputs)
  <2>1. s + 1 \in 1..Output
    BY StageFacts
  <2>2. Folded(taken, s) = Len(inputs) + 0
    BY <2>1, <1>2, <1>4 DEF Folded
  <2>. QED BY <2>2, <1>1
<1>. QED BY <1>1, <1>4, <1>5

\* So the caller has them all.
LEMMA RowsComplete ==
  ASSUME TypeOK, NeighboursAgree, RowsFlow, \A t \in Threads : result[t] = Ok,
         channel[Output] = <<>>
  PROVE  Complete /\ Len(rowsOut) = Len(inputs)
<1>1. PICK taken \in [1..Output -> 0..Len(inputs)] : Flow(taken)
  BY DEF RowsFlow
<1>2. Output \in 1..Output /\ taken \in [1..Output -> Nat] /\ Len(inputs) \in Nat
  BY <1>1, Bounds, StageFacts
<1>3. Put(taken, Output) = taken[Output] + 0 /\ taken[Output] \in Nat
  BY <1>2, EmptyQueue DEF Put
<1>4. taken[Output] = Len(inputs)
  BY <1>1, <1>2, <1>3, AllRowsPassed
<1>5. rowsOut = [i \in 1..Len(inputs) |-> i] /\ DOMAIN inputs = 1..Len(inputs)
  BY <1>1, <1>4 DEF Flow, TypeOK
<1>6. rowsOut \in Seq(Nat) /\ DOMAIN rowsOut = 1..Len(inputs)
  BY <1>5 DEF TypeOK
<1>7. Len(rowsOut) = Len(inputs)
  BY <1>2, <1>6
<1>. QED BY <1>5, <1>7 DEF Complete

\* What the caller concludes from how its threads ended.
LEMMA VerdictFacts ==
  ASSUME IInv, JoinAll
  PROVE  /\ Verdict \in Statuses
         /\ Verdict = Ok => \A t \in Threads : result[t] = Ok
         /\ Verdict.kind \in {"closed", "incomplete"} =>
              ~stateOnly /\ \E s \in Stages : result[s].kind \in {"panic", "conversion"}
<1>1. /\ call = "running" /\ AllEnded
      /\ channel[Output] = <<>> \/ failure # NoFailure
  BY DEF JoinAll
<1>2. TypeOK /\ NeighboursAgree /\ RowsFlow
  BY <1>1 DEF IInv, CallOK
<1>3. /\ Output \in 1..Output
      /\ stateOnly => channel[Output] = <<>>
      /\ channel[Output] = <<>> => ~HasError(channel[Output])
  BY <1>2, EmptyQueue, StageFacts DEF NeighboursAgree, ChannelOK
<1>4. CASE \A t \in Threads : result[t] = Ok
  <2>1. stateOnly => Verdict = Ok
    <3>1. stateOnly => Len(rowsOut) = Len(inputs)
      BY <1>2, <1>3, <1>4, RowsComplete
    <3>. QED BY <3>1, <1>4 DEF Verdict, BuildVerdict
  <2>2. ~stateOnly /\ failure # NoFailure => Verdict = failure
    BY DEF Verdict, ProcessVerdict
  <2>3. ~stateOnly /\ failure = NoFailure => Verdict = Ok
    <3>1. failure = NoFailure => Complete
      BY <1>1, <1>2, <1>4, RowsComplete
    <3>. QED BY <3>1, <1>4 DEF Verdict, ProcessVerdict
  <2>4. failure # NoFailure => failure \in Statuses /\ failure.kind = "compute"
    BY <1>2, ErrorFacts DEF TypeOK
  <2>5. Ok \in Statuses /\ Ok.kind = "ok"
    BY QuietTypes, StatusFacts
  <2>. QED BY <2>1, <2>2, <2>3, <2>4, <2>5, <1>4
<1>5. CASE \E t \in Threads : result[t] # Ok
  <2> DEFINE first == result[Upstream]
             last == result[Downstream]
  <2>1. /\ Upstream \in Threads /\ first # Ok /\ Downstream \in Threads /\ last # Ok
        /\ \A u \in Threads : u > Downstream => result[u] = Ok
    BY <1>5, Failures
  <2>2. /\ first \in Statuses /\ first \in EndsOf(Upstream) /\ first # Running
        /\ last \in Statuses /\ last \in EndsOf(Downstream) /\ last # Running
    BY <2>1, <1>1, <1>2 DEF TypeOK, AllEnded
  <2>3. /\ last.kind # "closed"
        /\ last.kind = "compute" =>
             Downstream = StageCount /\ (HasError(channel[Output]) \/ stateOnly \/ failure # NoFailure)
    BY <2>1, <1>2, LastToFail
  <2>4. /\ first.kind # "incomplete"
        /\ last.kind \in {"compute", "closed", "panic", "conversion"}
        /\ Downstream = Producer => last.kind \in {"running", "ok", "closed"}
    <3>1. Downstream = Producer => last.kind \in {"running", "ok", "closed"}
      BY <2>1, <1>2 DEF NeighboursAgree, ThreadOK
    <3>. QED BY <3>1, <2>1, <2>2, EndKinds
  <2>5. CASE stateOnly
    <3>1. Verdict \in {last, Status("panic", 0)}
      BY <2>5, <1>5 DEF Verdict, BuildVerdict
    <3>2. /\ Status("panic", 0) \in Statuses /\ Status("panic", 0) # Ok
          /\ Status("panic", 0).kind = "panic"
      BY StageFacts DEF Status, Ok, Statuses, StatusKinds, FaultKinds, Producer
    <3>3. Verdict \in Statuses /\ Verdict # Ok /\ Verdict.kind \notin {"closed", "incomplete"}
      BY <3>1, <3>2, <2>1, <2>2, <2>3, <2>4
    <3>. QED BY <3>3
  <2>6. CASE ~stateOnly /\ failure # NoFailure
    <3>1. Verdict = failure
      BY <2>6 DEF Verdict, ProcessVerdict
    <3>2. failure \in Statuses /\ failure.kind = "compute"
      BY <2>6, <1>2, ErrorFacts DEF TypeOK
    <3>3. Verdict # Ok
      BY <3>1, <3>2, StatusFacts
    <3>. QED BY <3>1, <3>2, <3>3
  <2>7. CASE ~stateOnly /\ failure = NoFailure
    <3>1. Verdict = first
      BY <2>7, <1>5 DEF Verdict, ProcessVerdict
    <3>2. last.kind \in {"panic", "conversion"}
      BY <2>3, <2>4, <2>7, <1>1, <1>3
    <3>3. Downstream \in Stages
      BY <3>2, <2>1, <2>4, StageFacts
    <3>. QED BY <3>1, <3>2, <3>3, <2>1, <2>2, <2>7
  <2>. QED BY <2>5, <2>6, <2>7
<1>. QED BY <1>4, <1>5

LEMMA JoinAllKeeps ==
  ASSUME IInv, JoinAll
  PROVE  IInv'
<1>1. /\ call = "running" /\ AllEnded /\ outcome' = Verdict
      /\ call' = IF Verdict = Ok THEN "heads" ELSE "failed"
      /\ UNCHANGED <<authority, stateOnly, inputs, sent, channel, detached, stage, result,
                     rowsOut, failure>>
  BY DEF JoinAll
<1> DEFINE v == Verdict
<1>2. /\ v \in Statuses
      /\ v = Ok => \A t \in Threads : result[t] = Ok
      /\ v.kind \in {"closed", "incomplete"} =>
           ~stateOnly /\ \E s \in Stages : result[s].kind \in {"panic", "conversion"}
  BY VerdictFacts
<1> HIDE DEF v
<1>3. outcome' = v /\ call' = IF v = Ok THEN "heads" ELSE "failed"
  BY <1>1 DEF v
<1>4. TypeOK'
  BY <1>1, <1>2, <1>3 DEF IInv, TypeOK, authority, Calls
<1>5. StatesMatchFeatures'
  <2>1. Committed' = Committed
    BY <1>1, <1>3 DEF Committed, authority
  <2>. QED BY <2>1, <1>1 DEF IInv, StatesMatchFeatures, authority
<1>6. NeighboursAgree' /\ RowsFlow'
  <2>1. NeighboursAgree /\ RowsFlow
    BY <1>1 DEF IInv, CallOK
  <2>2. NeighboursAgree'
    BY <2>1, <1>1 DEF NeighboursAgree, ChannelOK, StageOK, ThreadOK, Told, Going, Broken, IsSink
  <2>3. PICK taken \in [1..Output -> 0..Len(inputs)] : Flow(taken)
    BY <2>1 DEF RowsFlow
  <2>4. ASSUME NEW s \in Stages PROVE HoldsStates(taken, s)'
    <3>1. Folded(taken, s)' = Folded(taken, s)
      BY <1>1 DEF Folded, Put
    <3>. QED BY <3>1, <2>3, <1>1, StatesHeld DEF Flow, authority
  <2>5. Flow(taken)'
    BY <2>3, <2>4, <1>1 DEF Flow, Put, HoldsRows
  <2>. QED BY <2>2, <2>5, <1>1 DEF RowsFlow
<1>7. features' = journal' \o inputs' /\ inputs' # <<>> /\ \A t \in Threads : ~Going(t)'
  BY <1>1 DEF IInv, CallOK, authority, AllEnded, Going
<1>8. CallOK'
  BY <1>1, <1>2, <1>3, <1>6, <1>7 DEF CallOK
<1>9. FailureIsReported'
  BY <1>1, <1>2, <1>3 DEF FailureIsReported
<1>. QED BY <1>4, <1>5, <1>8, <1>9 DEF IInv

-------------------------------------------------------------------------------
(* The caller returns.                                                       *)

LEMMA DroppedFacts ==
  ASSUME Dropped, states' \in [Stages -> [Keys -> Seq(Reviews)]],
         features' \in Seq(Reviews), outcome' \in Statuses
  PROVE  TypeOK' /\ CallOK' /\ FailureIsReported'
<1>1. TypeOK'
  <2>1. stateOnly' \in BOOLEAN /\ sent' \in Nat /\ call' \in Calls
    BY DEF Dropped, Calls
  <2>. QED BY <2>1, QuietTypes DEF Dropped, TypeOK, BatchType
<1>2. CallOK'
  BY QuietTypes DEF CallOK, Dropped, Quiet, Going
<1>3. FailureIsReported'
  BY DEF Dropped, FailureIsReported
<1>. QED BY <1>1, <1>2, <1>3

LEMMA RollbackKeeps ==
  ASSUME IInv, Rollback
  PROVE  IInv'
<1>1. /\ call = "failed" /\ features' = journal /\ Dropped /\ states' = states
      /\ outcome' = outcome
  BY DEF Rollback, Restored
<1>2. TypeOK /\ StatesMatchFeatures
  BY DEF IInv
<1>3. TypeOK' /\ CallOK' /\ FailureIsReported'
  BY <1>1, <1>2, DroppedFacts DEF TypeOK
<1>4. StatesMatchFeatures'
  <2>1. Committed = journal /\ Committed' = journal
    BY <1>1 DEF Committed, Dropped
  <2>. QED BY <2>1, <1>1, <1>2 DEF StatesMatchFeatures
<1>. QED BY <1>3, <1>4 DEF IInv

\* The states the stages return are those of the whole batch.
LEMMA ExtendedFacts ==
  ASSUME IInv, call = "heads", NEW s \in Stages, NEW k \in Keys
  PROVE  Extended[s][k] = OfKey(s, k, journal \o inputs)
<1>1. TypeOK /\ StatesMatchFeatures /\ NeighboursAgree /\ RowsFlow /\ \A t \in Threads : result[t] = Ok
  BY DEF IInv, CallOK
<1>2. PICK taken \in [1..Output -> 0..Len(inputs)] : Flow(taken)
  BY <1>1 DEF RowsFlow
<1>3. Folded(taken, s) = Len(inputs) /\ Len(inputs) \in Nat
  BY <1>1, <1>2, AllRowsPassed
<1>4. journal \in Seq(Reviews) /\ inputs \in Seq(Reviews)
  BY <1>1 DEF TypeOK
<1>5. detached[s][k] = IF Touches(s, k) THEN OfKey(s, k, journal \o inputs) ELSE <<>>
  <2>1. SubSeq(inputs, 1, Len(inputs)) = inputs
    BY <1>4, WholePrefix
  <2>. QED BY <2>1, <1>2, <1>3 DEF Flow, HoldsStates
<1>6. states[s][k] = OfKey(s, k, journal)
  BY <1>1 DEF StatesMatchFeatures, Committed
<1>7. OfKey(s, k, journal \o inputs) = OfKey(s, k, journal) \o OfKey(s, k, inputs)
  BY <1>4, OfKeyConcat
<1>8. OfKey(s, k, journal) \in Seq(Reviews) /\ OfKey(s, k, inputs) \in Seq(Reviews)
  BY <1>4, OfKeyType
<1>9. Extended[s][k] = IF detached[s][k] = <<>> THEN states[s][k] ELSE detached[s][k]
  BY DEF Extended
<1>10. CASE Touches(s, k)
  <2>1. \A x, y \in Seq(Reviews) : x \o y = <<>> => x = <<>>
    OBVIOUS
  <2>. QED BY <2>1, <1>5, <1>6, <1>7, <1>8, <1>9, <1>10
<1>11. CASE ~Touches(s, k)
  <2>1. \A i \in 1..Len(inputs) : KeyOf[s][inputs[i]] # k
    BY <1>4, <1>11 DEF Touches
  <2>2. OfKey(s, k, inputs) = <<>>
    BY <2>1, <1>4, OfKeyNone
  <2>3. OfKey(s, k, journal) \o <<>> = OfKey(s, k, journal)
    BY <1>8, ConcatEmptySeq
  <2>. QED BY <2>2, <2>3, <1>5, <1>6, <1>7, <1>9, <1>11
<1>. QED BY <1>10, <1>11

LEMMA CommitKeeps ==
  ASSUME IInv, Commit
  PROVE  IInv'
<1>1. /\ call = "heads" /\ states' = Extended /\ Dropped
      /\ features' = features /\ outcome' = outcome
  BY DEF Commit
<1>2. TypeOK /\ features = journal \o inputs
  BY <1>1 DEF IInv, CallOK
<1>3. \A s \in Stages, k \in Keys : states'[s][k] = OfKey(s, k, features)
  BY <1>1, <1>2, ExtendedFacts
<1>4. states' \in [Stages -> [Keys -> Seq(Reviews)]]
  BY <1>1, <1>2 DEF Extended, TypeOK
<1>5. TypeOK' /\ CallOK' /\ FailureIsReported'
  BY <1>1, <1>2, <1>4, DroppedFacts DEF TypeOK
<1>6. Committed' = features
  BY <1>1 DEF Committed, Dropped
<1>7. StatesMatchFeatures'
  BY <1>3, <1>6 DEF StatesMatchFeatures
<1>. QED BY <1>5, <1>7 DEF IInv

-------------------------------------------------------------------------------
(* The theorems.                                                             *)

LEMMA Preserved == IInv /\ [Next]_vars => IInv'
<1> SUFFICES ASSUME IInv, [Next]_vars PROVE IInv'
  OBVIOUS
<1>1. CASE \E batch \in Batches, only \in BOOLEAN : Start(batch, only)
  BY <1>1, StartKeeps
<1>2. CASE StartEmpty
  BY <1>2, StartEmptyKeeps
<1>3. CASE FeatureFails
  BY <1>3, FeatureFailsKeeps
<1>4. CASE HeadFails
  BY <1>4, HeadFailsKeeps
<1>5. CASE Caller
  BY <1>5, FeatureStepKeeps, LaunchKeeps, ReceiveOutputKeeps, JoinAllKeeps, CommitKeeps,
     RollbackKeeps DEF Caller
<1>6. CASE Produce \/ ProducerEnds
  BY <1>6, ProduceKeeps, ProducerEndsKeeps
<1>7. ASSUME NEW s \in Stages, StageStep(s) PROVE IInv'
  BY <1>7, ReceiveKeeps, FillKeeps, ComputeKeeps, ComputeAndCountKeeps, SendRowKeeps,
     ForwardKeeps, FinishKeeps DEF StageStep
<1>8. ASSUME NEW s \in Stages, ComputeFails(s) \/ Panic(s) \/ ConversionFails(s) PROVE IInv'
  BY <1>8, ComputeFailsKeeps, PanicKeeps, ConversionFailsKeeps
<1>9. CASE UNCHANGED vars
  <2>1. TypeOK'
    BY <1>9 DEF IInv, TypeOK, vars, authority
  <2>2. StatesMatchFeatures' /\ FailureIsReported'
    BY <1>9 DEF IInv, StatesMatchFeatures, FailureIsReported, Committed, vars, authority
  <2>3. NeighboursAgree => NeighboursAgree'
    BY <1>9 DEF NeighboursAgree, ChannelOK, StageOK, ThreadOK, Told, Going, Broken, IsSink,
                vars, authority
  <2>4. RowsFlow => RowsFlow'
    <3>1. SUFFICES ASSUME NEW taken \in [1..Output -> 0..Len(inputs)], Flow(taken)
                   PROVE  Flow(taken)'
      BY <1>9 DEF RowsFlow, vars, authority
    <3>2. ASSUME NEW s \in Stages PROVE HoldsStates(taken, s)'
      <4>1. Folded(taken, s)' = Folded(taken, s)
        BY <1>9 DEF Folded, Put, vars, authority
      <4>. QED BY <4>1, <3>1, <1>9, StatesHeld DEF Flow, vars, authority
    <3>. QED BY <3>1, <3>2, <1>9 DEF Flow, Put, HoldsRows, vars, authority
  <2>5. CallOK'
    BY <2>3, <2>4, <1>9 DEF IInv, CallOK, Quiet, Prepared, Going, vars, authority
  <2>. QED BY <2>1, <2>2, <2>5 DEF IInv
<1>. QED BY <1>1, <1>2, <1>3, <1>4, <1>5, <1>6, <1>7, <1>8, <1>9 DEF Next

\* The inductive invariant: where every row of a call is and what neighbouring
\* threads tell of each other.
THEOREM PipelineInvariantHolds == Spec => []IInv
BY Initially, Preserved, PTL DEF Spec

\* Type correctness, with how each thread may end.
THEOREM PipelineTypeCorrect == Spec => []TypeOK
<1>1. IInv => TypeOK
  BY DEF IInv
<1>. QED BY <1>1, PipelineInvariantHolds, PTL

\* The authoritative states of every module and the deterministic state describe
\* the same reviews in the same order (execute_pipeline, the rollback frame).
THEOREM StatesFollowFeatures == Spec => []StatesMatchFeatures
<1>1. IInv => StatesMatchFeatures
  BY DEF IInv
<1>. QED BY <1>1, PipelineInvariantHolds, PTL

\* The caller is told what failed, not that a neighbour of the failed thread
\* found its channel closed.
THEOREM FailuresAreReported == Spec => []FailureIsReported
<1>1. IInv => FailureIsReported
  BY DEF IInv
<1>. QED BY <1>1, PipelineInvariantHolds, PTL

LEMMA PrefixesFolded == IInv => StagesFoldPrefixes
<1> SUFFICES ASSUME IInv, call \in {"running", "heads"}, NEW s \in Stages
             PROVE  \E n \in 0..Len(inputs) :
                      /\ AfterPrefix(s, n)
                      /\ s > 1 => \E m \in n..Len(inputs) : AfterPrefix(s - 1, m)
  BY DEF StagesFoldPrefixes
<1>1. TypeOK /\ RowsFlow
  BY DEF IInv, CallOK
<1>2. PICK taken \in [1..Output -> 0..Len(inputs)] : Flow(taken)
  BY <1>1 DEF RowsFlow
<1>3. \A u \in Stages : AfterPrefix(u, Folded(taken, u)) /\ Folded(taken, u) \in 0..Len(inputs)
  BY <1>1, <1>2, Bounds DEF Flow, HoldsStates, AfterPrefix
<1>4. s > 1 => /\ s - 1 \in Stages
               /\ Folded(taken, s - 1) \in Folded(taken, s)..Len(inputs)
  <2>1. SUFFICES ASSUME s > 1 PROVE /\ s - 1 \in Stages
                                    /\ Folded(taken, s - 1) \in Folded(taken, s)..Len(inputs)
    OBVIOUS
  <2>2. s - 1 \in Stages /\ (s - 1) + 1 = s
    BY <2>1, StageFacts DEF Stages
  <2>3. Folded(taken, s) <= taken[s] /\ taken[s] <= Put(taken, s)
    BY <1>1, <1>2, Bounds
  <2>4. Put(taken, (s - 1) + 1) <= Folded(taken, s - 1)
    BY <2>2, <1>1, <1>2, Bounds
  <2>5. /\ Folded(taken, s) \in Nat /\ Folded(taken, s - 1) \in 0..Len(inputs)
        /\ Put(taken, s) \in Nat /\ taken[s] \in Nat /\ Len(inputs) \in Nat
    <3>1. s \in 1..Output
      BY StageFacts
    <3>2. Put(taken, s) \in 0..Len(inputs) /\ taken \in [1..Output -> Nat] /\ Len(inputs) \in Nat
      BY <3>1, <1>1, <1>2, Bounds
    <3>. QED BY <3>1, <3>2, <2>2, <1>3
  <2>6. Put(taken, s) <= Folded(taken, s - 1)
    BY <2>2, <2>4
  <2>. QED BY <2>2, <2>3, <2>5, <2>6
<1>. QED BY <1>3, <1>4

\* Each stage has folded a prefix of the batch, never more than the stage before
\* it, whichever threads are running, waiting or gone.
THEOREM StagesFoldInStep == Spec => []StagesFoldPrefixes
BY PrefixesFolded, PipelineInvariantHolds, PTL

-------------------------------------------------------------------------------
(* What a client may assume.                                                 *)

\* Everything the promise is about.
LEMMA PromiseInitially == Init => Promise!Init
BY GlobalState, StageFacts DEF Init, Promise!Init, Detached

LEMMA GlobalReviews ==
  ASSUME IInv
  PROVE  states[StageCount][GlobalKey] = Committed
<1>1. Committed \in Seq(Reviews) /\ StatesMatchFeatures
  BY DEF IInv, TypeOK, Committed
<1>. QED BY <1>1, GlobalState, StageFacts DEF StatesMatchFeatures

LEMMA GlobalReviewsNext ==
  ASSUME IInv'
  PROVE  (states[StageCount][GlobalKey] = Committed)'
<1>1. (Committed \in Seq(Reviews) /\ StatesMatchFeatures)'
  BY DEF IInv, TypeOK, Committed
<1>. QED BY <1>1, GlobalState, StageFacts DEF StatesMatchFeatures

LEMMA PromiseKept ==
  ASSUME IInv, IInv', [Next]_vars
  PROVE  [Promise!Next]_<<states[StageCount][GlobalKey], inputs, outcome = Ok>>
<1> DEFINE reviews == states[StageCount][GlobalKey]
           success == outcome = Ok
           Stutters == UNCHANGED <<states, inputs, outcome>>
<1> SUFFICES Promise!Next \/ Stutters
  OBVIOUS
<1>1. ASSUME NEW batch \in Batches, NEW only \in BOOLEAN, Start(batch, only)
      PROVE  Promise!Next
  <2>1. Promise!Submit(batch)
    BY <1>1 DEF Start, Promise!Submit, IInv, CallOK
  <2>. QED BY <2>1 DEF Promise!Next
<1>2. CASE StartEmpty
  <2>1. Promise!Empty
    BY <1>2 DEF StartEmpty, Promise!Empty, IInv, CallOK, authority
  <2>. QED BY <2>1 DEF Promise!Next
<1>3. CASE FeatureFails \/ HeadFails \/ JoinAll
  <2>1. /\ call # "idle" /\ states' = states /\ inputs' = inputs
    BY <1>3 DEF FeatureFails, HeadFails, JoinAll, authority
  <2>2. Promise!Decide
    BY <2>1 DEF Promise!Decide, IInv, CallOK
  <2>. QED BY <2>2 DEF Promise!Next
<1>4. CASE Commit
  <2>1. /\ call = "heads" /\ call' = "idle" /\ inputs' = <<>>
        /\ features' = features /\ outcome' = outcome
    BY <1>4 DEF Commit, Dropped
  <2>2. inputs # <<>> /\ outcome = Ok /\ features = journal \o inputs
    BY <2>1 DEF IInv, CallOK
  <2>3. reviews = journal /\ reviews' = features
    BY <2>1, GlobalReviews, GlobalReviewsNext DEF Committed
  <2>4. Promise!Answer
    BY <2>1, <2>2, <2>3 DEF Promise!Answer
  <2>. QED BY <2>4 DEF Promise!Next
<1>5. CASE Rollback
  <2>1. /\ call = "failed" /\ inputs' = <<>> /\ outcome' = outcome /\ states' = states
    BY <1>5 DEF Rollback, Dropped
  <2>2. inputs # <<>> /\ outcome # Ok
    BY <2>1 DEF IInv, CallOK
  <2>3. Promise!Answer
    BY <2>1, <2>2 DEF Promise!Answer
  <2>. QED BY <2>3 DEF Promise!Next
<1>6. CASE FeatureStep \/ Launch \/ ReceiveOutput \/ Produce \/ ProducerEnds
  BY <1>6 DEF FeatureStep, Launch, ReceiveOutput, Produce, ProducerEnds, authority
<1>7. ASSUME NEW s \in Stages,
             StageStep(s) \/ ComputeFails(s) \/ Panic(s) \/ ConversionFails(s)
      PROVE  Stutters
  BY <1>7 DEF StageStep, Receive, Fill, Compute, ComputeAndCount, SendRow, Forward, Finish,
              ComputeFails, Panic, ConversionFails, Unread, authority
<1>8. CASE UNCHANGED vars
  BY <1>8 DEF vars, authority
<1>. QED BY <1>1, <1>2, <1>3, <1>4, <1>5, <1>6, <1>7, <1>8 DEF Next, Caller

\* Whichever thread fails and whenever, and whether it is process_many or
\* build_state_only, a call does all it was asked or nothing, and says which.
THEOREM AtomicBatchImplemented == Spec => ImplementsAtomicBatch
BY PromiseInitially, PromiseKept, PipelineInvariantHolds, PTL
   DEF Spec, ImplementsAtomicBatch, Promise!Spec
===============================================================================
