-------------------------- MODULE OwnerThreadProofs --------------------------
(***************************************************************************)
(* For any number of threads and calls, and whatever exceptional outcomes  *)
(* are admitted: the worker serves every accepted call once and in order,  *)
(* and the answer to close() means that no accepted call was dropped.      *)
(***************************************************************************)
EXTENDS OwnerThread, SequenceTheorems, TLAPS

-------------------------------------------------------------------------------
(* The inductive invariant.                                                *)

\* ServedOnceInOrder, element by element.
InOrder ==
  /\ issued = Len(served) + (IF inHand = NoRequest THEN 0 ELSE 1) + Len(calls)
  /\ \A i \in 1..Len(served) : served[i] = i
  /\ inHand # NoRequest => inHand = Len(served) + 1
  /\ \A i \in 1..Len(calls) : calls[i] = (issued - Len(calls)) + i

\* The sentinel is the last accepted request, and there are no answers to
\* requests nobody made.
SentinelIsLast ==
  /\ stop # NoRequest => closed /\ stop = issued
  /\ answered \subseteq 1..issued

IInv ==
  /\ Typed
  /\ InOrder
  /\ HandMatchesWorker
  /\ SentinelIsLast
  /\ StopDrainsQueue

-------------------------------------------------------------------------------
(* Frames and queues keep their types.                                     *)

LEMMA FramesTyped ==
  ASSUME frames \in [Threads -> Seq(Frame)], NEW t \in Threads
  PROVE  /\ \A f \in Frame : Push(t, f) => frames' \in [Threads -> Seq(Frame)]
         /\ frames[t] # <<>> /\ Pop(t) => frames' \in [Threads -> Seq(Frame)]
         /\ \A place \in Places, r \in Nat :
              frames[t] # <<>> /\ GoTo(t, place, r)
                => frames' \in [Threads -> Seq(Frame)]
<1>1. frames[t] \in Seq(Frame)
  OBVIOUS
<1>2. \A f \in Frame, q \in Seq(Frame) : <<f>> \o q \in Seq(Frame)
  OBVIOUS
<1>3. ASSUME frames[t] # <<>>
      PROVE  Head(frames[t]) \in Frame /\ Tail(frames[t]) \in Seq(Frame)
  BY <1>1, <1>3, HeadTailProperties
<1>4. \A f \in Frame, place \in Places, r \in Nat :
        [f EXCEPT !.at = place, !.request = r] \in Frame
  BY DEF Frame
<1>5. ASSUME NEW f \in Frame, Push(t, f)
      PROVE  frames' \in [Threads -> Seq(Frame)]
  BY <1>1, <1>2, <1>5 DEF Push
<1>6. ASSUME frames[t] # <<>>, Pop(t)
      PROVE  frames' \in [Threads -> Seq(Frame)]
  BY <1>3, <1>6 DEF Pop
<1>7. ASSUME NEW place \in Places, NEW r \in Nat, frames[t] # <<>>,
             GoTo(t, place, r)
      PROVE  frames' \in [Threads -> Seq(Frame)]
  <2> DEFINE moved == [Head(frames[t]) EXCEPT !.at = place, !.request = r]
  <2>1. moved \in Frame
    BY <1>3, <1>4, <1>7
  <2>2. <<moved>> \o Tail(frames[t]) \in Seq(Frame)
    BY <2>1, <1>2, <1>3, <1>7
  <2>3. frames' = [frames EXCEPT ![t] = <<moved>> \o Tail(frames[t])]
    BY <1>7 DEF GoTo
  <2> HIDE DEF moved
  <2> QED BY <2>2, <2>3
<1> QED BY <1>5, <1>6, <1>7

LEMMA EnteredTyped == \A op \in Operations : Entered(op) \in Frame
BY DEF Entered, Frame, Operations, Places, NoRequest

\* The request a frame waits for is a number.
LEMMA RequestTyped ==
  ASSUME frames \in [Threads -> Seq(Frame)], NEW t \in Threads, frames[t] # <<>>
  PROVE  Request(t) \in Nat
<1>1. Head(frames[t]) \in Frame
  BY HeadTailProperties
<1> QED BY <1>1 DEF Request, Frame

\* Appending to and taking from a queue of numbers.
LEMMA QueueFacts ==
  ASSUME NEW q \in Seq(Nat)
  PROVE  /\ Len(q) \in Nat
         /\ \A n \in Nat :
              /\ Append(q, n) \in Seq(Nat)
              /\ Len(Append(q, n)) = Len(q) + 1
              /\ \A i \in 1..Len(q) : Append(q, n)[i] = q[i]
              /\ Append(q, n)[Len(q) + 1] = n
         /\ q # <<>> =>
              /\ Len(q) > 0
              /\ Head(q) = q[1] /\ Head(q) \in Nat
              /\ Tail(q) \in Seq(Nat)
              /\ Len(Tail(q)) = Len(q) - 1
              /\ \A i \in 1..(Len(q) - 1) : Tail(q)[i] = q[i + 1]
<1>1. Len(q) \in Nat
  OBVIOUS
<1>2. ASSUME NEW n \in Nat
      PROVE  /\ Append(q, n) \in Seq(Nat)
             /\ Len(Append(q, n)) = Len(q) + 1
             /\ \A i \in 1..Len(q) : Append(q, n)[i] = q[i]
             /\ Append(q, n)[Len(q) + 1] = n
  BY AppendProperties
<1>3. ASSUME q # <<>>
      PROVE  /\ Len(q) > 0
             /\ Head(q) = q[1] /\ Head(q) \in Nat
             /\ Tail(q) \in Seq(Nat)
             /\ Len(Tail(q)) = Len(q) - 1
             /\ \A i \in 1..(Len(q) - 1) : Tail(q)[i] = q[i + 1]
  BY <1>3, HeadTailProperties
<1> QED BY <1>1, <1>2, <1>3

-------------------------------------------------------------------------------
(* Accepting a request.                                                    *)

\* A new request goes behind all others, in an open queue.
LEMMA Accepted ==
  ASSUME IInv, ~closed, NEW t \in Threads, frames[t] # <<>>, Enqueue(t)
  PROVE  /\ calls' \in Seq(Nat) /\ issued' \in Nat /\ lock' \in Threads \cup {Nobody}
         /\ frames' \in [Threads -> Seq(Frame)]
         /\ InOrder' /\ HandMatchesWorker'
         /\ answered' \subseteq 1..issued'
         /\ issued + 1 \notin answered /\ issued' = issued + 1
         /\ stop = NoRequest
<1>1. issued \in Nat /\ issued' = issued + 1 /\ calls' = Append(calls, issued')
  BY DEF IInv, Typed, Enqueue
<1>2. /\ calls' \in Seq(Nat) /\ Len(calls) \in Nat
      /\ Len(calls') = Len(calls) + 1
      /\ \A i \in 1..Len(calls) : calls'[i] = calls[i]
      /\ calls'[Len(calls) + 1] = issued'
  BY <1>1, QueueFacts DEF IInv, Typed
<1>3. frames' \in [Threads -> Seq(Frame)]
  BY <1>1, FramesTyped DEF IInv, Typed, Enqueue, Places
<1>4. served' = served /\ inHand' = inHand /\ worker' = worker /\ answered' = answered
  BY DEF Enqueue, thread
<1>5. Len(served) \in Nat
  BY QueueFacts DEF IInv, Typed
<1>6. InOrder'
  <2>1. \A i \in 1..Len(calls) : calls[i] = (issued - Len(calls)) + i
    BY DEF IInv, InOrder
  <2>2. issued' - Len(calls') = issued - Len(calls)
    BY <1>1, <1>2
  <2>3. ASSUME NEW i \in 1..Len(calls')
        PROVE  calls'[i] = (issued' - Len(calls')) + i
    <3>1. CASE i \in 1..Len(calls)
      BY <3>1, <2>1, <2>2, <1>2
    <3>2. CASE i = Len(calls) + 1
      BY <3>2, <1>1, <1>2
    <3> QED BY <3>1, <3>2, <1>2
  <2>4. issued' = Len(served') + (IF inHand' = NoRequest THEN 0 ELSE 1) + Len(calls')
    <3>1. issued = Len(served) + (IF inHand = NoRequest THEN 0 ELSE 1) + Len(calls)
      BY DEF IInv, InOrder
    <3>2. CASE inHand = NoRequest
      BY <3>1, <3>2, <1>1, <1>2, <1>4, <1>5
    <3>3. CASE inHand # NoRequest
      BY <3>1, <3>3, <1>1, <1>2, <1>4, <1>5
    <3> QED BY <3>2, <3>3
  <2> QED BY <2>3, <2>4, <1>4 DEF IInv, InOrder, NoRequest
<1>7. answered' \subseteq 1..issued' /\ issued + 1 \notin answered
  BY <1>1, <1>4 DEF IInv, SentinelIsLast
<1>8. lock' = Nobody
  BY DEF Enqueue
<1> QED BY <1>1, <1>2, <1>3, <1>4, <1>6, <1>7, <1>8
        DEF IInv, HandMatchesWorker, SentinelIsLast

LEMMA SubmitKeepsInvariant ==
  ASSUME IInv, NEW t \in Threads, Submit(t)
  PROVE  IInv'
<1>1. frames[t] # <<>> /\ ~closed /\ Enqueue(t) /\ closed' = closed /\ stop' = stop
  BY DEF Submit, At, Open
<1>2. /\ calls' \in Seq(Nat) /\ issued' \in Nat /\ lock' \in Threads \cup {Nobody}
      /\ frames' \in [Threads -> Seq(Frame)]
      /\ InOrder' /\ HandMatchesWorker'
      /\ answered' \subseteq 1..issued'
      /\ stop = NoRequest
  BY <1>1, Accepted
<1>3. UNCHANGED <<thread, facade, made>>
  BY <1>1 DEF Enqueue
<1>4. Typed'
  BY <1>1, <1>2, <1>3 DEF IInv, Typed, thread
<1>5. SentinelIsLast'
  BY <1>1, <1>2 DEF SentinelIsLast
<1>6. StopDrainsQueue'
  <2>1. NoRequest \notin answered'
    BY <1>2 DEF NoRequest
  <2> QED BY <2>1, <1>1, <1>2 DEF StopDrainsQueue
<1> QED BY <1>2, <1>4, <1>5, <1>6 DEF IInv

LEMMA SubmitStopKeepsInvariant ==
  ASSUME IInv, NEW t \in Threads, SubmitStop(t)
  PROVE  IInv'
<1>1. frames[t] # <<>> /\ ~closed /\ Enqueue(t) /\ closed' = TRUE
      /\ stop' = issued + 1
  BY DEF SubmitStop, At, Open
<1>2. /\ calls' \in Seq(Nat) /\ issued' \in Nat /\ lock' \in Threads \cup {Nobody}
      /\ frames' \in [Threads -> Seq(Frame)]
      /\ InOrder' /\ HandMatchesWorker'
      /\ answered' \subseteq 1..issued'
      /\ issued + 1 \notin answered /\ issued' = issued + 1
  BY <1>1, Accepted
<1>3. UNCHANGED <<thread, facade, made>>
  BY <1>1 DEF Enqueue
<1>4. Typed'
  BY <1>1, <1>2, <1>3 DEF IInv, Typed, thread
<1>5. SentinelIsLast'
  BY <1>1, <1>2 DEF SentinelIsLast
<1>6. StopDrainsQueue'
  BY <1>1, <1>2, <1>3 DEF StopDrainsQueue, thread
<1> QED BY <1>2, <1>4, <1>5, <1>6 DEF IInv

-------------------------------------------------------------------------------
(* The worker.                                                             *)

LEMMA TakeKeepsInvariant == IInv /\ Take => IInv'
<1> SUFFICES ASSUME IInv, Take PROVE IInv'
  OBVIOUS
<1>1. /\ calls \in Seq(Nat) /\ calls # <<>> /\ inHand = NoRequest
      /\ inHand' = Head(calls) /\ calls' = Tail(calls) /\ worker' = "serving"
      /\ issued \in Nat /\ served \in Seq(Nat)
  BY DEF IInv, Typed, Take, Running, HandMatchesWorker
<1>2. UNCHANGED <<closed, lock, answered, stop, frames, facade, issued, served, made>>
  BY DEF Take
<1>3. /\ Len(calls) \in Nat /\ Len(calls) > 0 /\ Len(served) \in Nat
      /\ inHand' = calls[1] /\ inHand' \in Nat /\ calls' \in Seq(Nat)
      /\ Len(calls') = Len(calls) - 1
      /\ \A i \in 1..(Len(calls) - 1) : calls'[i] = calls[i + 1]
  BY <1>1, QueueFacts
<1>4. /\ issued = Len(served) + Len(calls)
      /\ \A i \in 1..Len(calls) : calls[i] = (issued - Len(calls)) + i
      /\ \A i \in 1..Len(served) : served[i] = i
  BY <1>1, <1>3 DEF IInv, InOrder
<1>5. inHand' = Len(served) + 1
  BY <1>1, <1>3, <1>4
<1>6. InOrder'
  <2>1. \A i \in 1..Len(calls') : calls'[i] = (issued - Len(calls')) + i
    BY <1>1, <1>3, <1>4
  <2> QED BY <2>1, <1>1, <1>2, <1>3, <1>4, <1>5 DEF InOrder, NoRequest
<1>7. Typed'
  BY <1>1, <1>2, <1>3 DEF IInv, Typed
<1>8. HandMatchesWorker' /\ SentinelIsLast' /\ StopDrainsQueue'
  BY <1>1, <1>2, <1>3, <1>5
     DEF IInv, HandMatchesWorker, SentinelIsLast, StopDrainsQueue, NoRequest
<1> QED BY <1>6, <1>7, <1>8 DEF IInv

\* Carrying out the request in hand extends the served ones by the next.
LEMMA Carried ==
  ASSUME IInv, Running("serving"), served' = Append(served, inHand),
         inHand' = NoRequest, UNCHANGED proxy
  PROVE  /\ served' \in Seq(Nat) /\ Len(served) \in Nat
         /\ Len(served') = Len(served) + 1
         /\ inHand = Len(served') /\ inHand \in 1..issued
         /\ InOrder'
         /\ issued = Len(served') + Len(calls) /\ Len(calls) \in Nat
<1>1. /\ inHand \in Nat /\ inHand # NoRequest /\ issued \in Nat
      /\ served \in Seq(Nat) /\ calls \in Seq(Nat)
  BY DEF IInv, Typed, Running, HandMatchesWorker
<1>2. /\ Len(served) \in Nat /\ Len(calls) \in Nat
      /\ served' \in Seq(Nat) /\ Len(served') = Len(served) + 1
      /\ \A i \in 1..Len(served) : served'[i] = served[i]
      /\ served'[Len(served) + 1] = inHand
  BY <1>1, QueueFacts
<1>3. calls' = calls /\ issued' = issued
  BY DEF proxy
<1>4. inHand = Len(served) + 1 /\ issued = Len(served) + 1 + Len(calls)
  BY <1>1, <1>2 DEF IInv, InOrder
<1>5. \A i \in 1..Len(served') : served'[i] = i
  BY <1>2, <1>4 DEF IInv, InOrder
<1>6. InOrder'
  BY <1>1, <1>2, <1>3, <1>4, <1>5 DEF IInv, InOrder, NoRequest
<1> QED BY <1>1, <1>2, <1>4, <1>6

\* Answering or losing any request but the sentinel.
LEMMA ServeKeepsInvariant == IInv /\ (Serve \/ Die) => IInv'
<1> SUFFICES ASSUME IInv, Serve \/ Die PROVE IInv'
  OBVIOUS
<1>1. /\ Running("serving") /\ inHand # stop /\ served' = Append(served, inHand)
      /\ inHand' = NoRequest /\ worker' \in {"ready", "stopped"}
      /\ answered' \subseteq answered \cup {inHand}
      /\ UNCHANGED <<proxy, lock, frames, facade, made>>
  BY DEF Serve, Die
<1>2. UNCHANGED proxy
  BY <1>1
<1>3. /\ served' \in Seq(Nat) /\ Len(served) \in Nat
      /\ Len(served') = Len(served) + 1
      /\ inHand \in 1..issued
      /\ InOrder'
      /\ issued = Len(served') + Len(calls) /\ Len(calls) \in Nat
  BY <1>1, <1>2, Carried
<1>4. calls' = calls /\ closed' = closed /\ stop' = stop /\ issued' = issued
  BY <1>1 DEF proxy
<1>5. answered' \subseteq 1..issued /\ issued \in Nat
  BY <1>1, <1>3 DEF IInv, SentinelIsLast, Typed
<1>6. Typed'
  BY <1>1, <1>3, <1>4, <1>5 DEF IInv, Typed, NoRequest
<1>7. HandMatchesWorker' /\ SentinelIsLast'
  BY <1>1, <1>4, <1>5 DEF IInv, HandMatchesWorker, SentinelIsLast
<1>8. stop \notin answered
  <2>1. Len(served) # issued
    BY <1>3
  <2> QED BY <2>1 DEF IInv, StopDrainsQueue
<1>9. StopDrainsQueue'
  BY <1>1, <1>4, <1>8 DEF StopDrainsQueue
<1> QED BY <1>3, <1>6, <1>7, <1>9 DEF IInv

LEMMA StopKeepsInvariant == IInv /\ Stop => IInv'
<1> SUFFICES ASSUME IInv, Stop PROVE IInv'
  OBVIOUS
<1>1. /\ Running("serving") /\ inHand = stop /\ served' = Append(served, inHand)
      /\ inHand' = NoRequest /\ worker' = "stopped"
      /\ answered' = answered \cup {inHand}
      /\ UNCHANGED <<proxy, lock, frames, facade, made>>
  BY DEF Stop
<1>2. UNCHANGED proxy
  BY <1>1
<1>3. /\ served' \in Seq(Nat) /\ Len(served') = Len(served) + 1
      /\ inHand = Len(served') /\ inHand \in 1..issued
      /\ InOrder'
  BY <1>1, <1>2, Carried
<1>4. calls' = calls /\ closed' = closed /\ stop' = stop /\ issued' = issued
  BY <1>1 DEF proxy
<1>5. answered' \subseteq 1..issued /\ issued \in Nat
  BY <1>1, <1>3 DEF IInv, SentinelIsLast, Typed
<1>6. Typed'
  BY <1>1, <1>3, <1>4, <1>5 DEF IInv, Typed, NoRequest
<1>7. HandMatchesWorker' /\ SentinelIsLast'
  BY <1>1, <1>4, <1>5 DEF IInv, HandMatchesWorker, SentinelIsLast
<1>8. StopDrainsQueue'
  <2>1. stop = issued
    BY <1>1, <1>3, <1>5 DEF IInv, SentinelIsLast, NoRequest
  <2> QED BY <2>1, <1>1, <1>3, <1>4 DEF StopDrainsQueue
<1> QED BY <1>3, <1>6, <1>7, <1>8 DEF IInv

-------------------------------------------------------------------------------
(* Everything else leaves the queue alone.                                 *)

\* A step that changes neither requests nor worker, except that it may set
\* the flag, keeps the invariant as long as the types are kept.
LEMMA QuietStep ==
  ASSUME IInv, UNCHANGED <<calls, stop, issued, inHand, answered, served>>,
         closed => closed', worker' = worker, Typed'
  PROVE  IInv'
<1>1. InOrder'
  BY DEF IInv, InOrder
<1>2. HandMatchesWorker' /\ SentinelIsLast' /\ StopDrainsQueue'
  BY DEF IInv, HandMatchesWorker, SentinelIsLast, StopDrainsQueue
<1> QED BY <1>1, <1>2 DEF IInv

LEMMA StartKeepsInvariant == IInv /\ (Start \/ StartFails) => IInv'
<1> SUFFICES ASSUME IInv, Start \/ StartFails PROVE IInv'
  OBVIOUS
<1>1. /\ worker = "starting" /\ worker' \in {"ready", "failed"}
      /\ closed' \in BOOLEAN /\ (closed => closed')
      /\ UNCHANGED <<calls, lock, inHand, answered, stop, frames, facade,
                     issued, served, made>>
  BY DEF IInv, Typed, Start, StartFails, proxy
<1>2. Typed'
  BY <1>1 DEF IInv, Typed
<1>3. InOrder'
  BY <1>1 DEF IInv, InOrder
<1>4. HandMatchesWorker' /\ SentinelIsLast' /\ StopDrainsQueue'
  BY <1>1 DEF IInv, HandMatchesWorker, SentinelIsLast, StopDrainsQueue
<1> QED BY <1>2, <1>3, <1>4 DEF IInv

LEMMA BeginKeepsInvariant ==
  ASSUME IInv, NEW t \in Callers, NEW op \in {"call", "close"}, Begin(t, op)
  PROVE  IInv'
<1>1. t \in Threads /\ op \in Operations
  BY DEF Threads, Operations
<1>2. frames' \in [Threads -> Seq(Frame)]
  BY <1>1, EnteredTyped, FramesTyped DEF IInv, Typed, Begin
<1>3. made' \in 0..MaxCalls
  BY OwnerAssumption DEF IInv, Typed, Begin
<1>4. UNCHANGED <<proxy, thread, lock, facade>>
  BY DEF Begin
<1>5. Typed'
  BY <1>2, <1>3, <1>4 DEF IInv, Typed, proxy, thread
<1> QED BY <1>4, <1>5, QuietStep DEF proxy, thread, IInv, Typed

LEMMA CollectKeepsInvariant ==
  ASSUME IInv, NEW t \in Threads, Collect(t)
  PROVE  IInv'
<1>1. frames' \in [Threads -> Seq(Frame)]
  BY EnteredTyped, FramesTyped DEF IInv, Typed, Collect, Operations
<1>2. facade' = FALSE /\ UNCHANGED <<proxy, thread, lock, made>>
  BY DEF Collect
<1>3. Typed'
  BY <1>1, <1>2 DEF IInv, Typed, proxy, thread
<1> QED BY <1>2, <1>3, QuietStep DEF proxy, thread

\* Steps that end or move the innermost call of a thread and at most hand
\* over the lock.
LEMMA MoveKeepsInvariant ==
  ASSUME IInv, NEW t \in Threads,
         \/ Acquire(t) \/ Refuse(t) \/ AlreadyClosed(t) \/ Return(t)
         \/ Stopped(t) \/ Joined(t) \/ Timeout(t) \/ Interrupt(t)
  PROVE  IInv'
<1>1. frames \in [Threads -> Seq(Frame)] /\ frames[t] # <<>>
  BY DEF IInv, Typed, Acquire, Refuse, AlreadyClosed, Return, Stopped, Joined,
         Timeout, Interrupt, At
<1>2. Request(t) \in Nat /\ NoRequest \in Nat /\ {"locked", "join"} \subseteq Places
  BY <1>1, RequestTyped DEF NoRequest, Places
<1>3. /\ Pop(t) \/ GoTo(t, "locked", NoRequest) \/ GoTo(t, "join", Request(t))
      /\ lock' \in {lock, t, Nobody}
      /\ UNCHANGED <<proxy, thread, facade, made>>
  BY DEF Acquire, Refuse, AlreadyClosed, Return, Stopped, Joined, Timeout, Interrupt
<1>4. frames' \in [Threads -> Seq(Frame)]
  BY <1>1, <1>2, <1>3, FramesTyped
<1>5. Typed'
  BY <1>3, <1>4 DEF IInv, Typed, proxy, thread
<1> QED BY <1>3, <1>5, QuietStep DEF proxy, thread

LEMMA InterruptLockedKeepsInvariant ==
  ASSUME IInv, NEW t \in Threads, NEW flag \in BOOLEAN, InterruptLocked(t, flag)
  PROVE  IInv'
<1>1. frames \in [Threads -> Seq(Frame)] /\ frames[t] # <<>>
  BY DEF IInv, Typed, InterruptLocked, At
<1>2. frames' \in [Threads -> Seq(Frame)]
  BY <1>1, FramesTyped DEF InterruptLocked
<1>3. /\ closed' \in BOOLEAN /\ (closed => closed') /\ lock' = Nobody
      /\ UNCHANGED <<calls, stop, issued, thread, facade, made>>
  BY DEF InterruptLocked, IInv, Typed
<1>4. Typed'
  BY <1>2, <1>3 DEF IInv, Typed, thread
<1> QED BY <1>3, <1>4, QuietStep DEF thread

-------------------------------------------------------------------------------
(* The theorems.                                                           *)

LEMMA InitInvariant == Init => IInv
<1> SUFFICES ASSUME Init PROVE IInv
  OBVIOUS
<1>1. Typed
  <2>1. facade \in BOOLEAN
    BY DEF Init
  <2>2. frames \in [Threads -> Seq(Frame)]
    BY DEF Init
  <2>3. made \in 0..MaxCalls
    BY OwnerAssumption DEF Init
  <2>4. calls \in Seq(Nat) /\ served \in Seq(Nat) /\ answered \subseteq Nat
    BY DEF Init
  <2>5. /\ closed \in BOOLEAN /\ lock \in Threads \cup {Nobody}
        /\ worker \in {"starting", "failed", "ready", "serving", "stopped"}
    BY DEF Init
  <2>6. inHand \in Nat /\ stop \in Nat /\ issued \in Nat
    BY DEF Init, NoRequest
  <2> QED BY <2>1, <2>2, <2>3, <2>4, <2>5, <2>6 DEF Typed
<1>2. InOrder /\ HandMatchesWorker /\ SentinelIsLast /\ StopDrainsQueue
  BY DEF Init, InOrder, HandMatchesWorker, SentinelIsLast, StopDrainsQueue, NoRequest
<1> QED BY <1>1, <1>2 DEF IInv

LEMMA StepInvariant == IInv /\ [Next]_vars => IInv'
<1> SUFFICES ASSUME IInv, [Next]_vars PROVE IInv'
  OBVIOUS
<1>1. CASE Start \/ StartFails
  BY <1>1, StartKeepsInvariant
<1>2. CASE \E t \in Callers, op \in {"call", "close"} : Begin(t, op)
  BY <1>2, BeginKeepsInvariant
<1>3. ASSUME NEW t \in Threads,
             Collect(t) \/ Proceed(t) \/ Timeout(t) \/ Interrupt(t)
      PROVE  IInv'
  BY <1>3, CollectKeepsInvariant, SubmitKeepsInvariant, SubmitStopKeepsInvariant,
     MoveKeepsInvariant DEF Proceed
<1>4. CASE \E t \in Callers, flag \in BOOLEAN : InterruptLocked(t, flag)
  BY <1>4, InterruptLockedKeepsInvariant DEF Threads
<1>5. CASE Serving \/ Die
  BY <1>5, TakeKeepsInvariant, ServeKeepsInvariant, StopKeepsInvariant DEF Serving
<1>6. CASE UNCHANGED vars
  <2>1. Typed'
    BY <1>6 DEF IInv, Typed, vars
  <2> QED BY <2>1, <1>6, QuietStep DEF vars
<1> QED BY <1>1, <1>2, <1>3, <1>4, <1>5, <1>6 DEF Next

LEMMA InvariantHolds == Spec => []IInv
BY InitInvariant, StepInvariant, PTL DEF Spec

\* Types: of the queue, the flag, the lock, the worker and every thread.
THEOREM TypeCorrect == Spec => []TypeOK
<1>1. IInv => TypeOK
  BY DEF IInv, TypeOK
<1> QED BY <1>1, InvariantHolds, PTL

\* The requests served, in hand and queued are the accepted ones in order, for
\* any number of callers, interrupts and finalizers.
THEOREM ServedInOrder == Spec => []ServedOnceInOrder
<1>1. IInv => ServedOnceInOrder
  <2> SUFFICES ASSUME IInv PROVE ServedOnceInOrder
    OBVIOUS
  <2> DEFINE hand == InHand
             line == served \o hand \o calls
  <2>1. /\ served \in Seq(Nat) /\ calls \in Seq(Nat) /\ hand \in Seq(Nat)
        /\ issued \in Nat /\ inHand \in Nat
        /\ Len(served) \in Nat /\ Len(calls) \in Nat
    BY QueueFacts DEF IInv, Typed, InHand
  <2>2. /\ inHand = NoRequest => Len(hand) = 0
        /\ inHand # NoRequest => Len(hand) = 1 /\ hand[1] = Len(served) + 1
    BY <2>1 DEF IInv, InOrder, InHand
  <2>3. Len(hand) = (IF inHand = NoRequest THEN 0 ELSE 1)
    BY <2>2
  <2>4. issued = Len(served) + Len(hand) + Len(calls)
    BY <2>3 DEF IInv, InOrder
  <2> HIDE DEF hand
  <2>5. \A i \in 1..Len(hand) : hand[i] = Len(served) + i
    BY <2>1, <2>2, <2>3
  <2>6. /\ line \in Seq(Nat) /\ Len(line) = issued
        /\ Len(hand) \in Nat /\ DOMAIN line = 1..issued
    BY <2>1, <2>4
  <2>7. ASSUME NEW i \in 1..issued PROVE line[i] = i
    <3>1. CASE i \in 1..Len(served)
      BY <3>1, <2>1, <2>4 DEF IInv, InOrder
    <3>2. CASE i \in (Len(served) + 1)..(Len(served) + Len(hand))
      <4>1. line[i] = hand[i - Len(served)]
        BY <3>2, <2>1, <2>4, <2>6
      <4> QED BY <4>1, <3>2, <2>1, <2>5, <2>6
    <3>3. CASE i \in (Len(served) + Len(hand) + 1)..issued
      <4> DEFINE j == i - (Len(served) + Len(hand))
      <4>1. j \in 1..Len(calls)
        BY <3>3, <2>1, <2>4, <2>6
      <4>2. line[i] = calls[j]
        BY <3>3, <4>1, <2>1, <2>4, <2>6
      <4>3. calls[j] = (issued - Len(calls)) + j
        BY <4>1 DEF IInv, InOrder
      <4>4. (issued - Len(calls)) + j = i
        BY <2>1, <2>4, <2>6
      <4> QED BY <4>2, <4>3, <4>4
    <3> QED BY <3>1, <3>2, <3>3, <2>1, <2>4, <2>6
  <2> HIDE DEF line
  <2>8. line = [i \in 1..issued |-> i]
    <3>1. line = [i \in DOMAIN line |-> line[i]]
      BY <2>6
    <3> QED BY <3>1, <2>6, <2>7
  <2> QED BY <2>8 DEF ServedOnceInOrder, line, hand
<1> QED BY <1>1, InvariantHolds, PTL

\* An answered close() has dropped no accepted call.
THEOREM CloseDropsNothing == Spec => []StopDrainsQueue
<1>1. IInv => StopDrainsQueue
  BY DEF IInv
<1> QED BY <1>1, InvariantHolds, PTL
===============================================================================
