----------------------------- MODULE OwnerThread -----------------------------
(***************************************************************************)
(* _OwnerThreadNativeRuntime: one worker thread owns the native runtime,   *)
(* any number of threads call it through a queue and wait for the answer,  *)
(* and close() asks the worker to drop the runtime and stop.               *)
(*                                                                         *)
(* A request is the number under which it was accepted.  Each thread has a *)
(* stack of calls in progress, innermost first: a finalizer the garbage    *)
(* collector runs is called on top of whatever the thread was doing.       *)
(***************************************************************************)
EXTENDS Naturals, Sequences

CONSTANTS
  Callers,    \* threads that share the proxy
  Worker,     \* the thread that owns the native runtime
  Nobody,     \* holder of the free lock
  Faults,     \* the exceptional outcomes admitted
  MaxCalls    \* bound: calls the callers make

FaultKinds ==
  {"interrupt",         \* KeyboardInterrupt while waiting for an answer
   "interrupt_locked",  \* the same while holding the lock
   "unreportable",      \* an exception whose message cannot be built
   "collect",           \* a dropped facade is collected outside the proxy
   "collect_inside"}    \* or on a thread inside it, the worker included

ASSUME OwnerAssumption ==
  /\ Worker \notin Callers
  /\ Nobody \notin Callers \cup {Worker}
  /\ Faults \subseteq FaultKinds
  /\ MaxCalls \in Nat

Threads == Callers \cup {Worker}

VARIABLES
  calls,     \* _calls: the accepted requests the worker has not taken
  closed,    \* _closed
  lock,      \* holder of _lock
  worker,    \* "starting", "failed", "ready", "serving" or "stopped"; the
             \* native runtime exists while it is "ready" or "serving"
  inHand,    \* the request being served, or NoRequest
  answered,  \* requests with an outcome in their response queue
  stop,      \* the request that is the sentinel of close(), or NoRequest
  frames,    \* per thread, its calls in progress, innermost first
  facade,    \* whether an unreachable session facade awaits collection
  issued,    \* ghost: how many requests were accepted
  served,    \* ghost: the requests carried out, in order
  made       \* ghost: how many calls the callers have made

proxy == <<calls, closed, stop, issued>>
thread == <<worker, inHand, answered, served>>
vars == <<calls, closed, lock, worker, inHand, answered, stop,
          frames, facade, issued, served, made>>

NoRequest == 0

Operations == {"call", "close", "finalize"}
Places == {"enter", "locked", "wait", "join"}
Frame == [op : Operations, at : Places, request : Nat]

Entered(op) == [op |-> op, at |-> "enter", request |-> NoRequest]

Push(t, frame) == frames' = [frames EXCEPT ![t] = <<frame>> \o @]
Pop(t) == frames' = [frames EXCEPT ![t] = Tail(@)]
GoTo(t, place, request) ==
  frames' = [frames EXCEPT ![t] =
    <<[Head(@) EXCEPT !.at = place, !.request = request]>> \o Tail(@)]

\* Thread t runs an operation of `ops`, and is at `place` of it.
At(t, place, ops) ==
  frames[t] # <<>> /\ Head(frames[t]).at = place /\ Head(frames[t]).op \in ops

Request(t) == Head(frames[t]).request

Init ==
  /\ calls = <<>> /\ closed = FALSE /\ lock = Nobody /\ stop = NoRequest
  /\ worker = "starting" /\ inHand = NoRequest
  /\ answered = {} /\ served = <<>>
  /\ frames = [t \in Threads |-> <<>>]
  /\ facade = (Faults \cap {"collect", "collect_inside"} # {})
  /\ issued = 0 /\ made = 0

-------------------------------------------------------------------------------
(* The constructor waits for the worker to build the runtime or to fail.   *)

Start ==
  /\ worker = "starting"
  /\ worker' = "ready"
  /\ UNCHANGED <<proxy, lock, inHand, answered, frames, facade, served, made>>

StartFails ==
  /\ worker = "starting"
  /\ worker' = "failed" /\ closed' = TRUE
  /\ UNCHANGED <<calls, lock, inHand, answered, stop, frames, facade,
                 issued, served, made>>

Constructed == worker \notin {"starting", "failed"}

-------------------------------------------------------------------------------
(* What a thread does inside the proxy.                                    *)

Begin(t, op) ==
  /\ Constructed
  /\ t \in Callers /\ frames[t] = <<>> /\ op \in {"call", "close"}
  /\ made < MaxCalls
  /\ made' = made + 1
  /\ Push(t, Entered(op))
  /\ UNCHANGED <<proxy, thread, lock, facade>>

\* The cyclic collector runs the facade's finalizer, which closes the session
\* by a call to the proxy, on the thread that happened to allocate.
Collect(t) ==
  /\ facade /\ Constructed
  /\ \/ "collect" \in Faults /\ t \in Callers /\ frames[t] = <<>>
     \/ "collect_inside" \in Faults /\ (t = Worker => worker # "stopped")
  /\ facade' = FALSE
  /\ Push(t, Entered("finalize"))
  /\ UNCHANGED <<proxy, thread, lock, made>>

Acquire(t) ==
  /\ At(t, "enter", Operations)
  /\ lock = Nobody
  /\ lock' = t
  /\ GoTo(t, "locked", NoRequest)
  /\ UNCHANGED <<proxy, thread, facade, made>>

\* Mutant: the flag is not looked at under the lock.
AlwaysOpen == TRUE

Open == ~closed

\* _calls.put under the lock.
Enqueue(t) ==
  /\ issued' = issued + 1
  /\ calls' = Append(calls, issued')
  /\ lock' = Nobody
  /\ GoTo(t, "wait", issued')
  /\ UNCHANGED <<thread, facade, made>>

Submit(t) ==
  /\ At(t, "locked", {"call", "finalize"})
  /\ Open
  /\ Enqueue(t)
  /\ UNCHANGED <<closed, stop>>

\* Mutant: the exception leaves the lock held.
RefuseHoldingLock(t) ==
  /\ At(t, "locked", {"call", "finalize"})
  /\ ~Open
  /\ Pop(t)
  /\ UNCHANGED <<proxy, thread, lock, facade, made>>

\* RuntimeError: the owner thread is closed.
Refuse(t) ==
  /\ At(t, "locked", {"call", "finalize"})
  /\ ~Open
  /\ lock' = Nobody
  /\ Pop(t)
  /\ UNCHANGED <<proxy, thread, facade, made>>

SubmitStop(t) ==
  /\ At(t, "locked", {"close"})
  /\ Open
  /\ closed' = TRUE
  /\ stop' = issued + 1
  /\ Enqueue(t)

AlreadyClosed(t) ==
  /\ At(t, "locked", {"close"})
  /\ ~Open
  /\ lock' = Nobody
  /\ Pop(t)
  /\ UNCHANGED <<proxy, thread, facade, made>>

Return(t) ==
  /\ At(t, "wait", {"call", "finalize"})
  /\ Request(t) \in answered
  /\ Pop(t)
  /\ UNCHANGED <<proxy, thread, lock, facade, made>>

Stopped(t) ==
  /\ At(t, "wait", {"close"})
  /\ Request(t) \in answered
  /\ GoTo(t, "join", Request(t))
  /\ UNCHANGED <<proxy, thread, lock, facade, made>>

Joined(t) ==
  /\ At(t, "join", {"close"})
  /\ worker = "stopped"
  /\ Pop(t)
  /\ UNCHANGED <<proxy, thread, lock, facade, made>>

\* Mutant: close() waits without a timeout.
NoTimeout(t) == FALSE /\ UNCHANGED vars

\* close() gives up on a worker that is still busy.
Timeout(t) ==
  /\ \/ At(t, "wait", {"close"}) /\ Request(t) \notin answered
     \/ At(t, "join", {"close"}) /\ worker # "stopped"
  /\ Pop(t)
  /\ UNCHANGED <<proxy, thread, lock, facade, made>>

Interrupt(t) ==
  /\ "interrupt" \in Faults /\ t \in Callers
  /\ At(t, "wait", {"call", "close"}) \/ At(t, "join", {"close"})
  /\ Pop(t)
  /\ UNCHANGED <<proxy, thread, lock, facade, made>>

\* `with` gives the lock back; close() may have set the flag and not yet put
\* the sentinel.
InterruptLocked(t, flag) ==
  /\ "interrupt_locked" \in Faults /\ t \in Callers
  /\ At(t, "locked", {"call", "close"})
  /\ flag => At(t, "locked", {"close"})
  /\ closed' = (closed \/ flag)
  /\ lock' = Nobody
  /\ Pop(t)
  /\ UNCHANGED <<calls, stop, issued, thread, facade, made>>

-------------------------------------------------------------------------------
(* The worker's loop.                                                      *)

\* The worker is in its loop and not inside a finalizer.
Running(state) == worker = state /\ frames[Worker] = <<>>

\* Mutant: the newest request first.
TakeNewest ==
  /\ Running("ready") /\ calls # <<>>
  /\ inHand' = calls[Len(calls)]
  /\ calls' = SubSeq(calls, 1, Len(calls) - 1)
  /\ worker' = "serving"
  /\ UNCHANGED <<closed, lock, answered, stop, frames, facade,
                 issued, served, made>>

Take ==
  /\ Running("ready") /\ calls # <<>>
  /\ inHand' = Head(calls)
  /\ calls' = Tail(calls)
  /\ worker' = "serving"
  /\ UNCHANGED <<closed, lock, answered, stop, frames, facade,
                 issued, served, made>>

\* Mutant: the worker holds on to the request it has answered.
ServeKeeping ==
  /\ Running("serving") /\ inHand # stop
  /\ served' = Append(served, inHand)
  /\ answered' = answered \cup {inHand}
  /\ worker' = "ready"
  /\ UNCHANGED <<proxy, lock, inHand, frames, facade, made>>

\* The native method returns or raises, and either is put in the response.
Serve ==
  /\ Running("serving") /\ inHand # stop
  /\ served' = Append(served, inHand)
  /\ answered' = answered \cup {inHand}
  /\ inHand' = NoRequest /\ worker' = "ready"
  /\ UNCHANGED <<proxy, lock, frames, facade, made>>

\* str(exc) raises in both handlers: the exception leaves the loop.
Die ==
  /\ "unreportable" \in Faults
  /\ Running("serving") /\ inHand # stop
  /\ served' = Append(served, inHand)
  /\ inHand' = NoRequest /\ worker' = "stopped"
  /\ UNCHANGED <<proxy, lock, answered, frames, facade, made>>

\* Mutant: the worker answers the sentinel and does not leave its loop.
StopAndContinue ==
  /\ Running("serving") /\ inHand = stop
  /\ served' = Append(served, inHand)
  /\ answered' = answered \cup {inHand}
  /\ inHand' = NoRequest /\ worker' = "ready"
  /\ UNCHANGED <<proxy, lock, frames, facade, made>>

\* The sentinel: the runtime is dropped and close() answered.
Stop ==
  /\ Running("serving") /\ inHand = stop
  /\ served' = Append(served, inHand)
  /\ answered' = answered \cup {inHand}
  /\ inHand' = NoRequest /\ worker' = "stopped"
  /\ UNCHANGED <<proxy, lock, frames, facade, made>>

-------------------------------------------------------------------------------
\* What a thread does next once it is inside the proxy.
Proceed(t) ==
  \/ Acquire(t) \/ Submit(t) \/ Refuse(t) \/ SubmitStop(t) \/ AlreadyClosed(t)
  \/ Return(t) \/ Stopped(t) \/ Joined(t)

Serving == Take \/ Serve \/ Stop

Next ==
  \/ Start \/ StartFails
  \/ \E t \in Callers, op \in {"call", "close"} : Begin(t, op)
  \/ \E t \in Threads : Collect(t) \/ Proceed(t) \/ Timeout(t) \/ Interrupt(t)
  \/ \E t \in Callers, flag \in BOOLEAN : InterruptLocked(t, flag)
  \/ Serving \/ Die

\* Threads are scheduled, the worker finishes a native call, timeouts expire.
Spec ==
  /\ Init /\ [][Next]_vars
  /\ WF_vars(Serving)
  /\ \A t \in Threads : WF_vars(Proceed(t)) /\ WF_vars(Timeout(t))

-------------------------------------------------------------------------------
(* Properties.                                                             *)

Typed ==
  /\ calls \in Seq(Nat) /\ served \in Seq(Nat)
  /\ closed \in BOOLEAN /\ facade \in BOOLEAN
  /\ lock \in Threads \cup {Nobody}
  /\ worker \in {"starting", "failed", "ready", "serving", "stopped"}
  /\ inHand \in Nat /\ stop \in Nat /\ issued \in Nat /\ made \in 0..MaxCalls
  /\ answered \subseteq Nat
  /\ frames \in [Threads -> Seq(Frame)]

\* Only a serving worker holds a request: it lets go of one it has answered,
\* and of the arguments that came with it (the finally of its loop).
HandMatchesWorker == inHand # NoRequest <=> worker = "serving"

\* Every variable has its type, and the worker's hand agrees with its place in
\* the loop.
TypeOK == Typed /\ HandMatchesWorker

InHand == IF inHand = NoRequest THEN <<>> ELSE <<inHand>>

\* Every accepted call is carried out once and in the order of acceptance,
\* whatever its caller does meanwhile: what was served, is being served and
\* is queued is exactly 1, 2, ..., issued (_call, _owner_thread_runtime_main).
ServedOnceInOrder ==
  served \o InHand \o calls = [i \in 1..issued |-> i]

\* close() drops nothing: when the worker has answered the sentinel, every
\* call accepted before it was served and none was accepted after it
\* (close, _call and their lock).
StopDrainsQueue ==
  stop \in answered => stop = issued /\ Len(served) = issued

\* An exception it could not report ended the worker's loop.
WorkerDied == worker = "stopped" /\ stop \notin answered

\* Every operation on the proxy returns to its thread, unless the worker has
\* died (_call, close and the finalizers that call them).
EveryCallReturns ==
  \A t \in Threads : frames[t] # <<>> ~> frames[t] = <<>> \/ WorkerDied

\* close() returns even if the worker died with calls outstanding.
EveryCloseReturns ==
  \A t \in Callers :
    (frames[t] # <<>> /\ Head(frames[t]).op = "close") ~> frames[t] = <<>>

\* Whether the caller of close() waits for it or not: once the sentinel is
\* queued, the worker drops the native runtime and ends.
CloseStopsWorker == stop # NoRequest ~> worker = "stopped"
===============================================================================
