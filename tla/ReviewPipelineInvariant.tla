---------------------- MODULE ReviewPipelineInvariant -----------------------
(***************************************************************************)
(* The inductive invariant of ReviewPipeline.  It says where every row of  *)
(* a call is, in terms of how many rows were taken from each channel, and  *)
(* what the ends of two neighbouring threads tell of each other.           *)
(***************************************************************************)
EXTENDS ReviewPipeline

Calls == {"idle", "features", "running", "heads", "failed"}
Places == {"receive", "fill", "compute", "send", "forward", "finish"}

\* The errors a stage sends downstream.
RowErrors == [kind : {"compute"}, thread : Stages]
Errors == {NoFailure} \cup RowErrors
Messages == [row : Nat, error : Errors]

\* How thread t ends when it does not report a row's error.
OwnEnds(t) == [kind : {"closed", "panic", "conversion"}, thread : {t}]
EndsOf(t) == {Running, Ok} \cup RowErrors \cup OwnEnds(t)

StatusKinds == FaultKinds \cup {"none", "running", "ok", "closed", "incomplete"}
Statuses == [kind : StatusKinds, thread : Threads]

TypeOK ==
  /\ states \in [Stages -> [Keys -> Seq(Reviews)]]
  /\ detached \in [Stages -> [Keys -> Seq(Reviews)]]
  /\ features \in Seq(Reviews) /\ journal \in Seq(Reviews) /\ inputs \in Seq(Reviews)
  /\ call \in Calls /\ stateOnly \in BOOLEAN
  /\ sent \in Nat
  /\ channel \in [1..Output -> Seq(Messages)]
  /\ stage \in [Stages ->
       [at : Places, rows : Seq(Nat), error : Errors, ended : BOOLEAN]]
  /\ result \in [Threads -> Statuses]
  /\ \A t \in Threads : result[t] \in EndsOf(t)
  /\ rowsOut \in Seq(Nat)
  /\ failure \in Errors
  /\ outcome \in Statuses

-------------------------------------------------------------------------------
(* Threads and channels.                                                   *)

Going(t) == result[t] = Running
Broken(t) == result[t] \notin {Running, Ok}

\* Nothing follows an error in a channel.
ErrorIsLast(q) == \A i \in DOMAIN q : i < Len(q) => q[i].error = NoFailure
HasError(q) == q # <<>> /\ q[Len(q)].error # NoFailure

\* Whoever sent an error has ended with it.
ChannelOK(c) ==
  /\ ErrorIsLast(channel[c])
  /\ HasError(channel[c]) => Broken(c - 1)
  /\ c = Output /\ stateOnly => channel[c] = <<>>

\* What a batch may be at each place, and that a stage that saw its channel end
\* saw all of it.
StageOK(s) ==
  /\ stage[s].at \in {"receive", "finish", "forward"} <=> stage[s].rows = <<>>
  /\ stage[s].at \in {"receive", "fill", "finish"} => stage[s].error = NoFailure
  /\ stage[s].at = "forward" => stage[s].error # NoFailure
  /\ stage[s].at = "finish" \/ stage[s].ended => ~Going(s - 1) /\ channel[s] = <<>>
  /\ IsSink(s) => stage[s].at # "send"
  /\ result[s] = Ok => stage[s].at = "finish"

\* Someone after thread t has met the error it ended with, or will.
Told(t) ==
  \/ HasError(channel[t + 1])
  \/ t # StageCount /\ (stage[t + 1].error # NoFailure \/ Broken(t + 1))
  \/ t = StageCount /\ (stateOnly \/ failure # NoFailure)

ThreadOK(t) ==
  /\ result[t].kind = "closed" => t # StageCount /\ Broken(t + 1)
  /\ result[t].kind = "compute" => Told(t)
  /\ t = Producer =>
       /\ result[t].kind \in {"running", "ok", "closed"}
       /\ result[t] = Ok => sent = Len(inputs)

NeighboursAgree ==
  /\ \A c \in 1..Output : ChannelOK(c)
  /\ \A s \in Stages : StageOK(s)
  /\ \A t \in Threads : ThreadOK(t)

-------------------------------------------------------------------------------
(* Rows.                                                                   *)

\* The rows in a channel, and that they follow row n.
RowsIn(q) == IF HasError(q) THEN Len(q) - 1 ELSE Len(q)
Follow(q, n) == \A i \in DOMAIN q : q[i].error = NoFailure => q[i].row = n + i

\* The rows put into channel c, if taken[c] were taken out of it.  The caller
\* takes from the last one, or the last stage of the state builder in its name.
Put(taken, c) == taken[c] + RowsIn(channel[c])

\* The rows stage s has folded: those it has sent and those it is sending.
Folded(taken, s) ==
  Put(taken, s + 1) + (IF stage[s].at = "send" THEN Len(stage[s].rows) ELSE 0)

\* A stage holds the rows it has taken and not sent, unless it dropped them.
HoldsRows(taken, s) ==
  /\ \A j \in DOMAIN stage[s].rows :
       stage[s].rows[j] = taken[s] - Len(stage[s].rows) + j
  /\ Put(taken, s + 1) + Len(stage[s].rows) <= taken[s]
  /\ stage[s].at # "forward" => Put(taken, s + 1) + Len(stage[s].rows) = taken[s]

\* It has folded the rows into the states they touch, and cloned no other.
HoldsStates(taken, s) ==
  \A k \in Keys : detached[s][k] =
    IF Touches(s, k) THEN OfKey(s, k, journal \o SubSeq(inputs, 1, Folded(taken, s)))
                     ELSE <<>>

Flow(taken) ==
  /\ Put(taken, 1) = sent /\ sent <= Len(inputs)
  /\ \A c \in 1..Output : Follow(channel[c], taken[c])
  /\ \A s \in Stages : HoldsRows(taken, s)
  /\ \A s \in Stages : HoldsStates(taken, s)
  /\ rowsOut = [i \in 1..taken[Output] |-> i]

RowsFlow == \E taken \in [1..Output -> 0..Len(inputs)] : Flow(taken)

-------------------------------------------------------------------------------
(* Calls.                                                                  *)

Quiet ==
  /\ channel = [c \in 1..Output |-> <<>>] /\ detached = Detached
  /\ stage = [s \in Stages |-> NoBatch]
  /\ sent = 0 /\ rowsOut = <<>> /\ failure = NoFailure

CallOK ==
  /\ call = "idle" => inputs = <<>> /\ Quiet
  /\ call # "idle" => inputs # <<>>
  /\ call = "features" =>
       /\ Quiet
       /\ Prepared \in 0..Len(inputs)
       /\ features = journal \o SubSeq(inputs, 1, Prepared)
  /\ call \in {"running", "heads"} =>
       features = journal \o inputs /\ NeighboursAgree /\ RowsFlow
  /\ call # "running" => \A t \in Threads : ~Going(t)
  /\ call = "heads" => outcome = Ok /\ \A t \in Threads : result[t] = Ok
  /\ call = "failed" => outcome # Ok

IInv == TypeOK /\ StatesMatchFeatures /\ CallOK /\ FailureIsReported
===============================================================================
