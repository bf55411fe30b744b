--------------------------- MODULE ReviewPipeline ---------------------------
(***************************************************************************)
(* The pipelined executors of a batch of reviews.  A producer and one      *)
(* thread per recurrent module (card, deck, note, preset, global) pass the *)
(* rows of the batch through bounded channels; each works on detached      *)
(* copies of the states it touches.  The authoritative states and the      *)
(* deterministic feature state must end up with the whole batch or with    *)
(* none of it, whichever thread fails and whenever.                        *)
(*                                                                         *)
(* A call is either process_many (pipeline.rs), whose last stage sends its *)
(* rows on to the caller, or build_state_only (state_builder.rs), whose    *)
(* last stage only counts them.                                            *)
(*                                                                         *)
(* A recurrent state is the sequence of reviews folded into it; a review   *)
(* of a row is folded into one state per stage, that of its key.           *)
(***************************************************************************)
EXTENDS Naturals, Sequences, Subsequences

CONSTANTS
  Reviews,       \* reviews a client submits
  Keys,          \* identities of one module's states
  StageCount,    \* PIPELINE_STAGE_COUNT
  KeyOf,         \* KeyOf[s][r]: the state of stage s that review r updates
  Capacity,      \* pipeline_capacity()
  ComputeBatch,  \* pipeline_compute_batch()
  Faults,        \* the failures admitted
  Batches,       \* the non-empty inputs of one call
  MaxReviews     \* bound: reviews committed

FaultKinds ==
  {"feature",     \* a row is rejected while features are computed
   "compute",     \* a stage cannot process a row
   "conversion",  \* a state cannot be converted before or after all rows
   "panic",       \* a stage's thread panics
   "head"}        \* the output heads fail on finished rows

ASSUME PipelineAssumption ==
  /\ StageCount \in Nat \ {0}
  /\ KeyOf \in [1..StageCount -> [Reviews -> Keys]]
  /\ \E k \in Keys : \A r \in Reviews : KeyOf[StageCount][r] = k
  /\ Capacity \in Nat \ {0} /\ ComputeBatch \in Nat \ {0}
  /\ Faults \subseteq FaultKinds
  /\ Batches \subseteq Seq(Reviews) \ {<<>>}
  /\ MaxReviews \in Nat

VARIABLES
  states,    \* card_states ... global_state: per stage and key, the folded reviews
  features,  \* the deterministic state: the reviews recorded
  journal,   \* what BatchDeterministicUndoFrame restores
  call,      \* "idle", "features", "running", "heads" or "failed"
  stateOnly, \* whether the call is build_state_only
  inputs,    \* the reviews of the call; row i is inputs[i]
  sent,      \* rows the producer has sent
  channel,   \* channel[s]: messages on their way to stage s, or to the caller
  detached,  \* per stage and key, the stage's own copy of the states
  stage,     \* per stage, where its thread is and the batch it holds
  result,    \* per thread, what joining it yields
  rowsOut,   \* output_rows, or the rows the last stage completed
  failure,   \* receive_error
  outcome    \* what the last call returned

authority == <<states, features, journal>>
vars == <<states, features, journal, call, stateOnly, inputs, sent, channel, detached,
          stage, result, rowsOut, failure, outcome>>

Stages == 1..StageCount
Producer == 0
Threads == {Producer} \cup Stages
Output == StageCount + 1

Status(kind, thread) == [kind |-> kind, thread |-> thread]
NoFailure == Status("none", 0)
Running == Status("running", 0)
Ok == Status("ok", 0)

Row(i) == [row |-> i, error |-> NoFailure]
Failed(error) == [row |-> 0, error |-> error]

NoBatch == [at |-> "receive", rows |-> <<>>, error |-> NoFailure, ended |-> FALSE]

\* The reviews of a sequence that update state k of stage s.
OfKey(s, k, reviews) == Chosen(reviews, {r \in Reviews : KeyOf[s][r] = k})

\* Mutant: the rows of a batch are processed last first.
ReviewedBackwards(rows) ==
  [j \in DOMAIN rows |-> inputs[rows[Len(rows) + 1 - j]]]

Reviewed(rows) == [j \in DOMAIN rows |-> inputs[rows[j]]]
Touches(s, k) == \E i \in DOMAIN inputs : KeyOf[s][inputs[i]] = k

Detached == [s \in Stages |-> [k \in Keys |-> <<>>]]

Init ==
  /\ states = Detached /\ detached = Detached
  /\ features = <<>> /\ journal = <<>> /\ inputs = <<>>
  /\ call = "idle" /\ stateOnly = FALSE /\ sent = 0
  /\ channel = [c \in 1..Output |-> <<>>]
  /\ stage = [s \in Stages |-> NoBatch]
  /\ result = [t \in Threads |-> Ok]
  /\ rowsOut = <<>> /\ failure = NoFailure /\ outcome = Ok

-------------------------------------------------------------------------------
(* The calling thread before the pipeline runs.                            *)

Start(batch, only) ==
  /\ call = "idle"
  /\ Len(features) + Len(batch) <= MaxReviews
  /\ inputs' = batch
  /\ journal' = features
  /\ call' = "features"
  /\ stateOnly' = only
  /\ UNCHANGED <<states, features, sent, channel, detached, stage, result,
                 rowsOut, failure, outcome>>

\* An empty batch succeeds at once.
StartEmpty ==
  /\ call = "idle"
  /\ outcome' = Ok
  /\ UNCHANGED <<authority, call, stateOnly, inputs, sent, channel, detached, stage,
                 result, rowsOut, failure>>

Prepared == Len(features) - Len(journal)

FeatureStep ==
  /\ call = "features" /\ Prepared < Len(inputs)
  /\ features' = Append(features, inputs[Prepared + 1])
  /\ UNCHANGED <<states, journal, call, stateOnly, inputs, sent, channel, detached, stage,
                 result, rowsOut, failure, outcome>>

\* feature_step or the projection of a row fails.
FeatureFails ==
  /\ call = "features" /\ "feature" \in Faults
  /\ call' = "failed" /\ outcome' = Status("feature", 0)
  /\ UNCHANGED <<authority, stateOnly, inputs, sent, channel, detached, stage, result,
                 rowsOut, failure>>

\* clone_states_for_keys; the global state is cloned whole.
Clone ==
  [s \in Stages |-> [k \in Keys |-> IF Touches(s, k) THEN states[s][k] ELSE <<>>]]

Launch ==
  /\ call = "features" /\ Prepared = Len(inputs)
  /\ call' = "running"
  /\ detached' = Clone
  /\ result' = [t \in Threads |-> Running]
  /\ UNCHANGED <<authority, stateOnly, inputs, sent, channel, stage, rowsOut, failure, outcome>>

-------------------------------------------------------------------------------
(* Channels.  Thread s - 1 sends on channel[s] and stage s receives from   *)
(* it; an end is dropped when its thread returns.                          *)

SenderAlive(c) == result[c - 1] = Running
ReceiverAlive(c) == c # Output => result[c] = Running
HasRoom(c) == ReceiverAlive(c) /\ Len(channel[c]) < Capacity

Sent(c, message) == channel' = [channel EXCEPT ![c] = Append(@, message)]
Ends(thread, status) == result' = [result EXCEPT ![thread] = status]

Produce ==
  /\ result[Producer] = Running
  /\ sent < Len(inputs) /\ HasRoom(1)
  /\ sent' = sent + 1
  /\ Sent(1, Row(sent'))
  /\ UNCHANGED <<authority, call, stateOnly, inputs, detached, stage, result, rowsOut,
                 failure, outcome>>

ProducerEnds ==
  /\ result[Producer] = Running
  /\ \/ sent = Len(inputs) /\ Ends(Producer, Ok)
     \/ /\ sent < Len(inputs) /\ ~ReceiverAlive(1)
        /\ Ends(Producer, Status("closed", Producer))
  /\ UNCHANGED <<authority, call, stateOnly, inputs, sent, channel, detached, stage,
                 rowsOut, failure, outcome>>

-------------------------------------------------------------------------------
(* The thread of one stage.                                                *)

StageAt(s, place) == result[s] = Running /\ stage[s].at = place

\* Where a stage goes once it is done with the rows of its batch.
AfterRows(batch) ==
  IF batch.error # NoFailure THEN "forward"
  ELSE IF batch.ended THEN "finish" ELSE "receive"

Update(s, batch) == stage' = [stage EXCEPT ![s] = batch]

Unread == <<authority, call, stateOnly, inputs, sent, detached, result, rowsOut, failure, outcome>>

\* Mutant: the stage polls, and takes a dropped sender for an empty channel.
ReceivePolling(s) ==
  /\ StageAt(s, "receive")
  /\ \/ /\ channel[s] # <<>>
        /\ LET message == Head(channel[s])
           IN  Update(s, IF message.error # NoFailure
                         THEN [NoBatch EXCEPT !.at = "forward", !.error = message.error]
                         ELSE [NoBatch EXCEPT !.at = "fill", !.rows = <<message.row>>])
        /\ channel' = [channel EXCEPT ![s] = Tail(@)]
     \/ channel[s] = <<>> /\ UNCHANGED <<channel, stage>>
  /\ UNCHANGED Unread

\* receive_pipeline_batch: the blocking first receive.
Receive(s) ==
  /\ StageAt(s, "receive")
  /\ \/ /\ channel[s] # <<>>
        /\ LET message == Head(channel[s])
           IN  Update(s, IF message.error # NoFailure
                         THEN [NoBatch EXCEPT !.at = "forward", !.error = message.error]
                         ELSE [NoBatch EXCEPT !.at = "fill", !.rows = <<message.row>>])
        /\ channel' = [channel EXCEPT ![s] = Tail(@)]
     \/ /\ channel[s] = <<>> /\ ~SenderAlive(s)
        /\ Update(s, [NoBatch EXCEPT !.at = "finish"])
        /\ UNCHANGED channel
  /\ UNCHANGED Unread

\* Its try_recv loop: one more message, or the batch is as large as it gets.
Fill(s) ==
  /\ StageAt(s, "fill")
  /\ LET batch == stage[s]
         full == Len(batch.rows) >= ComputeBatch
     IN  \/ /\ ~full /\ channel[s] # <<>>
            /\ LET message == Head(channel[s])
               IN  Update(s, IF message.error # NoFailure
                             THEN [batch EXCEPT !.at = "compute", !.error = message.error]
                             ELSE [batch EXCEPT !.rows = Append(@, message.row)])
            /\ channel' = [channel EXCEPT ![s] = Tail(@)]
         \/ /\ full \/ channel[s] = <<>>
            /\ Update(s, [batch EXCEPT !.at = "compute",
                                       !.ended = ~full /\ ~SenderAlive(s)])
            /\ UNCHANGED channel
  /\ UNCHANGED Unread

\* Each row in turn is folded into the state of its key.
Fold(s) ==
  detached' = [detached EXCEPT ![s] =
    [k \in Keys |-> @[k] \o OfKey(s, k, Reviewed(stage[s].rows))]]

IsSink(s) == stateOnly /\ s = StageCount

Compute(s) ==
  /\ StageAt(s, "compute") /\ ~IsSink(s)
  /\ Fold(s)
  /\ Update(s, [stage[s] EXCEPT !.at = "send"])
  /\ UNCHANGED <<authority, call, stateOnly, inputs, sent, channel, result, rowsOut,
                 failure, outcome>>

\* The last stage of the state builder counts its rows and sends nothing.
ComputeAndCount(s) ==
  /\ StageAt(s, "compute") /\ IsSink(s)
  /\ Fold(s)
  /\ rowsOut' = rowsOut \o stage[s].rows
  /\ Update(s, [stage[s] EXCEPT !.at = AfterRows(stage[s]), !.rows = <<>>])
  /\ UNCHANGED <<authority, call, stateOnly, inputs, sent, channel, result, failure, outcome>>

\* A row fails: the whole batch is dropped and the error goes downstream.
ComputeFails(s) ==
  /\ "compute" \in Faults
  /\ StageAt(s, "compute")
  /\ Update(s, [NoBatch EXCEPT !.at = "forward", !.error = Status("compute", s)])
  /\ UNCHANGED <<authority, call, stateOnly, inputs, sent, channel, detached, result,
                 rowsOut, failure, outcome>>

Panic(s) ==
  /\ "panic" \in Faults
  /\ StageAt(s, "compute")
  /\ Ends(s, Status("panic", s))
  /\ UNCHANGED <<authority, call, stateOnly, inputs, sent, channel, detached, stage,
                 rowsOut, failure, outcome>>

SendRow(s) ==
  /\ StageAt(s, "send")
  /\ LET rest == Tail(stage[s].rows)
     IN  \/ /\ HasRoom(s + 1)
            /\ Sent(s + 1, Row(Head(stage[s].rows)))
            /\ Update(s, [stage[s] EXCEPT !.rows = rest,
                 !.at = IF rest = <<>> THEN AfterRows(stage[s]) ELSE "send"])
            /\ UNCHANGED result
         \/ /\ ~ReceiverAlive(s + 1)
            /\ Ends(s, Status("closed", s))
            /\ UNCHANGED <<channel, stage>>
  /\ UNCHANGED <<authority, call, stateOnly, inputs, sent, detached, rowsOut, failure, outcome>>

\* Mutant: a failed stage returns its error without telling the next one.
EndSilently(s) ==
  /\ StageAt(s, "forward")
  /\ Ends(s, stage[s].error)
  /\ UNCHANGED <<authority, call, stateOnly, inputs, sent, channel, detached, stage,
                 rowsOut, failure, outcome>>

\* The error is sent if anyone listens, and the thread ends with it.
Forward(s) ==
  /\ StageAt(s, "forward")
  /\ \/ ~IsSink(s) /\ HasRoom(s + 1) /\ Sent(s + 1, Failed(stage[s].error))
     \/ (IsSink(s) \/ ~ReceiverAlive(s + 1)) /\ UNCHANGED channel
  /\ Ends(s, stage[s].error)
  /\ UNCHANGED <<authority, call, stateOnly, inputs, sent, detached, stage, rowsOut,
                 failure, outcome>>

\* The stage returns its states, converted back.
Finish(s) ==
  /\ StageAt(s, "finish")
  /\ Ends(s, Ok)
  /\ UNCHANGED <<authority, call, stateOnly, inputs, sent, channel, detached, stage,
                 rowsOut, failure, outcome>>

\* A keyed stage converts the states it has folded rows into, the last stage
\* its state if there is one, and that one before the first row as well.
HasState(s) ==
  IF s = StageCount THEN detached[s] # [k \in Keys |-> <<>>]
                    ELSE detached[s] # Clone[s]

\* A conversion fails, and nobody downstream is told.
ConversionFails(s) ==
  /\ "conversion" \in Faults /\ HasState(s)
  /\ \/ StageAt(s, "finish")
     \/ s = StageCount /\ StageAt(s, "receive") /\ detached[s] = Clone[s]
  /\ Ends(s, Status("conversion", s))
  /\ UNCHANGED <<authority, call, stateOnly, inputs, sent, channel, detached, stage,
                 rowsOut, failure, outcome>>

-------------------------------------------------------------------------------
(* The calling thread while the pipeline runs, and afterwards.             *)

\* Receiving from the last stage ends at the first error.
ReceiveOutput ==
  /\ call = "running" /\ failure = NoFailure
  /\ channel[Output] # <<>>
  /\ LET message == Head(channel[Output])
     IN  /\ failure' = message.error
         /\ rowsOut' = IF message.error = NoFailure
                       THEN Append(rowsOut, message.row) ELSE rowsOut
  /\ channel' = [channel EXCEPT ![Output] = Tail(@)]
  /\ UNCHANGED <<authority, call, stateOnly, inputs, sent, detached, stage, result, outcome>>

AllEnded == \A t \in Threads : result[t] # Running

\* The first failed thread in the order they are joined.
Upstream == CHOOSE t \in Threads :
  result[t] # Ok /\ \A u \in Threads : u < t => result[u] = Ok
Downstream == CHOOSE t \in Threads :
  result[t] # Ok /\ \A u \in Threads : u > t => result[u] = Ok

Complete == rowsOut = [i \in DOMAIN inputs |-> i]

ProcessVerdict ==
  IF failure # NoFailure THEN failure
  ELSE IF \E t \in Threads : result[t] # Ok THEN result[Upstream]
  ELSE IF Complete THEN Ok ELSE Status("incomplete", 0)

\* Mutant: only the last stage is asked how it ended.
LastStageVerdict == result[StageCount]

\* The first error met ends the joining; a thread that panicked and was not
\* joined yet makes thread::scope panic.
BuildVerdict ==
  IF \E t \in Threads : result[t] # Ok
  THEN IF \E t \in Threads : t < Downstream /\ result[t].kind = "panic"
       THEN Status("panic", 0) ELSE result[Downstream]
  ELSE IF Len(rowsOut) = Len(inputs) THEN Ok ELSE Status("incomplete", 0)

Verdict == IF stateOnly THEN BuildVerdict ELSE ProcessVerdict

\* thread::scope returns when every thread was joined.
JoinAll ==
  /\ call = "running" /\ AllEnded
  /\ channel[Output] = <<>> \/ failure # NoFailure
  /\ outcome' = Verdict
  /\ call' = IF Verdict = Ok THEN "heads" ELSE "failed"
  /\ UNCHANGED <<authority, stateOnly, inputs, sent, channel, detached, stage, result,
                 rowsOut, failure>>

HeadFails ==
  /\ call = "heads" /\ "head" \in Faults /\ ~stateOnly
  /\ call' = "failed" /\ outcome' = Status("head", 0)
  /\ UNCHANGED <<authority, stateOnly, inputs, sent, channel, detached, stage, result,
                 rowsOut, failure>>

\* The buffers of a call do not outlive it.
Dropped ==
  /\ call' = "idle" /\ stateOnly' = FALSE /\ inputs' = <<>> /\ sent' = 0 /\ journal' = <<>>
  /\ channel' = [c \in 1..Output |-> <<>>]
  /\ detached' = Detached
  /\ stage' = [s \in Stages |-> NoBatch]
  /\ result' = [t \in Threads |-> Ok]
  /\ rowsOut' = <<>> /\ failure' = NoFailure

\* BTreeMap::extend with the states a stage returned.
Extended ==
  [s \in Stages |-> [k \in Keys |->
    IF detached[s][k] = <<>> THEN states[s][k] ELSE detached[s][k]]]

Commit ==
  /\ call = "heads"
  /\ states' = Extended
  /\ Dropped
  /\ UNCHANGED <<features, outcome>>

\* Mutant: the deterministic state keeps what a failed call recorded.
Kept == features

\* Drop of the uncommitted transaction.
Restored == journal

Rollback ==
  /\ call = "failed"
  /\ features' = Restored
  /\ Dropped
  /\ UNCHANGED <<states, outcome>>

-------------------------------------------------------------------------------
StageStep(s) ==
  \/ Receive(s) \/ Fill(s) \/ Compute(s) \/ ComputeAndCount(s)
  \/ SendRow(s) \/ Forward(s) \/ Finish(s)

Caller == FeatureStep \/ Launch \/ ReceiveOutput \/ JoinAll \/ Commit \/ Rollback

Next ==
  \/ \E batch \in Batches, only \in BOOLEAN : Start(batch, only)
  \/ StartEmpty \/ FeatureFails \/ HeadFails
  \/ Caller
  \/ Produce \/ ProducerEnds
  \/ \E s \in Stages :
       StageStep(s) \/ ComputeFails(s) \/ Panic(s) \/ ConversionFails(s)

\* Every thread is scheduled.
Spec ==
  /\ Init /\ [][Next]_vars
  /\ WF_vars(Caller)
  /\ WF_vars(Produce \/ ProducerEnds)
  /\ \A s \in Stages : WF_vars(StageStep(s))

-------------------------------------------------------------------------------
(* Properties.                                                             *)

\* The reviews the runtime has committed to: those of a call count once it is
\* over.
Committed == IF call = "idle" THEN features ELSE journal

\* At rest every module's states and the deterministic state describe the same
\* reviews in the same order, and no call that is still running, or has failed,
\* has moved the authoritative states (execute_pipeline works on clones).
StatesMatchFeatures ==
  \A s \in Stages, k \in Keys : states[s][k] = OfKey(s, k, Committed)

\* What stage s holds after the first n rows, and has not before.
AfterPrefix(s, n) ==
  \A k \in Keys : Touches(s, k) =>
    detached[s][k] = OfKey(s, k, journal \o SubSeq(inputs, 1, n))

\* Rows keep their order through every stage and channel: each stage has
\* folded a prefix of the batch, never more than the stage before it, so a row
\* is computed from the states its predecessors left.
StagesFoldPrefixes ==
  call \in {"running", "heads"} =>
    \A s \in Stages : \E n \in 0..Len(inputs) :
      /\ AfterPrefix(s, n)
      /\ s > 1 => \E m \in n..Len(inputs) : AfterPrefix(s - 1, m)

\* The caller is told what failed, not that a neighbour of the failed thread
\* found its channel closed.  process_many, which looks at the threads from the
\* producer on, cannot tell when a thread ended without sending its error.
FailureIsReported ==
  call = "failed" /\ outcome.kind \in {"closed", "incomplete"} =>
    ~stateOnly /\ \E s \in Stages : result[s].kind \in {"panic", "conversion"}

\* Every call returns: no thread waits for another that waits for it, even when
\* one of them has failed.
CallReturns == call # "idle" ~> call = "idle"

\* The one state of the last stage, which folds every review there is.
GlobalKey == CHOOSE k \in Keys : \A r \in Reviews : KeyOf[StageCount][r] = k

Promise == INSTANCE AtomicBatch WITH
  reviews <- states[StageCount][GlobalKey],
  batch <- inputs,
  success <- (outcome = Ok)

\* A call does all it was asked or nothing, and says which.
ImplementsAtomicBatch == Promise!Spec
===============================================================================
