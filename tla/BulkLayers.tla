----------------------------- MODULE BulkLayers -----------------------------
(***************************************************************************)
(* The layered execution of a batch of reviews (bulk.rs).  Instead of      *)
(* carrying one review through card, deck, note, preset and global modules *)
(* before the next, it carries the whole batch through one module at a     *)
(* time.  Within a module the rows of one key form a stream; streams are   *)
(* independent, and several may be advanced together as one batch.  The    *)
(* result must be that of reviewing one row after the other.               *)
(*                                                                         *)
(* A review names one key per module; its features depend on the reviews   *)
(* recorded before it.                                                     *)
(***************************************************************************)
EXTENDS ModuleForward

CONSTANT MinRows  \* BULK_PERSISTENT_FRONTIER_MIN_ROWS

ASSUME MinRowsAssumption == MinRows \in Nat \ {0}

\* BULK_EXECUTION_ORDER; the position of a module less one is its weights index.
ExecutionOrder == <<"card", "deck", "note", "preset", "global">>

ByKind(Of(_)) == [card |-> Of("card"), note |-> Of("note"), deck |-> Of("deck"),
                  preset |-> Of("preset"), global |-> Of("global")]
NoStates == ByKind(LAMBDA kind : <<>>)
Holds(maps, kind, key) == key \in DOMAIN maps[kind]
StateOf(maps, kind, key) ==
  IF Holds(maps, kind, key) THEN Some(maps[kind][key]) ELSE None
Stored(maps, kind, finals) == [maps EXCEPT ![kind] = finals @@ @]

\* feature_prepass_step: the features before and after the answer, and the
\* deterministic state that has recorded it.
Keyed(review) == ByKind(LAMBDA kind : IF kind = "global" THEN 1 ELSE review[kind])
PrepassStep(recorded, review) ==
  LET before == Mix(Mix(recorded, review.card), review.note)
  IN  [ids |-> Keyed(review), predict |-> before, process |-> Mix(before, review.answer),
       recorded |-> Mix(recorded, Mix(review.answer, review.card))]

\* features2card and the heads, row by row.
CardRow(values) == Mix(4001, values)
Probability(row) == Mix(4003, row)
Curve(row) == Mix(4007, row)

-------------------------------------------------------------------------------
(* One review after the other.                                             *)

\* The order of the states that a forward pass takes and returns.
StateOrder == <<"card", "note", "deck", "preset", "global">>

\* srs_review_forward_profiled_options: the row goes through the modules in
\* execution order, each with its state from the list in state order.
ReviewForward(c, row, starts) ==
  LET run[m \in 0..Len(ExecutionOrder)] ==
        IF m = 0 THEN [out |-> <<row>>, next |-> starts]
        ELSE LET before == run[m - 1]
                 slot == CHOOSE s \in DOMAIN StateOrder : StateOrder[s] = ExecutionOrder[m]
                 after == ForwardRows(c, m - 1, before.out, starts[slot])
             IN  [out |-> after.out,
                  next |-> [before.next EXCEPT ![slot] = Some(after.state)]]
  IN  run[Len(ExecutionOrder)]

\* state_inputs and store_review_states.
StateInputs(maps, ids) ==
  Rows(Len(StateOrder), LAMBDA s : StateOf(maps, StateOrder[s], ids[StateOrder[s]]))
StoreReviewStates(maps, ids, next) ==
  ByKind(LAMBDA kind :
    LET slot == CHOOSE s \in DOMAIN StateOrder : StateOrder[s] = kind
    IN  (ids[kind] :> Value(next[slot])) @@ maps[kind])

\* process_review_input_with_state: the prediction reads the states as they
\* were, then the answered review replaces them.
ProcessReview(c, at, review) ==
  LET step == PrepassStep(at.recorded, review)
      starts == StateInputs(at.states, step.ids)
      query == ReviewForward(c, CardRow(step.predict), starts)
      process == ReviewForward(c, CardRow(step.process), starts)
  IN  [states |-> StoreReviewStates(at.states, step.ids, process.next),
       recorded |-> step.recorded,
       probabilities |-> Append(at.probabilities, Probability(query.out[1])),
       curves |-> Append(at.curves, Curve(process.out[1]))]

\* process_review_inputs_with_state.
OneByOne(c, maps, recorded, reviews) ==
  FoldLeft(LAMBDA at, review : ProcessReview(c, at, review),
           [states |-> maps, recorded |-> recorded,
            probabilities |-> <<>>, curves |-> <<>>], reviews)

-------------------------------------------------------------------------------
(* Streams.                                                                *)

\* feature_prepass.
Prepass(recorded, reviews) ==
  LET run[n \in 0..Len(reviews)] ==
        IF n = 0 THEN [recorded |-> recorded, steps |-> <<>>]
        ELSE LET before == run[n - 1]
                 step == PrepassStep(before.recorded, reviews[n])
             IN  [recorded |-> step.recorded, steps |-> Append(before.steps, step)]
  IN  run[Len(reviews)]

\* BulkModuleStreamPlan::from_ids: the streams of one module, in the order of
\* their first rows; a stream knows whether its key had a state to begin with.
Streams(maps, kind, ids) ==
  LET indexes == [i \in DOMAIN ids |-> i]
      firsts == SelectSeq(indexes, LAMBDA i : \A j \in 1..(i - 1) : ids[j][kind] # ids[i][kind])
  IN  Rows(Len(firsts), LAMBDA n :
        LET key == ids[firsts[n]][kind]
        IN  [key |-> key, rows |-> SelectSeq(indexes, LAMBDA i : ids[i][kind] = key),
             existing |-> Holds(maps, kind, key)])

\* What a module has produced so far: the output rows, those seen, the final
\* states and the streams that are done.
NoOutput(size) ==
  [query |-> [i \in 1..size |-> None], process |-> [i \in 1..size |-> None],
   finals |-> <<>>, done |-> {}, declined |-> FALSE]

Declined(acc) == [acc EXCEPT !.declined = TRUE]

\* OrderedModuleRows::store and store_values, for both lanes of a row.
StoreRow(acc, i, query, process) ==
  [acc EXCEPT !.query[i] = Some(query), !.process[i] = Some(process)]
FinishStream(acc, n, key, state) ==
  [acc EXCEPT !.finals = (key :> state) @@ @, !.done = @ \cup {n}]

Gather(rows, indexes) == Rows(Len(indexes), LAMBDA n : rows[indexes[n]])

\* Both lanes of a batch of rows, from the same working state, on raw values.
ValuesPair(c, w, query, process, flat) ==
  LET time == IF IsSome(flat) THEN Some(Value(flat).time) ELSE None
      chan == IF IsSome(flat) THEN Value(flat).values ELSE None
  IN  [query |-> ForwardValues(c, w, query, time, chan),
       process |-> ForwardValues(c, w, process, time, chan)]

\* Stores the rows of a batched pass.
StoreBatch(acc, rows, pair) ==
  FoldLeft(LAMBDA a, n : StoreRow(a, rows[n], Value(pair.query).out[n],
                                  Value(pair.process).out[n]),
           acc, [n \in DOMAIN rows |-> n])

\* execute_new_singleton_stream_batch_values: the new streams of one row each.
Singletons(c, w, streams, query, process, acc) ==
  LET chosen == SelectSeq([n \in DOMAIN streams |-> n], LAMBDA n :
                  ~streams[n].existing /\ Len(streams[n].rows) = 1)
      rows == [b \in DOMAIN chosen |-> streams[chosen[b]].rows[1]]
      pair == ValuesPair(c, w, Gather(query, rows), Gather(process, rows), None)
      flat == Working(Value(pair.process))
      views == NativeViews(flat, Len(chosen))
      native(b) == IF "singleton_state_views" \in c THEN views[b]
                   ELSE NativeFromFlat(BatchRow(flat, b))
  IN  IF Len(chosen) < 2 THEN acc
      ELSE IF pair.query = None \/ pair.process = None THEN Declined(acc)
      ELSE FoldLeft(LAMBDA a, b : FinishStream(a, chosen[b], streams[chosen[b]].key, native(b)),
                    StoreBatch(acc, rows, pair), [b \in DOMAIN chosen |-> b])

\* execute_persistent_frontier_candidate_group: the streams of a group advance
\* together, one row each; those that end leave the batch, and the states of
\* the others close up.
RECURSIVE Advance(_, _, _, _, _, _, _, _, _)
Advance(c, w, streams, query, process, active, depth, flat, acc) ==
  LET size == Len(active)
      rows == [b \in 1..size |-> streams[active[b]].rows[depth]]
      pair == ValuesPair(c, w, Gather(query, rows), Gather(process, rows), flat)
      next == Working(Value(pair.process))
      ends(b) == depth = Len(streams[active[b]].rows)
      stored == FoldLeft(LAMBDA a, b :
                    IF ends(b)
                    THEN FinishStream(a, active[b], streams[active[b]].key,
                                      NativeFromFlat(BatchRow(next, b)))
                    ELSE a,
                  StoreBatch(acc, rows, pair), [b \in 1..size |-> b])
      selected == SelectSeq([b \in 1..size |-> b], LAMBDA b : ~ends(b))
  IN  IF pair.query = None \/ pair.process = None THEN Declined(acc)
      ELSE IF selected = <<>> THEN stored
      ELSE Advance(c, w, streams, query, process, Gather(active, selected), depth + 1,
                   Some(SelectRows(c, next, size, selected)), stored)

\* execute_persistent_frontier_group: the streams that all have a state, or
\* all lack one, in chunks; a chunk of one is left to the stream loop.
FrontierGroup(c, w, kind, maps, streams, existing, query, process, limit, acc) ==
  LET chosen == SelectSeq([n \in DOMAIN streams |-> n], LAMBDA n :
                  /\ n \notin acc.done /\ streams[n].existing = existing
                  /\ Len(streams[n].rows) >= MinRows)
      wanted == IF IsSome(limit) THEN Value(limit) ELSE Len(chosen)
      most == IF wanted < 2 THEN 2 ELSE wanted
      chunk(k) == SubSeq(chosen, k * most + 1,
                         IF (k + 1) * most < Len(chosen) THEN (k + 1) * most ELSE Len(chosen))
      start(group) ==
        IF existing
        THEN Some(Batched([b \in DOMAIN group |-> maps[kind][streams[group[b]].key]]))
        ELSE None
  IN  IF Len(chosen) < 2 THEN acc
      ELSE FoldLeft(LAMBDA a, k :
             IF Len(chunk(k)) < 2 THEN a
             ELSE Advance(c, w, streams, query, process, chunk(k), 1, start(chunk(k)), a),
           acc, [k \in 1..Len(chosen) |-> k - 1])

\* execute_persistent_frontier_values: new streams, then streams with a state.
Frontier(c, w, kind, maps, streams, query, process, limit, acc) ==
  FrontierGroup(c, w, kind, maps, streams, TRUE, query, process, limit,
    FrontierGroup(c, w, kind, maps, streams, FALSE, query, process, limit, acc))

-------------------------------------------------------------------------------
(* The stream loop: a stream's rows one by one, in one of three forms.     *)

\* The lanes on flat states and tensor rows.
FlatPair(c, w, query, process, flat) ==
  LET time == IF IsSome(flat) THEN Some(Value(flat).time) ELSE None
      tensor == IF IsSome(flat) THEN Value(flat).tensor ELSE None
      values == IF IsSome(flat) THEN Value(flat).values ELSE None
  IN  IF "channel_flat_state" \in c
      THEN [query |-> ForwardFlat(c, w, query, time, values),
            process |-> ForwardFlat(c, w, process, time, values)]
      ELSE [query |-> ForwardFlatTime(c, w, query, time, tensor),
            process |-> ForwardFlatTime(c, w, process, time, tensor)]

\* A row of a stream on a working state; the process lane's states go on.
FlatRow(c, w, i, query, process, at) ==
  LET pair == IF CarriesValues(c)
              THEN ValuesPair(c, w, <<query[i]>>, <<process[i]>>, at.flat)
              ELSE FlatPair(c, w, <<query[i]>>, <<process[i]>>, at.flat)
      run == Value(pair.process)
  IN  IF at.acc.declined THEN at
      ELSE IF pair.query = None \/ pair.process = None THEN [at EXCEPT !.acc = Declined(@)]
      ELSE [acc |-> StoreRow(at.acc, i, Value(pair.query).out[1], run.out[1]),
            flat |-> Some(IF "channel_flat_state" \in c THEN Working(run)
                          ELSE [time |-> run.time, tensor |-> Some(run.chan), values |-> None])]

\* A row of a stream on a native state.
NativeRow(c, w, i, query, process, at) ==
  LET queried == ForwardRows(c, w, <<query[i]>>, at.native)
      processed == ForwardRows(c, w, <<process[i]>>, at.native)
  IN  [acc |-> StoreRow(at.acc, i, queried.out[1], processed.out[1]),
       native |-> Some(processed.state)]

\* One stream, from its initial state to its final one.
Stream(c, w, kind, maps, streams, n, query, process, acc) ==
  LET stream == streams[n]
      initial == StateOf(maps, kind, stream.key)
      flat == FoldLeft(LAMBDA at, i : FlatRow(c, w, i, query, process, at),
                [acc |-> acc,
                 flat |-> IF IsSome(initial)
                          THEN Some(FlatFromNative(Value(initial), "channel_flat_state" \in c))
                          ELSE None],
                stream.rows)
      native == FoldLeft(LAMBDA at, i : NativeRow(c, w, i, query, process, at),
                         [acc |-> acc, native |-> initial], stream.rows)
  IN  IF acc.declined \/ n \in acc.done THEN acc
      ELSE IF "time_flat_state" \in c
           THEN IF flat.acc.declined THEN flat.acc
                ELSE FinishStream(flat.acc, n, stream.key, NativeFromFlat(Value(flat.flat)))
           ELSE FinishStream(native.acc, n, stream.key, Value(native.native))

\* execute_bulk_module_pair: new singletons, the frontiers of the modules that
\* have one, then every stream that is left.
ModulePair(c, w, kind, maps, ids, limit, query, process) ==
  LET streams == Streams(maps, kind, ids)
      singles == IF "new_singletons" \in c /\ CarriesValues(c) /\ kind # "global"
                 THEN Singletons(c, w, streams, query, process, NoOutput(Len(ids)))
                 ELSE NoOutput(Len(ids))
      decks == IF "deck_frontier" \in c /\ CarriesValues(c) /\ kind = "deck"
               THEN Frontier(c, w, kind, maps, streams, query, process, None, singles)
               ELSE singles
      frontier == IF "card_note_frontier" \in c /\ CarriesValues(c) /\ kind \in {"card", "note"}
                  THEN Frontier(c, w, kind, maps, streams, query, process, Some(limit), decks)
                  ELSE decks
  IN  FoldLeft(LAMBDA acc, n : Stream(c, w, kind, maps, streams, n, query, process, acc),
               frontier, [n \in DOMAIN streams |-> n])

\* process_bulk_layered_prepass.  Rows that no one stored fail the call, and so
\* does a path that declines; the rows of the last module go through the heads.
LayeredModules(c, maps, steps, limit) ==
  LET ids == [i \in DOMAIN steps |-> steps[i].ids]
      run[m \in 0..Len(ExecutionOrder)] ==
        IF m = 0
        THEN [states |-> maps, failed |-> FALSE,
              query |-> Rows(Len(steps), LAMBDA i : CardRow(steps[i].predict)),
              process |-> Rows(Len(steps), LAMBDA i : CardRow(steps[i].process))]
        ELSE LET before == run[m - 1]
                 kind == ExecutionOrder[m]
                 pair == ModulePair(c, m - 1, kind, before.states, ids, limit,
                                    before.query, before.process)
             IN  IF before.failed THEN before
                 ELSE IF pair.declined \/ \E i \in DOMAIN ids : pair.query[i] = None
                 THEN [before EXCEPT !.failed = TRUE]
                 ELSE [states |-> Stored(before.states, kind, pair.finals), failed |-> FALSE,
                       query |-> Rows(Len(ids), LAMBDA i : Value(pair.query[i])),
                       process |-> Rows(Len(ids), LAMBDA i : Value(pair.process[i]))]
  IN  run[Len(ExecutionOrder)]

\* process_layered: a failure restores the states and the deterministic state.
Layered(c, limit, maps, recorded, reviews) ==
  LET prepass == Prepass(recorded, reviews)
      run == LayeredModules(c, maps, prepass.steps, limit)
      failed == [states |-> maps, recorded |-> recorded,
                 probabilities |-> <<>>, curves |-> <<>>]
  IN  IF reviews = <<>> THEN failed
      ELSE IF run.failed THEN failed
      ELSE [states |-> run.states, recorded |-> prepass.recorded,
            probabilities |-> [i \in DOMAIN reviews |-> Probability(run.query[i])],
            curves |-> [i \in DOMAIN reviews |-> Curve(run.process[i])]]

-------------------------------------------------------------------------------
(* Configurations under which the two executions promise the same.         *)

\* The all-values path of the first layer without its all-values recurrence
\* does not hand the first layer's values on: its results differ from those of
\* every other path.
LosesFirstValues(c) == TakesAllValues(c, 1) /\ "middle_all_values" \notin c

\* Without a dot kernel the flat paths decline and the call fails.
Declines(c) == "time_flat_state" \in c /\ Simd \notin c

\* On the states that a history of reviews has left, a batch gives the results
\* of an oracle that reviews one row after the other, prediction by prediction
\* and curve by curve, and leaves its states: reviewed one after the other under
\* any switches, and in layers, unless there is no kernel to run on; then
\* everything is as it was.
Agrees(env, limit, history, reviews) ==
  LET c == Resolved(env)
      start == OneByOne(Resolved(Oracle), NoStates, 0, history)
      oracle == OneByOne(Resolved(Oracle), start.states, start.recorded, reviews)
      layered == Layered(c, limit, start.states, start.recorded, reviews)
  IN  \/ LosesFirstValues(c)
      \/ /\ OneByOne(c, start.states, start.recorded, reviews) = oracle
         /\ IF Declines(c)
            THEN layered.states = start.states /\ layered.recorded = start.recorded
            ELSE layered = oracle
===============================================================================
