------------------------------ MODULE PredictMany ------------------------------
(***************************************************************************)
(* predict_many: what one call makes of a runtime and a list of rows, on   *)
(* the CPU and on the GPU.  Rows whose identities are all known wait for a *)
(* batch; any other row flushes the batch and is predicted alone.  The CPU *)
(* may run the batches in parallel, the GPU keeps up to two in flight and  *)
(* halves a batch it has no memory for.                                    *)
(*                                                                         *)
(* A probability is what it is computed from: the features of the row and  *)
(* the states its five modules read, in execution order.  A call that ends *)
(* in an error returns None.                                               *)
(***************************************************************************)
EXTENDS GpuArena
LOCAL INSTANCE SequencesExt

CONSTANTS
  ShortBurst,  \* SHORT_BURST_BROADCAST_MAX_BATCH
  MinRows      \* PREDICT_MANY_LIGHTNING_PARALLEL_MIN_ROWS

ASSUME PredictAssumption == ShortBurst \in Nat /\ MinRows \in Nat

-------------------------------------------------------------------------------
(* Features.                                                               *)

Or(option, default) == IF option = None THEN default ELSE option
Distance(later, earlier) ==
  IF earlier = None \/ later < earlier THEN 0 ELSE later - earlier

\* add_same: the columns of a row, unscaled.
AddSame(f, r) ==
  LET day == RelativeDay(f, r)
      Of(map) == f.by_card[map][r.card]
      today == day = f.today
  IN  [elapsed |-> r.elapsed,
       elapsed_cumulative |-> Or(Of("card2elapsed_cumulative"), 0) + r.elapsed,
       missing |-> {field \in {"note", "deck", "preset"} : r[field] = None},
       day_offset |-> day,
       day_offset_first |-> Or(Of("card2first_day_offset"), day),
       day_offset_diff |-> day - Or(f.prev_day_offset, 0),
       diff_new_cards |-> Distance(f.card_count, Of("last_new_cards")),
       diff_reviews |-> Distance(f.i - 1, Of("last_i")),
       cum_reviews_today |-> IF today THEN f.today_reviews + 1 ELSE 0,
       cum_new_cards_today |-> (IF today THEN f.today_new_cards ELSE 0)
                               + (IF r.card \in f.card_set THEN 0 ELSE 1)]

PreparePredictRow(f, r) == [review |-> r, columns |-> AddSame(f, r)]

\* Known encodings, and for the unknown ones the next draws, in order.
Encodings(f, r) ==
  [k \in IdentityKinds |->
     LET key == KeyIn(NormalizedIds(r), k)
     IN  IF f.id_encodings[key] # None THEN f.id_encodings[key]
         ELSE f.id_rng + Cardinality({m \in Unencoded(f, r) : Order[m[1]] < Order[k]})]

RowFeatures(f, row) == [columns |-> row.columns, encodings |-> Encodings(f, row.review)]

CanBatchPredict(f, r) ==
  /\ Unencoded(f, r) = {}
  /\ KeysOf(r) \cap IdentityKeys \subseteq f.recurrent_state_keys

DirectPredictFeatures(f, r) ==
  IF CanBatchPredict(f, r) THEN RowFeatures(f, PreparePredictRow(f, r)) ELSE None

-------------------------------------------------------------------------------
(* States of a row or a batch, and the forward pass.                       *)

\* Where each state stands in the lists, and the order the modules run in.
StateIndex == [card |-> 1, note |-> 2, deck |-> 3, preset |-> 4, global |-> 5]
ModuleOrder == <<"card", "deck", "note", "preset", "global">>
KindAt(index) == CHOOSE k \in Kinds : StateIndex[k] = index

StateInputs(canon, r) ==
  [n \in 1..5 |-> canon[KeyIn(NormalizedIds(r), KindAt(n))]]

\* pack_state_layer: a short batch that holds one tensor over and over repeats
\* its first one.
Pack(canon, keys) ==
  IF Len(keys) <= ShortBurst /\ \A n \in DOMAIN keys : keys[n] = keys[1]
  THEN [n \in DOMAIN keys |-> canon[keys[1]]]
  ELSE [n \in DOMAIN keys |-> canon[keys[n]]]

KeysOfKind(rows, k) == [n \in DOMAIN rows |-> KeyIn(NormalizedIds(rows[n].review), k)]
Missing(canon, keys) == \E n \in DOMAIN keys : canon[keys[n]] = None

\* One column of states per module, by list or by module; None if a row has
\* no state.
BatchStateInputs(canon, rows) ==
  IF \E k \in Kinds : Missing(canon, KeysOfKind(rows, k)) THEN None
  ELSE [n \in 1..5 |-> Pack(canon, KeysOfKind(rows, KindAt(n)))]

BatchModuleStateInputs(canon, rows, m) ==
  LET keys == KeysOfKind(rows, ModuleOrder[m])
  IN  IF Missing(canon, keys) THEN None ELSE Pack(canon, keys)

\* srs_review_predict_forward_profiled and ..._lightning_profiled: each module
\* takes its state from the list.
PredictForward(features, inputs) ==
  [features |-> features, states |-> [m \in 1..5 |-> inputs[StateIndex[ModuleOrder[m]]]]]

\* srs_review_predict_forward_lightning_modulewise: each module packs its own
\* states, of which the row is the n-th.
PredictForwardModulewise(features, canon, rows, n) ==
  [features |-> features,
   states |-> [m \in 1..5 |-> BatchModuleStateInputs(canon, rows, m)[n]]]

\* The probabilities of a batch: row n of every tensor makes probability n.
BatchProbabilities(form, canon, f, rows) ==
  LET inputs == BatchStateInputs(canon, rows)
      OfRow(n) == [k \in 1..5 |-> inputs[k][n]]
  IN  IF \E n \in DOMAIN rows : Unencoded(f, rows[n].review) # {} THEN None
      ELSE IF inputs = None THEN None
      ELSE [n \in DOMAIN rows |->
              IF form = "modulewise"
              THEN PredictForwardModulewise(RowFeatures(f, rows[n]), canon, rows, n)
              ELSE PredictForward(RowFeatures(f, rows[n]), OfRow(n))]

-------------------------------------------------------------------------------
(* The CPU call.  A call in progress has the features, the rows that wait   *)
(* for a batch and the probabilities so far.                                *)

Extended(out, more) == IF out = None \/ more = None THEN None ELSE out \o more
Starting(f) == [feat |-> f, batch |-> <<>>, out |-> <<>>]

FlushPredictBatch(form, canon, x) ==
  IF x.batch = <<>> THEN x
  ELSE [x EXCEPT !.out = Extended(@, BatchProbabilities(form, canon, x.feat, x.batch)),
                 !.batch = <<>>]

\* The draws of a row alone are put back.
PredictPreparedRow(canon, x, row) ==
  [x EXCEPT
     !.feat = PredictFeatureVector(@, row.review),
     !.out = Extended(@, <<PredictForward(RowFeatures(x.feat, row),
                                          StateInputs(canon, row.review))>>)]

\* Mutant of Consume: a row alone does not wait for those before it.
ConsumeOutOfTurn(form, canon, size, x, row) ==
  IF ~CanBatchPredict(x.feat, row.review) THEN PredictPreparedRow(canon, x, row)
  ELSE LET longer == [x EXCEPT !.batch = Append(@, row)]
       IN  IF Len(longer.batch) >= size THEN FlushPredictBatch(form, canon, longer)
           ELSE longer

Consume(form, canon, size, x, row) ==
  IF ~CanBatchPredict(x.feat, row.review)
  THEN PredictPreparedRow(canon, FlushPredictBatch(form, canon, x), row)
  ELSE LET longer == [x EXCEPT !.batch = Append(@, row)]
       IN  IF Len(longer.batch) >= size THEN FlushPredictBatch(form, canon, longer)
           ELSE longer

\* predict_prepared_reviews_with_state_sequential.
PredictPrepared(form, canon, size, f, rows) ==
  FlushPredictBatch(form, canon,
    FoldLeft(LAMBDA x, row : Consume(form, canon, size, x, row), Starting(f), rows))

\* predict_review_inputs_cpu, which prepares each row when its turn comes.
PredictInTurn(form, canon, size, f, inputs) ==
  FlushPredictBatch(form, canon,
    FoldLeft(LAMBDA x, r : Consume(form, canon, size, x, PreparePredictRow(x.feat, r)),
             Starting(f), inputs))

\* step_by(batch_size): the batches of a parallel call.
Chunks(rows, size) ==
  [n \in 1 .. (Len(rows) + size - 1) \div size |->
     SubSeq(rows, (n - 1) * size + 1,
            IF n * size < Len(rows) THEN n * size ELSE Len(rows))]

PredictParallelBatches(canon, size, threads, f, inputs) ==
  LET rows == [n \in DOMAIN inputs |-> PreparePredictRow(f, inputs[n])]
      parallel == /\ \A n \in DOMAIN rows : CanBatchPredict(f, inputs[n])
                  /\ Len(rows) >= MinRows /\ Len(rows) > size
                  /\ threads # 1
  IN  IF parallel
      THEN [feat |-> f, batch |-> <<>>,
            out |-> FoldLeft(LAMBDA out, chunk :
                               Extended(out, BatchProbabilities("modulewise", canon, f, chunk)),
                             <<>>, Chunks(rows, size))]
      ELSE PredictPrepared("lightning", canon, size, f, rows)

\* materialize_flat_cpu_state, where it succeeds.
Materialized(rt) == [k \in Keys |-> IF rt.canon[k] = None THEN rt.flat[k] ELSE rt.canon[k]]
Conflicting(rt) == \E k \in Keys : rt.canon[k] # None /\ rt.flat[k] # None

\* require_loaded_scope, for every row before any is predicted.
WithinLoadedScope(scope, inputs) ==
  scope # None => \A n \in DOMAIN inputs : KeysOf(inputs[n]) \cap IdentityKeys \subseteq scope

\* predict_prediction_batch_cpu: how is [fast, size, threads].
PredictCpu(rt, scope, inputs, how) ==
  IF ~WithinLoadedScope(scope, inputs) \/ Conflicting(rt) THEN None
  ELSE IF how.fast
  THEN PredictParallelBatches(Materialized(rt), how.size, how.threads, rt.feat, inputs).out
  ELSE PredictInTurn("oracle", Materialized(rt), how.size, rt.feat, inputs).out

\* predict_probability_with_state.
PredictProbability(rt, r) ==
  PredictPreparedRow(Materialized(rt), Starting(rt.feat), PreparePredictRow(rt.feat, r)).out

-------------------------------------------------------------------------------
(* The GPU call, on a device: it has memory for room rows at a time, and     *)
(* the submission and the collection of these numbers fail (0: none does).   *)

Begun(rt) ==
  [feat |-> rt.feat, gpu |-> rt.gpu, batch |-> <<>>, pending |-> <<>>, out |-> <<>>,
   submitted |-> 0, collected |-> 0]

\* What the device computes for a submitted batch.
Computed(g, batch) ==
  [n \in DOMAIN batch |->
     LET t == NormalizedIds(batch[n].review)
     IN  PredictForward(batch[n].features,
           [m \in 1..5 |-> g.buffer[KindAt(m)][QuerySlots(g, t)[KindAt(m)]]])]

Unslotted(g, batch) ==
  \E n \in DOMAIN batch, k \in Kinds : QuerySlots(g, NormalizedIds(batch[n].review))[k] = None

\* ensure_gpu; None when the states do not fit.
EnsureGpu(rt, g) ==
  LET states == Materialized(rt)
  IN  IF g # None THEN g ELSE IF Fits(states) THEN StateArena(states) ELSE None

\* submit_prediction: the slots of every row are looked up, and cached.
Looked(g, batch) ==
  FoldLeft(LAMBDA h, row : Queried(h, NormalizedIds(row.review)), g, batch)

\* Whether a submission of these rows is refused, and how.
Refusal(device, x, rows) ==
  IF x.gpu = None \/ Unslotted(x.gpu, rows) \/ x.submitted = device.submit THEN "error"
  ELSE IF Len(rows) > device.room THEN "memory"
  ELSE "none"

Tried(rt, x, rows) ==
  LET g == EnsureGpu(rt, x.gpu)
  IN  [x EXCEPT !.submitted = @ + 1, !.gpu = IF g = None THEN None ELSE Looked(g, rows)]

\* collect_prediction waits for one submitted batch, which may fail.
Awaited(x) == [x EXCEPT !.collected = @ + 1]
WaitFailed(device, x) == x.collected = device.collect

\* discard_gpu_prediction_pipeline: what is in flight is awaited and dropped.
Discarded(x) ==
  [x EXCEPT !.collected = @ + Len(x.pending), !.pending = <<>>, !.out = None]

CollectOldest(device, x) ==
  LET got == [Awaited(x) EXCEPT !.pending = Tail(@)]
  IN  IF WaitFailed(device, got) THEN Discarded(got)
      ELSE [got EXCEPT !.out = Extended(@, Head(x.pending))]

\* drain_gpu_prediction_pipeline; at most two batches are in flight.
Drained(device, x) ==
  LET Once(y) == IF y.out = None \/ y.pending = <<>> THEN y ELSE CollectOldest(device, y)
  IN  Once(Once(x))

\* predict_gpu_adaptive: halves the rows until they fit.
RECURSIVE PredictGpuAdaptive(_, _, _, _)
PredictGpuAdaptive(rt, device, x, rows) ==
  LET tried == Tried(rt, x, rows)
      refusal == Refusal(device, tried, rows)
      middle == Len(rows) \div 2
      half == PredictGpuAdaptive(rt, device, tried, SubSeq(rows, 1, middle))
      collected == Awaited(tried)
  IN  IF refusal = "none"
      THEN [collected EXCEPT !.out =
              IF WaitFailed(device, collected) THEN None
              ELSE Extended(@, Computed(tried.gpu, rows))]
      ELSE IF refusal = "memory" /\ Len(rows) > 1
      THEN IF half.out = None THEN half
           ELSE PredictGpuAdaptive(rt, device, half, SubSeq(rows, middle + 1, Len(rows)))
      ELSE [tried EXCEPT !.out = None]

\* flush_gpu_batch.
FlushGpuBatch(rt, device, x) ==
  IF x.batch = <<>> THEN x
  ELSE [PredictGpuAdaptive(rt, device, x, x.batch) EXCEPT !.batch = <<>>]

\* submit_gpu_prediction_pipeline_batch: older batches are drained before a
\* batch without memory is halved.
Submit(rt, device, x) ==
  LET tried == Tried(rt, x, x.batch)
      refusal == Refusal(device, tried, x.batch)
      queued == [tried EXCEPT !.pending = Append(@, Computed(tried.gpu, x.batch)),
                              !.batch = <<>>]
      drained == Drained(device, tried)
  IN  IF x.batch = <<>> THEN x
      ELSE IF refusal = "none"
      THEN IF Len(queued.pending) = 2 THEN CollectOldest(device, queued) ELSE queued
      ELSE IF refusal = "memory" /\ Len(x.batch) > 1
      THEN IF drained.out = None THEN drained ELSE FlushGpuBatch(rt, device, drained)
      ELSE Discarded(tried)

\* A row with an unknown identity is predicted on the CPU, from the canonical
\* maps as they are, once all rows before it have been.
Fallback(rt, device, pipelined, x, r) ==
  LET before == IF pipelined THEN Drained(device, Submit(rt, device, x))
                ELSE FlushGpuBatch(rt, device, x)
      alone == PredictPreparedRow(rt.canon, [feat |-> x.feat, batch |-> <<>>, out |-> before.out],
                                  PreparePredictRow(x.feat, r))
  IN  IF before.out = None THEN before
      ELSE [before EXCEPT !.feat = alone.feat, !.out = alone.out]

\* A row of consume_gpu_input_chunk and of its pipelined twin.
ConsumeGpu(rt, device, how, pipelined, x, r) ==
  LET features == DirectPredictFeatures(x.feat, r)
      longer == [x EXCEPT !.batch = Append(@, [review |-> r, features |-> features])]
  IN  IF x.out = None THEN x
      ELSE IF features = None THEN Fallback(rt, device, pipelined, x, r)
      ELSE IF Len(longer.batch) < how.size THEN longer
      ELSE IF pipelined THEN Submit(rt, device, longer)
      ELSE FlushGpuBatch(rt, device, longer)

\* predict_review_inputs_gpu: how is [size, pipeline].
PredictGpuRun(rt, device, inputs, how) ==
  LET pipelined == how.pipeline /\ Len(inputs) > how.size
      begun == [Begun(rt) EXCEPT !.gpu = IF pipelined THEN EnsureGpu(rt, @) ELSE @]
      consumed == FoldLeft(LAMBDA x, r : ConsumeGpu(rt, device, how, pipelined, x, r),
                           begun, inputs)
      last == IF pipelined THEN Submit(rt, device, consumed)
              ELSE FlushGpuBatch(rt, device, consumed)
  IN  IF pipelined /\ begun.gpu = None THEN [begun EXCEPT !.out = None]
      ELSE IF consumed.out = None THEN consumed
      ELSE IF last.out = None \/ ~pipelined THEN last
      ELSE Drained(device, last)

PredictManyGpu(rt, device, scope, inputs, how) ==
  IF WithinLoadedScope(scope, inputs) THEN PredictGpuRun(rt, device, inputs, how)
  ELSE [Begun(rt) EXCEPT !.out = None]

-------------------------------------------------------------------------------
(* What the calls promise.                                                  *)

\* Every row alone, in the order of the rows.
OneByOne(rt, inputs) == [n \in DOMAIN inputs |-> PredictProbability(rt, inputs[n])[1]]

Expected(rt, scope, inputs) ==
  IF WithinLoadedScope(scope, inputs) THEN OneByOne(rt, inputs) ELSE None

\* Whether every row has features the GPU can take.
AllDirect(rt, inputs) ==
  \A n \in DOMAIN inputs : DirectPredictFeatures(rt.feat, inputs[n]) # None

CpuAgrees(rt, scope, inputs, how) ==
  PredictCpu(rt, scope, inputs, how) = Expected(rt, scope, inputs)

Flawless(device) == device.room > 0 /\ device.submit = 0 /\ device.collect = 0

\* On the GPU too, unless the device fails or cannot hold the states; whatever
\* happens nothing stays in flight, and a failure is no answer at all.
GpuAgrees(rt, device, scope, inputs, how) ==
  LET end == PredictManyGpu(rt, device, scope, inputs, how)
      want == Expected(rt, scope, inputs)
  IN  /\ end.pending = <<>>
      /\ end.feat = rt.feat
      /\ IF Flawless(device) /\ (rt.gpu # None \/ Fits(Materialized(rt))) THEN end.out = want
         ELSE end.out \in {want, None}
      /\ end.gpu # None => Mirrors(end.gpu, Materialized(rt)) /\ CacheIsCurrent(end.gpu)
===============================================================================
