# RWKV-SRS: verification models

RWKV-SRS runs a recurrent network over a learner's review history and ranks
candidate cards by predicted retrievability. This directory models what must be
right whatever the numbers are: the live prediction session; reviews, their
rollback and undo; the several copies of the recurrent states, on the CPU and on
the GPU; the executors that process a batch in another order than the plain one;
checkpoints; and the protocol between the Python facade, the native runtime and
the threads around them. Numbers are abstracted: a prediction is any value, or what
it is computed from.

Paths: `rust.py` is `src/src/rwkv_srs/backends/rust.py`, other Python files are in
`src/src/rwkv_srs/`, and `model/...` is `src/rust/rwkv-srs-cpu/src/model/...`.

## Inventory

| Component | State | Operations | Hard part |
| --- | --- | --- | --- |
| Native live index, `model/live_session.rs`, bound in `model/bindings.rs` | slot vectors (candidates, predictions, statuses, eligibility flags), card-to-slot map, cached rank order, retention extra, target, generation; undo frames of slot deltas | answer, undo, refresh, exclude, include, remove, upsert, set retention, reconcile, replace, set mode, selections | caches repaired by merging; delta undo across all of these |
| Reference session, `live.py` | candidates in transport order | the same without undo | none: it is the specification |
| Runtime facade, `rust.py`, and native runtime, `model.rs`, `model/bindings.rs`, `model/runtime.rs` | native undo stack, staged and open session with tokens; Python metadata stack, registered facade | process, undoable process, undo, create/finalize/abort/close a session, finalizers | two stacks kept in step by code that may fail between the two updates; finalizers that run at any time |
| Review transactions, `model/undo.rs`, `model/runtime.rs`, `state.rs` | recurrent state maps, deterministic feature state, rollback journals | capture, process, restore, batch variants | the journal must cover every entry a review may touch |
| GPU prediction cache, `model/gpu.rs` | an arena of states per kind of identity, slots, a cached slot tuple | build, mirror a review, undo, grow, drop | slots freed by an undo; a failure of the cache must not fail the review |
| Prediction of many rows, `model/runtime.rs`, `model/gpu.rs` | none after a call | serial, prepared, parallel; GPU batches in flight, halved, with a scalar fallback | order of the answers; which copy of a state is read |
| GPU processing, `model/gpu_process_scan.rs`, `rust.py` | canonical and flat maps, deferred states, resident buffers, sharded arena; committed-row count | plan, scan in chunks, commit, recover from lack of memory, synchronize, report | which of five copies is current; failure after a committed prefix |
| Owner thread, `rust.py` | call queue, closed flag, lock | call, close with timeout, finalizers | interrupted callers, a close racing a long call, a collector that runs finalizers on any thread |
| Pipelined processing, `model/pipeline.rs`, `state_builder.rs` | detached copies of the states, bounded channels, a journal of the feature state | process many, build state | six threads that may each fail at any time; all of a batch or none of it |
| Layered processing, `model/bulk.rs`, `model/time_mixer.rs`, `model/channel_mixer.rs`, `cpu_config.rs` | streams of rows advanced together, working states in several layouts | process many | the same result as row by row, on each of five paths through a layer |
| Checkpoints, `model/checkpoint_bin.rs`, `_api_core.py`, `rust.py` | file, temporary file, scope, backing file, history digest | save, load, load of some cards, merge | atomic publication; a merge that streams one file into another |
| Weights, validation, profiling, vendored gemm, release scripts | none across calls | | not modelled: pure I/O, conversion or third-party |

What makes each correct, in one line: the native index is a cache of the
reference session, whatever sequence of calls and undos led to it; undoing takes
back exactly the newest review everywhere (model, index, metadata); a failure
leaves things as they were or as the caller was told; whichever copy of a state is
read is the newest; however a batch is executed, its result is that of reviewing
row by row; a session belongs to its facade and to nobody else; a call handed to
another thread is carried out once, in order, and comes back; a file is complete
and holds what its history says.

## Modules

| Module | Models | Role |
| --- | --- | --- |
| `LiveRank` | eligibility, rank keys, boundaries, status transitions | rules shared by the two session models |
| `LiveIndex` | `live_session.rs`, live methods of `bindings.rs` | detailed model: caches, merges, undo deltas |
| `LiveReference` | `live.py`, undo of `rust.py` | abstract specification: no cache, an undo is a saved copy |
| `LiveIndexRefinement` | | maps `LiveIndex` to `LiveReference` |
| `LiveIndexInvariant`, `LiveIndexProofs` | | inductive invariant and TLAPS proofs of the index |
| `RuntimeSession` | facade and native runtime | undo stacks, session life cycle, exceptions and finalizers |
| `UndoableLog` | public undo interface | abstract specification of `RuntimeSession` and of `ReviewTransaction` |
| `RuntimeSessionProofs` | | TLAPS proofs about `RuntimeSession` |
| `OwnerThread`, `OwnerThreadProofs` | `_OwnerThreadNativeRuntime` and its worker | queue, lock, sentinel, interrupts, finalizers; proofs |
| `ReviewState` | `state.rs`, `undo.rs`, the maps of `model.rs` | states, features and journals as values |
| `GpuArena` | the predictor of `gpu.rs` | arenas, slots and slot cache as a value |
| `ReviewTransaction` | native calls of `runtime.rs` | one call step by step, its failures, undo; extends the two |
| `ReviewTransactionInvariant` | | inductive invariant of the transactions |
| `ReviewTransactionRefinement` | | what the state is a function of; maps `ReviewTransaction` to `UndoableLog` |
| `ReviewTransactionProofs` | | lemmas about journals, arenas and logs; proofs |
| `Subsequences`, `SubsequenceProofs` | the rows of a key, a card or a stage; sort and merge of `live_session.rs`, `_ordered` of `live.py` | selection from a sequence, and sequences kept in an order by insertion; lemmas about both and first-order induction |
| `PredictMany` | `predict_many` on CPU and GPU | a function of a runtime and rows |
| `StateHomes` | where a state can be during GPU processing | the five homes as a value |
| `GpuProcess` | `process_many` and `build_state_only` on the GPU | batches, attempts, recovery, synchronization, reports |
| `CommittedPrefix` | what `GpuError` promises | abstract specification of `GpuProcess` |
| `GpuProcessInvariant`, `GpuProcessProofs` | | inductive invariant and proofs |
| `ScanPlan` | `gpu_process_scan.rs` and its shaders | one batch of the scan, as a function |
| `ReviewPipeline` | `pipeline.rs`, `state_builder.rs` | the threads, channels and failures of one batch |
| `AtomicBatch` | what a client may assume of a batch | abstract specification of `ReviewPipeline` |
| `ReviewPipelineInvariant`, `ReviewPipelineProofs` | | inductive invariant and proofs of the pipeline |
| `CpuConfig`, `MixerForward`, `ModuleForward`, `BulkLayers` | `cpu_config.rs`, `time_mixer.rs`, `ops.rs`, `model.rs`, `bulk.rs` | switches; the paths through a mixer; through the layers; the layered executor, as functions |
| `CheckpointState`, `Checkpoint` | `_api_core.py`, `rust.py`, `checkpoint_bin.rs` | what a file holds; saves, loads, crashes |
| `CheckpointStore` | what a client may assume of checkpoints | abstract specification of `Checkpoint` |
| `CheckpointInvariant`, `CheckpointProofs` | | inductive invariant and proofs |
| `CheckpointLayout` | `checkpoint_bin.rs` | the file itself, cell by cell, as functions |
| `MCLiveIndex`, `MCRuntimeSession`, `MCReviewTransaction`, `MCReviewPipeline`, `MCGpuProcess`, `MCCheckpoint` | | constants of the TLC instances; the inputs of the functions and what must hold of them |

How they compose. A call of the facade (`RuntimeSession`) goes through the owner
thread (`OwnerThread`) to a native method, which is one of: a session operation
(`LiveIndex`), a review or batch on the CPU (`ReviewTransaction`), a batch handed to
threads (`ReviewPipeline`) or computed layer by layer (`BulkLayers`), a batch on the
GPU (`GpuProcess` over `ScanPlan`), a prediction (`PredictMany` over `GpuArena`), a
save or load (`Checkpoint` over `CheckpointLayout`). Each model takes the others at
the level of what they promise: a native method is one step in `OwnerThread` and
`RuntimeSession`, a batch of rows one fold in `ReviewPipeline` and `GpuProcess`.

### LiveIndex

`index` is one record with the fields of `LivePredictionSessionState` the
properties tell apart; `slots` merges the parallel vectors `candidates`,
`predictions` and `statuses`, `eligible` is `eligibilities`, `ordered` is
`ordered_slots`, `slotOf` is `slot_by_card_id`. `undo` is the stack of
`LiveIndexUndoFrame`s: `full` is what `record_slot` and `record_new_slot` saved,
`refresh` what `record_refresh_slot` saved, `before` the universe
`record_reconciliation_state` moved into the frame. `history` is a ghost: the
whole index each answer found.

Actions are the session methods; an action contains the record in the newest
frame, the mutation, and the reordering the method ends with. A selection reads
the state and changes nothing that matters; it is the operator `FinalSelection`.

Abstractions. Retrievabilities, targets and extras are integer points of
`0..One`, so "next representable float" is "next integer". Time is the day
offset; the timestamp follows it. `card` also stands for `tie_breaker`. A
prediction is any member of `Predictions`, `NaN` included where the instance says
so; a prediction that raises leaves the index as it was and is a stuttering step.
`relative_overdueness` compares the quotients by cross-multiplication.
The GPU/CPU executor (`SetMode`) shows in the generation only. Sorting and merging
are both insertion one by one (`RankInto`), of all live slots into nothing or of the
touched ones into the rest of the order. This is what an unstable sort and a merge of
two sorted runs give because the order is total: the cards of live slots are distinct.
A tombstone may share its card with a later slot, which is why it must be filtered out
before the merge.

### RuntimeSession

`model` is the sequence of reviews the recurrent state has processed. `frames`
is the native `undo_stack`, a frame being the token of the session it belongs to
(`NoSession` for a plain one) and the model it restores. `live`, `pending` and
`nextToken` are the native session fields. `described` is the sequence
`last_review_id`, `processed_review_count` and `_history_digest` describe, `metas`
the metadata stack, `handle` the facade `_live_session_ref` reaches, `stage` how
far `predict_many_live_session` has come, and `orphans` the open facades that are
not registered and whose finalizer has yet to run.

Native calls, and the Python between two points where an exception can strike,
are atomic. `Process` is any plain call that commits a batch: a call over several
batches is several such steps. Exceptions that need an unlucky moment are
admitted by the constant `Faults`: a committed answer or batch whose result
cannot be built, an interrupt that no `except Exception` catches, a facade lost
before or just after finalization, a staged token lost between two `try` blocks,
and a facade collected on a thread that may not touch the native object.
Checkpoint loading (which replaces the whole runtime state) is not an operation
of an existing runtime and is not in this module.

### OwnerThread

A request is the number under which it was accepted. `calls`, `closed` and `lock`
are `_calls`, `_closed` and `_lock`; `answered` holds the requests whose response
queue has an outcome; `stop` is the request that is the sentinel of `close`;
`worker` and `inHand` say where `_owner_thread_runtime_main` is. `frames` gives
each thread its stack of proxy operations, because the garbage collector may call
a finalizer on top of whatever a thread is doing: before the lock (`enter`), with
it (`locked`), waiting for the answer (`wait`) or for the thread to end (`join`).
`facade` says that an unreachable session facade, whose `__del__` calls the
proxy, has still to be collected. `issued`, `served` and `made` are ghosts.

A native method is one step that succeeds or raises; both are answered. `Faults`
admits a KeyboardInterrupt in a waiting caller or under the lock, an exception
whose message cannot be built (which ends the worker's loop), and the collection
of a facade outside the proxy or inside it, the worker's thread included.
`CHECK_DEADLOCK FALSE` is set because the system is meant to stop once it is
closed.

### ReviewTransaction, ReviewState, GpuArena

A recurrent state is the sequence of reviews folded into it; an identity encoding is
the position of the random generator it was drawn at, which is all that tells two
draws of a deterministic generator apart. `canon` and `flat` are the two CPU homes,
`feat` the `FeatureState` with its per-card maps, counters and generator, `gpu` the
predictor (or `None`), `undoStack` the native frames. `past` is a ghost: the state
each frame was taken of.

A call goes through the phases of the code: move the flat states (`materialize`), journal
(`capture`), and for each row predict, draw the features, store five states and mirror
them on the GPU, record, return the curves. Each phase that may fail may fail: in `Fail`
the journal is played back and the GPU cache is repaired (undoable call) or dropped
(batch). A move of flat states that fails half-way has no journal: `MaterializeFails`
leaves some states moved, which is harmless because `Effective` is the same. An
undoable call predicts before it journals, the others after. `ProcessByScan` stands
for the GPU scan as the CPU side sees it afterwards (some states flat, no history).

An arena gives each identity a slot; an undo pops the slots it added if they are the
last ones, and drops the predictor otherwise. Capacity doubles up to the device's
binding (`MaxSlots`); a review that does not fit drops the cache, never the review.

### PredictMany

`predict_many` as a function of a runtime and rows: what each probability is computed
from, in which order they come back, what an error leaves. A probability is the
features of its row and the five states its modules read. On the CPU: in turn,
prepared, and in parallel batches; on the GPU: batches of known rows with up to two in
flight, halved when the device has no memory, and the scalar fallback for a row with
an unknown identity. The comparison, `EveryCallAgrees`, is made in every state a caller
may find the runtime in (`FoundByCaller`: the step by which a batch of no rows begins).

### GpuProcess, StateHomes

`held[h][k]` is the state of key `k` in home `h`: canonical maps, flat maps, deferred
host copies, resident buffers of the last batch, sharded arena. `expected` is a ghost,
what the committed rows make. `client` is the Python call (batches of `BatchSize`, then
`ReceiveRows`, `FallBack`, `CallFails`), `job` the native call: choose the prefix that
fits, try it, commit it; on lack of memory halve it, abandon the arena, or, for a single
row, clean up once and try again. A synchronization moves working set, arena and
deferred states to the host in several steps and may fail between any two. `log` is
what the native runtime recorded, `described` what Python's digest describes, `report`
what the caller was told. After an error that leaves the state unusable the caller is
told so (`"lost"`) and the model's caller makes no further calls.

### ReviewPipeline

A recurrent state is the sequence of reviews folded into it, so that two states
are equal exactly if the same reviews made them in the same order. `states[s][k]`
is the authoritative state of key `k` in module `s`, `detached` the copy a stage
works on, `channel[s]` the bounded channel in front of stage `s` (the last one
leads to the caller), `stage[s]` where a thread is and the batch
`receive_pipeline_batch` gave it, `result` what joining a thread yields. Sends
block on a full channel and fail on a dropped receiver; receives block on an empty
channel and end with a dropped sender.

`stateOnly` is the executor of the present call, chosen when it begins. The two
differ in three places: the last stage of the state builder sends nothing and counts (`ComputeAndCount`); its threads are
joined from the last one back and the first error ends the joining
(`BuildVerdict`), whereas `process_many` first drains its output and then looks at
the threads from the producer on (`ProcessVerdict`); and it has no output heads.

Abstractions. A batch of rows is folded in one step (stages share no state while
they compute, so a finer grain shows nothing). The feature journal is the saved
feature state; what `BatchDeterministicUndoFrame` has to capture for that is the
subject of `ReviewTransaction`. The commit is one step: it runs on the
calling thread after the others ended and none of its assignments can fail. The
rayon pool, in which stages compute, has more threads than there are stages.

### Checkpoint, CheckpointState

A native state has an entry per identity (its encoding and the reviews folded into it)
and what all reviews share. A history is a pair of the reviews, for which digest, count
and last review stand, and the ghost `makes`: the state of a runtime that processes these
reviews and nothing else. A runtime is whole or loaded for a scope; then it keeps the path
of its file, its backing, and a save merges the two. A save composes the metadata,
writes a temporary file, renames it and only then adopts it as its backing. Errors and
interrupts strike before the rename or in the middle of the write, a crash anywhere.

### Algorithms: BulkLayers, ScanPlan, CheckpointLayout

Three parts of the code are large pure functions whose result must equal that of a
simple one. They are written as operators and compared with the simple one on chosen
inputs. A row of numbers is one number modulo a prime and a kernel a fixed mixing of what it
reads (rows, states, weights of its layer), so that reading a wrong row, a wrong state or
a stale `v0` shows, and rounding does not. The comparison is a property of the run whose
model takes the function for a single step:

* `LayeredMatchesReference` (run `pipeline`): the layered executor, for every switch of
  the configuration, against one row after the other. A configuration is the set of
  switches that are on (`CpuConfig`); `MixerForward` has the mixers on tensors, on flat
  time states, on flat time and channel states, on values, and with the hand-off between
  mixers; `BulkLayers` the feature prepass, singletons, frontiers, compaction.
* `ScanMatchesReference` (run `gpu_process`): the plan of a batch, chunks, the scan over
  their affine maps, shards, resident buffers, eviction, pipelined readback, and attempts that
  fail, against review by review.
* `StreamedFilesAgree` (run `checkpoint`): a file is a sequence of cells, each a number with a
  width in bytes, so that offsets, lengths and seeks are what they are in the code. Both versions,
  selected reads, and the merge that streams the backing file past, against writing the whole
  runtime at once.

## Runs

| Run | Shows | Instance |
| --- | --- | --- |
| `live_undo` | map, order, flags and every undo frame stay exact; undo restores universe and rank; the index implements the reference session | 2 cards, 3 slots, 2 frames, 4 mutations, descending |
| `live_rank` | selections and boundaries with NaN predictions, ties and a third card | 3 cards, 4 slots, 2 mutations, relative overdueness |
| `live_revisit` (violation) | returning to the retention extra of an undoable answer breaks the rank an undo restores | 2 cards, 5 mutations |
| `runtime_session` | the two undo stacks agree, the facade has the session, undo is a bounded log | 2 reviews, limit 2, 5 reviews processed, 3 sessions, no faults |
| `runtime_faults` | what no exception can break: frames belong to the open session, one review per frame | all faults, 4 reviews, 2 sessions |
| `owner_thread` | calls are served once and in order; everything returns unless the worker died, and close even then; an answered close dropped nothing; a queued sentinel ends the worker | 2 callers, 4 calls, all faults but collection inside the proxy |
| `owner_collect` (violation) | a finalizer on the owner thread, or under the lock, waits for ever | 1 caller |
| `pipeline` | both executors keep rows in order, return, are atomic, and report the failure; the layered executor agrees with the plain one | 3 stages, all faults, batches of 1 and 3, 4 reviews; layers: 3 cards of 2 notes in 2 decks, 2 layers, streams of 1 to 4 rows, three profiles and the fast one without each switch |
| `review_txn` | the GPU mirrors the newest states, a failed call leaves no trace, undo restores exactly, the state follows the log and the generator, undo is a bounded log, and every way to predict many rows agrees | 2 cards, one without a note, 3 decks, one of them missing; 3 reviews, undo limit 2, 2 slots |
| `predict_stale` (violation) | the scalar fallback of a GPU prediction reads states that are not the newest | the same |
| `gpu_process` | no committed state is lost or stale; history and report are exact; every call returns; the scan agrees with going review by review | 2 cards and the global state, inputs of 3 rows and of 1, batches of 2, four devices, 5 rows; scan: batches of up to 8 rows, chunks of 1 to 3, three storages, failures |
| `checkpoint` | published files are whole, partial runtimes are exact selections, saves and loads are atomic; streamed files are those written at once | 2 runtimes, 2 paths, 2 cards of one deck, 2 reviews, undo limit 1; layout: files of up to 4 cards, 2 notes, 2 decks, four scopes, every set of cards afterwards, flat or not, both versions |

Bounds. `MaxGeneration` bounds the number of session mutations, `MaxSlots` the
slots, `MaxReviews` the reviews, `MaxToken` the sessions. Two cards of which one
may be removed and inserted again reach every shape of slot reuse (a card on an
old slot, on a new one, on none), and two frames reach a deep frame below a
newer one; four mutations suffice for answer, two interfering mutations and undo. A
third card is needed only for merges into the middle of an order, in
`live_rank`. With a limit of 2, five reviews overflow both undo stacks and still
leave room for a plain batch. Three sessions allow one to close, one to be
aborted and one to be opened with the aborted one's token. No symmetry is used:
cards and tokens are numbers the code orders, and reviews are few.

`MaxCalls` bounds the calls on the proxy: four are two per caller, enough for a
call and a close on each side to overlap in every order, with the finalizer as a
third party. In the pipeline, `Capacity` 1 is the tightest channel the
configuration admits, and the one most likely to block everybody; `ComputeBatch` 2
lets a batch hold one row or two, end in an error after a row, and end by
disconnection. A batch of three rows fills channel and stage at once. With three
stages there is one at the producer, one at the caller and one with a neighbour on
both sides, which are the only roles; the program's five add neighbours of the last kind.
`MaxReviews` 4 lets a batch follow another, committed or not, on states that exist.

`MaxReviews` 3 in `review_txn` fills both undo frames and drops one, and lets a review be
undone above a GPU arena that later grew; three decks against two slots are one identity too
many for a binding. In `gpu_process`, batches of two rows on devices that hold two, one or no
row give attempts that fit, that are halved, and that never fit; five rows allow a second call
on what a failed first one left on the device. In `checkpoint`, two runtimes on two paths are
enough for a save over another's backing, and two cards of one deck for an entry that is
half in scope.

`CHECK_DEADLOCK FALSE` is set where only a bound stops the system: the index runs
(`MaxGeneration`, which every action counts against), `gpu_process` (`MaxRows`, or a caller who
was told that the state is unusable), `checkpoint` (`MaxReviews`); and for the owner thread,
which is meant to stop once it is closed. The runtime, pipeline and transaction runs check
deadlock.

Two runs assume something about clients. `live_undo`, `RevisitsRetention = FALSE`: while an
answer can still be undone, a client that has left its retention extra does not
come back to it. `live_revisit` drops the assumption, and `UndoRestoresRank`
fails: `restore_undo` recomputes the flags only if the extra differs from the
saved one, but the flags in the frame's deltas may date from in between. `checkpoint`,
`Exclusive = TRUE`: no client saves over a file that another runtime is loading, is backed by
or is saving to (see Observations).

## Fairness

The index, the runtime facade, a transaction and a checkpoint are called and return; nothing in
them happens by itself except finalizers, which Python does not promise to run. Their properties
are safety properties and assume no fairness. The other four go on by themselves once called.
`OwnerThread` assumes weak fairness of the
worker's loop (its thread is scheduled and a native method terminates, which bounded
numeric work does), of each thread's next step inside the proxy, and of the
timeouts of `close`, which the operating system lets expire. Weak fairness is enough
for the lock because callers make finitely many calls. Interrupts, collections and the worker's death are
never assumed to happen. `ReviewPipeline` assumes weak fairness of the calling
thread, the producer and each stage, and of no failure. `GpuProcess` assumes weak fairness of
"the call that has begun goes on", success or failure: the device answers or reports an error.
That is what a synchronous call is; that it ends, with attempts that are halved, repeated and
synchronized in between, is the content of `ImplementsCommittedPrefix`.

Limits the properties state. Callers of a worker that died are never
answered, so `EveryCallReturns` excepts a worker that
died (`WorkerDied`); only `EveryCloseReturns` does not. An interrupt between the flag
and the sentinel of `close` leaves a closed proxy whose worker waits for ever, so
`CloseStopsWorker` starts from the sentinel. In `process_many` a thread that panics, or fails to convert a
state, tells nobody downstream, and the threads before it find their channel
closed; as they are looked at first, the caller may be told that a channel "closed
early" instead of what happened. `build_state_only` looks at the last one first and
has no such case; `FailureIsReported` says both. `ReportIsExact` excepts calls struck by an interrupt
(see Observations). `PredictionsAgree` asks for GPU predictions only of rows with known
identities, or once no state is flat; `predict_stale` is the rest.

## Findings

1. `live_revisit`: `restore_undo` (`live_session.rs:974`) can bring back flags of
   another retention extra, against "restores the exact universe and rank"
   (`rust.py:656`).
2. `owner_collect`: a session facade that the garbage collector finalizes on the owner
   thread, or on a caller inside the proxy's lock, blocks its own thread for ever
   (`rust.py:2521`).
3. `predict_stale`: a GPU prediction of a row with an unknown identity is computed on the CPU
   from the canonical maps, while the newest states may be in the flat ones (`runtime.rs:1212`),
   against "lazily materializes its flat FP32 state before later CPU operations" (`rust.py:1511`).

## Observations

Schedules met while modelling that no run is given to. Each can be had from the named model.

* Rollback after a late error relies on the undo stack having grown (`rust.py:1454`), which a
  full stack never does: the answer stays committed and the metadata denies it. `RuntimeSession`
  with `Faults = {"late_error"}` violates `DescribesModel`.
* The finalizer of an aborted facade clears the metadata stack of the present session
  (`rust.py:1027`), and, because an aborted construction does not use its token up
  (`bindings.rs:713`), may close a later session of the same token. `Faults =
  {"lost_construction"}` violates `UndoHistoryMirrored` and `HandleIsLive`. Both need an allocation
  failure or an interrupt at the named place, which the comments at `bindings.rs:682` say
  construction is meant to survive.
* The adapter's return lies outside both `try` blocks that abort (`rust.py:3002`): an exception
  there leaves a staged session nobody can abort (fault `leaked_pending`; `PendingIsTransient`
  holds without it).
* An interrupt between the native commit of a GPU batch and the receipt of its result: the
  native runtime has committed the rows and returns; Python handles a pending signal before the
  result is stored (`rust.py:2118`, `3675`); the progress that survives is a count of rows
  (`bindings.rs:1692`), from which `build_state_only` can still bring its history up to date, and
  `process_many` cannot. The rows stay committed, the digest does not describe them, and a
  caller who processes them again folds them in twice (`Interrupt` in `GpuProcess`).
* The input of `process_many` may be a generator, which runs caller code between two native
  batches (`rust.py:1883`), after the undo history was dropped.
* Loading reads a checkpoint twice, the metadata in Python and the state in the native runtime
  (`rust.py:2351-2405`). A save published in between gives one file's history with the other's
  state: `Checkpoint` with `Exclusive = FALSE` violates `RuntimesAreSelections`.
* Two settings of the environment fall out of `LayeredMatchesReference` and are excluded by
  name. Without its scratch (`RWKV_SRS_ENABLE_TIME_MIXER_MIDDLE_ALL_VALUES_SCRATCH=0`) the
  all-values path returns at the first layer the `v0` that came in instead of the one just
  computed (`time_mixer.rs:1561-1690`; `LosesFirstValues`), and the layers above mix zeros. Flat
  time states without SIMD make the layered executor fail instead of choosing another path
  (`Declines`).
* The counter behind the lightning approximations is one per process, not per runtime
  (`time_mixer.rs:83-97`).

## Proofs

TLC checks the instances above; TLAPS proves the following for every value of the
constants under the assumptions of the modules: `RankAssumption`, `IndexAssumption`,
`RuntimeAssumption`, `OwnerAssumption`, `ReviewAssumption`, `SlotAssumption`,
`TransactionAssumption`, `SomeReviewAssumption`, `ProcessAssumption`, `PipelineAssumption`,
`NoneAssumption` and `CheckpointAssumption`. Several theorems hold only under a restriction a
constant names (`RevisitsRetention`, `Faults`, `Exclusive`): it is then a hypothesis of the theorem.

`LiveIndexProofs` proves `Spec => []IInv` and from it `TypeOK`,
`SlotMapMatchesLiveSlots`, `FramesSaveEachCardOnce`, `EveryFrameRestores`,
`OrderIsExactAndSorted`, `UndoRestoresUniverse`, `GenerationAdvances` and, assuming
`~RevisitsRetention`, `EligibilityIsCurrent`, `UndoRestoresRank`,
`SelectionMatchesReference`, `NextBoundaryIsTight` and `ImplementsReference`. The invariant has to speak of the whole stack: after an
undo the next frame becomes the newest one, so what is needed of frame `k` is that
it restores `history[k]` from the index it *will* be applied to, which is
`history[k + 1]` for a buried frame, the current index for the newest one, and the
saved universe if the frame saw a reconciliation (`Base`). `FrameRestores` says so
together with what keeps it stable: the frame's deltas cover exactly the slots
that differ, they were live when saved, and slots created since are marked. The
proof has one lemma per action about the newest frame (`RecordSlots`,
`RecordRefresh`, `RecordNew`, `RecordReconciliation`) and one about restoring.

The rank order is a second invariant on top. `Before` is shown to be a strict order that is
total on distinct cards, from which inserting into an exact order keeps it exact and rebuilding
makes it so. A merge is exact only if the slots that were *not* touched still are in order, and an
undo merges into the order of the universe it brings back; so `OrderIsExactAndSorted` speaks
of every order the stack holds, the snapshots of reconciled universes included. Two exact orders
of the same live candidates with the same flags list the same candidates (`RankedAlike`), because a
sequence sorted by a total order is determined by its elements. Hence an undo restores the rank, and what a
selection reads from the cached order of slots is what the reference gets by sorting its candidates.

The refinement `Spec => ImplementsReference` comes last (`NextRefined`, one lemma per action). The
index keeps a card at its slot and leaves a tombstone when it goes; the reference keeps a list
without holes. `IsView` says that a list of slots names the live ones in turn, and the lemmas say what
becomes of that list when a slot's content changes in place, one slot dies, or slots are added
at the end (`ViewExtended`). An undo needs only the universe it brings back, an answer only that the
cut of the stack at its limit is the same on both sides. The refresh is the step that needs the rank:
it picks its members from the head of the cached order, the reference from the list it has
just sorted. That is where `~RevisitsRetention` comes in, as flags decide the order.

`RuntimeSessionProofs` proves, whatever `Faults` is, the native invariant
(types, `FramesBelongToSession`, `PendingExcludesLive`, `UndoRemovesOneReview`),
and under `Faults = {}` the full one: `UndoHistoryMirrored`, `DescribesModel`,
`HandleIsLive`, and that each step of the runtime is a step of `UndoableLog` or a
stutter (`ImplementsUndoableLog`).

`OwnerThreadProofs` proves, for any number of callers and any `Faults`, `TypeOK`,
`ServedOnceInOrder` and `StopDrainsQueue`. The invariant states the first element by
element (`InOrder`: the i-th served request is i, the one in hand comes next, the
queue goes on from there) and adds that the sentinel, once queued, is the last
request accepted (`SentinelIsLast`), which is what makes draining the queue the
same as serving everything.

`ReviewTransactionProofs` first proves that a journal is exact (`JournalIsExact`): from a feature
state that agrees with an earlier one on whatever the journal's keys do not cover, playing it back
gives the earlier one, entry by entry, generator and counters included; and that repairing an arena
after an undo is sound (`RestoreIsSound`): if it mirrored the states before, it mirrors those after,
or is gone.

It proves from them `TypeOK`, `OneHome`, `GpuMirrorsState`,
`CachedSlotsAreCurrent`, `FailureLeavesNoTrace` and `UndoRestoresExactly`. An undo needs more
than that the newest journal restores: each frame must restore *its* snapshot from the snapshot
the next frame was taken of (`Untouched`: a review changes nothing its journal does not name),
because that is the state it will meet once the newer ones are undone. During a call the same is
said of the call's own start (`CallIsExact`), and that nothing is flat once the first phase is over
(`NothingFlat`), for the forward pass and the journal look at the canonical maps only.

`LogMakesTheState` then says what all of this amounts to: features, encodings, counters, generator
and every recurrent state are what processing the log of completed reviews from scratch would give
(`StateFollowsLog`), and each step only appends to that log, takes the newest undoable review back
or changes nothing a client can tell (`ImplementsUndoableLog`). `LogInv` strengthens it: each frame's
snapshot follows *its* log, which is one review shorter than the next one's (`FramesFollow`), and
during a call the maps follow the log extended by the rows already done, by one more while a row's
states are stored and its journal is not yet recorded (`CallFollows`).

`GpuProcessProofs` proves, for any inputs, devices and batch size, `StatesSurvive` and
`ReportIsExact`. The invariant says that the two calls keep step (`CallsMatch`,
`WithinBatch`); that what was committed is what was collected plus what the caller is still to be
told (`CallIsAccounted`, `HistoryIsAccounted`); and where states can be: in the arena only while it
is open, on the host before anything runs on the CPU (`CpuFindsStatesOnHost`), and, half-way through a
synchronization, what was read from the arena is still there and the working set is gone
(`ReadIsSound`). `CallsKeepTheirPromise` is the safety part of the refinement, `Spec =>
Promise!Safety`: a call commits rows of its input, in order, and what it reports is what
`CommittedPrefix` allows. It needs one more invariant, `InputIsSplit`, that the input of a call is
what it has collected, then the batch in hand, then what is left, whichever of the two devices goes
on with it.

`ReviewPipelineProofs` proves, for any number of stages, rows and channel slots, `TypeOK`,
`StatesMatchFeatures`, `StagesFoldPrefixes`, `FailureIsReported` and `ImplementsAtomicBatch`. The
invariant (`ReviewPipelineInvariant`) says where every row is: each channel holds a consecutive
piece of the batch that begins where its receiver stands and ends where its sender does, each stage's
detached states are the fold of what it has taken, and nothing is committed before the last stage
has finished. For the failures it relates neighbouring threads: a thread that stopped early has
dropped its channel ends, and someone who stopped first holds the error that is reported.

`CheckpointProofs` proves, whatever crashes, `TypeOK` and that loads and saves are atomic
(`ImplementsCheckpointStore`); and, if clients do not publish over a file that another runtime has
loaded (`Exclusive`), `FilesAreWhole` and `RuntimesAreSelections`. The lemmas say how `Merged` and
`Selected` undo each other on a log; the invariant, that a file under construction already holds the
part of the log that was written and that nobody else touches it.

`SubsequenceProofs` holds what several of them need: that the rows chosen from a longer sequence are
those chosen before followed by the new one, and induction in a form the provers can use, over a
*set* of numbers or of sequences instead of a predicate.

Some of what is proved is in no run, since it follows: `TypeOK` of `LiveIndex`, `RuntimeSession`,
`OwnerThread` and `ReviewTransaction`, `FramesSaveEachCardOnce`, `UndoRestoresUniverse`,
`GenerationAdvances`, `PendingExcludesLive` and `OneHome`.

Only model-checked: all liveness, that of `ImplementsCommittedPrefix` included (that a call returns),
and what the algorithm modules compute.

## Plan

Done: everything in the table of modules. Left, in order:

1. The twins of `BulkLayers` in `model.rs` that only predict.
2. Refusal of damaged files, and the dictionaries of `py_state.rs`.

## Not modelled

* Arithmetic: kernels and shaders inside a row, fused variants, SIMD, rounding, the lightning
  approximations, compilation of GPU pipelines. The paths between kernels are in `MixerForward` and
  `ScanPlan`.
* Weight loading, argument validation and conversion, profiling and its twins of functions, the
  vendored matrix multiplication, release tooling: they keep no state between calls that a
  property here could speak of.
* Of checkpoints: durability (nothing is synced to the disk, so a crash of the machine may lose what was
  published), the temporary file a crash or an interrupted caller leaves behind (nobody reads
  it), the dictionaries of `py_state.rs`, and what a damaged file is refused for.
* Of processing: the environment variable that limits modules for experiments, and
  pipelines of timing queries.
