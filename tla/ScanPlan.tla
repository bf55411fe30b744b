------------------------------- MODULE ScanPlan -------------------------------
(***************************************************************************)
(* One batch of reviews on the GPU.  The rows of a module are laid out one *)
(* stream per key, streams are cut in chunks, and the recurrence of a      *)
(* chunk starts from an associative scan over the chunks before it.  The   *)
(* states come from host memory, from the buffer the last batch left, or   *)
(* from an arena of shards, and go back to where the store is kept.        *)
(*                                                                         *)
(* A row of numbers is one number, a kernel a fixed mixing of what it      *)
(* reads; the recurrence is an affine map of the state, as in the code.    *)
(* Rows, chunks and entities count from 1.                                 *)
(***************************************************************************)
EXTENDS Integers, FiniteSets, SequencesExt

Invalid == 0
Layers == <<1, 2>>

Prime == 10007
Mix(a, b) == (a * 911 + b * 31 + a * b + 17) % Prime

\* Kernel n of layer l of module w, applied to two rows.
Kernel(w, l, n, a, b) == Mix(Mix((w * Len(Layers) + l) * 10 + n, a), b)

Add(a, b) == (a + b) % Prime

Lesser(a, b) == IF a < b THEN a ELSE b
Greater(a, b) == IF a > b THEN a ELSE b
CeilDiv(a, b) == (a + b - 1) \div b

\* The sequence f, evaluated now.
Forced(f) == SubSeq(f, 1, Len(f))

\* A fold from the left; TLC evaluates each step before it takes the next one.
InSteps(Op(_, _), base, s) ==
  LET after[n \in 0..Len(s)] ==
        IF n = 0 THEN base
        ELSE CHOOSE next \in {Op(before, s[n]) : before \in {after[n - 1]}} : TRUE
  IN  after[Len(s)]

\* The positions of a sequence that pass a test, in their order.
Positions(s, Test(_)) == SelectSeq([i \in 1..Len(s) |-> i], Test)

\* The sequence with the value of each pair written at the pair's own place.
Written(values, pairs) ==
  Forced([i \in DOMAIN values |->
    LET here == {j \in DOMAIN pairs : pairs[j][1] = i}
    IN  IF here = {} THEN values[i] ELSE pairs[CHOOSE j \in here : TRUE][2]])

\* What a state nobody knows is read as, and what a fresh buffer may hold.
ZeroState == [l \in DOMAIN Layers |-> [shift |-> 0, wkv |-> 0, chan |-> 0]]
StaleState == [l \in DOMAIN Layers |-> [shift |-> 7, wkv |-> 7, chan |-> 7]]

-------------------------------------------------------------------------------
(* The plan of a module: its rows.                                         *)

\* The reviews of each key, the keys in the order of their first reviews.
Streams(keys) ==
  LET firsts == Positions(keys, LAMBDA i : \A j \in 1..(i - 1) : keys[j] # keys[i])
  IN  Forced([e \in DOMAIN firsts |->
        [key |-> keys[firsts[e]],
         rows |-> Positions(keys, LAMBDA i : keys[i] = keys[firsts[e]])]])

RowsPerReview(mode) == IF mode = "state_only" THEN 1 ELSE 2

\* Each row of the sequence: the row of the batch it is, the last row its key
\* processed before it, and where the state of its key is read and written.
RowPlan(streams, mode, known) ==
  LET perReview == RowsPerReview(mode)
      Row(e, original, previous, last) ==
        [original |-> original, previous |-> previous, entity |-> e,
         known |-> known[e], last |-> last]
      OfReview(done, e, position) ==
        LET rows == streams[e].rows
            end == rows[position] * perReview
            previous == IF position = 1 THEN Invalid ELSE Len(done)
            process == Row(e, end, previous, position = Len(rows))
        IN  IF mode = "state_only" THEN Append(done, process)
            ELSE done \o <<Row(e, end - 1, previous, FALSE), process>>
      OfStream(done, e) ==
        FoldLeftDomain(LAMBDA acc, position : OfReview(acc, e, position),
                       done, streams[e].rows)
  IN  FoldLeftDomain(OfStream, <<>>, streams)

\* The chunks of every stream; all but the last of a stream have a transform,
\* and all but the first start from the transform of the chunk before.
ChunkPlan(streams, mode, chunkReviews) ==
  LET perReview == RowsPerReview(mode)
      OfStream(plan, e) ==
        LET reviews == Len(streams[e].rows)
            count == CeilDiv(reviews, chunkReviews)
            Span(c) == [start |-> plan.row + (c - 1) * chunkReviews * perReview,
                        reviews |-> Lesser(reviews - (c - 1) * chunkReviews, chunkReviews),
                        entity |-> e]
            before == Len(plan.transforms)
        IN  [row |-> plan.row + reviews * perReview,
             run |-> Greater(plan.run, count - 1),
             transforms |-> plan.transforms \o
               [c \in 1..(count - 1) |-> [span |-> Span(c), local |-> c - 1]],
             chunks |-> plan.chunks \o
               [c \in 1..count |->
                  [span |-> Span(c),
                   prefix |-> IF c = 1 THEN Invalid ELSE before + c - 1,
                   last |-> c = count]]]
  IN  FoldLeftDomain(OfStream,
                     [row |-> 1, run |-> 0, transforms |-> <<>>, chunks |-> <<>>],
                     streams)

-------------------------------------------------------------------------------
(* Where the states of a module are.  A store of kind "host" has them all  *)
(* in host memory.  One of kind "resident" has those of the last batch in  *)
(* one of two buffers; one of kind "arena" has them in shards of limited   *)
(* room.  Host memory then has the others.                                 *)

NewStore(kind) ==
  [kind |-> kind, host |-> <<>>, keys |-> <<>>, slot |-> Invalid,
   next |-> <<<<>>, <<>>>>, shards |-> <<>>]

\* The places of a key in the arena: at most one.
Located(store, key) ==
  {at \in UNION {{<<s, e>> : e \in DOMAIN store.shards[s].keys} :
                 s \in DOMAIN store.shards} :
     store.shards[at[1]].keys[at[2]] = key}

\* Where the state of each stream comes from: an entity of the resident
\* buffer, or one of the values to upload, zeros for a key nobody knows.
EntityPlan(store, streams) ==
  LET OfStream(plan, stream) ==
        LET key == stream.key
            resident == store.kind = "resident" /\ key \in ToSet(store.keys)
            onDevice == resident \/ (store.kind = "arena" /\ Located(store, key) # {})
            inHost == key \in DOMAIN store.host
            uploaded == Len(plan.values) + 1
        IN  [known |-> Append(plan.known, onDevice \/ inHost),
             sources |-> Append(plan.sources,
               [resident |-> resident,
                entity |-> IF resident
                           THEN CHOOSE e \in DOMAIN store.keys : store.keys[e] = key
                           ELSE uploaded]),
             uploads |-> Append(plan.uploads, IF onDevice THEN Invalid ELSE uploaded),
             values |-> IF onDevice THEN plan.values
                        ELSE Append(plan.values,
                                    IF inHost THEN store.host[key] ELSE ZeroState)]
  IN  FoldLeft(OfStream, [known |-> <<>>, sources |-> <<>>, uploads |-> <<>>,
                          values |-> <<>>], streams)

\* The entities of the resident buffer that this batch does not use.
EvictedEntities(store, streams) ==
  Positions(store.keys, LAMBDA e : \A i \in DOMAIN streams : streams[i].key # store.keys[e])

\* The transfers between the shards and the plan: keys already there keep their
\* places, a new key goes to the last shard with room or to a new shard.
ArenaPlan(store, streams, uploads, room) ==
  LET Place(plan, e) ==
        LET at == Located(store, streams[e].key)
            free == {s \in DOMAIN plan.counts : plan.counts[s] < room}
            open == IF free = {} THEN Append(plan.counts, 0) ELSE plan.counts
            shard == IF free = {} THEN Len(open) ELSE CHOOSE s \in free : \A t \in free : t <= s
            place == open[shard] + 1
        IN  IF at # {}
            THEN [plan EXCEPT !.existing = Append(@,
                    LET there == CHOOSE place1 \in at : TRUE
                    IN  [shard |-> there[1], entity |-> there[2], plan |-> e])]
            ELSE [counts |-> [open EXCEPT ![shard] = place],
                  existing |-> plan.existing,
                  additions |-> Append(plan.additions,
                                       [shard |-> shard, entity |-> place, plan |-> e]),
                  misses |-> Append(plan.misses, [entity |-> uploads[e], plan |-> e]),
                  fresh |-> Append(plan.fresh, [shard |-> shard, entity |-> place,
                                                key |-> streams[e].key])]
      placed == FoldLeftDomain(Place,
                  [counts |-> [s \in DOMAIN store.shards |-> Len(store.shards[s].keys)],
                   existing |-> <<>>, additions |-> <<>>, misses |-> <<>>, fresh |-> <<>>],
                  streams)
      Of(transfers, s) == SelectSeq(transfers, LAMBDA t : t.shard = s)
  IN  [counts |-> placed.counts, misses |-> placed.misses, fresh |-> placed.fresh,
       gathers |-> Forced([s \in DOMAIN placed.counts |-> Of(placed.existing, s)]),
       scatters |-> Forced([s \in DOMAIN placed.counts |->
                      Of(placed.existing, s) \o Of(placed.additions, s)])]

\* A shard with a buffer for the required entities; the used ones move along.
Grown(shard, required, room) ==
  LET capacity == Greater(required, Lesser(required + required \div 8, room))
      used == Len(shard.keys)
  IN  IF Len(shard.buffer) >= required THEN shard
      ELSE [keys |-> shard.keys,
            buffer |-> SubSeq(shard.buffer, 1, used)
                       \o [e \in 1..(capacity - used) |-> StaleState]]

\* The shards of the arena, with those that the plan adds or uses grown.
Allocated(store, arena, room) ==
  LET old(s) == IF s \in DOMAIN store.shards THEN store.shards[s]
                ELSE [keys |-> <<>>, buffer |-> <<>>]
  IN  Forced([s \in DOMAIN arena.counts |->
        IF arena.scatters[s] = <<>> THEN old(s)
        ELSE Grown(old(s), arena.counts[s], room)])

\* Makes what was planned for the new keys the places they have.
ArenaCommitted(shards, fresh) ==
  FoldLeft(LAMBDA acc, new : [acc EXCEPT ![new.shard].keys = Append(@, new.key)],
           shards, fresh)

-------------------------------------------------------------------------------
(* One layer.  What a row computes of itself, the row it is shifted by and *)
(* the first layer's values is the same here and row by row.               *)

Normalized(w, l, x) == Kernel(w, l, 1, x, 0)
ChannelNormalized(w, l, t) == Kernel(w, l, 2, t, 0)

\* The values, keys, decay and gate of a row; v0 is its value at layer 1.
Prepared(w, l, norm, shift, v0) ==
  LET own == Kernel(w, l, 3, norm, shift)
  IN  [v |-> IF l = 1 THEN own ELSE Mix(own, v0),
       k |-> Kernel(w, l, 4, norm, shift),
       w |-> Kernel(w, l, 5, norm, shift),
       r |-> Kernel(w, l, 6, norm, shift)]

\* The state after a row, and the row read from it.
Updated(state, row) == (state * row.w + row.v * row.k) % Prime
Candidate(state, row) == Mix(Updated(state, row), row.r)

\* The residuals of the two mixers.
TimeResidual(w, l, x, out, row) ==
  Add(x, Kernel(w, l, 7, out, Mix(row.k, Mix(row.v, row.r))))
ChannelResidual(w, l, t, norm, shift) == Add(t, Kernel(w, l, 8, norm, shift))

\* The row before, or the state, or the row itself.
ShiftedBy(w, l, row, norm, Before(_), kept) ==
  IF row.previous # Invalid THEN Before(row.previous)
  ELSE IF row.known THEN kept ELSE norm

\* prepare_layer; after the first layer v0 stays.
PreparedRows(w, l, rows, x, v0, states) ==
  Forced([i \in DOMAIN rows |->
    LET norm == Normalized(w, l, x[i])
        shift == ShiftedBy(w, l, rows[i], norm,
                           LAMBDA before : Normalized(w, l, x[before]),
                           states[rows[i].entity][l].shift)
    IN  Prepared(w, l, norm, shift, v0[i])])

\* The rows of a span that change the state, in their order.
ProcessRow(span, mode, review) ==
  IF mode = "state_only" THEN span.start + review - 1 ELSE span.start + 2 * review - 1

\* build_chunk_transforms: the affine map of a chunk, [mul, add].
BuiltTransforms(plan, mode, prepared) ==
  Forced([c \in DOMAIN plan.transforms |->
    LET span == plan.transforms[c].span
    IN  FoldLeft(LAMBDA map, review :
                   LET row == prepared[ProcessRow(span, mode, review)]
                   IN  [mul |-> (map.mul * row.w) % Prime, add |-> Updated(map.add, row)],
                 [mul |-> 1, add |-> 0],
                 [review \in 1..span.reviews |-> review])])

\* The map that applies left, then right.
Composed(left, right) ==
  [mul |-> (left.mul * right.mul) % Prime,
   add |-> (left.add * right.mul + right.add) % Prime]

\* Mutant of ScanLevel: the maps of a chunk and of those before it are swapped.
ScanLevelSwapped(plan, offset, buffers, source) ==
  LET from == buffers[source]
      to == Forced([c \in DOMAIN plan.transforms |->
              IF plan.transforms[c].local < offset THEN from[c]
              ELSE Composed(from[c], from[c - offset])])
  IN  [buffers EXCEPT ![3 - source] = to]

\* scan_chunk_transforms: one level, from one of the two buffers to the other.
ScanLevel(plan, offset, buffers, source) ==
  LET from == buffers[source]
      to == Forced([c \in DOMAIN plan.transforms |->
              IF plan.transforms[c].local < offset THEN from[c]
              ELSE Composed(from[c - offset], from[c])])
  IN  [buffers EXCEPT ![3 - source] = to]

\* The levels with doubling offsets; the last one's buffer is replayed from.
Scanned(plan, built) ==
  LET levels == CHOOSE n \in 0..plan.run :
                  /\ 2 ^ n >= plan.run
                  /\ \A m \in 0..(n - 1) : 2 ^ m < plan.run
      Level(scan, n) == [buffers |-> ScanLevel(plan, 2 ^ (n - 1), scan.buffers, scan.source),
                         source |-> 3 - scan.source]
      stale == [c \in DOMAIN built |-> [mul |-> 3, add |-> 5]]
      last == FoldLeft(Level, [buffers |-> <<built, stale>>, source |-> 1],
                       [n \in 1..levels |-> n])
  IN  last.buffers[last.source]

\* replay_chunks: the outputs of the rows of a chunk from the state before it,
\* and, at the end of a stream, the state it leaves.
Replayed(l, chunk, mode, prepared, scanned, states) ==
  LET kept == states[chunk.span.entity][l].wkv
      map == scanned[chunk.prefix]
      start == IF chunk.prefix = Invalid THEN kept
               ELSE (kept * map.mul + map.add) % Prime
      OfReview(replay, review) ==
        LET row == ProcessRow(chunk.span, mode, review)
            process == <<row, Candidate(replay.wkv, prepared[row])>>
            query == <<row - 1, Candidate(replay.wkv, prepared[row - 1])>>
        IN  [wkv |-> Updated(replay.wkv, prepared[row]),
             out |-> replay.out \o IF mode = "state_only" THEN <<process>>
                                   ELSE <<query, process>>]
  IN  FoldLeft(OfReview, [wkv |-> start, out |-> <<>>],
               [review \in 1..chunk.span.reviews |-> review])

\* One layer over all rows: the rows, v0 and the next states it leaves.
LayerPass(w, l, plan, mode, run, states) ==
  LET rows == plan.rows
      x == run.x
      prepared == PreparedRows(w, l, rows, x, run.v0, states)
      scanned == Scanned(plan, BuiltTransforms(plan, mode, prepared))
      replays == Forced([c \in DOMAIN plan.chunks |->
                   Replayed(l, plan.chunks[c], mode, prepared, scanned, states)])
      outputs == Written(x, FoldLeft(LAMBDA acc, replay : acc \o replay.out, <<>>, replays))
      t == Forced([i \in DOMAIN rows |->
             TimeResidual(w, l, x[i], outputs[i], prepared[i])])
      channel == Forced([i \in DOMAIN rows |-> ChannelNormalized(w, l, t[i])])
      lastRow(e) == CHOOSE i \in DOMAIN rows : rows[i].entity = e /\ rows[i].last
      lastChunk(e) == CHOOSE c \in DOMAIN plan.chunks :
                        plan.chunks[c].span.entity = e /\ plan.chunks[c].last
  IN  [x |-> Forced([i \in DOMAIN rows |->
               ChannelResidual(w, l, t[i], channel[i],
                 ShiftedBy(w, l, rows[i], channel[i], LAMBDA before : channel[before],
                           states[rows[i].entity][l].chan))]),
       v0 |-> IF l = 1 THEN Forced([i \in DOMAIN rows |-> prepared[i].v]) ELSE run.v0,
       next |-> Forced([e \in DOMAIN states |->
                  Append(run.next[e],
                    [shift |-> Normalized(w, l, x[lastRow(e)]),
                     wkv |-> replays[lastChunk(e)].wkv,
                     chan |-> channel[lastRow(e)]])])]

\* All layers, on the rows in the order of the sequence.
ModulePass(w, plan, mode, x, states) ==
  InSteps(LAMBDA run, l : LayerPass(w, l, plan, mode, run, states),
           [x |-> x, v0 |-> [i \in DOMAIN x |-> 0],
            next |-> [e \in DOMAIN states |-> <<>>]],
           Layers)

-------------------------------------------------------------------------------
(* States as raw values: by entity, by layer, by field.                    *)

Fields == 3
Raw(states) ==
  FoldLeft(LAMBDA acc, state :
             acc \o FoldLeft(LAMBDA inner, s : inner \o <<s.shift, s.wkv, s.chan>>,
                             <<>>, state),
           <<>>, states)

\* module_state_from_values, on the values of one entity.
StateFromValues(values) ==
  Forced([l \in DOMAIN Layers |->
    [shift |-> values[(l - 1) * Fields + 1], wkv |-> values[(l - 1) * Fields + 2],
     chan |-> values[(l - 1) * Fields + 3]]])

\* The slices of the values of a chunk, one per entity.
EntityStates(values, count) ==
  LET stride == Len(Layers) * Fields
  IN  Forced([e \in 1..count |->
        StateFromValues(SubSeq(values, (e - 1) * stride + 1, e * stride))])

-------------------------------------------------------------------------------
(* One module over a batch.                                                *)

\* ModuleBufferCache::prepare: without states on the device the host's values
\* are the states; otherwise they wait in a buffer of their own.
Uploaded(store, entities) ==
  IF store.kind = "arena" \/ (store.kind = "resident" /\ store.slot # Invalid)
  THEN [states |-> [e \in DOMAIN entities.known |-> StaleState], host |-> entities.values]
  ELSE [states |-> entities.values, host |-> <<>>]

\* The states the kernels read, gathered from the resident buffer, or from the
\* shards and, where they miss, from the host's values.
Gathered(store, entities, arena, shards) ==
  LET uploaded == Uploaded(store, entities)
      misses == [i \in DOMAIN arena.misses |->
                   <<arena.misses[i].plan, uploaded.host[arena.misses[i].entity]>>]
      OfShard(acc, s) ==
        Written(acc, [i \in DOMAIN arena.gathers[s] |->
          <<arena.gathers[s][i].plan, shards[s].buffer[arena.gathers[s][i].entity]>>])
  IN  CASE store.kind = "arena" ->
             FoldLeftDomain(OfShard, Written(uploaded.states, misses), arena.gathers)
        [] store.kind = "resident" /\ store.slot # Invalid ->
             Forced([e \in DOMAIN entities.sources |->
               LET source == entities.sources[e]
               IN  IF source.resident THEN store.next[store.slot][source.entity]
                   ELSE uploaded.host[source.entity]])
        [] OTHER -> uploaded.states

\* The buffer the next states go to.
OutputSlot(store) ==
  IF store.kind = "resident" /\ store.slot # Invalid THEN 3 - store.slot ELSE 1

\* Keeps the states of these keys in host memory.
WithHost(host, keys, states) ==
  FoldLeftDomain(LAMBDA acc, i : (keys[i] :> states[i]) @@ acc, host, keys)
WithoutHost(host, keys) == [key \in DOMAIN host \ ToSet(keys) |-> host[key]]

\* Plans and runs a module: the rows of the batch after it, the store as the
\* kernels left it, the states to read back and what the commit needs.
Process(store, w, keys, mode, chunkReviews, room, x) ==
  LET streams == Streams(keys)
      entities == EntityPlan(store, streams)
      arena == ArenaPlan(store, streams, entities.uploads, room)
      shards == IF store.kind = "arena" THEN Allocated(store, arena, room) ELSE <<>>
      plan == [rows |-> RowPlan(streams, mode, entities.known)]
              @@ ChunkPlan(streams, mode, chunkReviews)
      states == Gathered(store, entities, arena, shards)
      sequence == Forced([i \in DOMAIN plan.rows |-> x[plan.rows[i].original]])
      run == ModulePass(w, plan, mode, sequence, states)
      evicted == EvictedEntities(store, streams)
  IN  [x |-> Written(x, [i \in DOMAIN plan.rows |-> <<plan.rows[i].original, run.x[i]>>]),
       ran |-> [store EXCEPT !.next[OutputSlot(store)] = run.next, !.shards = shards],
       keys |-> Forced([e \in DOMAIN streams |-> streams[e].key]),
       evicted |-> Forced([i \in DOMAIN evicted |-> store.keys[evicted[i]]]),
       scatters |-> arena.scatters, fresh |-> arena.fresh,
       readback |-> CASE store.kind = "arena" -> <<>>
                      [] store.kind = "resident" ->
                           Forced([i \in DOMAIN evicted |-> store.next[store.slot][evicted[i]]])
                      [] OTHER -> run.next]

\* output_heads: a prediction's probability from its own row, and the curves
\* from the row that is processed.
Heads(mode, x) ==
  LET reviews == Len(x) \div 2
      Of(n, offset) == Forced([r \in 1..reviews |-> Kernel(0, 1, n, x[2 * r - offset], 0)])
  IN  [probabilities |-> IF mode = "state_only" THEN <<>> ELSE Of(1, 1),
       ahead |-> IF mode = "curves" THEN Of(2, 0) ELSE <<>>,
       weights |-> IF mode = "curves" THEN Of(3, 0) ELSE <<>>]

\* Everything a batch reads back, in one buffer.
ReadbackOf(heads, done) ==
  heads.probabilities \o heads.ahead \o heads.weights
  \o FoldLeft(LAMBDA acc, module : acc \o Raw(module.readback), <<>>, done)

\* decode_process_readback: the outputs and the states, from where the counts
\* of reviews and of states say that they are.
Decoded(mode, reviews, done, values) ==
  LET probabilities == IF mode = "state_only" THEN 0 ELSE reviews
      curves == IF mode = "curves" THEN reviews ELSE 0
      stride == Len(Layers) * Fields
      OfModule(acc, module) ==
        LET count == Len(IF module.ran.kind = "resident" THEN module.evicted ELSE module.keys)
            read == IF module.ran.kind = "arena" THEN 0 ELSE count
        IN  [offset |-> acc.offset + read * stride,
             states |-> Append(acc.states,
               EntityStates(SubSeq(values, acc.offset + 1, acc.offset + read * stride), read))]
  IN  [heads |-> [probabilities |-> SubSeq(values, 1, probabilities),
                  ahead |-> SubSeq(values, probabilities + 1, probabilities + curves),
                  weights |-> SubSeq(values, probabilities + curves + 1,
                                     probabilities + 2 * curves)],
       states |-> InSteps(OfModule, [offset |-> probabilities + 2 * curves, states |-> <<>>],
                          done).states]

\* The store after the commit, with the states that were read back.
Committed(module, states) ==
  LET store == module.ran
      next == store.next[OutputSlot(store)]
      OfShard(acc, s) ==
        [acc EXCEPT ![s].buffer = Written(@,
           [i \in DOMAIN module.scatters[s] |->
              <<module.scatters[s][i].entity, next[module.scatters[s][i].plan]>>])]
  IN  CASE store.kind = "arena" ->
             [store EXCEPT !.shards = ArenaCommitted(
                             FoldLeftDomain(OfShard, @, module.scatters), module.fresh),
                           !.host = WithoutHost(@, module.keys)]
        [] store.kind = "resident" ->
             [store EXCEPT !.slot = OutputSlot(store), !.keys = module.keys,
                           !.host = WithoutHost(WithHost(@, module.evicted, states),
                                                module.keys)]
        [] OTHER -> [store EXCEPT !.host = WithHost(@, module.keys, states)]

\* clear_transient_preserving_resident, after the device ran out of memory.
TransientCleared(store) ==
  [store EXCEPT !.next = [slot \in 1..2 |-> IF slot = store.slot THEN @[slot] ELSE <<>>]]

-------------------------------------------------------------------------------
(* Bringing the states back to host memory.                                *)

\* module_states_from_shared_values: one family of rows per field and layer,
\* of which each entity has a view.
SharedStates(values, count) ==
  LET Family(l, field) ==
        Forced([e \in 1..count |-> values[((e - 1) * Len(Layers) + l - 1) * Fields + field]])
      families == Forced([l \in DOMAIN Layers |-> <<Family(l, 1), Family(l, 2), Family(l, 3)>>])
  IN  Forced([e \in 1..count |->
        Forced([l \in DOMAIN Layers |->
          [shift |-> families[l][1][e], wkv |-> families[l][2][e],
           chan |-> families[l][3][e]]])])

\* fully_resident_sync_chunks.
SyncChunks(shards, perChunk) ==
  LET OfShard(acc, s) ==
        LET keys == shards[s].keys
        IN  acc \o [n \in 1..CeilDiv(Len(keys), perChunk) |->
              [shard |-> s, first |-> (n - 1) * perChunk,
               keys |-> SubSeq(keys, (n - 1) * perChunk + 1, Lesser(n * perChunk, Len(keys)))]]
  IN  FoldLeftDomain(OfShard, <<>>, shards)

\* The values a submitted copy of the chunk reads.
ReadBack(shards, chunk) ==
  Raw(SubSeq(shards[chunk.shard].buffer, chunk.first + 1, chunk.first + Len(chunk.keys)))

\* materialize_flat_state_readback: the states of a chunk, from its buffer.
Taken(flat, values, keys) == WithHost(flat, keys, EntityStates(values, Len(keys)))

\* synchronize_flat_state_chunks_pipelined: while a chunk is taken in from one
\* readback buffer, the next one is copied to the other.
SyncPipelined(shards, chunks) ==
  LET OfChunk(sync, n) ==
        LET ring == IF n = Len(chunks) THEN sync.ring
                    ELSE [sync.ring EXCEPT ![3 - sync.slot] = ReadBack(shards, chunks[n + 1])]
        IN  [ring |-> ring, slot |-> 3 - sync.slot,
             flat |-> Taken(sync.flat, ring[sync.slot], chunks[n].keys)]
  IN  FoldLeftDomain(OfChunk,
                     [ring |-> <<ReadBack(shards, chunks[1]), <<>>>>, slot |-> 1,
                      flat |-> <<>>],
                     chunks).flat

\* Chunk by chunk, the states taken in as flat values, as views or as tensors.
SyncSerial(shards, chunks, views) ==
  FoldLeft(LAMBDA acc, chunk :
             WithHost(acc, chunk.keys,
                      IF views THEN SharedStates(ReadBack(shards, chunk), Len(chunk.keys))
                      ELSE EntityStates(ReadBack(shards, chunk), Len(chunk.keys))),
           <<>>, chunks)

\* All states of the module in host memory.
Synchronized(store, perChunk, how) ==
  LET chunks == SyncChunks(store.shards, perChunk)
      read == IF how = "pipelined" /\ Len(chunks) > 1
              THEN SyncPipelined(store.shards, chunks)
              ELSE SyncSerial(store.shards, chunks, how = "views")
      resident == IF store.slot = Invalid THEN store.host
                  ELSE WithHost(store.host, store.keys,
                                EntityStates(Raw(store.next[store.slot]), Len(store.keys)))
  IN  [key \in DOMAIN resident \cup DOMAIN read |->
         IF key \in DOMAIN read THEN read[key] ELSE resident[key]]

-------------------------------------------------------------------------------
(* The reference: review by review, row by row, a state per key.           *)

RowForward(w, x, known, state) ==
  InSteps(LAMBDA run, l :
    LET norm == Normalized(w, l, run.x)
        row == Prepared(w, l, norm, IF known THEN state[l].shift ELSE norm, run.v0)
        t == TimeResidual(w, l, run.x, Candidate(state[l].wkv, row), row)
        chan == ChannelNormalized(w, l, t)
    IN  [x |-> ChannelResidual(w, l, t, chan, IF known THEN state[l].chan ELSE chan),
         v0 |-> IF l = 1 THEN row.v ELSE run.v0,
         next |-> Append(run.next, [shift |-> norm, wkv |-> Updated(state[l].wkv, row),
                                    chan |-> chan])],
    [x |-> x, v0 |-> 0, next |-> <<>>], Layers)

\* A module of the test model is keyed by the card or has one state for all.
ModuleOrder == <<1, 2>>
KeyIn(w, card) == IF w = 1 THEN card ELSE 0

\* A row through all modules, whose states it leaves.
ReferenceRow(states, card, x) ==
  InSteps(LAMBDA run, w :
    LET key == KeyIn(w, card)
        known == key \in DOMAIN states[w]
        forward == RowForward(w, run.x, known, IF known THEN states[w][key] ELSE ZeroState)
    IN  [x |-> forward.x,
         states |-> [run.states EXCEPT ![w] = WithHost(@, <<key>>, <<forward.next>>)]],
    [x |-> x, states |-> states], ModuleOrder)

\* The rows of a batch: of each review the prediction's, then the processed one.
Features(cards, mode, batch) ==
  Forced([i \in 1..(Len(cards) * RowsPerReview(mode)) |-> (100 * batch + 7 * i) % Prime])

ReferenceBatch(states, cards, mode, x) ==
  LET OfReview(run, i) ==
        LET end == i * RowsPerReview(mode)
            query == ReferenceRow(run.states, cards[i], x[end - 1])
            process == ReferenceRow(run.states, cards[i], x[end])
        IN  [states |-> process.states,
             x |-> run.x \o IF mode = "state_only" THEN <<process.x>>
                            ELSE <<query.x, process.x>>]
  IN  InSteps(OfReview, [states |-> states, x |-> <<>>], [i \in DOMAIN cards |-> i])

\* The same batch on the GPU, after an attempt that failed before its commit.
ScannedBatch(stores, cards, c, x) ==
  LET Attempt(start) ==
        InSteps(LAMBDA run, w :
          LET done == Process(start[w], w, [i \in DOMAIN cards |-> KeyIn(w, cards[i])],
                              c.mode, c.chunk, c.room, run.x)
          IN  [x |-> done.x, done |-> Append(run.done, done)],
          [x |-> x, done |-> <<>>], ModuleOrder)
      first == Attempt(stores)
      after == CASE c.fails = "memory" ->
                      [w \in DOMAIN stores |-> TransientCleared(first.done[w].ran)]
                 [] c.fails = "device" -> [w \in DOMAIN stores |-> first.done[w].ran]
                 [] OTHER -> stores
      last == Attempt(after)
      values == ReadbackOf(Heads(c.mode, last.x), last.done)
      decoded == Decoded(c.mode, Len(cards), last.done, values)
  IN  [heads |-> decoded.heads,
       stores |-> Forced([w \in DOMAIN stores |->
                    Committed(last.done[w], decoded.states[w])])]

\* Batch by batch, the outputs are the reference's, and so are the states at the end.
ScanAgrees(c) ==
  LET OfBatch(run, n) ==
        LET x == Features(c.batches[n], c.mode, n)
            scan == ScannedBatch(run.stores, c.batches[n], c, x)
            reference == ReferenceBatch(run.states, c.batches[n], c.mode, x)
        IN  [stores |-> scan.stores, states |-> reference.states,
             same |-> run.same /\ scan.heads = Heads(c.mode, reference.x)]
      end == InSteps(OfBatch,
               [stores |-> [w \in DOMAIN ModuleOrder |-> NewStore(c.kind)],
                states |-> [w \in DOMAIN ModuleOrder |-> <<>>], same |-> TRUE],
               [n \in DOMAIN c.batches |-> n])
  IN  /\ end.same
      /\ \A w \in DOMAIN ModuleOrder :
           Synchronized(end.stores[w], c.perChunk, c.sync) = end.states[w]

===============================================================================
