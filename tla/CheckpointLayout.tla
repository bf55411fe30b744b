---------------------------- MODULE CheckpointLayout ----------------------------
(***************************************************************************)
(* The bytes of a checkpoint file: how a runtime is written to one and     *)
(* read back, whole or in part, and how a partly loaded runtime is merged  *)
(* with the file it came from while that file is streamed past, without    *)
(* either being in memory as a whole.                                      *)
(*                                                                         *)
(* A file is a sequence of cells, each a number with its width in bytes;   *)
(* metadata, names and the generator's state are one cell each.  A reader  *)
(* is the number of the next cell, and 0 once a read has failed.           *)
(***************************************************************************)
EXTENDS Integers, FiniteSets, SequencesExt

CONSTANTS
  Heads, HeadSize,   \* of the flat recurrent states
  Blocks,            \* Blocks[m]: the layers of module m, in forward order
  Dim                \* Dim[kind]: the length of an encoding

Kinds == <<"card", "note", "deck", "preset">>
ForwardOrder == <<"card", "deck", "note", "preset", "global">>

Channels == Heads * HeadSize
Matrix == Channels * HeadSize
FlatLayer == 2 * Channels + Matrix

Failed == 0

InSteps(Op(_, _), base, s) ==
  LET after[n \in 0..Len(s)] ==
        IF n = 0 THEN base
        ELSE CHOOSE next \in {Op(before, s[n]) : before \in {after[n - 1]}} : TRUE
  IN  after[Len(s)]

Joined(pieces) == InSteps(LAMBDA acc, piece : acc \o piece, <<>>, pieces)
Times(n) == [i \in 1..n |-> i]
Ascending(S) == SetToSortSeq(S, <)
With(map, k, v) == (k :> v) @@ map
Within(map, ids) == [k \in DOMAIN map \cap ids |-> map[k]]

-------------------------------------------------------------------------------
(* Cells, files and readers.                                                *)

Cell(width, v) == [width |-> width, value |-> v]
U8(v) == <<Cell(1, v)>>
U32(v) == <<Cell(4, v)>>
Word(v) == <<Cell(8, v)>>
Floats(vs) == [i \in DOMAIN vs |-> Cell(4, vs[i])]
Words(vs) == [i \in DOMAIN vs |-> Cell(8, vs[i])]
Blob(width, v) == Word(width) \o <<Cell(width, v)>>

\* The offset behind each cell, the first one being at `from`.
RECURSIVE Ends(_, _)
Ends(cells, from) ==
  IF Len(cells) <= 1 THEN [i \in DOMAIN cells |-> from + cells[i].width]
  ELSE LET half == Len(cells) \div 2
           left == Ends(SubSeq(cells, 1, half), from)
       IN  left \o Ends(SubSeq(cells, half + 1, Len(cells)), Last(left))

\* starts[i]: the offset of cell i; the last one is that of the end.
FileOf(cells) == [cells |-> cells, starts |-> <<0>> \o Ends(cells, 0)]

Size(cells) == Last(FileOf(cells).starts)

\* One cell; a cell of another width is never read as this one.
Read(file, at, width) ==
  IF at \in DOMAIN file.cells /\ file.cells[at].width = width
  THEN [value |-> file.cells[at].value, at |-> at + 1]
  ELSE [value |-> 0, at |-> Failed]

ReadMany(file, at, n, width) ==
  InSteps(LAMBDA acc, i : LET r == Read(file, acc.at, width)
                          IN  [value |-> Append(acc.value, r.value), at |-> r.at],
          [value |-> <<>>, at |-> at], Times(n))

Position(file, at) == IF at = Failed THEN 0 ELSE file.starts[at]

\* SeekFrom::Start.  An offset inside a cell makes every later read fail.
SeekTo(file, at, offset) ==
  IF at = Failed \/ offset \notin Range(file.starts) THEN Failed
  ELSE CHOOSE i \in DOMAIN file.starts : file.starts[i] = offset

BlobAt(file, at) == LET n == Read(file, at, 8) IN Read(file, n.at, n.value)

-------------------------------------------------------------------------------
(* Recurrent states.                                                        *)

Product(dims) == FoldLeft(LAMBDA a, b : a * b, 1, dims)

WriteTensor(t) ==
  U8(Len(t.dims)) \o Words(t.dims) \o Word(Len(t.values)) \o Floats(t.values)

ReadTensor(file, at, rank) ==
  LET tag == Read(file, at, 1)
      dims == ReadMany(file, IF tag.value = rank THEN tag.at ELSE Failed, rank, 8)
      count == Read(file, dims.at, 8)
      values == ReadMany(file,
                         IF count.value = Product(dims.value) THEN count.at ELSE Failed,
                         count.value, 4)
  IN  [value |-> [dims |-> dims.value, values |-> values.value], at |-> values.at]

WriteTensors(ts) == Word(Len(ts)) \o Joined([i \in DOMAIN ts |-> WriteTensor(ts[i])])

ReadTensors(file, at, rank) ==
  LET n == Read(file, at, 8)
  IN  InSteps(LAMBDA acc, i : LET r == ReadTensor(file, acc.at, rank)
                              IN  [value |-> Append(acc.value, r.value), at |-> r.at],
              [value |-> <<>>, at |-> n.at], Times(n.value))

WriteEntity(state) ==
  WriteTensors(state.shift) \o WriteTensors(state.wkv) \o WriteTensors(state.chan)

ReadEntity(file, at) ==
  LET shift == ReadTensors(file, at, 3)
      wkv == ReadTensors(file, shift.at, 5)
      chan == ReadTensors(file, wkv.at, 3)
  IN  [value |-> [shift |-> shift.value, wkv |-> wkv.value, chan |-> chan.value],
       at |-> IF Len(shift.value) = Len(wkv.value) /\ Len(shift.value) = Len(chan.value)
              THEN chan.at ELSE Failed]

\* A flat state has its layers one behind the other in one vector of values.
FlatPart(flat, dims, offset, n) ==
  WriteTensors([l \in 1..flat.layers |->
    LET base == (l - 1) * FlatLayer + offset
    IN  [dims |-> dims, values |-> SubSeq(flat.values, base + 1, base + n)]])

ShiftDims == <<1, 1, Channels>>
MatrixDims == <<1, 1, Heads, HeadSize, HeadSize>>

WriteFlatEntity(flat) ==
  FlatPart(flat, ShiftDims, 0, Channels)
    \o FlatPart(flat, MatrixDims, Channels, Matrix)
    \o FlatPart(flat, ShiftDims, Channels + Matrix, Channels)

TensorSize(rank, values) == 1 + rank * 8 + 8 + values * 4

TensorsSize(ts, rank) ==
  8 + FoldLeft(LAMBDA n, t : n + TensorSize(rank, Len(t.values)), 0, ts)

EntitySize(state) ==
  TensorsSize(state.shift, 3) + TensorsSize(state.wkv, 5) + TensorsSize(state.chan, 3)

FlatEntitySize(flat) ==
  3 * 8 + flat.layers * (2 * TensorSize(3, Channels) + TensorSize(5, Matrix))

\* A state in either representation.
IsFlat(state) == "layers" \in DOMAIN state
Written(state) == IF IsFlat(state) THEN WriteFlatEntity(state) ELSE WriteEntity(state)
WrittenSize(state) == IF IsFlat(state) THEN FlatEntitySize(state) ELSE EntitySize(state)

-------------------------------------------------------------------------------
(* Recurrent states by identity: an index of identities and lengths, then   *)
(* the states in the same order.                                            *)

InBoth(map) == DOMAIN map.canon \cap DOMAIN map.flat

\* for_each_cpu_state: the two maps merged by identity.
Combined(map) ==
  [k \in DOMAIN map.canon \cup DOMAIN map.flat |->
    IF k \in DOMAIN map.canon THEN map.canon[k] ELSE map.flat[k]]

WriteIndexed(map) ==
  LET states == Combined(map)
      ids == Ascending(DOMAIN states)
  IN  Word(Cardinality(DOMAIN map.canon) + Cardinality(DOMAIN map.flat))
        \o Joined([i \in DOMAIN ids |-> Word(ids[i]) \o Word(WrittenSize(states[ids[i]]))])
        \o Joined([i \in DOMAIN ids |-> Written(states[ids[i]])])

\* The pairs of the index, and the reader behind them.
ReadIndex(file, at) ==
  LET n == Read(file, at, 8)
      pairs == ReadMany(file, n.at, 2 * n.value, 8)
  IN  [value |-> [i \in 1..n.value |->
                   [id |-> pairs.value[2 * i - 1], bytes |-> pairs.value[2 * i]]],
       at |-> pairs.at]

\* States of other identities are passed over by a seek before the next one
\* that is wanted, or before the end.
ReadIndexed(file, at, selected) ==
  LET index == ReadIndex(file, at)
      start == Position(file, index.at)
      OfEntry(acc, entry) ==
        LET next == acc.offset + entry.bytes
            from == IF acc.position # acc.offset THEN SeekTo(file, acc.at, acc.offset)
                    ELSE acc.at
            state == ReadEntity(file, from)
        IN  IF entry.id \in selected
            THEN [offset |-> next, position |-> next,
                  at |-> IF Position(file, state.at) = next THEN state.at ELSE Failed,
                  value |-> With(acc.value, entry.id, state.value)]
            ELSE [offset |-> next, position |-> acc.position, at |-> acc.at,
                  value |-> acc.value]
      done == InSteps(OfEntry,
                      [offset |-> start, position |-> start, at |-> index.at, value |-> <<>>],
                      index.value)
  IN  [value |-> done.value,
       at |-> IF done.position # done.offset THEN SeekTo(file, done.at, done.offset)
              ELSE done.at]

\* Version 1: each state right behind its identity.
WriteInline(map) ==
  LET states == Combined(map)
      ids == Ascending(DOMAIN states)
  IN  Word(Len(ids)) \o Joined([i \in DOMAIN ids |-> Word(ids[i]) \o Written(states[ids[i]])])

ReadInline(file, at) ==
  LET n == Read(file, at, 8)
  IN  InSteps(LAMBDA acc, i :
                LET id == Read(file, acc.at, 8)
                    state == ReadEntity(file, id.at)
                IN  [value |-> With(acc.value, id.value, state.value), at |-> state.at],
              [value |-> <<>>, at |-> n.at], Times(n.value))

\* The entries of the backing file that stay, each where its bytes are, and
\* the offset behind all of them.
\* Mutant of BackingEntries: entries that do not stay take no room.
BackingEntriesClosedUp(index, start, selected) ==
  InSteps(LAMBDA acc, e :
            [kept |-> IF e.id \in selected THEN acc.kept
                      ELSE With(acc.kept, e.id, [offset |-> acc.end, bytes |-> e.bytes]),
             end |-> IF e.id \in selected THEN acc.end ELSE acc.end + e.bytes],
          [kept |-> <<>>, end |-> start], index)

BackingEntries(index, start, selected) ==
  InSteps(LAMBDA acc, e :
            [kept |-> IF e.id \in selected THEN acc.kept
                      ELSE With(acc.kept, e.id, [offset |-> acc.end, bytes |-> e.bytes]),
             end |-> acc.end + e.bytes],
          [kept |-> <<>>, end |-> start], index)

\* The cells of the next n bytes.
Copied(file, at, n) ==
  LET to == SeekTo(file, at, Position(file, at) + n)
  IN  [value |-> IF at = Failed \/ to = Failed THEN <<>> ELSE SubSeq(file.cells, at, to - 1),
       at |-> to]

MergeIndexed(file, at, map, selected) ==
  LET index == ReadIndex(file, at)
      start == Position(file, index.at)
      backing == BackingEntries(index.value, start, selected)
      current == Combined(map)
      ids == Ascending(DOMAIN backing.kept \cup DOMAIN current)
      Bytes(k) == IF k \in DOMAIN current THEN WrittenSize(current[k])
                  ELSE backing.kept[k].bytes
      OfEntry(acc, k) ==
        IF k \in DOMAIN current
        THEN [acc EXCEPT !.out = @ \o Written(current[k])]
        ELSE LET entry == backing.kept[k]
                 from == IF acc.position # entry.offset
                         THEN SeekTo(file, acc.at, entry.offset) ELSE acc.at
                 copy == Copied(file, from, entry.bytes)
             IN  [out |-> acc.out \o copy.value, at |-> copy.at,
                  position |-> entry.offset + entry.bytes]
      done == InSteps(OfEntry, [out |-> <<>>, at |-> index.at, position |-> start], ids)
  IN  [out |-> Word(Len(ids))
                 \o Joined([i \in DOMAIN ids |-> Word(ids[i]) \o Word(Bytes(ids[i]))])
                 \o done.out,
       at |-> IF InBoth(map) # {} THEN Failed
              ELSE IF done.position # backing.end THEN SeekTo(file, done.at, backing.end)
              ELSE done.at]

\* The global state: a tag and the state, in one of two representations.
Optional(option) == option.canon \o option.flat

WriteOptional(option) ==
  IF Optional(option) = <<>> THEN U8(0) ELSE U8(1) \o Written(Optional(option)[1])

ReadOptional(file, at) ==
  LET tag == Read(file, at, 1)
      state == ReadEntity(file, tag.at)
  IN  CASE tag.value = 0 -> [value |-> <<>>, at |-> tag.at]
        [] tag.value = 1 -> [value |-> <<state.value>>, at |-> state.at]
        [] OTHER -> [value |-> <<>>, at |-> Failed]

-------------------------------------------------------------------------------
(* Sets and maps by identity: a count and the entries in ascending order.   *)
(* A value is a sequence of the shape's length, behind its own length if    *)
(* the shape says so; the entries of a set have empty values.               *)

Shape(n, width, counted) == [n |-> n, width |-> width, counted |-> counted]
SetShape == Shape(0, 8, FALSE)
MapShape == Shape(1, 8, FALSE)
EncodingShape(kind) == Shape(Dim[kind], 4, TRUE)

WriteValue(shape, v) ==
  (IF shape.counted THEN Word(Len(v)) ELSE <<>>) \o [i \in DOMAIN v |-> Cell(shape.width, v[i])]

ReadValue(file, at, shape) ==
  LET n == IF shape.counted THEN Read(file, at, 8) ELSE [value |-> shape.n, at |-> at]
  IN  ReadMany(file, IF n.value = shape.n THEN n.at ELSE Failed, shape.n, shape.width)

WriteMap(shape, map) ==
  LET ids == Ascending(DOMAIN map)
  IN  Word(Len(ids))
        \o Joined([i \in DOMAIN ids |-> Word(ids[i]) \o WriteValue(shape, map[ids[i]])])

\* Entries outside the selection are read and dropped.
ReadMap(file, at, shape, selected) ==
  LET n == Read(file, at, 8)
  IN  InSteps(LAMBDA acc, i :
                LET id == Read(file, acc.at, 8)
                    v == ReadValue(file, id.at, shape)
                IN  [value |-> IF id.value \in selected
                               THEN With(acc.value, id.value, v.value) ELSE acc.value,
                     at |-> v.at],
              [value |-> <<>>, at |-> n.at], Times(n.value))

\* Both sides are in ascending order.  An entry of the runtime replaces that of
\* the file; one of the file alone stays unless it is selected, when it is one
\* the runtime has no more.  The count is patched in once it is known.
MergeMap(file, at, shape, map, selected) ==
  LET n == Read(file, at, 8)
      Pair(k) == <<Word(k) \o WriteValue(shape, map[k])>>
      Pairs(ks) == Joined([i \in DOMAIN ks |-> Pair(ks[i])])
      OfEntry(acc, i) ==
        LET id == Read(file, acc.at, 8)
            v == ReadValue(file, id.at, shape)
            before == SelectSeq(acc.rest, LAMBDA k : k < id.value)
            rest == SubSeq(acc.rest, Len(before) + 1, Len(acc.rest))
            here == rest # <<>> /\ rest[1] = id.value
        IN  [at |-> v.at,
             rest |-> IF here THEN Tail(rest) ELSE rest,
             out |-> acc.out \o Pairs(before)
                       \o (IF here THEN Pair(id.value)
                           ELSE IF id.value \in selected THEN <<>>
                           ELSE <<Word(id.value) \o WriteValue(shape, v.value)>>)]
      done == InSteps(OfEntry,
                      [at |-> n.at, rest |-> Ascending(DOMAIN map), out |-> <<>>],
                      Times(n.value))
      entries == done.out \o Pairs(done.rest)
  IN  [out |-> Word(Len(entries)) \o Joined(entries), at |-> done.at]

\* The encodings of each kind of identity, under the kind's name.
NameWidth(kind) == Len(kind) + 3   \* "_id"
Name(kind) == Blob(NameWidth(kind), kind)

WriteEncodings(encodings) ==
  Word(Len(Kinds))
    \o Joined([i \in DOMAIN Kinds |->
                Name(Kinds[i]) \o WriteMap(EncodingShape(Kinds[i]), encodings[Kinds[i]])])

ReadEncodings(file, at, scope) ==
  LET n == Read(file, at, 8)
  IN  InSteps(LAMBDA acc, i :
                LET kind == BlobAt(file, acc.at)
                    map == ReadMap(file, kind.at, EncodingShape(kind.value),
                                   scope[kind.value])
                IN  IF kind.at = Failed THEN [value |-> acc.value, at |-> Failed]
                    ELSE [value |-> With(acc.value, kind.value, map.value), at |-> map.at],
              [value |-> [kind \in Range(Kinds) |-> <<>>], at |-> n.at], Times(n.value))

MergeEncodings(file, at, encodings, scope) ==
  LET n == Read(file, at, 8)
      done == InSteps(LAMBDA acc, i :
                LET kind == BlobAt(file, acc.at)
                    map == MergeMap(file, kind.at, EncodingShape(kind.value),
                                    encodings[kind.value], scope[kind.value])
                IN  IF kind.at = Failed THEN [out |-> acc.out, at |-> Failed]
                    ELSE [out |-> acc.out \o Name(kind.value) \o map.out, at |-> map.at],
              [out |-> <<>>, at |-> n.at], Times(n.value))
  IN  [out |-> Word(n.value) \o done.out, at |-> done.at]

-------------------------------------------------------------------------------
(* The fields of a file, in their order, with the kind of identity that     *)
(* selects their entries; "all" where every reader takes the whole field.   *)

Field(name, form, kind) == [name |-> name, form |-> form, kind |-> kind]

StateFields(form) ==
  <<Field("card_states", form, "card"), Field("note_states", form, "note"),
    Field("deck_states", form, "deck"), Field("preset_states", form, "preset")>>

CardCount == Field("card_count", "word", "all")

FieldsBeforeStates ==
  <<Field("first_day_offset", "option", "all"), Field("prev_day_offset", "option", "all"),
    CardCount,
    Field("card_set", "set", "card"), Field("last_new_cards", "map", "card"),
    Field("i", "word", "all"), Field("last_i", "map", "card"),
    Field("today", "word", "all"), Field("today_reviews", "word", "all"),
    Field("today_new_cards", "word", "all"),
    Field("card2first_day_offset", "map", "card"),
    Field("card2elapsed_days_cumulative", "map", "card"),
    Field("card2elapsed_seconds_cumulative", "map", "card"),
    Field("id_encodings", "encodings", "all"), Field("torch_rng_state", "blob", "all")>>

GlobalState == Field("global_state", "optional", "all")

FieldsV2 == FieldsBeforeStates \o StateFields("indexed") \o <<GlobalState>>
FieldsV1 ==
  SelectSeq(FieldsBeforeStates, LAMBDA f : f # CardCount)
    \o StateFields("inline") \o <<GlobalState>>

MapShapeOf(f) == IF f.form = "set" THEN SetShape ELSE MapShape
RngBytes == 5056

\* An option is an empty sequence or one of one value.
WriteField(f, v) ==
  CASE f.form = "option" -> IF v = <<>> THEN U8(0) ELSE U8(1) \o Word(v[1])
    [] f.form = "word" -> Word(v)
    [] f.form \in {"set", "map"} -> WriteMap(MapShapeOf(f), v)
    [] f.form = "encodings" -> WriteEncodings(v)
    [] f.form = "blob" -> Blob(RngBytes, v)
    [] f.form = "indexed" -> WriteIndexed(v)
    [] f.form = "inline" -> WriteInline(v)
    [] f.form = "optional" -> WriteOptional(v)

ReadOption(file, at) ==
  LET tag == Read(file, at, 1)
      v == Read(file, tag.at, 8)
  IN  CASE tag.value = 0 -> [value |-> <<>>, at |-> tag.at]
        [] tag.value = 1 -> [value |-> <<v.value>>, at |-> v.at]
        [] OTHER -> [value |-> <<>>, at |-> Failed]

\* What was read is canonical; the flat maps are cleared.
Canonical(read) == [value |-> [canon |-> read.value, flat |-> <<>>], at |-> read.at]

ReadField(f, file, at, scope) ==
  CASE f.form = "option" -> ReadOption(file, at)
    [] f.form = "word" -> Read(file, at, 8)
    [] f.form \in {"set", "map"} -> ReadMap(file, at, MapShapeOf(f), scope[f.kind])
    [] f.form = "encodings" -> ReadEncodings(file, at, scope)
    [] f.form = "blob" -> BlobAt(file, at)
    [] f.form = "indexed" -> Canonical(ReadIndexed(file, at, scope[f.kind]))
    [] f.form = "inline" -> Canonical(ReadInline(file, at))
    [] f.form = "optional" -> Canonical(ReadOptional(file, at))

\* What all reviews share is the runtime's; the file's is passed over, and its
\* global state, the last field, not even read.
MergeField(f, file, at, v, scope) ==
  CASE f.form \in {"set", "map"} -> MergeMap(file, at, MapShapeOf(f), v, scope[f.kind])
    [] f.form = "encodings" -> MergeEncodings(file, at, v, scope)
    [] f.form = "indexed" -> MergeIndexed(file, at, v, scope[f.kind])
    [] f.form = "optional" -> [out |-> WriteOptional(v), at |-> at]
    [] OTHER -> [out |-> WriteField(f, v), at |-> ReadField(f, file, at, scope).at]

-------------------------------------------------------------------------------
(* Whole files.  A runtime is a function of the names of the fields.        *)

MagicWidth == 15

Header(version, metadata) ==
  <<Cell(MagicWidth, "magic")>> \o U32(version) \o Blob(metadata, "metadata")

Write(metadata, fields) ==
  Header(2, metadata)
    \o Joined([i \in DOMAIN FieldsV2 |-> WriteField(FieldsV2[i], fields[FieldsV2[i].name])])

\* What versions before the index wrote.
WriteLegacy(metadata, fields) ==
  Header(1, metadata)
    \o Joined([i \in DOMAIN FieldsV1 |-> WriteField(FieldsV1[i], fields[FieldsV1[i].name])])

HeaderRead(file) ==
  LET magic == Read(file, 1, MagicWidth)
      version == Read(file, IF magic.value = "magic" THEN magic.at ELSE Failed, 4)
  IN  [value |-> version.value, at |-> BlobAt(file, version.at).at]

ReadFields(fields, file, at, scope) ==
  InSteps(LAMBDA acc, f : LET r == ReadField(f, file, acc.at, scope)
                          IN  [value |-> With(acc.value, f.name, r.value), at |-> r.at],
          [value |-> <<>>, at |-> at], fields)

\* The identities that have a state, as undo journals look them up.
StateNames == {"card_states", "note_states", "deck_states", "preset_states", "global_state"}
Keys(fields) ==
  [name \in StateNames |-> DOMAIN fields[name].canon \cup DOMAIN fields[name].flat]

Everything == [kind \in Range(Kinds) |-> Nat]

\* filter_runtime_state: a file of version 1 is read whole before it is cut.
Filtered(fields, scope) ==
  LET Cut(name, v) ==
        CASE name \in {f.name : f \in {f \in Range(FieldsV2) : f.form \in {"set", "map"}}} ->
               Within(v, scope["card"])
          [] name = "id_encodings" -> [kind \in DOMAIN v |-> Within(v[kind], scope[kind])]
          [] name \in StateNames \ {"global_state"} ->
               LET kind == (CHOOSE f \in Range(FieldsV2) : f.name = name).kind
               IN  [canon |-> Within(v.canon, scope[kind]), flat |-> Within(v.flat, scope[kind])]
          [] OTHER -> v
  IN  [name \in DOMAIN fields |-> Cut(name, fields[name])]

Restored(file, scope) ==
  LET header == HeaderRead(file)
      old == ReadFields(FieldsV1, file, header.at, Everything)
      counted == With(old.value, "card_count", Cardinality(DOMAIN old.value["card_set"]))
      new == ReadFields(FieldsV2, file, header.at, scope)
  IN  CASE header.at = Failed -> [at |-> Failed]
        [] header.value = 1 -> [value |-> Filtered(counted, scope), at |-> old.at]
        [] header.value = 2 -> [value |-> new.value, at |-> new.at]
        [] OTHER -> [at |-> Failed]

\* write_merged_checkpoint_bin: only over a file of version 2.
Merge(file, metadata, fields, scope) ==
  LET header == HeaderRead(file)
  IN  InSteps(LAMBDA acc, f :
                LET r == MergeField(f, file, acc.at, fields[f.name], scope)
                IN  [out |-> acc.out \o r.out, at |-> r.at],
              [out |-> Header(2, metadata), at |-> IF header.value = 2 THEN header.at ELSE Failed],
              FieldsV2)

\* expected_checkpoint_bin_size, of a file with these numbers of identities.
BlocksOf(kind) == Blocks[CHOOSE m \in DOMAIN ForwardOrder : ForwardOrder[m] = kind]

ModuleStateSize(kind) ==
  3 * 8 + BlocksOf(kind) * (2 * TensorSize(3, Channels) + TensorSize(5, Matrix))

Counted(n, size) == 8 + n * size

ExpectedSize(metadata, count) ==
  LET populated == count["card"] # 0
      option == 1 + (IF populated THEN 8 ELSE 0)
      Sum(Of(_)) == FoldLeft(LAMBDA n, kind : n + Of(kind), 0, Kinds)
  IN  MagicWidth + 4 + 8 + metadata
        + 2 * option + 8
        + Counted(count["card"], 8) + Counted(count["card"], 16)
        + 8 + Counted(count["card"], 16) + 24
        + 3 * Counted(count["card"], 16)
        + 8 + Sum(LAMBDA kind : 8 + NameWidth(kind)
                                  + Counted(count[kind], 16 + 4 * Dim[kind]))
        + 8 + RngBytes
        + Sum(LAMBDA kind : Counted(count[kind], 16 + ModuleStateSize(kind)))
        + 1 + (IF populated THEN ModuleStateSize("global") ELSE 0)

-------------------------------------------------------------------------------
(* By definition.                                                           *)

\* The states of a runtime in canonical form.
Values(flat, dims, offset, n) ==
  [l \in 1..flat.layers |->
    [dims |-> dims, values |-> [i \in 1..n |-> flat.values[(l - 1) * FlatLayer + offset + i]]]]

Unpacked(state) ==
  IF ~IsFlat(state) THEN state
  ELSE [shift |-> Values(state, ShiftDims, 0, Channels),
        wkv |-> Values(state, MatrixDims, Channels, Matrix),
        chan |-> Values(state, ShiftDims, Channels + Matrix, Channels)]

CanonicalRuntime(fields) ==
  [name \in DOMAIN fields |->
    IF name \notin StateNames THEN fields[name]
    ELSE LET states == IF name = "global_state" THEN Optional(fields[name])
                       ELSE Combined(fields[name])
         IN  [canon |-> [k \in DOMAIN states |-> Unpacked(states[k])], flat |-> <<>>]]

\* The runtime's entries and those of the file outside the scope.
Overlaid(backing, current, selected) ==
  [k \in (DOMAIN backing \ selected) \cup DOMAIN current |->
    IF k \in DOMAIN current THEN current[k] ELSE backing[k]]

MergedRuntime(backing, current, scope) ==
  LET Of(f) ==
        LET old == backing[f.name]
            new == current[f.name]
        IN  CASE f.form \in {"set", "map"} -> Overlaid(old, new, scope[f.kind])
              [] f.form = "encodings" ->
                   [kind \in DOMAIN old |-> Overlaid(old[kind], new[kind], scope[kind])]
              [] f.form = "indexed" ->
                   [canon |-> Overlaid(Combined(old), Combined(new), scope[f.kind]),
                    flat |-> <<>>]
              [] OTHER -> new
  IN  [name \in DOMAIN current |-> Of(CHOOSE f \in Range(FieldsV2) : f.name = name)]
===============================================================================
