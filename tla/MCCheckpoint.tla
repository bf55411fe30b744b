------------------------------ MODULE MCCheckpoint ------------------------------
(* A small instance of Checkpoint: two cards of one deck, and reviews of each. *)
EXTENDS Checkpoint

CONSTANTS a, b, deck

CardAndDeck == [r \in {a, b} |-> <<r, deck>>]
OneCard == {{a, deck}}

-------------------------------------------------------------------------------
(* The files behind it, of up to four cards, two notes and two decks.        *)

EncodingLengths == [card |-> 3, note |-> 2, deck |-> 1, preset |-> 2]

Layout == INSTANCE CheckpointLayout WITH
  Heads <- 1, HeadSize <- 2, Blocks <- <<1, 2, 1, 1, 2>>, Dim <- EncodingLengths

IdsOf(kind, cards) ==
  CASE kind = "card" -> cards
    [] kind = "note" -> {1 + (c \div 2) : c \in cards}
    [] kind = "deck" -> {1 + (c % 2) : c \in cards}
    [] kind = "preset" -> {0 : c \in cards}

IdentityScope(cards) == [kind \in Layout!Range(Layout!Kinds) |-> IdsOf(kind, cards)]

LayersOf(kind) == IF kind \in {"deck", "global"} THEN 2 ELSE 1

\* A state whose every value tells where it belongs.
Tensors(tag, kind, dims, n) ==
  [l \in 1..LayersOf(kind) |->
    [dims |-> dims, values |-> [i \in 1..n |-> 100 * tag + 10 * l + i]]]

StateOf(kind, k, version) ==
  LET tag == 100 * version + 10 * k + (CHOOSE m \in 1..5 : Layout!ForwardOrder[m] = kind)
  IN  [shift |-> Tensors(tag, kind, Layout!ShiftDims, 2),
       wkv |-> Tensors(tag, kind, Layout!MatrixDims, 4),
       chan |-> Tensors(1000 + tag, kind, Layout!ShiftDims, 2)]

FlatStateOf(kind, k, version) ==
  LET state == StateOf(kind, k, version)
  IN  [layers |-> Len(state.shift),
       values |-> Layout!Joined([l \in DOMAIN state.shift |->
                    state.shift[l].values \o state.wkv[l].values \o state.chan[l].values])]

\* Every second identity, or none, has its state in the flat map.
StatesOf(kind, ids, version, flat) ==
  LET moved == {k \in ids : flat /\ k % 2 = 1}
  IN  [canon |-> [k \in ids \ moved |-> StateOf(kind, k, version)],
       flat |-> [k \in moved |-> FlatStateOf(kind, k, version)]]

PerCard(cards, version) == [c \in cards |-> <<10 * version + c>>]

\* What a runtime holds of some cards after reviews of all cards.
RuntimeOf(all, scope, version, flat) ==
  LET ids(kind) == IdsOf(kind, all) \cap scope[kind]
      States(kind) == StatesOf(kind, ids(kind), version, flat)
      Shared == IF all = {} THEN <<>> ELSE <<version>>
  IN  [first_day_offset |-> Shared, prev_day_offset |-> Shared,
       card_count |-> Cardinality(all), card_set |-> [c \in ids("card") |-> <<>>],
       last_new_cards |-> PerCard(ids("card"), version), i |-> version,
       last_i |-> PerCard(ids("card"), version), today |-> version,
       today_reviews |-> version + 1, today_new_cards |-> version + 2,
       card2first_day_offset |-> PerCard(ids("card"), version),
       card2elapsed_days_cumulative |-> PerCard(ids("card"), version),
       card2elapsed_seconds_cumulative |-> PerCard(ids("card"), version),
       id_encodings |-> [kind \in DOMAIN scope |->
         [k \in ids(kind) |-> [i \in 1..EncodingLengths[kind] |-> 10 * k + i]]],
       torch_rng_state |-> version,
       card_states |-> States("card"), note_states |-> States("note"),
       deck_states |-> States("deck"), preset_states |-> States("preset"),
       global_state |->
         [canon |-> IF flat \/ all = {} THEN <<>> ELSE <<StateOf("global", 0, version)>>,
          flat |-> IF flat /\ all # {} THEN <<FlatStateOf("global", 0, version)>> ELSE <<>>]]

\* A file of some cards, a scope loaded from it, and the cards there are when
\* the runtime is saved: some new ones, some undone.
LayoutCase(file, scope, now, flat) ==
  [file |-> file, scope |-> scope, now |-> (file \ scope) \cup (now \cap scope),
   flat |-> flat]

LayoutCases ==
  {LayoutCase(file, scope, now, flat) :
     file \in {{}, {2}, {1, 3}, {1, 2, 4}, 1..4},
     scope \in {{2}, {1, 4}, {2, 3}, 1..4},
     now \in SUBSET (1..4), flat \in BOOLEAN}

LayoutAgrees(c) ==
  LET scope == IdentityScope(c.scope)
      old == RuntimeOf(c.file, Layout!Everything, 1, c.flat)
      part == Layout!CanonicalRuntime(RuntimeOf(c.file, scope, 1, c.flat))
      current == RuntimeOf(c.now, scope, 2, c.flat)
      cells == Layout!Write(5, old)
      file == Layout!FileOf(cells)
      legacy == Layout!FileOf(Layout!WriteLegacy(5, old))
      whole == Layout!Restored(file, Layout!Everything)
      loaded == {Layout!Restored(file, scope), Layout!Restored(legacy, scope)}
      merged == Layout!Write(7, Layout!MergedRuntime(old, current, scope))
  IN  /\ whole = [value |-> Layout!CanonicalRuntime(old), at |-> Len(cells) + 1]
      /\ Layout!Write(5, whole.value) = cells
      /\ \A r \in loaded :
           r.at # Layout!Failed /\ r.value = part /\ Layout!Keys(r.value) = Layout!Keys(part)
      /\ Layout!Merge(file, 7, current, scope).out = merged
      /\ Layout!Merge(legacy, 7, current, scope).at = Layout!Failed
      /\ Layout!Size(merged) =
           Layout!ExpectedSize(7, [kind \in DOMAIN scope |->
                                    Cardinality(IdsOf(kind, c.now))])

EveryLayoutAgrees == \A c \in LayoutCases : LayoutAgrees(c)

\* A file, of either version, gives back the runtime it was written from, or the
\* selected part of it, in whichever maps its states were; merging a part with
\* the file it came from writes, byte for byte, what the whole runtime would
\* have, of the size that was computed beforehand from the numbers of
\* identities (checkpoint_bin.rs: index, lengths and seeks, and the merge of two
\* ascending streams).  It is what the steps that write a file, each a single one
\* in Checkpoint, stand for.
StreamedFilesAgree ==
  [][\A p \in Runtimes : WriteCheckpoint(p) \/ WriteMerged(p) => EveryLayoutAgrees]_vars
===============================================================================
