------------------------------ MODULE ReviewState ------------------------------
(***************************************************************************)
(* The two halves of a native runtime's state, as values: the recurrent    *)
(* states (one per card, note, deck, preset and one global) and the        *)
(* deterministic FeatureState, with what processing a review does to each  *)
(* and with the journals that take a review or a batch back.               *)
(*                                                                         *)
(* A recurrent state is the sequence of reviews folded into it; a key that *)
(* has none holds None.  An identity encoding is the position of the       *)
(* random generator it was drawn at: the generator is deterministic, so    *)
(* that is all that tells two encodings apart.                             *)
(***************************************************************************)
EXTENDS Integers, FiniteSets, Sequences

CONSTANTS
  Reviews,      \* records card, note, deck, preset, day, elapsed
  Placeholder,  \* ID_PLACEHOLDER; also stands for the one global identity
  None          \* an absent map entry, option or review field

IdentityKinds == {"card", "note", "deck", "preset"}
Kinds == IdentityKinds \cup {"global"}

\* Encodings are drawn in this order.
Order == [card |-> 1, note |-> 2, deck |-> 3, preset |-> 4]

IdOrPlaceholder(id, base) == IF id = None THEN Placeholder + base ELSE id

\* A card without a note gets a note of its own.
NormalizedIds(r) ==
  [card   |-> r.card,
   note   |-> IdOrPlaceholder(r.note, r.card),
   deck   |-> IdOrPlaceholder(r.deck, 0),
   preset |-> IdOrPlaceholder(r.preset, 0),
   global |-> Placeholder]

KeysOf(r) == {<<k, NormalizedIds(r)[k]>> : k \in Kinds}
KeysOfAll(rows) == UNION {KeysOf(r) : r \in rows}
Keys == KeysOfAll(Reviews)
Cards == {r.card : r \in Reviews}

ASSUME ReviewAssumption ==
  /\ \A r \in Reviews : r.card # None /\ r.day \in Int /\ r.elapsed \in Int
  /\ \A r \in Reviews : {r.card, r.note, r.deck, r.preset} \subseteq Int \cup {None}
  /\ Placeholder \in Int
  /\ IsFiniteSet(Keys)
  /\ None \notin Seq(Reviews)
  /\ None \notin Int

IdentityKeys == {k \in Keys : k[1] \in IdentityKinds}
CardsOf(keys) == {c \in Cards : <<"card", c>> \in keys}

States == Seq(Reviews)
NoStates == [k \in Keys |-> None]

\* One more review in the states of the five keys it touches.
NextStates(canon, r) ==
  [k \in Keys |-> IF k \notin KeysOf(r) THEN canon[k]
                  ELSE IF canon[k] = None THEN <<r>> ELSE Append(canon[k], r)]

-------------------------------------------------------------------------------
(* FeatureState.  The maps that are keyed by a card are one function of     *)
(* their names; the two cumulative sums behave alike and are one.           *)

CardMaps == {"last_i", "last_new_cards", "card2first_day_offset",
             "card2elapsed_cumulative"}

EmptyFeatures ==
  [first_day_offset |-> None, prev_day_offset |-> None,
   card_set |-> {}, card_count |-> 0, i |-> 0,
   today |-> -1, today_reviews |-> 0, today_new_cards |-> 0,
   by_card |-> [m \in CardMaps |-> [c \in Cards |-> None]],
   id_encodings |-> [k \in IdentityKeys |-> None],
   recurrent_state_keys |-> {}, id_rng |-> 0]

\* The identities of a review that have no encoding yet.
Unencoded(f, r) == {k \in KeysOf(r) \cap IdentityKeys : f.id_encodings[k] = None}

\* One draw for each of them; only a processed review keeps what it drew.
FeatureVector(f, r, mutate) ==
  LET missing == Unencoded(f, r)
      before(k) == Cardinality({m \in missing : Order[m[1]] < Order[k[1]]})
  IN  [f EXCEPT
         !.id_encodings = [k \in IdentityKeys |->
             IF mutate /\ k \in missing THEN f.id_rng + before(k) ELSE @[k]],
         !.id_rng = @ + Cardinality(missing)]

\* Mutant of PredictFeatureVector: the draws of a prediction are not put back.
PredictDrawing(f, r) == FeatureVector(f, r, FALSE)

\* A prediction puts the generator back where it was.
PredictFeatureVector(f, r) ==
  IF Unencoded(f, r) = {} THEN FeatureVector(f, r, FALSE)
  ELSE [FeatureVector(f, r, FALSE) EXCEPT !.id_rng = f.id_rng]

\* The day of a review, counted from the first one.
RelativeDay(f, r) ==
  IF f.first_day_offset = None THEN 0 ELSE r.day - f.first_day_offset

RecordRecurrentStateUpdate(f, r) ==
  [f EXCEPT !.recurrent_state_keys = @ \cup KeysOf(r)]

RecordProcessedRow(f, r) ==
  LET c == r.card
      day == RelativeDay(f, r)
      first == IF f.first_day_offset = None THEN day ELSE f.first_day_offset
      new == c \notin f.card_set
      count == IF new THEN f.card_count + 1 ELSE f.card_count
      sum == IF f.by_card["card2elapsed_cumulative"][c] = None THEN 0
             ELSE f.by_card["card2elapsed_cumulative"][c]
      entry == [last_i |-> f.i,
                last_new_cards |-> count,
                card2first_day_offset |->
                  IF new THEN day - first ELSE f.by_card["card2first_day_offset"][c],
                card2elapsed_cumulative |-> sum + r.elapsed]
  IN  [f EXCEPT
         !.first_day_offset = first,
         !.prev_day_offset = day,
         !.card_set = @ \cup {c},
         !.card_count = count,
         !.i = @ + 1,
         !.today = day,
         !.today_reviews = IF day = f.today THEN @ + 1 ELSE 0,
         !.today_new_cards = (IF day = f.today THEN @ ELSE 0)
                             + (IF new THEN 1 ELSE 0),
         !.by_card = [m \in CardMaps |-> [@[m] EXCEPT ![c] = entry[m]]]]

\* All that one processed review does to the features.
ProcessedFeatures(f, r) ==
  RecordProcessedRow(
    RecordRecurrentStateUpdate(FeatureVector(f, r, TRUE), r), r)

-------------------------------------------------------------------------------
(* Journals: the entries of some identities before they are touched.        *)

DeterministicJournal(f, keys) ==
  [scalars |-> [first_day_offset |-> f.first_day_offset,
                prev_day_offset |-> f.prev_day_offset,
                card_count |-> f.card_count, i |-> f.i, today |-> f.today,
                today_reviews |-> f.today_reviews,
                today_new_cards |-> f.today_new_cards, id_rng |-> f.id_rng],
   known |-> f.card_set \cap CardsOf(keys),
   by_card |-> [m \in CardMaps |-> [c \in CardsOf(keys) |-> f.by_card[m][c]]],
   id_encodings |-> [k \in keys \cap IdentityKeys |-> f.id_encodings[k]],
   recurrent |-> f.recurrent_state_keys \cap keys,
   keys |-> keys]

RestoreEntries(map, entries) ==
  [k \in DOMAIN map |-> IF k \in DOMAIN entries THEN entries[k] ELSE map[k]]

RestoreDeterministic(f, j) ==
  [first_day_offset |-> j.scalars.first_day_offset,
   prev_day_offset |-> j.scalars.prev_day_offset,
   card_set |-> (f.card_set \ CardsOf(j.keys)) \cup j.known,
   card_count |-> j.scalars.card_count, i |-> j.scalars.i,
   today |-> j.scalars.today,
   today_reviews |-> j.scalars.today_reviews,
   today_new_cards |-> j.scalars.today_new_cards,
   by_card |-> [m \in CardMaps |-> RestoreEntries(f.by_card[m], j.by_card[m])],
   id_encodings |-> RestoreEntries(f.id_encodings, j.id_encodings),
   recurrent_state_keys |-> (f.recurrent_state_keys \ j.keys) \cup j.recurrent,
   id_rng |-> j.scalars.id_rng]

RecurrentJournal(canon, keys) == [k \in keys |-> canon[k]]

Journal(canon, f, keys) ==
  [recurrent |-> RecurrentJournal(canon, keys),
   deterministic |-> DeterministicJournal(f, keys)]

\* Mutants of UndoFrame and BatchUndoFrame: the global state is not journalled;
\* only one of the rows is.
UndoFrameOfIdentities(canon, f, r) == Journal(canon, f, KeysOf(r) \cap IdentityKeys)
BatchUndoFrameOfOneRow(canon, f, rows) ==
  Journal(canon, f, IF rows = {} THEN {} ELSE KeysOf(CHOOSE r \in rows : TRUE))

UndoFrame(canon, f, r) == Journal(canon, f, KeysOf(r))
BatchUndoFrame(canon, f, rows) == Journal(canon, f, KeysOfAll(rows))
-------------------------------------------------------------------------------
MaybeInt == Int \cup {None}
MaybeStates == [Keys -> States \cup {None}]

FeatureStates ==
  [first_day_offset : MaybeInt, prev_day_offset : MaybeInt,
   card_set : SUBSET Cards, card_count : Int, i : Int, today : Int,
   today_reviews : Int, today_new_cards : Int,
   by_card : [CardMaps -> [Cards -> MaybeInt]],
   id_encodings : [IdentityKeys -> MaybeInt],
   recurrent_state_keys : SUBSET Keys, id_rng : Int]

Snapshots == [states : MaybeStates, features : FeatureStates]

\* Outside some keys, two snapshots have the same entries.
FeaturesUntouched(f, g, keys) ==
  /\ g.card_set \ CardsOf(keys) = f.card_set \ CardsOf(keys)
  /\ \A m \in CardMaps, c \in Cards \ CardsOf(keys) :
       g.by_card[m][c] = f.by_card[m][c]
  /\ \A k \in IdentityKeys \ keys : g.id_encodings[k] = f.id_encodings[k]
  /\ g.recurrent_state_keys \ keys = f.recurrent_state_keys \ keys

StatesUntouched(s, t, keys) == \A k \in Keys \ keys : t[k] = s[k]

Untouched(p, q, keys) ==
  /\ StatesUntouched(p.states, q.states, keys)
  /\ FeaturesUntouched(p.features, q.features, keys)
===============================================================================
