------------------------ MODULE ReviewTransactionProofs ------------------------
(***************************************************************************)
(* Review transactions, proved for every set of reviews and batches, every *)
(* limit and every size of the GPU arenas.  First the two values a         *)
(* transaction changes: a journal is played back exactly, and the GPU      *)
(* prediction cache stays a mirror of the CPU states.  Then the steps: the *)
(* strengthened invariant, and that all state follows the log of what was  *)
(* processed, which implements the undoable log.                           *)
(***************************************************************************)
EXTENDS ReviewTransactionRefinement, SubsequenceProofs, FiniteSetTheorems

-------------------------------------------------------------------------------
(* Features and their journals.                                             *)
\* A review has one key of each kind.
LEMMA KeysOfReview ==
  ASSUME NEW r \in Reviews
  PROVE  /\ KeysOf(r) \subseteq Keys
         /\ \A k \in Kinds : <<k, NormalizedIds(r)[k]>> \in KeysOf(r)
         /\ \A key \in KeysOf(r) : /\ key[1] \in Kinds
                                   /\ key = <<key[1], NormalizedIds(r)[key[1]]>>
<1>1. KeysOf(r) \subseteq Keys
  BY DEF Keys, KeysOfAll
<1>2. QED
  BY <1>1 DEF KeysOf

LEMMA KeyShape ==
  ASSUME NEW key \in Keys
  PROVE  key[1] \in Kinds /\ key = <<key[1], key[2]>>
<1>1. PICK r \in Reviews : key \in KeysOf(r)
  BY DEF Keys, KeysOfAll
<1>2. QED
  BY <1>1 DEF KeysOf

LEMMA CardOfReview ==
  ASSUME NEW r \in Reviews
  PROVE  r.card \in Cards /\ r.card \in CardsOf(KeysOf(r))
<1>1. r.card \in Cards
  BY DEF Cards
<1>2. NormalizedIds(r)["card"] = r.card /\ "card" \in Kinds
  BY DEF NormalizedIds, Kinds, IdentityKinds
<1>3. <<"card", r.card>> \in KeysOf(r)
  BY <1>2, KeysOfReview
<1>4. QED
  BY <1>1, <1>3 DEF CardsOf

LEMMA FiniteKeysOf ==
  ASSUME NEW r \in Reviews
  PROVE  IsFiniteSet(KeysOf(r))
<1> DEFINE key(k) == <<k, NormalizedIds(r)[k]>>
           five == (((({} \cup {key("card")}) \cup {key("note")})
                      \cup {key("deck")}) \cup {key("preset")}) \cup {key("global")}
<1>1. ASSUME NEW x \in KeysOf(r)
      PROVE  x \in five
  <2>1. PICK k \in Kinds : x = key(k)
    BY DEF KeysOf
  <2>2. \/ k = "card" \/ k = "note" \/ k = "deck" \/ k = "preset" \/ k = "global"
    BY DEF Kinds, IdentityKinds
  <2> HIDE DEF key
  <2>3. QED
    BY <2>1, <2>2
<1>2. IsFiniteSet(five)
  <2> HIDE DEF key
  <2>1. QED
    BY FS_EmptySet, FS_AddElement
<1> HIDE DEF five
<1>3. QED
  BY <1>1, <1>2, FS_Subset

LEMMA CountIsInteger ==
  ASSUME NEW r \in Reviews, NEW S \in SUBSET KeysOf(r)
  PROVE  Cardinality(S) \in Int
<1>1. IsFiniteSet(S)
  BY FiniteKeysOf, FS_Subset
<1>2. Cardinality(S) \in Nat
  BY <1>1, FS_CardinalityType
<1>3. QED
  BY <1>2

-------------------------------------------------------------------------------
(* The steps of a processed review keep the type of the features.           *)

LEMMA InitialFeatures == EmptyFeatures \in FeatureStates
BY DEF EmptyFeatures, FeatureStates, MaybeInt, CardMaps

LEMMA UnencodedKeys ==
  ASSUME NEW r \in Reviews, NEW f
  PROVE  Unencoded(f, r) \in SUBSET KeysOf(r)
BY DEF Unencoded

LEMMA FeatureVectorType ==
  ASSUME NEW r \in Reviews, NEW f \in FeatureStates, NEW mutate \in BOOLEAN
  PROVE  FeatureVector(f, r, mutate) \in FeatureStates
<1> DEFINE missing == Unencoded(f, r)
           before(k) == Cardinality({m \in missing : Order[m[1]] < Order[k[1]]})
           drawn == [k \in IdentityKeys |->
             IF mutate /\ k \in missing THEN f.id_rng + before(k)
             ELSE f.id_encodings[k]]
<1>1. f.id_rng \in Int /\ f.id_encodings \in [IdentityKeys -> MaybeInt]
  BY DEF FeatureStates
<1>2. ASSUME NEW k \in IdentityKeys
      PROVE  f.id_rng + before(k) \in Int
  <2>1. {m \in missing : Order[m[1]] < Order[k[1]]} \in SUBSET KeysOf(r)
    BY UnencodedKeys
  <2>2. before(k) \in Int
    BY <2>1, CountIsInteger
  <2>3. QED
    BY <2>2, <1>1
<1>3. drawn \in [IdentityKeys -> MaybeInt]
  <2>1. ASSUME NEW k \in IdentityKeys
        PROVE  drawn[k] \in MaybeInt
    BY <1>1, <1>2 DEF MaybeInt
  <2>2. QED
    BY <2>1
<1>4. f.id_rng + Cardinality(missing) \in Int
  <2>1. Cardinality(missing) \in Int
    BY UnencodedKeys, CountIsInteger
  <2>2. QED
    BY <2>1, <1>1
<1>5. FeatureVector(f, r, mutate)
        = [f EXCEPT !.id_encodings = drawn, !.id_rng = @ + Cardinality(missing)]
  BY DEF FeatureVector
<1> HIDE DEF drawn, missing
<1>6. QED
  BY <1>3, <1>4, <1>5 DEF FeatureStates

\* A prediction leaves the features as they are: it keeps no encoding and puts
\* the generator back.
LEMMA PredictionChangesNothing ==
  ASSUME NEW r \in Reviews, NEW f \in FeatureStates
  PROVE  PredictFeatureVector(f, r) = f
<1> DEFINE same == [k \in IdentityKeys |-> f.id_encodings[k]]
           g == FeatureVector(f, r, FALSE)
<1>1. g = [f EXCEPT !.id_encodings = same,
                    !.id_rng = @ + Cardinality(Unencoded(f, r))]
  BY DEF FeatureVector
<1>2. same = f.id_encodings
  BY DEF FeatureStates
<1>3. [g EXCEPT !.id_rng = f.id_rng] = f
  BY <1>1, <1>2 DEF FeatureStates
<1>4. CASE Unencoded(f, r) = {}
  <2>1. Cardinality(Unencoded(f, r)) = 0
    BY <1>4, FS_EmptySet
  <2>2. f.id_rng + 0 = f.id_rng
    BY DEF FeatureStates
  <2>3. g = [f EXCEPT !.id_encodings = f.id_encodings, !.id_rng = f.id_rng]
    BY ONLY <1>1, <1>2, <2>1, <2>2
  <2>4. [f EXCEPT !.id_encodings = f.id_encodings, !.id_rng = f.id_rng] = f
    BY DEF FeatureStates
  <2>5. g = f
    BY ONLY <2>3, <2>4
  <2>6. QED
    BY <1>4, <2>5 DEF PredictFeatureVector
<1>5. CASE Unencoded(f, r) # {}
  BY <1>3, <1>5 DEF PredictFeatureVector
<1>6. QED
  BY <1>4, <1>5

LEMMA RecurrentKeysType ==
  ASSUME NEW r \in Reviews, NEW f \in FeatureStates
  PROVE  RecordRecurrentStateUpdate(f, r) \in FeatureStates
<1>1. f.recurrent_state_keys \cup KeysOf(r) \in SUBSET Keys
  BY KeysOfReview DEF FeatureStates
<1>2. QED
  BY <1>1 DEF RecordRecurrentStateUpdate, FeatureStates

LEMMA ProcessedRowType ==
  ASSUME NEW r \in Reviews, NEW f \in FeatureStates
  PROVE  RecordProcessedRow(f, r) \in FeatureStates
<1> DEFINE c == r.card
           day == RelativeDay(f, r)
           first == IF f.first_day_offset = None THEN day ELSE f.first_day_offset
           new == c \notin f.card_set
           count == IF new THEN f.card_count + 1 ELSE f.card_count
           sum == IF f.by_card["card2elapsed_cumulative"][c] = None THEN 0
                  ELSE f.by_card["card2elapsed_cumulative"][c]
           firstDay == IF new THEN day - first
                       ELSE f.by_card["card2first_day_offset"][c]
           entry == [last_i |-> f.i,
                     last_new_cards |-> count,
                     card2first_day_offset |-> firstDay,
                     card2elapsed_cumulative |-> sum + r.elapsed]
           byCard == [m \in CardMaps |-> [f.by_card[m] EXCEPT ![c] = entry[m]]]
           todayReviews == IF day = f.today THEN f.today_reviews + 1 ELSE 0
           todayNew == (IF day = f.today THEN f.today_new_cards ELSE 0)
                       + (IF new THEN 1 ELSE 0)
<1>1. c \in Cards
  BY CardOfReview
<1>2. r.day \in Int /\ r.elapsed \in Int /\ None \notin Int
  BY ReviewAssumption
<1>3. /\ f.first_day_offset \in MaybeInt /\ f.card_count \in Int /\ f.i \in Int
      /\ f.today \in Int /\ f.today_reviews \in Int /\ f.today_new_cards \in Int
      /\ f.by_card \in [CardMaps -> [Cards -> MaybeInt]]
      /\ f.card_set \in SUBSET Cards
  BY DEF FeatureStates
<1>4. day \in Int
  BY <1>2, <1>3 DEF RelativeDay, MaybeInt
<1>5. first \in Int
  BY <1>3, <1>4 DEF MaybeInt
<1>6. count \in Int /\ todayReviews \in Int /\ todayNew \in Int
  BY <1>3
<1>7. sum + r.elapsed \in Int
  BY <1>1, <1>2, <1>3 DEF MaybeInt, CardMaps
<1>8. firstDay \in MaybeInt
  BY <1>1, <1>3, <1>4, <1>5 DEF MaybeInt, CardMaps
<1>9. RecordProcessedRow(f, r)
        = [f EXCEPT
             !.first_day_offset = first,
             !.prev_day_offset = day,
             !.card_set = @ \cup {c},
             !.card_count = count,
             !.i = @ + 1,
             !.today = day,
             !.today_reviews = todayReviews,
             !.today_new_cards = todayNew,
             !.by_card = byCard]
  BY DEF RecordProcessedRow
<1> HIDE DEF c, day, first, count, sum, firstDay, todayReviews, todayNew
<1>10. \A m \in CardMaps : entry[m] \in MaybeInt
  BY <1>3, <1>6, <1>7, <1>8 DEF MaybeInt, CardMaps
<1> HIDE DEF entry
<1>11. byCard \in [CardMaps -> [Cards -> MaybeInt]]
  <2>1. ASSUME NEW m \in CardMaps
        PROVE  [f.by_card[m] EXCEPT ![c] = entry[m]] \in [Cards -> MaybeInt]
    BY <1>1, <1>3, <1>10
  <2>2. QED
    BY <2>1
<1> HIDE DEF byCard
<1>12. first \in MaybeInt /\ day \in MaybeInt /\ f.i + 1 \in Int
       /\ f.card_set \cup {c} \in SUBSET Cards
  BY <1>1, <1>3, <1>4, <1>5 DEF MaybeInt
<1>13. RecordProcessedRow(f, r)
         = [first_day_offset |-> first, prev_day_offset |-> day,
            card_set |-> f.card_set \cup {c}, card_count |-> count, i |-> f.i + 1,
            today |-> day, today_reviews |-> todayReviews,
            today_new_cards |-> todayNew, by_card |-> byCard,
            id_encodings |-> f.id_encodings,
            recurrent_state_keys |-> f.recurrent_state_keys, id_rng |-> f.id_rng]
  BY <1>9 DEF FeatureStates
<1>14. /\ f.id_encodings \in [IdentityKeys -> MaybeInt]
       /\ f.recurrent_state_keys \in SUBSET Keys /\ f.id_rng \in Int
  BY DEF FeatureStates
<1>15. QED
  BY <1>4, <1>6, <1>11, <1>12, <1>13, <1>14 DEF FeatureStates

-------------------------------------------------------------------------------
(* What the steps of a review leave alone.                                  *)

LEMMA FeaturesUntouchedBySteps ==
  ASSUME NEW r \in Reviews, NEW f \in FeatureStates, NEW g \in FeatureStates,
         NEW keys, KeysOf(r) \subseteq keys,
         FeaturesUntouched(f, g, keys)
  PROVE  /\ FeaturesUntouched(f, FeatureVector(g, r, TRUE), keys)
         /\ FeaturesUntouched(f, RecordRecurrentStateUpdate(g, r), keys)
         /\ FeaturesUntouched(f, RecordProcessedRow(g, r), keys)
<1>1. FeaturesUntouched(f, FeatureVector(g, r, TRUE), keys)
  <2> DEFINE h == FeatureVector(g, r, TRUE)
  <2>1. /\ h.card_set = g.card_set /\ h.by_card = g.by_card
        /\ h.recurrent_state_keys = g.recurrent_state_keys
    BY DEF FeatureVector, FeatureStates
  <2>2. ASSUME NEW k \in IdentityKeys \ keys
        PROVE  h.id_encodings[k] = g.id_encodings[k]
    <3>1. k \notin Unencoded(g, r)
      BY DEF Unencoded
    <3>2. QED
      BY <3>1 DEF FeatureVector, FeatureStates
  <2> HIDE DEF h
  <2>3. FeaturesUntouched(f, h, keys)
    BY <2>1, <2>2 DEF FeaturesUntouched
  <2>4. QED
    BY <2>3 DEF h
<1>2. FeaturesUntouched(f, RecordRecurrentStateUpdate(g, r), keys)
  <2> DEFINE h == RecordRecurrentStateUpdate(g, r)
  <2>1. /\ h.card_set = g.card_set /\ h.by_card = g.by_card
        /\ h.id_encodings = g.id_encodings
        /\ h.recurrent_state_keys = g.recurrent_state_keys \cup KeysOf(r)
    BY DEF RecordRecurrentStateUpdate, FeatureStates
  <2> HIDE DEF h
  <2>2. FeaturesUntouched(f, h, keys)
    BY <2>1 DEF FeaturesUntouched
  <2>3. QED
    BY <2>2 DEF h
<1>3. FeaturesUntouched(f, RecordProcessedRow(g, r), keys)
  <2> DEFINE h == RecordProcessedRow(g, r)
  <2>1. r.card \in CardsOf(keys)
    BY CardOfReview DEF CardsOf
  <2>2. /\ h.card_set = g.card_set \cup {r.card}
        /\ h.id_encodings = g.id_encodings
        /\ h.recurrent_state_keys = g.recurrent_state_keys
    BY DEF RecordProcessedRow, FeatureStates
  <2>3. ASSUME NEW m \in CardMaps, NEW c \in Cards \ CardsOf(keys)
        PROVE  h.by_card[m][c] = g.by_card[m][c]
    <3>1. c # r.card
      BY <2>1
    <3>2. QED
      BY <3>1 DEF RecordProcessedRow, FeatureStates
  <2> HIDE DEF h
  <2>4. FeaturesUntouched(f, h, keys)
    BY <2>1, <2>2, <2>3 DEF FeaturesUntouched
  <2>5. QED
    BY <2>4 DEF h
<1>4. QED
  BY <1>1, <1>2, <1>3

LEMMA StatesUntouchedByReview ==
  ASSUME NEW r \in Reviews, NEW s, NEW t, NEW keys, KeysOf(r) \subseteq keys,
         StatesUntouched(s, t, keys)
  PROVE  StatesUntouched(s, NextStates(t, r), keys)
BY DEF StatesUntouched, NextStates

LEMMA NextStatesType ==
  ASSUME NEW r \in Reviews, NEW s \in MaybeStates
  PROVE  /\ NextStates(s, r) \in MaybeStates
         /\ \A k \in KeysOf(r) : NextStates(s, r)[k] # None
<1>1. None \notin States
  BY ReviewAssumption DEF States
<1>2. ASSUME NEW k \in Keys
      PROVE  /\ s[k] # None => Append(s[k], r) \in States
             /\ <<r>> \in States
  BY DEF MaybeStates, States
<1>3. ASSUME NEW k \in Keys
      PROVE  /\ NextStates(s, r)[k] \in States \cup {None}
             /\ k \in KeysOf(r) => NextStates(s, r)[k] # None
  BY <1>1, <1>2 DEF NextStates, MaybeStates
<1>4. QED
  BY <1>3, KeysOfReview DEF NextStates, MaybeStates

-------------------------------------------------------------------------------
(* Playing a journal back.                                                  *)

LEMMA StatesPlayedBack ==
  ASSUME NEW s \in MaybeStates, NEW t \in MaybeStates, NEW keys \in SUBSET Keys,
         StatesUntouched(s, t, keys)
  PROVE  RestoreEntries(t, RecurrentJournal(s, keys)) = s
<1>1. RestoreEntries(t, RecurrentJournal(s, keys))
        = [k \in Keys |-> IF k \in keys THEN s[k] ELSE t[k]]
  BY DEF RestoreEntries, RecurrentJournal, MaybeStates
<1>2. [k \in Keys |-> IF k \in keys THEN s[k] ELSE t[k]] = [k \in Keys |-> s[k]]
  BY DEF StatesUntouched
<1>3. s = [k \in Keys |-> s[k]]
  BY DEF MaybeStates
<1>4. QED
  BY ONLY <1>1, <1>2, <1>3

\* The journal of a snapshot turns every state that agrees with it outside the
\* journalled identities back into it: undo.rs captures and restores all of the
\* deterministic state.
THEOREM JournalIsExact ==
  ASSUME NEW f \in FeatureStates, NEW g \in FeatureStates, NEW keys \in SUBSET Keys,
         FeaturesUntouched(f, g, keys)
  PROVE  RestoreDeterministic(g, DeterministicJournal(f, keys)) = f
<1> DEFINE j == DeterministicJournal(f, keys)
           back == RestoreDeterministic(g, j)
<1>1. /\ j.scalars = [first_day_offset |-> f.first_day_offset,
                      prev_day_offset |-> f.prev_day_offset,
                      card_count |-> f.card_count, i |-> f.i, today |-> f.today,
                      today_reviews |-> f.today_reviews,
                      today_new_cards |-> f.today_new_cards,
                      id_rng |-> f.id_rng]
      /\ j.known = f.card_set \cap CardsOf(keys)
      /\ j.by_card = [m \in CardMaps |-> [c \in CardsOf(keys) |-> f.by_card[m][c]]]
      /\ j.id_encodings = [k \in keys \cap IdentityKeys |-> f.id_encodings[k]]
      /\ j.recurrent = f.recurrent_state_keys \cap keys
      /\ j.keys = keys
  BY DEF DeterministicJournal
<1> HIDE DEF j
<1>2. (g.card_set \ CardsOf(j.keys)) \cup j.known = f.card_set
  BY <1>1 DEF FeaturesUntouched
<1>3. (g.recurrent_state_keys \ j.keys) \cup j.recurrent = f.recurrent_state_keys
  BY <1>1 DEF FeaturesUntouched
<1>4. RestoreEntries(g.id_encodings, j.id_encodings) = f.id_encodings
  <2>1. f.id_encodings \in [IdentityKeys -> MaybeInt]
        /\ g.id_encodings \in [IdentityKeys -> MaybeInt]
    BY DEF FeatureStates
  <2>2. RestoreEntries(g.id_encodings, j.id_encodings)
          = [k \in IdentityKeys |-> IF k \in keys THEN f.id_encodings[k]
                                    ELSE g.id_encodings[k]]
    BY <1>1, <2>1 DEF RestoreEntries
  <2>3. QED
    BY <2>1, <2>2 DEF FeaturesUntouched
<1>5. [m \in CardMaps |-> RestoreEntries(g.by_card[m], j.by_card[m])] = f.by_card
  <2>1. f.by_card \in [CardMaps -> [Cards -> MaybeInt]]
        /\ g.by_card \in [CardMaps -> [Cards -> MaybeInt]]
    BY DEF FeatureStates
  <2>2. ASSUME NEW m \in CardMaps
        PROVE  RestoreEntries(g.by_card[m], j.by_card[m]) = f.by_card[m]
    <3>1. j.by_card[m] = [c \in CardsOf(keys) |-> f.by_card[m][c]]
      BY <1>1
    <3>2. g.by_card[m] \in [Cards -> MaybeInt] /\ f.by_card[m] \in [Cards -> MaybeInt]
      BY <2>1
    <3>3. RestoreEntries(g.by_card[m], j.by_card[m])
            = [c \in Cards |-> IF c \in CardsOf(keys) THEN f.by_card[m][c]
                               ELSE g.by_card[m][c]]
      BY <3>1, <3>2 DEF RestoreEntries
    <3>4. QED
      BY <3>2, <3>3 DEF FeaturesUntouched
  <2>3. QED
    BY <2>1, <2>2
<1>6. /\ j.scalars.first_day_offset = f.first_day_offset
      /\ j.scalars.prev_day_offset = f.prev_day_offset
      /\ j.scalars.card_count = f.card_count /\ j.scalars.i = f.i
      /\ j.scalars.today = f.today
      /\ j.scalars.today_reviews = f.today_reviews
      /\ j.scalars.today_new_cards = f.today_new_cards
      /\ j.scalars.id_rng = f.id_rng
  BY ONLY <1>1
<1>7. back = [first_day_offset |-> f.first_day_offset,
              prev_day_offset |-> f.prev_day_offset,
              card_set |-> f.card_set, card_count |-> f.card_count, i |-> f.i,
              today |-> f.today, today_reviews |-> f.today_reviews,
              today_new_cards |-> f.today_new_cards, by_card |-> f.by_card,
              id_encodings |-> f.id_encodings,
              recurrent_state_keys |-> f.recurrent_state_keys,
              id_rng |-> f.id_rng]
  BY ONLY <1>2, <1>3, <1>4, <1>5, <1>6 DEF RestoreDeterministic, back
<1> HIDE DEF back
<1>8. f = [first_day_offset |-> f.first_day_offset,
           prev_day_offset |-> f.prev_day_offset,
           card_set |-> f.card_set, card_count |-> f.card_count, i |-> f.i,
           today |-> f.today, today_reviews |-> f.today_reviews,
           today_new_cards |-> f.today_new_cards, by_card |-> f.by_card,
           id_encodings |-> f.id_encodings,
           recurrent_state_keys |-> f.recurrent_state_keys,
           id_rng |-> f.id_rng]
  BY DEF FeatureStates
<1>9. back = f
  BY ONLY <1>7, <1>8
<1>10. QED
  BY <1>9 DEF j, back

-------------------------------------------------------------------------------
(* The GPU prediction cache.                                                *)


Sound(g, states) ==
  /\ g \in Predictors
  /\ Mirrors(g, states)
  /\ CacheIsCurrent(g)

LEMMA IdentitiesAreOrdered ==
  ASSUME NEW key \in Keys
  PROVE  key[2] \in Int
<1>1. PICK r \in Reviews : key \in KeysOf(r)
  BY DEF Keys, KeysOfAll
<1>2. PICK k \in Kinds : key = <<k, NormalizedIds(r)[k]>>
  BY <1>1 DEF KeysOf
<1>3. /\ r.card \in Int /\ Placeholder \in Int
      /\ r.note \in Int \cup {None} /\ r.deck \in Int \cup {None}
      /\ r.preset \in Int \cup {None}
  BY ReviewAssumption
<1>4. /\ IdOrPlaceholder(r.note, r.card) \in Int
      /\ IdOrPlaceholder(r.deck, 0) \in Int
      /\ IdOrPlaceholder(r.preset, 0) \in Int
  BY <1>3 DEF IdOrPlaceholder
<1>5. NormalizedIds(r)[k] \in Int
  BY <1>3, <1>4 DEF NormalizedIds, Kinds, IdentityKinds
<1>6. QED
  BY <1>2, <1>5

LEMMA TupleKeys ==
  ASSUME NEW t \in Tuples, NEW k \in Kinds
  PROVE  KeyIn(t, k) \in Keys /\ KeyIn(t, k)[1] = k
<1>1. PICK r \in Reviews : t = NormalizedIds(r)
  BY DEF Tuples
<1>2. QED
  BY <1>1, KeysOfReview DEF KeyIn

-------------------------------------------------------------------------------
(* Building the arenas.                                                     *)

LEMMA HeldIsFinite ==
  ASSUME NEW states, NEW k \in Kinds
  PROVE  /\ Held(states, k) \subseteq Keys
         /\ IsFiniteSet(Held(states, k))
         /\ Cardinality(Held(states, k)) \in Nat
<1>1. Held(states, k) \subseteq Keys
  BY DEF Held
<1>2. IsFiniteSet(Held(states, k))
  BY <1>1, ReviewAssumption, FS_Subset
<1>3. QED
  BY <1>1, <1>2, FS_CardinalityType

\* Ranks tell the identities of a kind apart and stay below their number.
LEMMA RankFacts ==
  ASSUME NEW states, NEW k \in Kinds, NEW a \in Held(states, k)
  PROVE  /\ Rank(states, a) \in 0 .. Cardinality(Held(states, k)) - 1
         /\ \A b \in Held(states, k) : a[2] < b[2] => Rank(states, a) < Rank(states, b)
<1> DEFINE below(key) == {m \in Held(states, k) : m[2] < key[2]}
<1>1. a \in Keys /\ a[1] = k /\ a[2] \in Int
  BY IdentitiesAreOrdered DEF Held
<1>2. Rank(states, a) = Cardinality(below(a))
  BY <1>1 DEF Rank
<1>3. IsFiniteSet(below(a)) /\ Cardinality(below(a)) \in Nat
  <2>1. below(a) \subseteq Held(states, k)
    OBVIOUS
  <2>2. QED
    BY <2>1, HeldIsFinite, FS_Subset, FS_CardinalityType
<1>4. a \notin below(a)
  BY <1>1
<1>5. ASSUME NEW S, IsFiniteSet(S), below(a) \cup {a} \subseteq S
      PROVE  Cardinality(below(a)) + 1 <= Cardinality(S) /\ Cardinality(S) \in Nat
  <2> HIDE DEF below
  <2>1. /\ IsFiniteSet(below(a) \cup {a})
        /\ Cardinality(below(a) \cup {a}) = Cardinality(below(a)) + 1
    BY <1>3, <1>4, FS_AddElement
  <2>2. Cardinality(below(a) \cup {a}) <= Cardinality(S)
    BY <1>5, FS_Subset
  <2>3. QED
    BY <1>3, <1>5, <2>1, <2>2, FS_CardinalityType
<1>6. Rank(states, a) \in 0 .. Cardinality(Held(states, k)) - 1
  <2>1. below(a) \cup {a} \subseteq Held(states, k)
    OBVIOUS
  <2> HIDE DEF below
  <2>2. /\ Cardinality(below(a)) + 1 <= Cardinality(Held(states, k))
        /\ Cardinality(Held(states, k)) \in Nat
    BY <1>5, <2>1, HeldIsFinite
  <2>3. QED
    BY <1>2, <1>3, <2>2
<1>7. ASSUME NEW b \in Held(states, k), a[2] < b[2]
      PROVE  Rank(states, a) < Rank(states, b)
  <2>1. b \in Keys /\ b[1] = k /\ b[2] \in Int
    BY IdentitiesAreOrdered DEF Held
  <2>2. Rank(states, b) = Cardinality(below(b))
    BY <2>1 DEF Rank
  <2>3. below(b) \subseteq Held(states, k)
    OBVIOUS
  <2>4. IsFiniteSet(below(b))
    BY <2>3, HeldIsFinite, FS_Subset
  <2>5. below(a) \cup {a} \subseteq below(b)
    <3>1. \A m \in Held(states, k) : m[2] \in Int
      BY IdentitiesAreOrdered DEF Held
    <3>2. QED
      BY <1>1, <1>7, <2>1, <3>1
  <2> HIDE DEF below
  <2>6. Cardinality(below(a)) + 1 <= Cardinality(below(b)) /\ Cardinality(below(b)) \in Nat
    BY <1>5, <2>4, <2>5
  <2>7. QED
    BY <1>2, <1>3, <2>2, <2>6
<1>8. QED
  BY <1>6, <1>7

LEMMA RankIsInjective ==
  ASSUME NEW states, NEW k \in Kinds, NEW a \in Held(states, k),
         NEW b \in Held(states, k), Rank(states, a) = Rank(states, b)
  PROVE  a = b
<1>1. a \in Keys /\ b \in Keys /\ a[1] = k /\ b[1] = k
  BY DEF Held
<1>2. a[2] \in Int /\ b[2] \in Int
  BY <1>1, IdentitiesAreOrdered
<1>3. Rank(states, a) \in Int /\ Rank(states, b) \in Int
  <2>1. Cardinality(Held(states, k)) \in Nat
    BY HeldIsFinite
  <2>2. QED
    BY <2>1, RankFacts
<1>4. ~(a[2] < b[2]) /\ ~(b[2] < a[2])
  BY <1>3, RankFacts
<1>5. a[2] = b[2]
  BY <1>2, <1>4
<1>6. QED
  BY <1>1, <1>5, KeyShape

\* A freshly built predictor mirrors the states it was built from.
LEMMA ArenaIsSound ==
  ASSUME NEW states \in MaybeStates, Fits(states)
  PROVE  Sound(StateArena(states), states)
<1> DEFINE g == StateArena(states)
           held(k) == Held(states, k)
           at(k, s) == \E key \in held(k) : Rank(states, key) = s
<1>1. ASSUME NEW key \in Keys, states[key] # None
      PROVE  /\ key[1] \in Kinds /\ key \in held(key[1])
             /\ Rank(states, key) \in 0 .. g.len[key[1]] - 1
             /\ g.len[key[1]] \in 0 .. MaxSlots
             /\ g.slots[key] = Rank(states, key) /\ g.slots[key] \in Slots
  <2>1. key[1] \in Kinds /\ key \in held(key[1])
    BY <1>1, KeyShape DEF Held
  <2>2. g.len[key[1]] = Cardinality(held(key[1])) /\ g.slots[key] = Rank(states, key)
    BY <1>1, <2>1 DEF StateArena
  <2>3. Cardinality(held(key[1])) \in Nat /\ Cardinality(held(key[1])) <= MaxSlots
    BY <2>1, HeldIsFinite DEF Fits
  <2>4. Rank(states, key) \in 0 .. Cardinality(held(key[1])) - 1
    BY <2>1, RankFacts
  <2> HIDE DEF g, held
  <2>5. QED
    BY <2>1, <2>2, <2>3, <2>4, SlotAssumption DEF Slots
<1>2. ASSUME NEW k \in Kinds, NEW s \in Slots
      PROVE  g.buffer[k][s] \in States \cup {None}
  <2>1. CASE at(k, s)
    <3>1. (CHOOSE key \in held(k) : Rank(states, key) = s) \in Keys
      BY <2>1 DEF Held
    <3>2. g.buffer[k][s] = states[CHOOSE key \in held(k) : Rank(states, key) = s]
      BY <2>1 DEF StateArena
    <3>3. QED
      BY <3>1, <3>2 DEF MaybeStates
  <2>2. CASE ~at(k, s)
    BY <2>2 DEF StateArena
  <2>3. QED
    BY <2>1, <2>2
<1>3. g \in Predictors
  <2>1. g.len \in [Kinds -> 0 .. MaxSlots]
    <3>1. ASSUME NEW k \in Kinds
          PROVE  Cardinality(held(k)) \in 0 .. MaxSlots
      BY HeldIsFinite, SlotAssumption DEF Fits
    <3>2. g.len = [k \in Kinds |-> Cardinality(held(k))]
      BY DEF StateArena
    <3> HIDE DEF held, g
    <3>3. QED
      BY <3>1, <3>2
  <2>2. g.slots \in [Keys -> Slots \cup {None}]
    <3>1. ASSUME NEW key \in Keys
          PROVE  g.slots[key] \in Slots \cup {None}
      <4>1. CASE states[key] = None
        BY <4>1 DEF StateArena
      <4>2. CASE states[key] # None
        BY <4>2, <1>1
      <4>3. QED
        BY <4>1, <4>2
    <3>2. QED
      BY <3>1 DEF StateArena
  <2>3. g.buffer \in [Kinds -> [Slots -> States \cup {None}]]
    BY <1>2 DEF StateArena
  <2>4. g.slot_cache \in [Tuples -> [Kinds -> Slots] \cup {None}]
    BY DEF StateArena
  <2>5. g = [len |-> g.len, slots |-> g.slots, buffer |-> g.buffer,
             slot_cache |-> g.slot_cache]
    BY DEF StateArena
  <2> HIDE DEF g
  <2>6. QED
    BY <2>1, <2>2, <2>3, <2>4, <2>5 DEF Predictors
<1>4. ASSUME NEW key \in Keys
      PROVE  /\ g.slots[key] = None <=> states[key] = None
             /\ g.slots[key] # None =>
                  /\ g.slots[key] \in 0 .. g.len[key[1]] - 1
                  /\ g.buffer[key[1]][g.slots[key]] = states[key]
  <2>1. CASE states[key] = None
    BY <2>1 DEF StateArena
  <2>2. CASE states[key] # None
    <3>1. g.slots[key] # None
      <4>1. None \notin Slots
        BY ReviewAssumption DEF Slots
      <4>2. QED
        BY <1>1, <2>2, <4>1
    <3>2. g.buffer[key[1]][g.slots[key]] = states[key]
      <4>1. PICK m : m = CHOOSE e \in held(key[1]) : Rank(states, e) = g.slots[key]
        OBVIOUS
      <4>2. m \in held(key[1]) /\ Rank(states, m) = Rank(states, key)
        BY <1>1, <2>2, <4>1
      <4>3. m = key
        BY <1>1, <2>2, <4>2, RankIsInjective
      <4>4. g.buffer[key[1]][g.slots[key]] = states[m]
        BY <1>1, <2>2, <4>1 DEF StateArena
      <4>5. QED
        BY <4>3, <4>4
    <3>3. QED
      BY <1>1, <2>2, <3>1, <3>2
  <2>3. QED
    BY <2>1, <2>2
<1>5. ASSUME NEW a \in Keys, NEW b \in Keys, a[1] = b[1], g.slots[a] = g.slots[b],
             g.slots[a] # None
      PROVE  a = b
  <2>1. states[a] # None /\ states[b] # None
    BY <1>4, <1>5
  <2>2. QED
    BY <1>1, <1>5, <2>1, RankIsInjective
<1>6. CacheIsCurrent(g)
  BY DEF CacheIsCurrent, StateArena
<1> HIDE DEF g
<1>7. Sound(g, states)
  BY <1>3, <1>4, <1>5, <1>6 DEF Sound, Mirrors
<1>8. QED
  BY <1>7 DEF g

-------------------------------------------------------------------------------
(* Looking slots up.                                                        *)

LEMMA LookupIsSound ==
  ASSUME NEW g, NEW states, Sound(g, states), NEW t \in Tuples
  PROVE  Sound(Queried(g, t), states)
<1> DEFINE found == QuerySlots(g, t)
           valid == \A k \in Kinds : found[k] # None
<1>1. CASE ~valid
  BY <1>1 DEF Queried
<1>2. CASE valid
  <2>1. g \in Predictors
    BY DEF Sound
  <2>2. ASSUME NEW k \in Kinds
        PROVE  found[k] = g.slots[KeyIn(t, k)] /\ found[k] \in Slots
    <3>1. found[k] = g.slots[KeyIn(t, k)]
      BY DEF Sound, CacheIsCurrent, QuerySlots
    <3>2. g.slots[KeyIn(t, k)] \in Slots \cup {None}
      BY <2>1, TupleKeys DEF Predictors
    <3>3. QED
      BY <1>2, <3>1, <3>2
  <2>3. found \in [Kinds -> Slots]
    <3>1. found = [k \in Kinds |-> found[k]]
      <4>1. CASE g.slot_cache[t] = None
        BY <4>1 DEF QuerySlots
      <4>2. CASE g.slot_cache[t] # None
        <5>1. g.slot_cache[t] \in [Kinds -> Slots]
          BY <2>1, <4>2 DEF Predictors
        <5>2. QED
          BY <4>2, <5>1 DEF QuerySlots
      <4>3. QED
        BY <4>1, <4>2
    <3> HIDE DEF found
    <3>2. QED
      BY <3>1, <2>2
  <2>4. Queried(g, t) = [g EXCEPT !.slot_cache[t] = found]
    BY <1>2 DEF Queried
  <2> DEFINE h == [g EXCEPT !.slot_cache[t] = found]
  <2> HIDE DEF found
  <2>5. h.len = g.len /\ h.slots = g.slots /\ h.buffer = g.buffer
        /\ h.slot_cache = [g.slot_cache EXCEPT ![t] = found]
        /\ h \in Predictors
    BY <2>1, <2>3 DEF Predictors
  <2>6. h.slot_cache[t] = found
        /\ \A u \in Tuples : u # t => h.slot_cache[u] = g.slot_cache[u]
    BY <2>1, <2>5 DEF Predictors
  <2> HIDE DEF h
  <2>7. Mirrors(h, states)
    BY <2>5 DEF Sound, Mirrors
  <2>8. CacheIsCurrent(h)
    <3>1. ASSUME NEW u \in Tuples, h.slot_cache[u] # None, NEW k \in Kinds
          PROVE  /\ h.slots[KeyIn(u, k)] # None
                 /\ h.slot_cache[u][k] = h.slots[KeyIn(u, k)]
      <4>1. CASE u = t
        BY <1>2, <2>2, <2>5, <2>6, <4>1 DEF found
      <4>2. CASE u # t
        BY <2>5, <2>6, <3>1, <4>2 DEF Sound, CacheIsCurrent
      <4>3. QED
        BY <4>1, <4>2
    <3>2. QED
      BY <3>1 DEF CacheIsCurrent
  <2>9. QED
    BY <2>4, <2>5, <2>7, <2>8 DEF Sound, h
<1>3. QED
  BY <1>1, <1>2

-------------------------------------------------------------------------------
(* Uploading states, at most one of each kind.                              *)

OnePerKind(keys) ==
  /\ keys \subseteq Keys
  /\ \A a, b \in keys : a[1] = b[1] => a = b

Uploadable(g, keys) ==
  OnePerKind(keys) /\ \A key \in keys : HasRoom(g, key)

\* The states after some keys got new ones.
Renewed(old, new, keys) ==
  /\ old \in MaybeStates /\ new \in MaybeStates
  /\ \A k \in keys : new[k] # None
  /\ \A k \in Keys \ keys : new[k] = old[k]

LEMMA ReviewIsOnePerKind ==
  ASSUME NEW r \in Reviews
  PROVE  OnePerKind(KeysOf(r))
BY KeysOfReview DEF OnePerKind

LEMMA SlotFacts ==
  ASSUME NEW g, NEW states, Sound(g, states), NEW key \in Keys
  PROVE  /\ key[1] \in Kinds
         /\ g.len[key[1]] \in 0 .. MaxSlots
         /\ g.slots[key] # None =>
              /\ g.slots[key] \in Slots
              /\ g.slots[key] \in Int
              /\ g.slots[key] < g.len[key[1]]
<1>1. key[1] \in Kinds
  BY KeyShape
<1>2. g.len[key[1]] \in 0 .. MaxSlots /\ g.slots[key] \in Slots \cup {None}
  BY <1>1 DEF Sound, Predictors
<1>3. g.slots[key] # None => g.slots[key] \in 0 .. g.len[key[1]] - 1
  BY DEF Sound, Mirrors
<1>4. QED
  BY <1>1, <1>2, <1>3, SlotAssumption

LEMMA UploadSlotFacts ==
  ASSUME NEW g, NEW states, Sound(g, states), NEW key \in Keys, HasRoom(g, key)
  PROVE  /\ UploadSlot(g, key) \in Slots
         /\ UploadSlot(g, key) # None
         /\ UploadSlot(g, key) \in Int
         /\ g.slots[key] = None => UploadSlot(g, key) = g.len[key[1]]
         /\ g.slots[key] # None => UploadSlot(g, key) = g.slots[key]
<1>1. None \notin Int /\ Slots = 0 .. MaxSlots - 1 /\ MaxSlots \in Nat
  BY ReviewAssumption, SlotAssumption DEF Slots
<1>2. CASE g.slots[key] = None
  <2>1. g.len[key[1]] \in 0 .. MaxSlots /\ g.len[key[1]] < MaxSlots
    BY <1>2, SlotFacts DEF HasRoom
  <2>2. QED
    BY <1>1, <1>2, <2>1 DEF UploadSlot
<1>3. CASE g.slots[key] # None
  BY <1>1, <1>3, SlotFacts DEF UploadSlot
<1>4. QED
  BY <1>2, <1>3

LEMMA UploadIsSound ==
  ASSUME NEW g, NEW old, NEW new, NEW keys,
         Sound(g, old), Renewed(old, new, keys), Uploadable(g, keys)
  PROVE  Sound(Uploaded(g, new, keys), new)
<1> DEFINE h == Uploaded(g, new, keys)
           grows(k) == \E key \in keys : key[1] = k /\ g.slots[key] = None
           hit(k, s) == \E key \in keys : key[1] = k /\ UploadSlot(g, key) = s
<1>1. g \in Predictors /\ keys \subseteq Keys
  BY DEF Sound, Uploadable, OnePerKind
<1>2. /\ h.len = [k \in Kinds |-> IF grows(k) THEN g.len[k] + 1 ELSE g.len[k]]
      /\ h.slots = [key \in Keys |->
            IF key \in keys THEN UploadSlot(g, key) ELSE g.slots[key]]
      /\ h.buffer = [k \in Kinds |-> [s \in Slots |->
            IF hit(k, s) THEN new[CHOOSE key \in keys : key[1] = k]
            ELSE g.buffer[k][s]]]
      /\ h.slot_cache = g.slot_cache
      /\ h = [len |-> h.len, slots |-> h.slots, buffer |-> h.buffer,
              slot_cache |-> h.slot_cache]
  BY DEF Uploaded
<1> HIDE DEF h
<1>3. ASSUME NEW key \in keys
      PROVE  /\ h.slots[key] = UploadSlot(g, key)
             /\ UploadSlot(g, key) \in Slots /\ UploadSlot(g, key) # None
             /\ UploadSlot(g, key) \in Int
             /\ g.slots[key] = None => UploadSlot(g, key) = g.len[key[1]]
             /\ g.slots[key] # None => UploadSlot(g, key) = g.slots[key]
  BY <1>1, <1>2, UploadSlotFacts DEF Uploadable
<1>4. ASSUME NEW key \in Keys \ keys
      PROVE  h.slots[key] = g.slots[key]
  BY <1>2
<1>5. ASSUME NEW k \in Kinds
      PROVE  /\ g.len[k] \in 0 .. MaxSlots
             /\ h.len[k] \in 0 .. MaxSlots
             /\ h.len[k] = IF grows(k) THEN g.len[k] + 1 ELSE g.len[k]
  <2>1. g.len[k] \in 0 .. MaxSlots
    BY <1>1 DEF Predictors
  <2>2. h.len[k] = IF grows(k) THEN g.len[k] + 1 ELSE g.len[k]
    BY <1>2
  <2>3. grows(k) => g.len[k] < MaxSlots
    BY DEF Uploadable, HasRoom
  <2> HIDE DEF grows
  <2>4. QED
    BY <2>1, <2>2, <2>3, SlotAssumption
<1>6. ASSUME NEW key \in keys
      PROVE  (CHOOSE m \in keys : m[1] = key[1]) = key
  <2>1. \E m \in keys : m[1] = key[1]
    OBVIOUS
  <2>2. PICK m : m = CHOOSE x \in keys : x[1] = key[1]
    OBVIOUS
  <2>3. m \in keys /\ m[1] = key[1]
    BY <2>1, <2>2
  <2>4. QED
    BY <2>2, <2>3 DEF Uploadable, OnePerKind
<1>7. ASSUME NEW k \in Kinds, NEW s \in Slots
      PROVE  /\ ~hit(k, s) => h.buffer[k][s] = g.buffer[k][s]
             /\ \A key \in keys : key[1] = k /\ UploadSlot(g, key) = s
                  => h.buffer[k][s] = new[key]
  BY <1>2, <1>6
<1>8. h \in Predictors
  <2>1. h.len \in [Kinds -> 0 .. MaxSlots]
    BY <1>2, <1>5
  <2>2. h.slots \in [Keys -> Slots \cup {None}]
    <3>1. ASSUME NEW key \in Keys
          PROVE  h.slots[key] \in Slots \cup {None}
      <4>1. CASE key \in keys
        BY <1>3, <4>1
      <4>2. CASE key \notin keys
        BY <1>1, <1>4, <4>2 DEF Predictors
      <4>3. QED
        BY <4>1, <4>2
    <3>2. QED
      BY <1>2, <3>1
  <2>3. h.buffer \in [Kinds -> [Slots -> States \cup {None}]]
    <3>1. ASSUME NEW k \in Kinds, NEW s \in Slots
          PROVE  h.buffer[k][s] \in States \cup {None}
      <4>1. CASE hit(k, s)
        <5>1. PICK key \in keys : key[1] = k /\ UploadSlot(g, key) = s
          BY <4>1
        <5>2. h.buffer[k][s] = new[key]
          BY <1>7, <5>1
        <5>3. QED
          BY <1>1, <5>2 DEF Renewed, MaybeStates
      <4>2. CASE ~hit(k, s)
        BY <1>1, <1>7, <4>2 DEF Predictors
      <4>3. QED
        BY <4>1, <4>2
    <3>2. QED
      BY <1>2, <3>1
  <2>4. h.slot_cache \in [Tuples -> [Kinds -> Slots] \cup {None}]
    BY <1>1, <1>2 DEF Predictors
  <2>5. QED
    BY <1>2, <2>1, <2>2, <2>3, <2>4 DEF Predictors
\* An uploaded slot is not the slot of another identity.
<1>9. ASSUME NEW a \in keys, NEW b \in Keys \ keys, a[1] = b[1],
             g.slots[b] # None
      PROVE  UploadSlot(g, a) # g.slots[b]
  <2>1. g.slots[b] \in Int /\ g.slots[b] < g.len[b[1]]
    BY <1>9, SlotFacts
  <2>2. CASE g.slots[a] = None
    BY <1>3, <1>9, <2>1, <2>2
  <2>3. CASE g.slots[a] # None
    <3>1. a # b
      OBVIOUS
    <3>2. QED
      BY <1>1, <1>3, <1>9, <2>3, <3>1 DEF Sound, Mirrors
  <2>4. QED
    BY <2>2, <2>3
<1>10. ASSUME NEW key \in Keys
       PROVE  /\ h.slots[key] = None <=> new[key] = None
              /\ h.slots[key] # None =>
                   /\ h.slots[key] \in 0 .. h.len[key[1]] - 1
                   /\ h.buffer[key[1]][h.slots[key]] = new[key]
  <2>1. key[1] \in Kinds
    BY KeyShape
  <2>2. CASE key \in keys
    <3>1. h.slots[key] # None /\ new[key] # None
      BY <1>3, <2>2 DEF Renewed
    <3>2. h.slots[key] \in 0 .. h.len[key[1]] - 1
      <4>1. CASE g.slots[key] = None
        <5>1. grows(key[1])
          BY <2>2, <4>1
        <5>2. h.len[key[1]] = g.len[key[1]] + 1 /\ g.len[key[1]] \in 0 .. MaxSlots
          BY <1>5, <2>1, <5>1
        <5>3. h.slots[key] = g.len[key[1]]
          BY <1>3, <2>2, <4>1
        <5>4. QED
          BY <5>2, <5>3, SlotAssumption
      <4>2. CASE g.slots[key] # None
        <5>1. g.slots[key] \in 0 .. g.len[key[1]] - 1
          BY <4>2 DEF Sound, Mirrors
        <5>2. h.slots[key] = g.slots[key]
          BY <1>3, <2>2, <4>2
        <5>3. g.len[key[1]] \in Int /\ h.len[key[1]] \in Int
              /\ g.len[key[1]] <= h.len[key[1]]
          <6> HIDE DEF grows
          <6>1. QED
            BY <1>5, <2>1, SlotAssumption
        <5>4. QED
          BY <5>1, <5>2, <5>3
      <4>3. QED
        BY <4>1, <4>2
    <3>3. h.buffer[key[1]][h.slots[key]] = new[key]
      BY <1>3, <1>7, <2>1, <2>2
    <3>4. QED
      BY <3>1, <3>2, <3>3
  <2>3. CASE key \notin keys
    <3>1. h.slots[key] = g.slots[key] /\ new[key] = old[key]
      BY <1>4, <2>3 DEF Renewed
    <3>2. g.slots[key] = None <=> old[key] = None
      BY DEF Sound, Mirrors
    <3>3. ASSUME g.slots[key] # None
          PROVE  /\ h.slots[key] \in 0 .. h.len[key[1]] - 1
                 /\ h.buffer[key[1]][h.slots[key]] = new[key]
      <4>1. /\ g.slots[key] \in 0 .. g.len[key[1]] - 1
            /\ g.buffer[key[1]][g.slots[key]] = old[key]
        BY <3>3 DEF Sound, Mirrors
      <4>2. g.slots[key] \in Slots
        BY <3>3, SlotFacts
      <4>3. ~hit(key[1], g.slots[key])
        BY <1>9, <2>3, <3>3
      <4>4. h.buffer[key[1]][g.slots[key]] = g.buffer[key[1]][g.slots[key]]
        BY <1>7, <2>1, <4>2, <4>3
      <4>5. g.len[key[1]] \in Int /\ h.len[key[1]] \in Int
            /\ g.len[key[1]] <= h.len[key[1]]
        <5> HIDE DEF grows
        <5>1. QED
          BY <1>5, <2>1, SlotAssumption
      <4>6. h.slots[key] \in 0 .. h.len[key[1]] - 1
        BY <3>1, <4>1, <4>5
      <4>7. QED
        BY <3>1, <4>1, <4>4, <4>6
    <3>4. QED
      BY <3>1, <3>2, <3>3
  <2>4. QED
    BY <2>2, <2>3
<1>11. ASSUME NEW a \in Keys, NEW b \in Keys, a[1] = b[1],
              h.slots[a] = h.slots[b], h.slots[a] # None
       PROVE  a = b
  <2>1. CASE a \in keys /\ b \in keys
    BY <1>11, <2>1 DEF Uploadable, OnePerKind
  <2>2. CASE a \in keys /\ b \notin keys
    BY <1>3, <1>4, <1>9, <1>11, <2>2
  <2>3. CASE a \notin keys /\ b \in keys
    BY <1>3, <1>4, <1>9, <1>11, <2>3
  <2>4. CASE a \notin keys /\ b \notin keys
    BY <1>4, <1>11, <2>4 DEF Sound, Mirrors
  <2>5. QED
    BY <2>1, <2>2, <2>3, <2>4
\* A cached tuple names slots that were taken already: they have not moved.
<1>12. CacheIsCurrent(h)
  <2>1. ASSUME NEW t \in Tuples, h.slot_cache[t] # None, NEW k \in Kinds
        PROVE  /\ h.slots[KeyIn(t, k)] # None
               /\ h.slot_cache[t][k] = h.slots[KeyIn(t, k)]
    <3>1. /\ g.slots[KeyIn(t, k)] # None
          /\ g.slot_cache[t][k] = g.slots[KeyIn(t, k)]
      BY <1>2, <2>1 DEF Sound, CacheIsCurrent
    <3>2. h.slots[KeyIn(t, k)] = g.slots[KeyIn(t, k)]
      BY <1>3, <1>4, <3>1, TupleKeys
    <3>3. QED
      BY <1>2, <3>1, <3>2
  <2>2. QED
    BY <2>1 DEF CacheIsCurrent
<1>13. Sound(h, new)
  BY <1>8, <1>10, <1>11, <1>12 DEF Sound, Mirrors
<1>14. QED
  BY <1>13 DEF h

\* After a processed review, a predictor that is kept mirrors the new states.
LEMMA SyncIsSound ==
  ASSUME NEW g, NEW old, NEW new, NEW r \in Reviews, g # None,
         Sound(g, old), Renewed(old, new, KeysOf(r)),
         NEW h \in SyncGpuReviewStates(g, new, r), h # None
  PROVE  Sound(h, new)
<1>1. h = Uploaded(g, new, KeysOf(r)) /\ \A key \in KeysOf(r) : HasRoom(g, key)
  BY DEF SyncGpuReviewStates
<1>2. Uploadable(g, KeysOf(r))
  BY <1>1, ReviewIsOnePerKind DEF Uploadable
<1>3. QED
  BY <1>1, <1>2, UploadIsSound

-------------------------------------------------------------------------------
(* Giving slots back.                                                       *)

Retirable(g, keys) ==
  /\ OnePerKind(keys)
  /\ \A key \in keys : g.slots[key] # None /\ IsTail(g, key)

Emptied(old, new, keys) ==
  /\ old \in MaybeStates /\ new \in MaybeStates
  /\ \A k \in keys : new[k] = None
  /\ \A k \in Keys \ keys : new[k] = old[k]

LEMMA RetireIsSound ==
  ASSUME NEW g, NEW old, NEW new, NEW keys,
         g \in Predictors, Mirrors(g, old),
         Emptied(old, new, keys), Retirable(g, keys)
  PROVE  /\ Retired(g, keys) \in Predictors
         /\ Mirrors(Retired(g, keys), new)
<1> DEFINE h == Retired(g, keys)
           shrinks(k) == \E key \in keys : key[1] = k
<1>1. keys \subseteq Keys
  BY DEF Retirable, OnePerKind
<1>2. /\ h.len = [k \in Kinds |-> IF shrinks(k) THEN g.len[k] - 1 ELSE g.len[k]]
      /\ h.slots = [key \in Keys |-> IF key \in keys THEN None ELSE g.slots[key]]
      /\ h.buffer = g.buffer
      /\ h.slot_cache = g.slot_cache
      /\ h = [len |-> h.len, slots |-> h.slots, buffer |-> h.buffer,
              slot_cache |-> h.slot_cache]
  BY DEF Retired
<1> HIDE DEF h
<1>3. ASSUME NEW key \in Keys
      PROVE  /\ key[1] \in Kinds /\ g.len[key[1]] \in 0 .. MaxSlots
             /\ g.slots[key] # None => g.slots[key] \in 0 .. g.len[key[1]] - 1
  <2>1. key[1] \in Kinds
    BY KeyShape
  <2>2. QED
    BY <2>1 DEF Predictors, Mirrors
<1>4. ASSUME NEW k \in Kinds
      PROVE  h.len[k] \in 0 .. MaxSlots
  <2>1. g.len[k] \in 0 .. MaxSlots
    BY DEF Predictors
  <2>2. h.len[k] = IF shrinks(k) THEN g.len[k] - 1 ELSE g.len[k]
    BY <1>2
  <2>3. CASE shrinks(k)
    <3>1. PICK key \in keys : key[1] = k
      BY <2>3
    <3>2. g.slots[key] \in 0 .. g.len[k] - 1
      BY <1>1, <1>3, <3>1 DEF Retirable
    <3>3. h.len[k] = g.len[k] - 1
      BY <2>2, <2>3
    <3>4. QED
      BY <2>1, <3>2, <3>3, SlotAssumption
  <2>4. CASE ~shrinks(k)
    BY <2>1, <2>2, <2>4
  <2>5. QED
    BY <2>3, <2>4
<1>5. h \in Predictors
  <2>1. h.len \in [Kinds -> 0 .. MaxSlots]
    BY <1>2, <1>4
  <2>2. h.slots \in [Keys -> Slots \cup {None}]
    <3>1. g.slots \in [Keys -> Slots \cup {None}]
      BY DEF Predictors
    <3>2. QED
      BY <1>2, <3>1
  <2>3. QED
    BY <1>2, <2>1, <2>2 DEF Predictors
<1>6. ASSUME NEW key \in Keys
      PROVE  /\ h.slots[key] = None <=> new[key] = None
             /\ h.slots[key] # None =>
                  /\ h.slots[key] \in 0 .. h.len[key[1]] - 1
                  /\ h.buffer[key[1]][h.slots[key]] = new[key]
  <2>1. CASE key \in keys
    BY <1>2, <2>1 DEF Emptied
  <2>2. CASE key \notin keys
    <3>1. h.slots[key] = g.slots[key] /\ new[key] = old[key]
      BY <1>2, <2>2 DEF Emptied
    <3>2. g.slots[key] = None <=> old[key] = None
      BY DEF Mirrors
    <3>3. ASSUME g.slots[key] # None
          PROVE  /\ h.slots[key] \in 0 .. h.len[key[1]] - 1
                 /\ h.buffer[key[1]][h.slots[key]] = new[key]
      <4>1. /\ g.slots[key] \in 0 .. g.len[key[1]] - 1
            /\ g.buffer[key[1]][g.slots[key]] = old[key]
        BY <3>3 DEF Mirrors
      <4>2. h.slots[key] \in 0 .. h.len[key[1]] - 1
        <5>1. CASE shrinks(key[1])
          <6>1. PICK last \in keys : last[1] = key[1]
            BY <5>1
          <6>2. last # key /\ last \in Keys
            BY <1>1, <2>2
          <6>3. g.slots[last] = g.len[key[1]] - 1 /\ g.slots[last] # None
            BY <6>1 DEF Retirable, IsTail
          <6>4. g.slots[last] # g.slots[key]
            BY <6>1, <6>2, <6>3 DEF Mirrors
          <6>5. h.len[key[1]] = g.len[key[1]] - 1 /\ g.len[key[1]] \in 0 .. MaxSlots
            BY <1>2, <1>3, <5>1
          <6>6. QED
            BY <3>1, <4>1, <6>3, <6>4, <6>5
        <5>2. CASE ~shrinks(key[1])
          BY <1>2, <1>3, <3>1, <4>1, <5>2
        <5>3. QED
          BY <5>1, <5>2
      <4>3. QED
        BY <1>2, <3>1, <4>1, <4>2
    <3>4. QED
      BY <3>1, <3>2, <3>3
  <2>3. QED
    BY <2>1, <2>2
<1>7. ASSUME NEW a \in Keys, NEW b \in Keys, a[1] = b[1],
             h.slots[a] = h.slots[b], h.slots[a] # None
      PROVE  a = b
  <2>1. g.slots[a] = g.slots[b] /\ g.slots[a] # None
    BY <1>2, <1>7
  <2>2. QED
    BY <1>7, <2>1 DEF Mirrors
<1>8. Mirrors(h, new)
  BY <1>6, <1>7 DEF Mirrors
<1>9. QED
  BY <1>5, <1>8 DEF h

\* Dropping cached tuples changes nothing else; what is left is current if the
\* slots of the identities still mentioned are.
LEMMA ForgetIsSound ==
  ASSUME NEW g, NEW h, NEW states, NEW keys,
         h \in Predictors, Mirrors(h, states),
         CacheIsCurrent(g), h.slot_cache = g.slot_cache,
         \A key \in Keys \ keys : h.slots[key] = g.slots[key]
  PROVE  Sound(Forgotten(h, keys), states)
<1> DEFINE f == Forgotten(h, keys)
           kept == [t \in Tuples |-> IF Mentions(t, keys) THEN None
                                     ELSE h.slot_cache[t]]
<1>1. /\ f.len = h.len /\ f.slots = h.slots /\ f.buffer = h.buffer
      /\ f.slot_cache = kept
  BY DEF Forgotten, Predictors
<1>2. kept \in [Tuples -> [Kinds -> Slots] \cup {None}]
  BY DEF Predictors
<1>3. f \in Predictors
  <2> HIDE DEF kept
  <2>1. QED
    BY <1>2 DEF Forgotten, Predictors, kept
<1> HIDE DEF f
<1>4. Mirrors(f, states)
  BY <1>1 DEF Mirrors
<1>5. CacheIsCurrent(f)
  <2>1. ASSUME NEW t \in Tuples, f.slot_cache[t] # None, NEW k \in Kinds
        PROVE  /\ f.slots[KeyIn(t, k)] # None
               /\ f.slot_cache[t][k] = f.slots[KeyIn(t, k)]
    <3>1. ~Mentions(t, keys) /\ f.slot_cache[t] = g.slot_cache[t]
          /\ g.slot_cache[t] # None
      BY <1>1, <2>1
    <3>2. KeyIn(t, k) \in Keys \ keys
      BY <3>1, TupleKeys DEF Mentions
    <3>3. QED
      BY <1>1, <3>1, <3>2 DEF CacheIsCurrent
  <2>2. QED
    BY <2>1 DEF CacheIsCurrent
<1>6. QED
  BY <1>3, <1>4, <1>5 DEF Sound, f

\* After an undo, a predictor that is kept mirrors the restored states and has
\* forgotten every cached tuple whose slots may have moved.
THEOREM RestoreIsSound ==
  ASSUME NEW g, NEW old, NEW new, NEW r \in Reviews, g # None,
         Sound(g, old), old \in MaybeStates, new \in MaybeStates,
         \A k \in Keys \ KeysOf(r) : new[k] = old[k],
         NEW h \in RestoreGpuAfterUndo(g, new, r), h # None
  PROVE  Sound(h, new)
<1> DEFINE kept == {key \in KeysOf(r) : new[key] # None}
           gone == {key \in KeysOf(r) \ kept : g.slots[key] # None}
           came == {key \in kept : g.slots[key] = None}
           mid == [k \in Keys |-> IF k \in kept THEN new[k] ELSE old[k]]
           up == Uploaded(g, new, kept)
           down == Retired(up, gone)
<1>1. /\ h = Forgotten(down, gone \cup came)
      /\ \A key \in gone : IsTail(g, key)
      /\ \A key \in kept : HasRoom(g, key)
  BY DEF RestoreGpuAfterUndo
<1>2. KeysOf(r) \subseteq Keys /\ OnePerKind(KeysOf(r))
  BY KeysOfReview, ReviewIsOnePerKind
<1>3. OnePerKind(kept) /\ OnePerKind(gone)
  BY <1>2 DEF OnePerKind
<1>4. Renewed(old, mid, kept)
  <2>1. mid \in MaybeStates
    BY DEF MaybeStates
  <2>2. QED
    BY <1>2, <2>1 DEF Renewed
<1>5. Uploaded(g, mid, kept) = up
  <2>1. ASSUME NEW k \in Kinds, \E key \in kept : key[1] = k
        PROVE  mid[CHOOSE key \in kept : key[1] = k]
                 = new[CHOOSE key \in kept : key[1] = k]
    <3>1. (CHOOSE key \in kept : key[1] = k) \in kept
      BY <2>1
    <3>2. QED
      BY <1>2, <3>1
  <2> HIDE DEF mid, kept
  <2>2. ASSUME NEW k \in Kinds, NEW s \in Slots
        PROVE  (IF \E key \in kept : key[1] = k /\ UploadSlot(g, key) = s
                THEN mid[CHOOSE key \in kept : key[1] = k] ELSE g.buffer[k][s])
               = (IF \E key \in kept : key[1] = k /\ UploadSlot(g, key) = s
                  THEN new[CHOOSE key \in kept : key[1] = k] ELSE g.buffer[k][s])
    BY <2>1
  <2>3. QED
    BY <2>2 DEF Uploaded
<1>6. Sound(up, mid)
  <2> HIDE DEF kept, gone, mid, up
  <2>1. Uploadable(g, kept)
    BY <1>1, <1>3 DEF Uploadable
  <2>2. Sound(Uploaded(g, mid, kept), mid)
    BY <1>4, <2>1, UploadIsSound
  <2>3. QED
    BY <1>5, <2>2
<1>7. /\ up.len = [k \in Kinds |->
             IF \E key \in kept : key[1] = k /\ g.slots[key] = None
             THEN g.len[k] + 1 ELSE g.len[k]]
      /\ up.slots = [key \in Keys |->
             IF key \in kept THEN UploadSlot(g, key) ELSE g.slots[key]]
      /\ up.slot_cache = g.slot_cache
  BY DEF Uploaded
<1>8. ASSUME NEW key \in gone
      PROVE  up.slots[key] = g.slots[key] /\ up.len[key[1]] = g.len[key[1]]
             /\ g.slots[key] # None
  <2>1. key \in Keys /\ key \notin kept /\ key[1] \in Kinds
    BY <1>2, KeyShape
  <2>2. \A other \in kept : other[1] # key[1]
    BY <1>2, <2>1 DEF OnePerKind
  <2> HIDE DEF up, kept
  <2>3. QED
    BY <1>7, <2>1, <2>2
<1>9. Retirable(up, gone)
  <2> HIDE DEF up, gone
  <2>1. QED
    BY <1>1, <1>3, <1>8 DEF Retirable, IsTail
<1>10. Emptied(mid, new, gone)
  <2>1. ASSUME NEW k \in Keys \ gone
        PROVE  new[k] = mid[k]
    <3>1. CASE k \in kept \/ k \notin KeysOf(r)
      BY <3>1
    <3>2. CASE k \in KeysOf(r) \ kept
      <4>1. g.slots[k] = None
        BY <3>2
      <4>2. old[k] = None
        BY <4>1 DEF Sound, Mirrors
      <4>3. QED
        BY <3>2, <4>2
    <3>3. QED
      BY <3>1, <3>2
  <2>2. \A k \in gone : new[k] = None
    OBVIOUS
  <2>3. mid \in MaybeStates
    BY DEF MaybeStates
  <2>4. QED
    BY <2>1, <2>2, <2>3 DEF Emptied
<1> HIDE DEF up, gone, kept, mid
<1>11. down \in Predictors /\ Mirrors(down, new)
  BY <1>6, <1>9, <1>10, RetireIsSound DEF Sound
<1>12. /\ down.slots = [key \in Keys |-> IF key \in gone THEN None ELSE up.slots[key]]
       /\ down.slot_cache = up.slot_cache
  BY DEF Retired
<1>13. ASSUME NEW key \in Keys \ (gone \cup came)
       PROVE  down.slots[key] = g.slots[key]
  <2>1. down.slots[key] = up.slots[key]
    BY <1>12
  <2>2. CASE key \in kept
    <3>1. g.slots[key] # None
      BY <2>2
    <3>2. QED
      BY <1>7, <2>1, <2>2, <3>1 DEF UploadSlot
  <2>3. CASE key \notin kept
    BY <1>7, <2>1, <2>3
  <2>4. QED
    BY <2>2, <2>3
<1> HIDE DEF down, came
<1>14. Sound(Forgotten(down, gone \cup came), new)
  BY <1>7, <1>11, <1>12, <1>13, ForgetIsSound DEF Sound
<1>15. QED
  BY <1>1, <1>14

-------------------------------------------------------------------------------
(* The newest states, wherever they live.                                   *)

LEMMA EffectiveType ==
  ASSUME canon \in MaybeStates, flat \in MaybeStates, feat \in FeatureStates
  PROVE  Effective \in MaybeStates /\ Snapshot \in Snapshots
<1>1. \A k \in Keys : (IF canon[k] # None THEN canon[k] ELSE flat[k])
                        \in States \cup {None}
  BY DEF MaybeStates
<1>2. Effective \in MaybeStates
  BY <1>1 DEF Effective, MaybeStates
<1>. QED BY <1>2 DEF Snapshot, Snapshots

LEMMA EffectiveIsCanonical ==
  ASSUME canon \in MaybeStates, flat = NoStates
  PROVE  Effective = canon
<1>1. \A k \in Keys : flat[k] = None
  BY DEF NoStates
<1>2. canon = [k \in Keys |-> canon[k]]
  BY DEF MaybeStates
<1>. QED BY <1>1, <1>2 DEF Effective

LEMMA NothingIsUntouched ==
  ASSUME NEW p, NEW keys
  PROVE  Untouched(p, p, keys)
BY DEF Untouched, StatesUntouched, FeaturesUntouched

\* Playing a journal back gives the snapshot it was taken of.
LEMMA PlayedBack ==
  ASSUME canon \in MaybeStates, feat \in FeatureStates, flat = NoStates,
         NEW p \in Snapshots, NEW keys \in SUBSET Keys,
         Untouched(p, Snapshot, keys), PlayBack(JournalOf(p, keys))
  PROVE  canon' = p.states /\ feat' = p.features
<1>1. Snapshot.states = canon /\ Snapshot.features = feat
  BY EffectiveIsCanonical DEF Snapshot
<1>2. p.states \in MaybeStates /\ p.features \in FeatureStates
  BY DEF Snapshots
<1>3. /\ JournalOf(p, keys).recurrent = RecurrentJournal(p.states, keys)
      /\ JournalOf(p, keys).deterministic = DeterministicJournal(p.features, keys)
  BY DEF JournalOf, Journal
<1>4. canon' = RestoreEntries(canon, RecurrentJournal(p.states, keys))
  BY <1>3 DEF PlayBack
<1>5. feat' = RestoreDeterministic(feat, DeterministicJournal(p.features, keys))
  BY <1>3 DEF PlayBack
<1>6. StatesUntouched(p.states, canon, keys) /\ FeaturesUntouched(p.features, feat, keys)
  BY <1>1 DEF Untouched
<1>7. canon' = p.states
  BY <1>2, <1>4, <1>6, StatesPlayedBack
<1>8. feat' = p.features
  BY <1>2, <1>5, <1>6, JournalIsExact
<1>. QED BY <1>7, <1>8

\* The snapshot after canonical states and features are known.
LEMMA SnapshotAfter ==
  ASSUME NEW p \in Snapshots, flat' = NoStates, canon' = p.states,
         feat' = p.features
  PROVE  Snapshot' = p /\ Effective' = p.states
<1>1. p.states \in MaybeStates /\ p = [states |-> p.states, features |-> p.features]
  BY DEF Snapshots
<1>2. \A k \in Keys : flat'[k] = None
  BY DEF NoStates
<1>3. p.states = [k \in Keys |-> p.states[k]]
  BY <1>1 DEF MaybeStates
<1>4. Effective' = p.states
  BY <1>2, <1>3 DEF Effective
<1>. QED BY <1>1, <1>4 DEF Snapshot

-------------------------------------------------------------------------------
(* The undo stack, with the snapshot of each frame and the state on top.    *)

Exact(stack, snaps, top) ==
  /\ stack \in Seq({stack[n] : n \in DOMAIN stack})
  /\ Len(stack) = Len(snaps)
  /\ \A n \in 1 .. Len(snaps) :
       /\ stack[n].row \in Reviews
       /\ stack[n].journal = JournalOf(snaps[n], KeysOf(stack[n].row))
       /\ Untouched(snaps[n], IF n = Len(snaps) THEN top ELSE snaps[n + 1],
                    KeysOf(stack[n].row))

LEMMA FramesDefinition == FramesAreExact <=> Exact(undoStack, past, Committed)
BY DEF FramesAreExact, Exact, After

LEMMA OwnRange ==
  ASSUME NEW T, NEW s \in Seq(T)
  PROVE  s \in Seq({s[n] : n \in DOMAIN s})
<1>1. /\ Len(s) \in Nat
      /\ s = [n \in 1 .. Len(s) |-> s[n]]
      /\ DOMAIN s = 1 .. Len(s)
  OBVIOUS
<1>2. s \in [1 .. Len(s) -> {s[n] : n \in DOMAIN s}]
  BY <1>1
<1>. QED BY <1>1, <1>2

LEMMA ExactEmpty ==
  ASSUME NEW top
  PROVE  Exact(<<>>, <<>>, top)
<1>1. <<>> \in Seq({<<>>[n] : n \in DOMAIN <<>>})
  OBVIOUS
<1>. QED BY <1>1 DEF Exact

LEMMA ExactPush ==
  ASSUME NEW stack, NEW snaps \in Seq(Snapshots), NEW top \in Snapshots, NEW next,
         NEW r \in Reviews, Exact(stack, snaps, top),
         Untouched(top, next, KeysOf(r))
  PROVE  Exact(Append(stack, [row |-> r, journal |-> JournalOf(top, KeysOf(r))]),
               Append(snaps, top), next)
<1> DEFINE frame == [row |-> r, journal |-> JournalOf(top, KeysOf(r))]
           T == {stack[n] : n \in DOMAIN stack} \cup {frame}
           s == Append(stack, frame)
           p == Append(snaps, top)
<1>0. frame.row = r /\ frame.journal = JournalOf(top, KeysOf(r))
  OBVIOUS
<1> HIDE DEF frame
<1>1. stack \in Seq(T) /\ Len(stack) = Len(snaps)
  BY DEF Exact
<1>2. Len(snaps) \in Nat
  OBVIOUS
<1>3. s \in Seq(T)
  BY <1>1
<1>4. Len(s) = Len(snaps) + 1 /\ Len(p) = Len(snaps) + 1
  BY <1>1, <1>2
<1>5. \A n \in 1 .. Len(snaps) : s[n] = stack[n] /\ p[n] = snaps[n]
  BY <1>1, <1>2
<1>6. s[Len(snaps) + 1] = frame /\ p[Len(snaps) + 1] = top
  BY <1>1, <1>2
<1>7. s \in Seq({s[n] : n \in DOMAIN s})
  BY <1>3, OwnRange
<1> HIDE DEF s, p
<1>8. ASSUME NEW n \in 1 .. Len(p)
      PROVE  /\ s[n].row \in Reviews
             /\ s[n].journal = JournalOf(p[n], KeysOf(s[n].row))
             /\ Untouched(p[n], IF n = Len(p) THEN next ELSE p[n + 1],
                          KeysOf(s[n].row))
  <2>1. CASE n = Len(snaps) + 1
    BY <2>1, <1>0, <1>4, <1>6
  <2>2. CASE n \in 1 .. Len(snaps)
    <3>1. s[n] = stack[n] /\ p[n] = snaps[n] /\ n # Len(p)
      BY <2>2, <1>2, <1>4, <1>5
    <3>2. p[n + 1] = IF n = Len(snaps) THEN top ELSE snaps[n + 1]
      BY <2>2, <1>2, <1>5, <1>6
    <3>. QED BY <2>2, <3>1, <3>2 DEF Exact
  <2>. QED BY <1>2, <1>4, <2>1, <2>2
<1>9. Exact(s, p, next)
  BY <1>4, <1>7, <1>8 DEF Exact
<1>. QED BY <1>9 DEF s, p, frame

LEMMA ExactTail ==
  ASSUME NEW stack, NEW snaps \in Seq(Snapshots), NEW top,
         Exact(stack, snaps, top), Len(snaps) > 0
  PROVE  Exact(Tail(stack), Tail(snaps), top)
<1> DEFINE T == {stack[n] : n \in DOMAIN stack}
           s == Tail(stack)
           p == Tail(snaps)
<1>1. stack \in Seq(T) /\ Len(stack) = Len(snaps)
  BY DEF Exact
<1>2. Len(snaps) \in Nat
  OBVIOUS
<1>3. stack # <<>> /\ snaps # <<>>
  BY <1>1
<1>4. s \in Seq(T) /\ Len(s) = Len(snaps) - 1 /\ Len(p) = Len(snaps) - 1
  BY <1>1, <1>2, <1>3
<1>5. \A n \in 1 .. Len(snaps) - 1 : s[n] = stack[n + 1] /\ p[n] = snaps[n + 1]
  BY <1>1, <1>2, <1>3
<1>6. s \in Seq({s[n] : n \in DOMAIN s})
  BY <1>4, OwnRange
<1> HIDE DEF s, p
<1>7. ASSUME NEW n \in 1 .. Len(p)
      PROVE  /\ s[n].row \in Reviews
             /\ s[n].journal = JournalOf(p[n], KeysOf(s[n].row))
             /\ Untouched(p[n], IF n = Len(p) THEN top ELSE p[n + 1],
                          KeysOf(s[n].row))
  <2>1. /\ n + 1 \in 1 .. Len(snaps)
        /\ n = Len(p) <=> n + 1 = Len(snaps)
    BY <1>2, <1>4
  <2>2. s[n] = stack[n + 1] /\ p[n] = snaps[n + 1]
    BY <1>2, <1>4, <1>5
  <2>3. n # Len(p) => p[n + 1] = snaps[n + 1 + 1]
    BY <1>2, <1>4, <1>5
  <2>. QED BY <2>1, <2>2, <2>3 DEF Exact
<1>8. Exact(s, p, top)
  BY <1>4, <1>6, <1>7 DEF Exact
<1>. QED BY <1>8 DEF s, p

LEMMA ExactPop ==
  ASSUME NEW stack, NEW snaps \in Seq(Snapshots), NEW top,
         Exact(stack, snaps, top), Len(snaps) > 0
  PROVE  Exact(SubSeq(stack, 1, Len(stack) - 1), SubSeq(snaps, 1, Len(snaps) - 1),
               snaps[Len(snaps)])
<1> DEFINE T == {stack[n] : n \in DOMAIN stack}
           s == SubSeq(stack, 1, Len(stack) - 1)
           p == SubSeq(snaps, 1, Len(snaps) - 1)
<1>1. stack \in Seq(T) /\ Len(stack) = Len(snaps)
  BY DEF Exact
<1>2. Len(snaps) \in Nat
  OBVIOUS
<1>4. s \in Seq(T) /\ Len(s) = Len(snaps) - 1 /\ Len(p) = Len(snaps) - 1
  BY <1>1, <1>2
<1>5. \A n \in 1 .. Len(snaps) - 1 : s[n] = stack[n] /\ p[n] = snaps[n]
  BY <1>1, <1>2
<1>6. s \in Seq({s[n] : n \in DOMAIN s})
  BY <1>4, OwnRange
<1> HIDE DEF s, p
<1>7. ASSUME NEW n \in 1 .. Len(p)
      PROVE  /\ s[n].row \in Reviews
             /\ s[n].journal = JournalOf(p[n], KeysOf(s[n].row))
             /\ Untouched(p[n], IF n = Len(p) THEN snaps[Len(snaps)] ELSE p[n + 1],
                          KeysOf(s[n].row))
  <2>1. n \in 1 .. Len(snaps) /\ n # Len(snaps)
    BY <1>2, <1>4
  <2>2. s[n] = stack[n] /\ p[n] = snaps[n]
    BY <1>2, <1>4, <1>5
  <2>3. (IF n = Len(p) THEN snaps[Len(snaps)] ELSE p[n + 1]) = snaps[n + 1]
    BY <1>2, <1>4, <1>5
  <2>. QED BY <2>1, <2>2, <2>3 DEF Exact
<1>8. Exact(s, p, snaps[Len(snaps)])
  BY <1>4, <1>6, <1>7 DEF Exact
<1>. QED BY <1>8 DEF s, p

-------------------------------------------------------------------------------
(* The parts of the invariant, as the steps disturb them.                   *)

StateTypes == canon \in MaybeStates /\ flat \in MaybeStates /\ feat \in FeatureStates

GpuSound == gpu # None => Sound(gpu, Effective)

LEMMA InvariantParts ==
  IInv <=> /\ StateTypes /\ past \in Seq(Snapshots) /\ (Busy => CallTypeOK)
           /\ OneHome /\ FramesAreExact /\ CallIsExact /\ NothingFlat /\ GpuSound
BY DEF IInv, TypeOK, StateTypes, GpuSound, Sound, GpuMirrorsState,
       CachedSlotsAreCurrent

LEMMA InvariantAfter ==
  ASSUME StateTypes', (past \in Seq(Snapshots))', (Busy => CallTypeOK)',
         OneHome', FramesAreExact', CallIsExact', NothingFlat', GpuSound'
  PROVE  IInv'
BY DEF IInv, TypeOK, StateTypes, GpuSound, Sound, GpuMirrorsState,
       CachedSlotsAreCurrent

LEMMA SnapshotType ==
  ASSUME StateTypes
  PROVE  Snapshot \in Snapshots
BY EffectiveType DEF StateTypes

\* An undo history without frames is exact.
LEMMA NoFrames ==
  ASSUME undoStack' = <<>>, past' = <<>>
  PROVE  FramesAreExact' /\ (past \in Seq(Snapshots))'
<1>1. FramesAreExact' <=> Exact(undoStack', past', Committed')
  BY DEF FramesAreExact, Exact, After
<1>. QED BY <1>1, ExactEmpty

\* One that is left alone stays exact while the committed state is the same.
LEMMA SameFrames ==
  ASSUME FramesAreExact, UNCHANGED <<undoStack, past>>, Committed' = Committed
  PROVE  FramesAreExact'
<1>1. FramesAreExact' <=> Exact(undoStack', past', Committed')
  BY DEF FramesAreExact, Exact, After
<1>. QED BY <1>1, FramesDefinition

LEMMA RowFacts ==
  ASSUME CallTypeOK, call.row <= Len(call.rows)
  PROVE  /\ Row \in Reviews
         /\ Touched(call) \in SUBSET Keys
         /\ KeysOf(Row) \subseteq Touched(call)
         /\ call.kind = "undoable" => Touched(call) = KeysOf(Row) /\ Row = call.rows[1]
<1>1. call.row \in DOMAIN call.rows /\ Row \in Reviews
  <2>1. Len(call.rows) \in Nat /\ DOMAIN call.rows = 1 .. Len(call.rows)
    BY DEF CallTypeOK
  <2>2. call.row \in 1 .. Len(call.rows)
    BY <2>1 DEF CallTypeOK
  <2>. QED BY <2>1, <2>2 DEF CallTypeOK, Row
<1>2. \A n \in DOMAIN call.rows : call.rows[n] \in Reviews
  BY DEF CallTypeOK
<1>3. Touched(call) \in SUBSET Keys
  BY <1>2 DEF Touched, KeysOfAll, Keys
<1>4. KeysOf(Row) \subseteq Touched(call)
  BY <1>1 DEF Touched, KeysOfAll, Row
<1>5. ASSUME call.kind = "undoable"
      PROVE  Touched(call) = KeysOf(Row) /\ Row = call.rows[1]
  <2>1. DOMAIN call.rows = {1} /\ call.row = 1
    BY <1>1, <1>5 DEF CallTypeOK
  <2>. QED BY <2>1 DEF Touched, KeysOfAll, Row
<1>. QED BY <1>1, <1>3, <1>4, <1>5

\* A step of a call that only moves it on to another phase keeps what is known
\* of the call, apart from the conditions on that phase.
LEMMA CallGoes ==
  ASSUME CallTypeOK, NEW phase \in Phases, Go(phase),
         phase \notin {"materialize", "capture", "done"} => call.row <= Len(call.rows),
         phase \in {"materialize", "capture"} => call.row = 1
  PROVE  /\ CallTypeOK'
         /\ Busy'
         /\ call'.phase = phase
         /\ call'.kind = call.kind /\ call'.rows = call.rows /\ call'.row = call.row
         /\ call'.journal = call.journal /\ call'.start = call.start
         /\ Touched(call') = Touched(call)
<1>1. /\ call'.phase = phase /\ DOMAIN call' = DOMAIN call
      /\ call'.kind = call.kind /\ call'.rows = call.rows /\ call'.row = call.row
      /\ call'.journal = call.journal /\ call'.start = call.start
  BY DEF Go, CallTypeOK
<1>2. Busy'
  BY <1>1 DEF Busy, Phases
<1>3. Touched(call') = Touched(call)
  BY <1>1 DEF Touched
<1>4. CallTypeOK'
  BY <1>1 DEF CallTypeOK
<1>. QED BY <1>1, <1>2, <1>3, <1>4

\* A running call has no flat state left once it has materialized.
LEMMA RunningIsCanonical ==
  ASSUME IInv, Busy, call.phase # "materialize"
  PROVE  /\ flat = NoStates /\ Effective = canon
         /\ Snapshot.states = canon /\ Snapshot.features = feat
<1>1. flat = NoStates /\ canon \in MaybeStates
  BY InvariantParts DEF NothingFlat, StateTypes
<1>. QED BY <1>1, EffectiveIsCanonical DEF Snapshot

-------------------------------------------------------------------------------
(* One lemma per action: it preserves the invariant.                        *)

LEMMA InitIsExact == Init => IInv
<1>. SUFFICES ASSUME Init PROVE IInv
  OBVIOUS
<1>1. NoStates \in MaybeStates
  BY DEF NoStates, MaybeStates
<1>2. StateTypes /\ past \in Seq(Snapshots)
  BY <1>1, InitialFeatures DEF Init, StateTypes
<1>3. ~Busy
  BY DEF Init, Idle, Busy
<1>4. OneHome
  BY DEF Init, OneHome, NoStates
<1>5. FramesAreExact
  BY FramesDefinition, ExactEmpty DEF Init
<1>6. CallIsExact /\ NothingFlat /\ GpuSound
  BY <1>3 DEF Init, CallIsExact, NothingFlat, GpuSound
<1>. QED BY <1>2, <1>3, <1>4, <1>5, <1>6, InvariantParts

LEMMA BeginIsExact ==
  ASSUME IInv, NEW kind \in CallKinds, NEW rows \in Seq(Reviews),
         kind = "undoable" => Len(rows) = 1, Begin(kind, rows)
  PROVE  IInv'
<1>1. StateTypes' /\ OneHome'
  BY InvariantParts DEF Begin, StateTypes, OneHome
<1>2. Snapshot' = Snapshot /\ Effective' = Effective /\ Snapshot \in Snapshots
  BY InvariantParts, SnapshotType DEF Begin, Snapshot, Effective
<1>3. GpuSound'
  BY <1>2, InvariantParts DEF Begin, GpuSound
<1>4. /\ call' = [kind |-> kind, rows |-> rows, row |-> 1, phase |-> "materialize",
                  journal |-> <<>>, start |-> Snapshot]
      /\ Busy'
  BY DEF Begin, Busy
<1>5. Len(rows) \in Nat
  OBVIOUS
<1>6. CallTypeOK'
  BY <1>2, <1>4, <1>5 DEF CallTypeOK, Phases
<1>7. CallIsExact'
  <2>1. call'.kind # "undoable" => undoStack' = <<>>
    BY <1>4 DEF Begin
  <2>. QED BY <1>2, <1>4, <2>1 DEF CallIsExact, JournalPending
<1>8. FramesAreExact' /\ (past \in Seq(Snapshots))' /\ NothingFlat'
  <2>1. CASE kind = "undoable"
    <3>1. UNCHANGED <<undoStack, past, flat>>
      BY <2>1 DEF Begin
    <3>2. Committed' = Committed
      BY <1>2, <1>4 DEF Begin, Committed
    <3>3. NothingFlat'
      BY <3>1, <1>4, InvariantParts DEF NothingFlat
    <3>. QED BY <3>1, <3>2, <3>3, SameFrames, InvariantParts
  <2>2. CASE kind # "undoable"
    <3>1. undoStack' = <<>> /\ past' = <<>>
      BY <2>2 DEF Begin
    <3>2. NothingFlat'
      BY <3>1, <1>4 DEF NothingFlat
    <3>. QED BY <3>1, <3>2, NoFrames
  <2>. QED BY <2>1, <2>2
<1>. QED BY <1>1, <1>3, <1>6, <1>7, <1>8, InvariantAfter

\* Moving flat states to the canonical maps changes no newest state.
LEMMA MovingIsInvisible ==
  ASSUME StateTypes, OneHome, NEW moved \in SUBSET HasFlat, MoveToCanonical(moved),
         UNCHANGED feat
  PROVE  /\ StateTypes' /\ OneHome'
         /\ Effective' = Effective /\ Snapshot' = Snapshot
<1>1. /\ canon' = [k \in Keys |-> IF k \in moved THEN flat[k] ELSE canon[k]]
      /\ flat' = [k \in Keys |-> IF k \in moved THEN None ELSE flat[k]]
      /\ \A k \in moved : flat[k] # None
  BY DEF MoveToCanonical, HasFlat
<1>2. StateTypes'
  <2>1. \A k \in Keys : canon[k] \in States \cup {None} /\ flat[k] \in States \cup {None}
    BY DEF StateTypes, MaybeStates
  <2>2. \A k \in Keys : canon'[k] \in States \cup {None} /\ flat'[k] \in States \cup {None}
    BY <1>1, <2>1
  <2>. QED BY <1>1, <2>2 DEF StateTypes, MaybeStates
<1>3. OneHome'
  BY <1>1 DEF OneHome
<1>4. \A k \in Keys : (IF canon'[k] # None THEN canon'[k] ELSE flat'[k])
                      = (IF canon[k] # None THEN canon[k] ELSE flat[k])
  BY <1>1 DEF OneHome
<1>5. Effective' = Effective
  BY <1>4 DEF Effective
<1>. QED BY <1>2, <1>3, <1>5 DEF Snapshot

LEMMA MaterializeIsExact ==
  ASSUME IInv, MaterializeFlatCpuState
  PROVE  IInv'
<1>0. /\ Busy /\ CallTypeOK /\ call.phase = "materialize"
      /\ StateTypes /\ OneHome /\ UNCHANGED <<undoStack, past, gpu, feat>>
  BY InvariantParts DEF MaterializeFlatCpuState, InPhase, Busy
<1>1. StateTypes' /\ OneHome' /\ Effective' = Effective /\ Snapshot' = Snapshot
  BY <1>0, MovingIsInvisible DEF MaterializeFlatCpuState
<1> DEFINE phase == IF call.kind = "undoable" THEN "predict" ELSE "capture"
<1>2. /\ phase \in Phases /\ Go(phase)
      /\ phase = "predict" => call.kind = "undoable"
      /\ phase \in {"predict", "capture"}
  BY DEF MaterializeFlatCpuState, Phases
<1> HIDE DEF phase
<1>3. call.row = 1 /\ (phase = "predict" => call.row <= Len(call.rows))
  BY <1>0, <1>2 DEF CallTypeOK
<1>4. /\ CallTypeOK' /\ Busy'
      /\ call'.phase = phase /\ call'.kind = call.kind
      /\ call'.journal = call.journal /\ call'.start = call.start
  BY <1>0, <1>2, <1>3, CallGoes
<1>5. CallIsExact'
  BY <1>0, <1>1, <1>2, <1>4, InvariantParts DEF CallIsExact, JournalPending
<1>6. FramesAreExact'
  BY <1>0, <1>4, SameFrames, InvariantParts DEF Committed
<1>7. NothingFlat'
  BY DEF MaterializeFlatCpuState, MoveToCanonical, NothingFlat, HasFlat, NoStates
<1>8. GpuSound'
  BY <1>0, <1>1, InvariantParts DEF GpuSound
<1>9. (past \in Seq(Snapshots))'
  BY <1>0, InvariantParts
<1>. QED BY <1>1, <1>4, <1>5, <1>6, <1>7, <1>8, <1>9, InvariantAfter

LEMMA MaterializeFailureIsExact ==
  ASSUME IInv, MaterializeFails
  PROVE  IInv' /\ Snapshot' = call.start
<1>0. /\ Busy /\ call.phase = "materialize" /\ ~Busy'
      /\ StateTypes /\ OneHome /\ UNCHANGED <<undoStack, past, gpu, feat>>
  BY InvariantParts DEF MaterializeFails, InPhase, Busy, Idle
<1>1. PICK moved \in SUBSET HasFlat : moved # HasFlat /\ MoveToCanonical(moved)
  BY DEF MaterializeFails
<1>2. StateTypes' /\ OneHome' /\ Effective' = Effective /\ Snapshot' = Snapshot
  BY <1>0, <1>1, MovingIsInvisible
<1>3. Snapshot = call.start
  BY <1>0, InvariantParts DEF CallIsExact, JournalPending
<1>4. FramesAreExact'
  BY <1>0, <1>2, <1>3, SameFrames, InvariantParts DEF Committed
<1>5. undoStack = <<>>
  <2>1. HasFlat # {}
    BY <1>1
  <2>2. flat # NoStates
    BY <2>1 DEF HasFlat, NoStates
  <2>. QED BY <2>2, InvariantParts DEF NothingFlat
<1>6. NothingFlat' /\ CallIsExact'
  BY <1>0, <1>5 DEF NothingFlat, CallIsExact
<1>7. GpuSound'
  BY <1>0, <1>2, InvariantParts DEF GpuSound
<1>8. (past \in Seq(Snapshots))'
  BY <1>0, InvariantParts
<1>. QED BY <1>0, <1>2, <1>3, <1>4, <1>6, <1>7, <1>8, InvariantAfter

\* A step of a running call that changes neither the states nor the phase
\* before the journal is taken.
LEMMA OnlyTheCallMoves ==
  ASSUME IInv, Busy, call.phase # "materialize",
         UNCHANGED <<canon, flat, feat, undoStack, gpu, past>>,
         CallTypeOK', Busy', call'.start = call.start
  PROVE  /\ StateTypes' /\ OneHome' /\ FramesAreExact' /\ NothingFlat' /\ GpuSound'
         /\ (past \in Seq(Snapshots))'
         /\ Snapshot' = Snapshot
<1>1. Effective' = Effective /\ Snapshot' = Snapshot
  BY DEF Effective, Snapshot
<1>2. Committed' = Committed
  BY DEF Committed
<1>. QED BY <1>1, <1>2, SameFrames, InvariantParts
         DEF StateTypes, OneHome, NothingFlat, GpuSound

LEMMA CaptureIsExact ==
  ASSUME IInv, Capture
  PROVE  IInv'
<1>0. /\ Busy /\ CallTypeOK /\ call.phase = "capture"
      /\ UNCHANGED <<canon, flat, feat, undoStack, gpu, past>>
      /\ call.row = 1
  BY InvariantParts DEF Capture, InPhase, Busy, CallTypeOK
<1>1. /\ Snapshot = call.start /\ Snapshot.states = canon /\ Snapshot.features = feat
  BY <1>0, RunningIsCanonical, InvariantParts DEF CallIsExact, JournalPending
<1> DEFINE rows == {call.rows[n] : n \in DOMAIN call.rows}
           journal == IF call.kind = "undoable" THEN UndoFrame(canon, feat, Row)
                      ELSE BatchUndoFrame(canon, feat, rows)
           phase == IF call.kind = "undoable" THEN "features"
                    ELSE IF RowsDone THEN "done" ELSE FirstPhase
<1>2. journal = JournalOf(call.start, Touched(call))
  <2>1. CASE call.kind = "undoable"
    <3>1. call.row <= Len(call.rows)
      BY <1>0, <2>1 DEF CallTypeOK
    <3>2. Touched(call) = KeysOf(Row)
      BY <1>0, <2>1, <3>1, RowFacts
    <3>. QED BY <1>1, <2>1, <3>2 DEF UndoFrame, JournalOf
  <2>2. CASE call.kind # "undoable"
    BY <1>1, <2>2 DEF BatchUndoFrame, JournalOf, Touched
  <2>. QED BY <2>1, <2>2
<1>3. /\ phase \in Phases \ {"materialize", "capture"}
      /\ phase = "predict" => call.kind # "undoable"
      /\ phase # "done" => call.row <= Len(call.rows)
  <2>1. Len(call.rows) \in Nat
    BY <1>0 DEF CallTypeOK
  <2>2. CASE call.kind = "undoable"
    <3>1. Len(call.rows) = 1
      BY <1>0, <2>2 DEF CallTypeOK
    <3>. QED BY <1>0, <2>2, <3>1 DEF Phases
  <2>3. CASE call.kind # "undoable" /\ RowsDone
    BY <2>3 DEF Phases
  <2>4. CASE call.kind # "undoable" /\ ~RowsDone
    <3>1. call.row <= Len(call.rows)
      BY <1>0, <2>1, <2>4 DEF RowsDone
    <3>. QED BY <2>4, <3>1 DEF Phases, FirstPhase
  <2>. QED BY <2>2, <2>3, <2>4
<1>4. call' = [call EXCEPT !.journal = <<journal>>, !.phase = phase]
  BY DEF Capture
<1> HIDE DEF phase, journal
<1>5. /\ call'.phase = phase /\ DOMAIN call' = DOMAIN call
      /\ call'.kind = call.kind /\ call'.rows = call.rows /\ call'.row = call.row
      /\ call'.journal = <<journal>> /\ call'.start = call.start
  BY <1>0, <1>4 DEF CallTypeOK
<1>6. CallTypeOK' /\ Busy'
  <2>1. Busy'
    BY <1>3, <1>5 DEF Busy, Phases
  <2>2. CallTypeOK'
    BY <1>0, <1>3, <1>5 DEF CallTypeOK
  <2>. QED BY <2>1, <2>2
<1>7. /\ StateTypes' /\ OneHome' /\ FramesAreExact' /\ NothingFlat' /\ GpuSound'
      /\ (past \in Seq(Snapshots))'
      /\ Snapshot' = Snapshot
  BY <1>0, <1>5, <1>6, OnlyTheCallMoves
<1>8. CallIsExact'
  <2>1. ~JournalPending'
    BY <1>3, <1>5 DEF JournalPending
  <2>2. Touched(call') = Touched(call) /\ <<journal>> # <<>>
    BY <1>5 DEF Touched
  <2>3. Untouched(call.start, Snapshot', Touched(call))
    BY <1>1, <1>7, NothingIsUntouched
  <2>4. call'.kind # "undoable" => undoStack' = <<>>
    BY <1>0, <1>5, InvariantParts DEF CallIsExact
  <2>. QED BY <1>2, <1>5, <2>1, <2>2, <2>3, <2>4 DEF CallIsExact
<1>. QED BY <1>6, <1>7, <1>8, InvariantAfter

LEMMA PredictIsExact ==
  ASSUME IInv, Predict
  PROVE  IInv'
<1>0. /\ Busy /\ CallTypeOK /\ call.phase = "predict" /\ StateTypes
      /\ UNCHANGED <<canon, flat, undoStack, gpu, past>>
  BY InvariantParts DEF Predict, InPhase, Busy
<1>1. call.row <= Len(call.rows) /\ Row \in Reviews
  BY <1>0, RowFacts DEF CallTypeOK
<1>2. feat' = feat
  BY <1>0, <1>1, PredictionChangesNothing DEF Predict, StateTypes
<1> DEFINE phase == IF call.kind = "undoable" THEN "capture" ELSE "features"
<1>3. /\ phase \in Phases /\ Go(phase)
      /\ phase = "capture" => call.kind = "undoable" /\ call.row = 1
      /\ phase = "features" => call.kind # "undoable"
      /\ phase \in {"capture", "features"}
  <2>1. CASE call.kind = "undoable"
    <3>1. Len(call.rows) = 1 /\ call.row \in 1 .. Len(call.rows) + 1
      BY <1>0, <2>1 DEF CallTypeOK
    <3>2. call.row = 1
      BY <1>1, <3>1
    <3>. QED BY <2>1, <3>2 DEF Predict, Phases
  <2>2. CASE call.kind # "undoable"
    BY <2>2 DEF Predict, Phases
  <2>. QED BY <2>1, <2>2
<1> HIDE DEF phase
<1>4. /\ CallTypeOK' /\ Busy'
      /\ call'.phase = phase /\ call'.kind = call.kind
      /\ call'.journal = call.journal /\ call'.start = call.start
      /\ Touched(call') = Touched(call)
  BY <1>0, <1>1, <1>3, CallGoes
<1>5. /\ StateTypes' /\ OneHome' /\ FramesAreExact' /\ NothingFlat' /\ GpuSound'
      /\ (past \in Seq(Snapshots))'
      /\ Snapshot' = Snapshot
  BY <1>0, <1>2, <1>4, OnlyTheCallMoves
<1>6. JournalPending' <=> JournalPending
  BY <1>0, <1>3, <1>4 DEF JournalPending
<1>7. CallIsExact'
  BY <1>0, <1>4, <1>5, <1>6, InvariantParts DEF CallIsExact
<1>. QED BY <1>4, <1>5, <1>7, InvariantAfter

\* A step that works on the features of a row whose call has its journal.
LEMMA FeatureStepIsExact ==
  ASSUME IInv, call.phase \in {"features", "record"},
         NEW phase \in {"store", "curves"}, Go(phase),
         feat' \in FeatureStates,
         FeaturesUntouched(call.start.features, feat', Touched(call)),
         UNCHANGED <<canon, flat, undoStack, gpu, past>>
  PROVE  IInv'
<1>0. /\ Busy /\ CallTypeOK /\ StateTypes /\ flat = NoStates /\ Effective = canon
      /\ call.row <= Len(call.rows)
  BY InvariantParts, RunningIsCanonical DEF Busy, CallTypeOK
<1>1. /\ ~JournalPending /\ Untouched(call.start, Snapshot, Touched(call))
      /\ call.journal = <<JournalOf(call.start, Touched(call))>>
      /\ call.journal # <<>>
  BY <1>0, InvariantParts DEF CallIsExact, JournalPending
<1>2. /\ CallTypeOK' /\ Busy'
      /\ call'.phase = phase /\ call'.journal = call.journal
      /\ call'.kind = call.kind
      /\ call'.start = call.start /\ Touched(call') = Touched(call)
  BY <1>0, CallGoes DEF Phases
<1>3. Effective' = Effective /\ Snapshot'.features = feat'
      /\ Snapshot'.states = Snapshot.states
  BY DEF Effective, Snapshot
<1>4. Untouched(call.start, Snapshot', Touched(call))
  BY <1>1, <1>3 DEF Untouched
<1>5. CallIsExact'
  BY <1>0, <1>1, <1>2, <1>4, InvariantParts DEF CallIsExact, JournalPending
<1>6. StateTypes' /\ OneHome' /\ NothingFlat'
  BY <1>0, InvariantParts DEF StateTypes, OneHome, NothingFlat
<1>7. FramesAreExact'
  BY <1>0, <1>2, SameFrames, InvariantParts DEF Committed
<1>8. GpuSound' /\ (past \in Seq(Snapshots))'
  BY <1>3, InvariantParts DEF GpuSound
<1>. QED BY <1>2, <1>5, <1>6, <1>7, <1>8, InvariantAfter

LEMMA WorkingFacts ==
  ASSUME IInv, call.phase \in {"features", "store", "record"}
  PROVE  /\ Busy /\ CallTypeOK /\ StateTypes /\ Row \in Reviews
         /\ Touched(call) \in SUBSET Keys /\ KeysOf(Row) \subseteq Touched(call)
         /\ Untouched(call.start, Snapshot, Touched(call))
         /\ call.start.states \in MaybeStates /\ call.start.features \in FeatureStates
         /\ Snapshot.states = canon /\ Snapshot.features = feat
         /\ flat = NoStates /\ Effective = canon
<1>1. Busy /\ CallTypeOK /\ StateTypes /\ call.row <= Len(call.rows)
  BY InvariantParts DEF Busy, CallTypeOK
<1>2. /\ Row \in Reviews /\ Touched(call) \in SUBSET Keys
      /\ KeysOf(Row) \subseteq Touched(call)
  BY <1>1, RowFacts
<1>3. Untouched(call.start, Snapshot, Touched(call))
  BY <1>1, InvariantParts DEF CallIsExact, JournalPending
<1>4. call.start.states \in MaybeStates /\ call.start.features \in FeatureStates
  BY <1>1 DEF CallTypeOK, Snapshots
<1>. QED BY <1>1, <1>2, <1>3, <1>4, RunningIsCanonical

LEMMA FeaturesIsExact ==
  ASSUME IInv, Features
  PROVE  IInv'
<1>1. /\ call.phase = "features" /\ Go("store") /\ feat' = FeatureVector(feat, Row, TRUE)
      /\ UNCHANGED <<canon, flat, undoStack, gpu, past>>
  BY DEF Features, InPhase
<1>2. /\ Row \in Reviews /\ feat \in FeatureStates
      /\ KeysOf(Row) \subseteq Touched(call)
      /\ call.start.features \in FeatureStates
      /\ FeaturesUntouched(call.start.features, feat, Touched(call))
  BY <1>1, WorkingFacts DEF StateTypes, Untouched
<1>3. feat' \in FeatureStates
  BY <1>1, <1>2, FeatureVectorType
<1>4. FeaturesUntouched(call.start.features, feat', Touched(call))
  BY <1>1, <1>2, FeaturesUntouchedBySteps
<1>. QED BY <1>1, <1>3, <1>4, FeatureStepIsExact

LEMMA RecordIsExact ==
  ASSUME IInv, Record
  PROVE  IInv'
<1> DEFINE g == RecordRecurrentStateUpdate(feat, Row)
<1>1. /\ call.phase = "record" /\ Go("curves") /\ feat' = RecordProcessedRow(g, Row)
      /\ UNCHANGED <<canon, flat, undoStack, gpu, past>>
  BY DEF Record, InPhase
<1>2. /\ Row \in Reviews /\ feat \in FeatureStates
      /\ KeysOf(Row) \subseteq Touched(call)
      /\ call.start.features \in FeatureStates
      /\ FeaturesUntouched(call.start.features, feat, Touched(call))
  BY <1>1, WorkingFacts DEF StateTypes, Untouched
<1>3. g \in FeatureStates /\ FeaturesUntouched(call.start.features, g, Touched(call))
  BY <1>2, RecurrentKeysType, FeaturesUntouchedBySteps
<1> HIDE DEF g
<1>4. /\ feat' \in FeatureStates
      /\ FeaturesUntouched(call.start.features, feat', Touched(call))
  BY <1>1, <1>2, <1>3, ProcessedRowType, FeaturesUntouchedBySteps
<1>. QED BY <1>1, <1>4, FeatureStepIsExact

LEMMA StoreIsExact ==
  ASSUME IInv, StoreReviewStates
  PROVE  IInv'
<1>1. /\ call.phase = "store" /\ Go("record")
      /\ canon' = NextStates(canon, Row)
      /\ flat' = [k \in Keys |-> IF k \in KeysOf(Row) THEN None ELSE flat[k]]
      /\ gpu' \in SyncGpuReviewStates(gpu, canon', Row)
      /\ UNCHANGED <<feat, undoStack, past>>
  BY DEF StoreReviewStates, InPhase
<1>2. /\ Busy /\ CallTypeOK /\ StateTypes /\ Row \in Reviews
      /\ KeysOf(Row) \subseteq Touched(call) /\ KeysOf(Row) \subseteq Keys
      /\ call.start.states \in MaybeStates
      /\ Untouched(call.start, Snapshot, Touched(call))
      /\ Snapshot.states = canon /\ Snapshot.features = feat
      /\ flat = NoStates /\ Effective = canon
  BY <1>1, WorkingFacts, KeysOfReview
<1>3. flat' = NoStates
  BY <1>1, <1>2 DEF NoStates
<1>4. canon' \in MaybeStates /\ \A k \in KeysOf(Row) : canon'[k] # None
  BY <1>1, <1>2, NextStatesType DEF StateTypes
<1>5. Effective' = canon' /\ Snapshot'.states = canon' /\ Snapshot'.features = feat
  <2>1. \A k \in Keys : flat'[k] = None
    BY <1>3 DEF NoStates
  <2>2. canon' = [k \in Keys |-> canon'[k]]
    BY <1>4 DEF MaybeStates
  <2>3. Effective' = canon'
    BY <2>1, <2>2 DEF Effective
  <2>. QED BY <1>1, <2>3 DEF Snapshot
<1>6. StateTypes' /\ OneHome' /\ NothingFlat'
  BY <1>1, <1>2, <1>3, <1>4 DEF StateTypes, OneHome, NothingFlat, NoStates
<1>7. /\ CallTypeOK' /\ Busy'
      /\ call'.phase = "record" /\ call'.journal = call.journal
      /\ call'.kind = call.kind
      /\ call'.start = call.start /\ Touched(call') = Touched(call)
  BY <1>1, <1>2, CallGoes DEF Phases, CallTypeOK
<1>8. StatesUntouched(call.start.states, canon', Touched(call))
  BY <1>1, <1>2, StatesUntouchedByReview DEF Untouched
<1>9. CallIsExact'
  BY <1>1, <1>2, <1>5, <1>7, <1>8, InvariantParts
     DEF CallIsExact, JournalPending, Untouched
<1>10. FramesAreExact' /\ (past \in Seq(Snapshots))'
  BY <1>1, <1>2, <1>7, SameFrames, InvariantParts DEF Committed
<1>11. GpuSound'
  <2>1. SUFFICES ASSUME gpu' # None PROVE Sound(gpu', canon')
    BY <1>5 DEF GpuSound
  <2>2. gpu # None
    BY <1>1, <2>1 DEF SyncGpuReviewStates
  <2>3. Sound(gpu, canon)
    BY <1>2, <2>2, InvariantParts DEF GpuSound
  <2>4. \A k \in Keys \ KeysOf(Row) : canon'[k] = canon[k]
    BY <1>1 DEF NextStates
  <2>5. Renewed(canon, canon', KeysOf(Row))
    BY <1>2, <1>4, <2>4 DEF Renewed, StateTypes
  <2>. QED BY <1>1, <1>2, <2>1, <2>2, <2>3, <2>5, SyncIsSound
<1>. QED BY <1>6, <1>7, <1>9, <1>10, <1>11, InvariantAfter

LEMMA NextRowIsExact ==
  ASSUME IInv, NextRow
  PROVE  IInv'
<1>0. /\ Busy /\ CallTypeOK /\ call.phase = "curves"
      /\ UNCHANGED <<canon, flat, feat, undoStack, gpu, past>>
  BY InvariantParts DEF NextRow, InPhase, Busy
<1> DEFINE phase == IF call.row = Len(call.rows) THEN "done" ELSE FirstPhase
<1>1. /\ call' = [call EXCEPT !.row = call.row + 1, !.phase = phase]
      /\ call.row \in 1 .. Len(call.rows) /\ Len(call.rows) \in Nat
  BY <1>0 DEF NextRow, CallTypeOK
<1>2. /\ phase \in Phases \ {"materialize", "capture"}
      /\ phase = "predict" => call.kind # "undoable"
      /\ phase # "done" => call.row + 1 <= Len(call.rows)
  <2>1. CASE call.row = Len(call.rows)
    BY <2>1 DEF Phases
  <2>2. CASE call.row # Len(call.rows)
    <3>1. call.row + 1 <= Len(call.rows)
      BY <1>1, <2>2
    <3>2. call.kind # "undoable"
      <4>1. ASSUME call.kind = "undoable" PROVE FALSE
        <5>1. Len(call.rows) = 1
          BY <1>0, <4>1 DEF CallTypeOK
        <5>. QED BY <1>1, <2>2, <5>1
      <4>. QED BY <4>1
    <3>. QED BY <2>2, <3>1, <3>2 DEF Phases, FirstPhase
  <2>. QED BY <2>1, <2>2
<1> HIDE DEF phase
<1>3. /\ call'.phase = phase /\ DOMAIN call' = DOMAIN call
      /\ call'.kind = call.kind /\ call'.rows = call.rows /\ call'.row = call.row + 1
      /\ call'.journal = call.journal /\ call'.start = call.start
  BY <1>0, <1>1 DEF CallTypeOK
<1>4. call'.row \in 1 .. Len(call'.rows) + 1
  BY <1>1, <1>3
<1>5. CallTypeOK' /\ Busy'
  BY <1>0, <1>2, <1>3, <1>4 DEF CallTypeOK, Busy, Phases
<1>6. /\ StateTypes' /\ OneHome' /\ FramesAreExact' /\ NothingFlat' /\ GpuSound'
      /\ (past \in Seq(Snapshots))'
      /\ Snapshot' = Snapshot
  BY <1>0, <1>3, <1>5, OnlyTheCallMoves
<1>7. ~JournalPending /\ ~JournalPending' /\ Touched(call') = Touched(call)
  BY <1>0, <1>2, <1>3 DEF JournalPending, Touched
<1>8. CallIsExact'
  BY <1>0, <1>3, <1>6, <1>7, InvariantParts DEF CallIsExact
<1>. QED BY <1>5, <1>6, <1>8, InvariantAfter

\* Keeping the newest frames only.
LEMMA ExactNewest ==
  ASSUME NEW stack, NEW snaps \in Seq(Snapshots), NEW top, Exact(stack, snaps, top)
  PROVE  Exact(Newest(stack), Newest(snaps), top) /\ Newest(snaps) \in Seq(Snapshots)
<1>1. Len(stack) = Len(snaps) /\ Len(snaps) \in Nat /\ UndoLimit \in Nat
  BY TransactionAssumption DEF Exact
<1>2. CASE Len(snaps) > UndoLimit
  <2>1. Len(snaps) > 0 /\ snaps # <<>>
    BY <1>1, <1>2
  <2>2. Newest(stack) = Tail(stack) /\ Newest(snaps) = Tail(snaps)
    BY <1>1, <1>2 DEF Newest
  <2>3. Tail(snaps) \in Seq(Snapshots)
    BY <2>1
  <2>. QED BY <2>1, <2>2, <2>3, ExactTail
<1>3. CASE ~(Len(snaps) > UndoLimit)
  BY <1>1, <1>3 DEF Newest
<1>. QED BY <1>2, <1>3

LEMMA CommitIsExact ==
  ASSUME IInv, Commit
  PROVE  IInv'
<1>0. /\ Busy /\ CallTypeOK /\ call.phase = "done" /\ ~Busy'
      /\ UNCHANGED <<canon, flat, feat, gpu>>
      /\ StateTypes /\ past \in Seq(Snapshots)
  BY InvariantParts DEF Commit, InPhase, Busy, Idle
<1>1. Effective' = Effective /\ Snapshot' = Snapshot
  BY <1>0 DEF Effective, Snapshot
<1>2. /\ Committed = call.start /\ Committed' = Snapshot
      /\ call.start \in Snapshots
  BY <1>0, <1>1 DEF Committed, CallTypeOK
<1>3. StateTypes' /\ OneHome' /\ GpuSound' /\ CallIsExact'
  BY <1>0, <1>1, InvariantParts DEF StateTypes, OneHome, GpuSound, CallIsExact
<1>4. NothingFlat'
  BY <1>0, RunningIsCanonical DEF NothingFlat
<1>5. /\ call.journal = <<JournalOf(call.start, Touched(call))>>
      /\ Untouched(call.start, Snapshot, Touched(call))
      /\ Exact(undoStack, past, call.start)
  BY <1>0, <1>2, InvariantParts, FramesDefinition DEF CallIsExact, JournalPending
<1>6. FramesAreExact' <=> Exact(undoStack', past', Snapshot)
  BY <1>2 DEF FramesAreExact, Exact, After
<1>7. CASE call.kind = "undoable"
  <2> DEFINE r == call.rows[1]
             frame == [row |-> r, journal |-> JournalOf(call.start, KeysOf(r))]
  <2>1. r \in Reviews /\ Touched(call) = KeysOf(r)
    <3>1. DOMAIN call.rows = {1} /\ r \in Reviews
      BY <1>0, <1>7 DEF CallTypeOK
    <3>. QED BY <3>1 DEF Touched, KeysOfAll
  <2>2. call.journal[1] = JournalOf(call.start, KeysOf(r))
    BY <1>5, <2>1
  <2>3. /\ undoStack' = Newest(Append(undoStack, frame))
        /\ past' = Newest(Append(past, call.start))
    BY <1>7, <2>2 DEF Commit
  <2>4. Exact(Append(undoStack, frame), Append(past, call.start), Snapshot)
    BY <1>0, <1>2, <1>5, <2>1, ExactPush
  <2>5. Append(past, call.start) \in Seq(Snapshots)
    BY <1>0, <1>2
  <2> HIDE DEF frame
  <2>. QED BY <1>0, <1>3, <1>4, <1>6, <2>3, <2>4, <2>5, ExactNewest, InvariantAfter
<1>8. CASE call.kind # "undoable"
  <2>1. UNCHANGED <<undoStack, past>>
    BY <1>8 DEF Commit
  <2>2. undoStack = <<>>
    BY <1>0, <1>8, InvariantParts DEF CallIsExact
  <2>3. past = <<>>
    BY <1>0, <1>5, <2>2 DEF Exact
  <2>. QED BY <1>3, <1>4, <1>0, <2>1, <2>2, <2>3, NoFrames, InvariantAfter
<1>. QED BY <1>7, <1>8

\* What playing back the journal of a review or of a batch does, when it was
\* taken of snapshot p and nothing else changed since.
LEMMA RollbackFacts ==
  ASSUME IInv, flat = NoStates, UNCHANGED flat,
         NEW p \in Snapshots, NEW keys \in SUBSET Keys,
         Untouched(p, Snapshot, keys), PlayBack(JournalOf(p, keys))
  PROVE  /\ StateTypes' /\ OneHome' /\ NothingFlat'
         /\ Snapshot' = p /\ Effective' = canon'
         /\ \A k \in Keys \ keys : canon'[k] = Effective[k]
<1>1. canon \in MaybeStates /\ feat \in FeatureStates
  BY InvariantParts DEF StateTypes
<1>2. canon' = p.states /\ feat' = p.features
  BY <1>1, PlayedBack
<1>3. Snapshot' = p /\ Effective' = p.states
  BY <1>2, SnapshotAfter
<1>4. StateTypes' /\ OneHome' /\ NothingFlat'
  BY <1>1, <1>2 DEF StateTypes, OneHome, NothingFlat, NoStates, Snapshots, MaybeStates
<1>5. \A k \in Keys \ keys : canon'[k] = Effective[k]
  BY <1>2 DEF Untouched, StatesUntouched, Snapshot
<1>. QED BY <1>2, <1>3, <1>4, <1>5

LEMMA GpuAfterRollback ==
  ASSUME IInv, NEW r \in Reviews, canon' \in MaybeStates,
         \A k \in Keys \ KeysOf(r) : canon'[k] = Effective[k],
         Effective' = canon',
         gpu' \in RestoreGpuAfterUndo(gpu, canon', r)
  PROVE  GpuSound'
<1>1. SUFFICES ASSUME gpu' # None PROVE Sound(gpu', canon')
  BY DEF GpuSound
<1>2. gpu # None
  BY <1>1 DEF RestoreGpuAfterUndo
<1>3. Sound(gpu, Effective) /\ Effective \in MaybeStates
  BY <1>2, InvariantParts, EffectiveType DEF GpuSound, StateTypes
<1>. QED BY <1>1, <1>2, <1>3, RestoreIsSound

LEMMA FailIsExact ==
  ASSUME IInv, Fail
  PROVE  IInv' /\ Snapshot' = call.start
<1>0. /\ Busy /\ CallTypeOK /\ StateTypes /\ ~Busy'
      /\ UNCHANGED <<flat, undoStack, past>>
      /\ call.phase \notin {"materialize", "done"}
      /\ flat = NoStates
  BY InvariantParts DEF Fail, Busy, Idle, CanFail, NothingFlat
<1>1. call.start \in Snapshots
  BY <1>0 DEF CallTypeOK
<1>2. CASE call.journal = <<>>
  <2>1. UNCHANGED <<canon, feat, gpu>>
    BY <1>2 DEF Fail
  <2>2. Snapshot' = Snapshot /\ Effective' = Effective
    BY <1>0, <2>1 DEF Snapshot, Effective
  <2>3. Snapshot = call.start
    BY <1>0, <1>2, InvariantParts DEF CallIsExact
  <2>4. StateTypes' /\ OneHome' /\ NothingFlat' /\ GpuSound' /\ CallIsExact'
    BY <1>0, <2>1, <2>2, InvariantParts
       DEF StateTypes, OneHome, NothingFlat, GpuSound, CallIsExact
  <2>5. FramesAreExact'
    BY <1>0, <2>2, <2>3, SameFrames, InvariantParts DEF Committed
  <2>6. (past \in Seq(Snapshots))'
    BY <1>0, InvariantParts
  <2>. QED BY <1>0, <2>2, <2>3, <2>4, <2>5, <2>6, InvariantAfter
<1>3. CASE call.journal # <<>>
  <2>1. /\ ~JournalPending
        /\ call.journal[1] = JournalOf(call.start, Touched(call))
        /\ Untouched(call.start, Snapshot, Touched(call))
    BY <1>0, <1>3, InvariantParts DEF CallIsExact
  <2>2. PlayBack(JournalOf(call.start, Touched(call)))
    BY <1>3, <2>1 DEF Fail
  <2>3. call.row <= Len(call.rows)
    BY <1>0, <2>1 DEF CallTypeOK, JournalPending
  <2>4. Touched(call) \in SUBSET Keys
    BY <1>0, <2>3, RowFacts
  <2>5. /\ StateTypes' /\ OneHome' /\ NothingFlat'
        /\ Snapshot' = call.start /\ Effective' = canon'
        /\ \A k \in Keys \ Touched(call) : canon'[k] = Effective[k]
    BY <1>0, <1>1, <2>1, <2>2, <2>4, RollbackFacts
  <2>6. GpuSound'
    <3>1. CASE call.kind = "undoable"
      <4>1. Row \in Reviews /\ Touched(call) = KeysOf(Row)
        BY <1>0, <2>3, <3>1, RowFacts
      <4>2. gpu' \in RestoreGpuAfterUndo(gpu, canon', Row)
        BY <1>3, <3>1 DEF Fail
      <4>3. canon' \in MaybeStates
        BY <2>5 DEF StateTypes
      <4>. QED BY <2>5, <4>1, <4>2, <4>3, GpuAfterRollback
    <3>2. CASE call.kind # "undoable"
      BY <1>3, <3>2 DEF Fail, GpuSound
    <3>. QED BY <3>1, <3>2
  <2>7. FramesAreExact' /\ CallIsExact'
    BY <1>0, <2>5, SameFrames, InvariantParts DEF Committed, CallIsExact
  <2>8. (past \in Seq(Snapshots))'
    BY <1>0, InvariantParts
  <2>. QED BY <1>0, <2>5, <2>6, <2>7, <2>8, InvariantAfter
<1>. QED BY <1>2, <1>3

LEMMA UndoIsExact ==
  ASSUME IInv, UndoLastProcess
  PROVE  IInv' /\ Snapshot' = past[Len(past)]
<1> DEFINE last == Len(past)
           frame == undoStack[last]
           p == past[last]
<1>0. /\ ~Busy /\ ~Busy' /\ StateTypes /\ past \in Seq(Snapshots)
      /\ UNCHANGED <<flat, call>> /\ undoStack # <<>>
      /\ flat = NoStates
  BY InvariantParts DEF UndoLastProcess, Busy, NothingFlat
<1>1. Exact(undoStack, past, Snapshot)
  BY <1>0, FramesDefinition, InvariantParts DEF Committed
<1>2. Len(undoStack) = last /\ last \in Nat /\ last > 0
  <2>1. Len(undoStack) = last /\ undoStack \in Seq({undoStack[n] : n \in DOMAIN undoStack})
    BY <1>1 DEF Exact
  <2>2. last \in Nat
    BY <1>0
  <2>3. Len(undoStack) # 0
    BY <1>0, <2>1
  <2>. QED BY <2>1, <2>2, <2>3
<1>3. p \in Snapshots
  BY <1>0, <1>2
<1>4. /\ frame.row \in Reviews /\ frame.journal = JournalOf(p, KeysOf(frame.row))
      /\ Untouched(p, Snapshot, KeysOf(frame.row))
  BY <1>1, <1>2 DEF Exact
<1>5. /\ PlayBack(frame.journal)
      /\ gpu' \in RestoreGpuAfterUndo(gpu, canon', frame.row)
      /\ undoStack' = SubSeq(undoStack, 1, Len(undoStack) - 1)
      /\ past' = SubSeq(past, 1, Len(past) - 1)
  BY <1>2 DEF UndoLastProcess
<1> HIDE DEF frame, p
<1>6. KeysOf(frame.row) \in SUBSET Keys
  BY <1>4, KeysOfReview
<1>7. /\ StateTypes' /\ OneHome' /\ NothingFlat'
      /\ Snapshot' = p /\ Effective' = canon'
      /\ \A k \in Keys \ KeysOf(frame.row) : canon'[k] = Effective[k]
  BY <1>0, <1>3, <1>4, <1>5, <1>6, RollbackFacts
<1>8. GpuSound'
  <2>1. canon' \in MaybeStates
    BY <1>7 DEF StateTypes
  <2>. QED BY <1>4, <1>5, <1>7, <2>1, GpuAfterRollback
<1>9. Exact(undoStack', past', p)
  BY <1>0, <1>1, <1>2, <1>5, ExactPop DEF p
<1>10. FramesAreExact' <=> Exact(undoStack', past', Committed')
  BY DEF FramesAreExact, Exact, After
<1>11. FramesAreExact' /\ CallIsExact'
  BY <1>0, <1>7, <1>9, <1>10 DEF Committed, CallIsExact
<1>12. (past \in Seq(Snapshots))'
  BY <1>0, <1>2, <1>5
<1>. QED BY <1>0, <1>7, <1>8, <1>11, <1>12, InvariantAfter DEF p

LEMMA GpuCacheIsExact ==
  ASSUME IInv, PredictGpu \/ ReleaseGpu
  PROVE  IInv'
<1>1. UNCHANGED <<canon, flat, feat, undoStack, call, past>>
  BY DEF PredictGpu, ReleaseGpu
<1>2. Effective' = Effective /\ Snapshot' = Snapshot
  BY <1>1 DEF Effective, Snapshot
<1>3. Committed' = Committed
  BY <1>1, <1>2 DEF Committed, Busy
<1>4. StateTypes' /\ OneHome' /\ NothingFlat'
  BY <1>1, InvariantParts DEF StateTypes, OneHome, NothingFlat, Busy
<1>5. FramesAreExact'
  BY <1>1, <1>3, SameFrames, InvariantParts
<1>6. CallIsExact'
  BY <1>1, <1>2, InvariantParts DEF CallIsExact, JournalPending, Busy
<1>7. (past \in Seq(Snapshots))' /\ (Busy => CallTypeOK)'
  BY <1>1, InvariantParts DEF Busy, CallTypeOK
<1>8. GpuSound'
  <2>1. CASE PredictGpu
    <3>1. /\ gpu = None => Fits(Effective)
          /\ \E t \in Tuples :
               gpu' = Queried(IF gpu = None THEN StateArena(Effective) ELSE gpu, t)
      BY <2>1 DEF PredictGpu
    <3>2. PICK t \in Tuples :
            gpu' = Queried(IF gpu = None THEN StateArena(Effective) ELSE gpu, t)
      BY <3>1
    <3>3. Effective \in MaybeStates
      BY InvariantParts, EffectiveType DEF StateTypes
    <3>4. Sound(IF gpu = None THEN StateArena(Effective) ELSE gpu, Effective)
      BY <3>1, <3>3, ArenaIsSound, InvariantParts DEF GpuSound
    <3>5. Sound(gpu', Effective)
      BY <3>2, <3>4, LookupIsSound
    <3>. QED BY <1>2, <3>5 DEF GpuSound
  <2>2. CASE ReleaseGpu
    BY <2>2 DEF ReleaseGpu, GpuSound
  <2>. QED BY <2>1, <2>2
<1>. QED BY <1>4, <1>5, <1>6, <1>7, <1>8, InvariantAfter

LEMMA ScanIsExact ==
  ASSUME IInv, ProcessByScan
  PROVE  IInv'
<1>1. /\ ~Busy /\ ~Busy' /\ undoStack' = <<>> /\ past' = <<>> /\ gpu' = None
  BY DEF ProcessByScan, Busy
<1>2. PICK r \in Reviews, toFlat \in BOOLEAN :
        LET next == NextStates(Effective, r)
            Put(map, here) == [k \in Keys |-> IF k \notin KeysOf(r) THEN map[k]
                                              ELSE IF here THEN next[k] ELSE None]
        IN  /\ flat' = Put(flat, toFlat)
            /\ canon' = Put(canon, ~toFlat)
            /\ feat' = ProcessedFeatures(feat, r)
  BY DEF ProcessByScan
<1> DEFINE next == NextStates(Effective, r)
<1>3. feat' \in FeatureStates
  <2>1. feat' = RecordProcessedRow(
                  RecordRecurrentStateUpdate(FeatureVector(feat, r, TRUE), r), r)
    BY <1>2 DEF ProcessedFeatures
  <2>2. feat \in FeatureStates
    BY InvariantParts DEF StateTypes
  <2>3. FeatureVector(feat, r, TRUE) \in FeatureStates
    BY <2>2, FeatureVectorType
  <2>4. RecordRecurrentStateUpdate(FeatureVector(feat, r, TRUE), r) \in FeatureStates
    BY <2>3, RecurrentKeysType
  <2>. QED BY <2>1, <2>4, ProcessedRowType
<1>4. next \in MaybeStates
  BY InvariantParts, EffectiveType, NextStatesType DEF StateTypes
<1>5. /\ flat' = [k \in Keys |-> IF k \notin KeysOf(r) THEN flat[k]
                                 ELSE IF toFlat THEN next[k] ELSE None]
      /\ canon' = [k \in Keys |-> IF k \notin KeysOf(r) THEN canon[k]
                                  ELSE IF ~toFlat THEN next[k] ELSE None]
  BY <1>2
<1> HIDE DEF next
<1>6. StateTypes'
  <2>1. \A k \in Keys : /\ flat[k] \in States \cup {None}
                        /\ canon[k] \in States \cup {None}
                        /\ next[k] \in States \cup {None}
    BY <1>4, InvariantParts DEF StateTypes, MaybeStates
  <2>2. \A k \in Keys : flat'[k] \in States \cup {None} /\ canon'[k] \in States \cup {None}
    BY <1>5, <2>1
  <2>. QED BY <1>3, <1>5, <2>2 DEF StateTypes, MaybeStates
<1>7. OneHome'
  BY <1>5, InvariantParts DEF OneHome
<1>8. NothingFlat' /\ CallIsExact' /\ GpuSound'
  BY <1>1 DEF NothingFlat, CallIsExact, GpuSound
<1>. QED BY <1>1, <1>6, <1>7, <1>8, NoFrames, InvariantAfter

LEMMA StutterIsExact ==
  ASSUME IInv, UNCHANGED vars
  PROVE  IInv'
BY DEF vars, IInv, TypeOK, CallTypeOK, OneHome, GpuMirrorsState, CachedSlotsAreCurrent,
       FramesAreExact, CallIsExact, NothingFlat, Busy, After, Committed, Snapshot,
       Effective, JournalPending

-------------------------------------------------------------------------------
(* The theorems.                                                            *)

\* The strengthened invariant holds in every reachable state.
THEOREM TransactionInvariant == Spec => []IInv
<1>1. IInv /\ [Next]_vars => IInv'
  <2>. SUFFICES ASSUME IInv, [Next]_vars PROVE IInv'
    OBVIOUS
  <2>1. CASE BeginUndoable
    <3>1. PICK r \in Reviews : Begin("undoable", <<r>>)
      BY <2>1 DEF BeginUndoable
    <3>2. <<r>> \in Seq(Reviews) /\ Len(<<r>>) = 1
      OBVIOUS
    <3>. QED BY <3>1, <3>2, BeginIsExact DEF CallKinds
  <2>2. CASE BeginBatch
    <3>1. PICK kind \in CallKinds \ {"undoable"}, rows \in Batches : Begin(kind, rows)
      BY <2>2 DEF BeginBatch
    <3>2. rows \in Seq(Reviews)
      BY TransactionAssumption
    <3>. QED BY <3>1, <3>2, BeginIsExact
  <2>3. CASE CallStep
    BY <2>3, MaterializeIsExact, MaterializeFailureIsExact, CaptureIsExact,
       PredictIsExact, FeaturesIsExact, StoreIsExact, RecordIsExact,
       NextRowIsExact, CommitIsExact, FailIsExact DEF CallStep
  <2>4. CASE UndoLastProcess
    BY <2>4, UndoIsExact
  <2>5. CASE PredictGpu \/ ReleaseGpu
    BY <2>5, GpuCacheIsExact
  <2>6. CASE ProcessByScan
    BY <2>6, ScanIsExact
  <2>7. CASE UNCHANGED vars
    BY <2>7, StutterIsExact
  <2>. QED BY <2>1, <2>2, <2>3, <2>4, <2>5, <2>6, <2>7 DEF Next
<1>. QED BY <1>1, InitIsExact, PTL DEF Spec

\* Every variable keeps its type: no arena outgrows its buffers, no call its rows.
THEOREM TransactionTypes == Spec => []TypeOK
<1>1. IInv => TypeOK
  BY DEF IInv
<1>. QED BY <1>1, TransactionInvariant, PTL

\* No recurrent state ever has two CPU homes.
THEOREM StatesHaveOneHome == Spec => []OneHome
<1>1. IInv => OneHome
  BY DEF IInv
<1>. QED BY <1>1, TransactionInvariant, PTL

\* The GPU prediction cache always holds the newest states, whatever was
\* processed, rolled back and undone since it was built.
THEOREM GpuPredictsFromNewestStates == Spec => []GpuMirrorsState
<1>1. IInv => GpuMirrorsState
  BY DEF IInv
<1>. QED BY <1>1, TransactionInvariant, PTL

\* No cached slot tuple outlives the slots it names.
THEOREM CachedSlotsStayCurrent == Spec => []CachedSlotsAreCurrent
<1>1. IInv => CachedSlotsAreCurrent
  BY DEF IInv
<1>. QED BY <1>1, TransactionInvariant, PTL

\* A review or batch that fails leaves the runtime as it found it.
THEOREM FailedCallsLeaveNoTrace == Spec => FailureLeavesNoTrace
<1>1. IInv /\ [Next]_vars => [Fail \/ MaterializeFails => Snapshot' = call.start]_vars
  BY FailIsExact, MaterializeFailureIsExact
<1>. QED BY <1>1, TransactionInvariant, PTL DEF Spec, FailureLeavesNoTrace

\* Undoing restores the state before the undone review exactly.
THEOREM UndoIsTheInverse == Spec => UndoRestoresExactly
<1>1. IInv /\ [Next]_vars => [UndoLastProcess => Snapshot' = past[Len(past)]]_vars
  BY UndoIsExact
<1>. QED BY <1>1, TransactionInvariant, PTL DEF Spec, UndoRestoresExactly

-------------------------------------------------------------------------------
(* What a log makes, one review at a time.                                  *)

\* The recursion of FeaturesAfter, as a condition on the function it defines.
FeaturesBody(f, log) ==
  [n \in 0 .. Len(log) |->
     IF n = 0 THEN EmptyFeatures ELSE ProcessedFeatures(f[n - 1], log[n])]

LEMMA FeaturesIsBody ==
  \A log : FeaturesAfter(log) = (CHOOSE f : f = FeaturesBody(f, log))[Len(log)]
BY DEF FeaturesAfter, FeaturesBody

\* The same up to m, so that it can be extended one review at a time.
Replays(f, log, m) ==
  /\ f = [n \in 0 .. m |-> f[n]]
  /\ f[0] = EmptyFeatures
  /\ \A n \in 1 .. m : f[n] = ProcessedFeatures(f[n - 1], log[n])

LEMMA ReplaysAreBody ==
  ASSUME NEW f, NEW log \in Seq(Reviews)
  PROVE  f = FeaturesBody(f, log) <=> Replays(f, log, Len(log))
<1>. Len(log) \in Nat
  OBVIOUS
<1>1. ASSUME f = FeaturesBody(f, log) PROVE Replays(f, log, Len(log))
  <2>1. \A n \in 0 .. Len(log) : f[n] =
          IF n = 0 THEN EmptyFeatures ELSE ProcessedFeatures(f[n - 1], log[n])
    BY <1>1 DEF FeaturesBody
  <2>2. f = [n \in 0 .. Len(log) |-> f[n]]
    BY <1>1 DEF FeaturesBody
  <2>. QED BY <2>1, <2>2 DEF Replays
<1>2. ASSUME Replays(f, log, Len(log)) PROVE f = FeaturesBody(f, log)
  <2>1. ASSUME NEW n \in 0 .. Len(log)
        PROVE  f[n] = IF n = 0 THEN EmptyFeatures ELSE ProcessedFeatures(f[n - 1], log[n])
    <3>1. n = 0 \/ n \in 1 .. Len(log)
      OBVIOUS
    <3>2. 0 \notin 1 .. Len(log)
      OBVIOUS
    <3>. QED BY <1>2, <3>1, <3>2 DEF Replays
  <2>2. f = [n \in 0 .. Len(log) |-> f[n]]
    BY <1>2 DEF Replays
  <2>. QED BY <2>1, <2>2 DEF FeaturesBody
<1>. QED BY <1>1, <1>2

LEMMA ReplaysExist ==
  ASSUME NEW log
  PROVE  \A m \in Nat : \E f : Replays(f, log, m)
<1> DEFINE T == {m \in Nat : \E f : Replays(f, log, m)}
<1>1. 0 \in T
  <2> DEFINE g == [n \in 0 .. 0 |-> EmptyFeatures]
  <2>1. g = [n \in 0 .. 0 |-> g[n]] /\ g[0] = EmptyFeatures
    OBVIOUS
  <2> HIDE DEF g
  <2>2. Replays(g, log, 0)
    BY <2>1 DEF Replays
  <2>. QED BY <2>2
<1>2. ASSUME NEW m \in Nat, m \in T PROVE m + 1 \in T
  <2>1. PICK f : Replays(f, log, m)
    BY <1>2
  <2> DEFINE next == ProcessedFeatures(f[m], log[m + 1])
             g == [n \in 0 .. (m + 1) |-> IF n = m + 1 THEN next ELSE f[n]]
  <2> HIDE DEF next
  <2>2. \A n \in 0 .. m : g[n] = f[n]
    OBVIOUS
  <2>3. g[m + 1] = next
    OBVIOUS
  <2>4. g = [n \in 0 .. (m + 1) |-> g[n]]
    OBVIOUS
  <2> HIDE DEF g
  <2>5. ASSUME NEW n \in 1 .. (m + 1)
        PROVE  g[n] = ProcessedFeatures(g[n - 1], log[n])
    <3>1. CASE n = m + 1
      <4>1. n - 1 = m /\ m \in 0 .. m
        BY <3>1
      <4>. QED BY <3>1, <4>1, <2>2, <2>3 DEF next
    <3>2. CASE n \in 1 .. m
      <4>1. g[n] = f[n] /\ g[n - 1] = f[n - 1]
        BY <3>2, <2>2
      <4>. QED BY <3>2, <4>1, <2>1 DEF Replays
    <3>. QED BY <3>1, <3>2
  <2>6. g[0] = EmptyFeatures
    BY <2>1, <2>2 DEF Replays
  <2>7. Replays(g, log, m + 1)
    BY <2>4, <2>5, <2>6 DEF Replays
  <2>. QED BY <2>7
<1> HIDE DEF T
<1>3. \A m \in Nat : m \in T
  BY <1>1, <1>2, Induct
<1>. QED BY <1>3 DEF T

LEMMA ReplaysAgree ==
  ASSUME NEW x, NEW y, NEW f, NEW g, NEW m \in Nat, NEW l \in Nat, m <= l,
         Replays(f, x, m), Replays(g, y, l), \A n \in 1 .. m : x[n] = y[n]
  PROVE  \A n \in 0 .. m : f[n] = g[n]
<1> DEFINE T == {n \in Nat : n <= m => f[n] = g[n]}
<1>1. 0 \in T
  BY DEF Replays
<1>2. ASSUME NEW n \in Nat, n \in T PROVE n + 1 \in T
  <2> SUFFICES ASSUME n + 1 <= m PROVE f[n + 1] = g[n + 1]
    OBVIOUS
  <2>1. n + 1 \in 1 .. m /\ n + 1 \in 1 .. l /\ (n + 1) - 1 = n
    OBVIOUS
  <2>2. f[n] = g[n] /\ x[n + 1] = y[n + 1]
    BY <1>2, <2>1
  <2>3. f[n + 1] = ProcessedFeatures(f[n], x[n + 1])
    BY <2>1 DEF Replays
  <2>4. g[n + 1] = ProcessedFeatures(g[n], y[n + 1])
    BY <2>1 DEF Replays
  <2>. QED BY <2>2, <2>3, <2>4
<1> HIDE DEF T
<1>3. \A n \in Nat : n \in T
  BY <1>1, <1>2, Induct
<1>. QED BY <1>3 DEF T

LEMMA FeaturesByReplay ==
  ASSUME NEW log \in Seq(Reviews)
  PROVE  \E f : Replays(f, log, Len(log)) /\ FeaturesAfter(log) = f[Len(log)]
<1>1. \E f : Replays(f, log, Len(log))
  <2>1. Len(log) \in Nat
    OBVIOUS
  <2>. QED BY <2>1, ReplaysExist
<1>2. \E f : f = FeaturesBody(f, log)
  BY <1>1, ReplaysAreBody
<1> DEFINE F == CHOOSE f : f = FeaturesBody(f, log)
<1>3. F = FeaturesBody(F, log)
  BY <1>2
<1>4. FeaturesAfter(log) = F[Len(log)]
  BY FeaturesIsBody
<1> HIDE DEF F
<1>5. Replays(F, log, Len(log))
  BY <1>3, ReplaysAreBody
<1>. QED BY <1>4, <1>5

\* Nothing processed,
LEMMA FeaturesAfterNothing == FeaturesAfter(<<>>) = EmptyFeatures
<1>1. <<>> \in Seq(Reviews) /\ Len(<<>>) = 0
  OBVIOUS
<1>2. PICK f : Replays(f, <<>>, Len(<<>>)) /\ FeaturesAfter(<<>>) = f[Len(<<>>)]
  BY <1>1, FeaturesByReplay
<1>. QED BY <1>1, <1>2 DEF Replays

\* and one review more.
LEMMA FeaturesAfterOneMore ==
  ASSUME NEW log \in Seq(Reviews), NEW r \in Reviews
  PROVE  FeaturesAfter(Append(log, r)) = ProcessedFeatures(FeaturesAfter(log), r)
<1> DEFINE y == Append(log, r)
<1>1. /\ y \in Seq(Reviews) /\ Len(log) \in Nat /\ Len(y) = Len(log) + 1
      /\ y[Len(log) + 1] = r /\ \A n \in 1 .. Len(log) : log[n] = y[n]
  OBVIOUS
<1> HIDE DEF y
<1>2. PICK f : Replays(f, log, Len(log)) /\ FeaturesAfter(log) = f[Len(log)]
  BY FeaturesByReplay
<1>3. PICK g : Replays(g, y, Len(y)) /\ FeaturesAfter(y) = g[Len(y)]
  BY <1>1, FeaturesByReplay
<1>4. \A n \in 0 .. Len(log) : f[n] = g[n]
  <2>1. Len(y) \in Nat /\ Len(log) <= Len(y)
    BY <1>1
  <2>. QED BY <2>1, <1>1, <1>2, <1>3, ReplaysAgree
<1>5. g[Len(y)] = ProcessedFeatures(g[Len(y) - 1], y[Len(y)])
  <2>1. Len(y) \in 1 .. Len(y)
    BY <1>1
  <2>. QED BY <2>1, <1>3 DEF Replays
<1>6. g[Len(y) - 1] = FeaturesAfter(log)
  BY <1>1, <1>2, <1>4
<1>. QED BY <1>1, <1>3, <1>5, <1>6 DEF y

\* The reviews that touch a key.
For(k) == {r \in Reviews : k \in KeysOf(r)}

LEMMA StateByReviews ==
  ASSUME NEW log \in Seq(Reviews), NEW k
  PROVE  /\ Chosen(log, For(k)) \in Seq(Reviews) /\ Chosen(log, For(k)) # None
         /\ StateAfter(log, k) =
              IF Chosen(log, For(k)) = <<>> THEN None ELSE Chosen(log, For(k))
<1>1. Chosen(log, For(k)) \in Seq(Reviews)
  BY ChosenType
<1>2. Chosen(log, For(k)) # None
  BY <1>1, ReviewAssumption
<1>. QED BY <1>1, <1>2 DEF StateAfter, For

LEMMA StateAfterNothing == \A k : StateAfter(<<>>, k) = None
BY ChosenEmpty DEF StateAfter

LEMMA StateAfterOneMore ==
  ASSUME NEW log \in Seq(Reviews), NEW r \in Reviews, NEW k
  PROVE  StateAfter(Append(log, r), k) =
           IF k \notin KeysOf(r) THEN StateAfter(log, k)
           ELSE IF StateAfter(log, k) = None THEN <<r>>
           ELSE Append(StateAfter(log, k), r)
<1> DEFINE mine == Chosen(log, For(k))
           next == Chosen(Append(log, r), For(k))
<1>1. mine \in Seq(Reviews) /\ Append(log, r) \in Seq(Reviews)
  BY StateByReviews
<1>2. next = IF r \in For(k) THEN Append(mine, r) ELSE mine
  BY ChosenAppend
<1>3. r \in For(k) <=> k \in KeysOf(r)
  BY DEF For
<1>4. /\ StateAfter(log, k) = IF mine = <<>> THEN None ELSE mine
      /\ StateAfter(Append(log, r), k) = IF next = <<>> THEN None ELSE next
      /\ mine # None
  BY <1>1, StateByReviews
<1> HIDE DEF mine, next
<1>5. CASE k \notin KeysOf(r)
  BY <1>2, <1>3, <1>4, <1>5
<1>6. CASE k \in KeysOf(r) /\ mine = <<>>
  <2>1. Append(mine, r) = <<r>> /\ Append(mine, r) # <<>>
    BY <1>6
  <2>. QED BY <2>1, <1>2, <1>3, <1>4, <1>6
<1>7. CASE k \in KeysOf(r) /\ mine # <<>>
  <2>1. Append(mine, r) # <<>>
    BY <1>1
  <2>. QED BY <2>1, <1>2, <1>3, <1>4, <1>7
<1>. QED BY <1>5, <1>6, <1>7

LEMMA GlobalKeyOfAll ==
  GlobalKey \in Keys /\ \A r \in Reviews : GlobalKey \in KeysOf(r)
<1>1. ASSUME NEW r \in Reviews PROVE GlobalKey \in KeysOf(r)
  <2>1. "global" \in Kinds /\ NormalizedIds(r)["global"] = Placeholder
    BY DEF Kinds, NormalizedIds
  <2>. QED BY <2>1 DEF GlobalKey, KeysOf
<1>2. PICK r \in Reviews : TRUE
  BY SomeReviewAssumption
<1>. QED BY <1>1, <1>2 DEF Keys, KeysOfAll

\* A log can be read off the states it made.
LEMMA LogIsRead ==
  ASSUME NEW p, NEW log \in Seq(Reviews), StatesFollow(p.states, log)
  PROVE  LogOf(p) = log
<1>1. Reviews \subseteq For(GlobalKey)
  BY GlobalKeyOfAll DEF For
<1>2. Chosen(log, For(GlobalKey)) = log
  BY <1>1, ChosenAll
<1>3. p.states[GlobalKey] = IF log = <<>> THEN None ELSE log
  BY <1>2, StateByReviews, GlobalKeyOfAll DEF StatesFollow
<1>4. log # None
  BY ReviewAssumption
<1>. QED BY <1>3, <1>4 DEF LogOf

LEMMA LogType ==
  ASSUME NEW p \in Snapshots
  PROVE  LogOf(p) \in Seq(Reviews)
<1>1. p.states[GlobalKey] \in Seq(Reviews) \cup {None}
  BY GlobalKeyOfAll DEF Snapshots, MaybeStates, States
<1>2. <<>> \in Seq(Reviews)
  OBVIOUS
<1>. QED BY <1>1, <1>2 DEF LogOf

LEMMA StatesFollowOneMore ==
  ASSUME NEW s, NEW log \in Seq(Reviews), NEW r \in Reviews, StatesFollow(s, log)
  PROVE  StatesFollow(NextStates(s, r), Append(log, r))
<1>1. ASSUME NEW k \in Keys
      PROVE  NextStates(s, r)[k] = StateAfter(Append(log, r), k)
  <2>1. NextStates(s, r)[k] = IF k \notin KeysOf(r) THEN s[k]
                              ELSE IF s[k] = None THEN <<r>> ELSE Append(s[k], r)
    BY DEF NextStates
  <2>2. s[k] = StateAfter(log, k)
    BY DEF StatesFollow
  <2>. QED BY <2>1, <2>2, StateAfterOneMore
<1>. QED BY <1>1 DEF StatesFollow

-------------------------------------------------------------------------------
(* The undo stack as a chain of logs, each one review longer.               *)

Rising(stack, snaps, top) ==
  /\ Len(stack) = Len(snaps)
  /\ \A n \in 1 .. Len(snaps) :
       /\ Follows(snaps[n], LogOf(snaps[n]))
       /\ LogOf(IF n = Len(snaps) THEN top ELSE snaps[n + 1])
            = Append(LogOf(snaps[n]), stack[n].row)

LEMMA RisingDefinition ==
  ASSUME IInv
  PROVE  FramesFollow <=> Rising(undoStack, past, Committed)
<1>1. past \in Seq(Snapshots) /\ Len(undoStack) = Len(past)
  BY InvariantParts DEF FramesAreExact
<1>2. DOMAIN past = 1 .. Len(past)
  BY <1>1
<1>. QED BY <1>1, <1>2 DEF FramesFollow, Rising, After

LEMMA RisingAfter ==
  ASSUME IInv', Rising(undoStack', past', Committed')
  PROVE  FramesFollow'
<1>1. past' \in Seq(Snapshots)
  BY DEF IInv, TypeOK
<1>2. DOMAIN past' = 1 .. Len(past')
  BY <1>1
<1>. QED BY <1>2 DEF FramesFollow, Rising, After

LEMMA RisingNothing == \A top : Rising(<<>>, <<>>, top)
BY DEF Rising

LEMMA RisingPush ==
  ASSUME NEW R, NEW stack \in Seq(R), NEW frame \in R, NEW snaps \in Seq(Snapshots),
         NEW top \in Snapshots, NEW next, Rising(stack, snaps, top),
         Follows(top, LogOf(top)), LogOf(next) = Append(LogOf(top), frame.row)
  PROVE  Rising(Append(stack, frame), Append(snaps, top), next)
<1> DEFINE s == Append(stack, frame)
           p == Append(snaps, top)
<1>1. /\ Len(s) = Len(stack) + 1 /\ s[Len(stack) + 1] = frame
      /\ \A n \in 1 .. Len(stack) : s[n] = stack[n]
      /\ Len(p) = Len(snaps) + 1 /\ p[Len(snaps) + 1] = top
      /\ \A n \in 1 .. Len(snaps) : p[n] = snaps[n]
      /\ Len(snaps) \in Nat
  OBVIOUS
<1>2. Len(stack) = Len(snaps)
  BY DEF Rising
<1> HIDE DEF s, p
<1>3. ASSUME NEW n \in 1 .. Len(p)
      PROVE  /\ Follows(p[n], LogOf(p[n]))
             /\ LogOf(IF n = Len(p) THEN next ELSE p[n + 1])
                  = Append(LogOf(p[n]), s[n].row)
  <2>1. CASE n = Len(p)
    BY <1>1, <1>2, <2>1
  <2>2. CASE n # Len(p)
    <3>1. n \in 1 .. Len(snaps)
      BY <1>1, <2>2
    <3>2. p[n + 1] = IF n = Len(snaps) THEN top ELSE snaps[n + 1]
      <4>1. CASE n = Len(snaps)
        BY <1>1, <4>1
      <4>2. CASE n # Len(snaps)
        <5>1. n + 1 \in 1 .. Len(snaps)
          BY <1>1, <3>1, <4>2
        <5>. QED BY <1>1, <4>2, <5>1
      <4>. QED BY <4>1, <4>2
    <3>3. p[n] = snaps[n] /\ s[n] = stack[n]
      BY <1>1, <1>2, <3>1
    <3>. QED BY <2>2, <3>1, <3>2, <3>3 DEF Rising
  <2>. QED BY <2>1, <2>2
<1>. QED BY <1>1, <1>2, <1>3 DEF Rising, s, p

LEMMA RisingTail ==
  ASSUME NEW R, NEW stack \in Seq(R), NEW snaps \in Seq(Snapshots), NEW top,
         Rising(stack, snaps, top), snaps # <<>>
  PROVE  Rising(Tail(stack), Tail(snaps), top)
<1>1. Len(stack) = Len(snaps) /\ Len(snaps) \in Nat /\ Len(snaps) # 0
  BY DEF Rising
<1>2. stack # <<>>
  BY <1>1
<1>3. /\ Len(Tail(stack)) = Len(snaps) - 1 /\ Len(Tail(snaps)) = Len(snaps) - 1
      /\ \A n \in 1 .. Len(snaps) - 1 : Tail(stack)[n] = stack[n + 1]
      /\ \A n \in 1 .. Len(snaps) - 1 : Tail(snaps)[n] = snaps[n + 1]
  BY <1>1, <1>2
<1> DEFINE s == Tail(stack)
           p == Tail(snaps)
<1>4. /\ Len(s) = Len(snaps) - 1 /\ Len(p) = Len(snaps) - 1
      /\ \A n \in 1 .. Len(snaps) - 1 : s[n] = stack[n + 1] /\ p[n] = snaps[n + 1]
  BY <1>3
<1> HIDE DEF s, p
<1>5. ASSUME NEW n \in 1 .. Len(p)
      PROVE  /\ Follows(p[n], LogOf(p[n]))
             /\ LogOf(IF n = Len(p) THEN top ELSE p[n + 1])
                  = Append(LogOf(p[n]), s[n].row)
  <2>1. n + 1 \in 1 .. Len(snaps) /\ n \in 1 .. Len(snaps) - 1
    BY <1>1, <1>4
  <2>2. s[n] = stack[n + 1] /\ p[n] = snaps[n + 1]
    BY <1>4, <2>1
  <2>3. /\ Follows(snaps[n + 1], LogOf(snaps[n + 1]))
        /\ LogOf(IF n + 1 = Len(snaps) THEN top ELSE snaps[(n + 1) + 1])
             = Append(LogOf(snaps[n + 1]), stack[n + 1].row)
    BY <2>1 DEF Rising
  <2>4. n = Len(p) <=> n + 1 = Len(snaps)
    BY <1>1, <1>4
  <2>5. n + 1 # Len(snaps) => p[n + 1] = snaps[(n + 1) + 1]
    <3>1. n + 1 # Len(snaps) => n + 1 \in 1 .. Len(snaps) - 1
      BY <1>1, <2>1
    <3>. QED BY <1>4, <3>1
  <2>. QED BY <2>2, <2>3, <2>4, <2>5
<1>. QED BY <1>4, <1>5 DEF Rising, s, p

LEMMA RisingPop ==
  ASSUME NEW R, NEW stack \in Seq(R), NEW snaps \in Seq(Snapshots), NEW top,
         Rising(stack, snaps, top), NEW last \in Nat, last = Len(snaps), last # 0
  PROVE  Rising(SubSeq(stack, 1, last - 1), SubSeq(snaps, 1, last - 1), snaps[last])
<1> DEFINE s == SubSeq(stack, 1, last - 1)
           p == SubSeq(snaps, 1, last - 1)
<1>1. Len(stack) = last
  BY DEF Rising
<1>2. /\ Len(s) = last - 1 /\ Len(p) = last - 1
      /\ \A n \in 1 .. last - 1 : s[n] = stack[n] /\ p[n] = snaps[n]
  BY <1>1
<1> HIDE DEF s, p
<1>3. ASSUME NEW n \in 1 .. Len(p)
      PROVE  /\ Follows(p[n], LogOf(p[n]))
             /\ LogOf(IF n = Len(p) THEN snaps[last] ELSE p[n + 1])
                  = Append(LogOf(p[n]), s[n].row)
  <2>1. n \in 1 .. last - 1 /\ n \in 1 .. Len(snaps) /\ n # Len(snaps)
    BY <1>2
  <2>2. /\ Follows(snaps[n], LogOf(snaps[n]))
        /\ LogOf(snaps[n + 1]) = Append(LogOf(snaps[n]), stack[n].row)
    BY <2>1 DEF Rising
  <2>3. (IF n = Len(p) THEN snaps[last] ELSE p[n + 1]) = snaps[n + 1]
    <3>1. CASE n = Len(p)
      <4>1. n + 1 = last
        BY <1>2, <3>1
      <4>. QED BY <3>1, <4>1
    <3>2. CASE n # Len(p)
      <4>1. n + 1 \in 1 .. last - 1
        BY <1>2, <3>2
      <4>. QED BY <1>2, <3>2, <4>1
    <3>. QED BY <3>1, <3>2
  <2>. QED BY <1>2, <2>1, <2>2, <2>3
<1>. QED BY <1>2, <1>3 DEF Rising, s, p

-------------------------------------------------------------------------------
(* One lemma per action: states and features keep following the log, and     *)
(* what the step makes of log and undo stack.                                *)

LEMMA CommittedType ==
  ASSUME IInv
  PROVE  Committed \in Snapshots
<1>1. CASE Busy
  BY <1>1, InvariantParts DEF Committed, CallTypeOK
<1>2. CASE ~Busy
  BY <1>2, InvariantParts, SnapshotType DEF Committed
<1>. QED BY <1>1, <1>2

LEMMA CommittedLogType ==
  ASSUME IInv
  PROVE  CommittedLog \in Seq(Reviews)
BY CommittedType, LogType DEF CommittedLog

\* A step that leaves the committed state and the undo stack alone.
LEMMA CommittedStays ==
  ASSUME IInv, LogInv, IInv', CallFollows', Committed' = Committed,
         UNCHANGED <<undoStack, past>>
  PROVE  LogInv' /\ CommittedLog' = CommittedLog
<1>1. CommittedLog' = CommittedLog
  BY DEF CommittedLog
<1>2. StateFollowsLog'
  BY <1>1 DEF StateFollowsLog, LogInv
<1>3. FramesFollow'
  BY RisingDefinition, RisingAfter DEF LogInv
<1>. QED BY <1>1, <1>2, <1>3 DEF LogInv

\* The rows a running call has processed.
LEMMA ProcessedFacts ==
  ASSUME IInv, Busy
  PROVE  /\ LogOf(call.start) \in Seq(Reviews)
         /\ Len(call.rows) \in Nat /\ call.rows \in Seq(Reviews)
         /\ Done \in 0 .. Len(call.rows)
         /\ SubSeq(call.rows, 1, Done) \in Seq(Reviews)
         /\ Processed \in Seq(Reviews)
<1>1. CallTypeOK
  BY InvariantParts
<1>2. LogOf(call.start) \in Seq(Reviews) /\ call.rows \in Seq(Reviews)
  BY <1>1, LogType DEF CallTypeOK
<1>3. Len(call.rows) \in Nat
  BY <1>2
<1>4. Done \in 0 .. Len(call.rows)
  <2>1. call.row \in 1 .. Len(call.rows) + 1
    BY <1>1 DEF CallTypeOK
  <2>2. CASE call.phase = "curves"
    <3>1. call.row <= Len(call.rows)
      BY <1>1, <2>2 DEF CallTypeOK
    <3>. QED BY <1>3, <2>1, <2>2, <3>1 DEF Done
  <2>3. CASE call.phase # "curves"
    BY <1>3, <2>1, <2>3 DEF Done
  <2>. QED BY <2>2, <2>3
<1>5. SubSeq(call.rows, 1, Done) \in Seq(Reviews)
  BY <1>2, <1>3, <1>4
<1>. QED BY <1>2, <1>3, <1>4, <1>5 DEF Processed

LEMMA OneRowMore ==
  ASSUME NEW x \in Seq(Reviews), NEW y \in Seq(Reviews), NEW n \in 1 .. Len(y)
  PROVE  x \o SubSeq(y, 1, n) = Append(x \o SubSeq(y, 1, n - 1), y[n])
<1>1. SubSeq(y, 1, n - 1) \in Seq(Reviews) /\ y[n] \in Reviews
  OBVIOUS
<1>2. SubSeq(y, 1, n) = Append(SubSeq(y, 1, n - 1), y[n])
  OBVIOUS
<1>. QED BY <1>1, <1>2, ConcatAppend

\* A step of a call that processes nothing and goes on to another phase.
LEMMA PhaseFollows ==
  ASSUME IInv, LogInv, Busy, IInv', Busy', NEW phase \in Phases, call'.phase = phase,
         call'.kind = call.kind, call'.rows = call.rows, call'.start = call.start,
         Done' = Done, call.phase \notin {"store", "record"},
         phase \notin {"store", "record"}, phase = "done" => call'.row > Len(call.rows),
         Effective' = Effective, UNCHANGED <<feat, undoStack, past>>
  PROVE  LogInv' /\ CommittedLog' = CommittedLog
<1>1. Processed' = Processed
  BY DEF Processed
<1>2. CallFollows'
  BY <1>1 DEF LogInv, CallFollows
<1>3. Committed' = Committed
  BY DEF Committed
<1>. QED BY <1>2, <1>3, CommittedStays

LEMMA BeginFollows ==
  ASSUME IInv, LogInv, IInv',
         NEW kind \in CallKinds, NEW rows \in Seq(Reviews), Begin(kind, rows)
  PROVE  /\ LogInv' /\ CommittedLog' = CommittedLog
         /\ UNCHANGED undoStack \/ undoStack' = <<>>
<1>1. /\ ~Busy /\ Busy'
      /\ call'.kind = kind /\ call'.rows = rows /\ call'.row = 1
      /\ call'.phase = "materialize" /\ call'.start = Snapshot
      /\ UNCHANGED <<canon, flat, feat, gpu>>
      /\ undoStack' = IF kind = "undoable" THEN undoStack ELSE <<>>
      /\ past' = IF kind = "undoable" THEN past ELSE <<>>
      /\ kind = "undoable" => UndoLimit > 0
  BY DEF Begin, Busy
<1>2. Effective' = Effective /\ Committed' = Committed /\ Committed = Snapshot
  BY <1>1 DEF Effective, Committed
<1>3. CommittedLog' = CommittedLog /\ LogOf(Snapshot) = CommittedLog
  BY <1>2 DEF CommittedLog
<1>4. Processed' = CommittedLog
  <2>1. Done' = 0
    BY <1>1 DEF Done
  <2>2. SubSeq(rows, 1, 0) = <<>>
    OBVIOUS
  <2>3. CommittedLog \o <<>> = CommittedLog
    BY CommittedLogType, ConcatEmptySeq
  <2>. QED BY <1>1, <1>3, <2>1, <2>2, <2>3 DEF Processed
<1>5. CallFollows'
  <2>1. Snapshot.states = Effective /\ Snapshot.features = feat
    BY DEF Snapshot
  <2>2. StatesFollow(Effective, CommittedLog) /\ feat = FeaturesAfter(CommittedLog)
    BY <1>2, <2>1 DEF LogInv, StateFollowsLog, Follows
  <2>. QED BY <1>1, <1>2, <1>4, <2>2 DEF CallFollows
<1>6. StateFollowsLog'
  BY <1>2, <1>3 DEF StateFollowsLog, LogInv
<1>7. CASE kind = "undoable"
  BY <1>1, <1>2, <1>3, <1>5, <1>7, CommittedStays
<1>8. CASE kind # "undoable"
  <2>1. FramesFollow'
    BY <1>1, <1>8, RisingNothing, RisingAfter
  <2>2. (Len(undoStack) <= UndoLimit)'
    BY <1>1, <1>8, TransactionAssumption
  <2>. QED BY <1>1, <1>3, <1>5, <1>6, <1>8, <2>1, <2>2 DEF LogInv
<1>. QED BY <1>7, <1>8

LEMMA MaterializeFollows ==
  ASSUME IInv, LogInv, IInv', MaterializeFlatCpuState
  PROVE  LogInv' /\ CommittedLog' = CommittedLog /\ UNCHANGED undoStack
<1>0. /\ Busy /\ call.phase = "materialize" /\ UNCHANGED <<undoStack, past, feat>>
      /\ StateTypes /\ OneHome /\ CallTypeOK
  BY InvariantParts DEF MaterializeFlatCpuState, InPhase, Busy
<1>1. Effective' = Effective
  BY <1>0, MovingIsInvisible DEF MaterializeFlatCpuState
<1> DEFINE phase == IF call.kind = "undoable" THEN "predict" ELSE "capture"
<1>2. phase \in {"predict", "capture"} /\ phase \in Phases /\ Go(phase)
  BY DEF MaterializeFlatCpuState, Phases
<1> HIDE DEF phase
<1>3. /\ call'.phase = phase /\ call'.kind = call.kind /\ call'.rows = call.rows
      /\ call'.row = call.row /\ call'.start = call.start
  BY <1>0, <1>2 DEF Go, CallTypeOK
<1>4. Busy' /\ Done' = Done
  BY <1>0, <1>2, <1>3 DEF Busy, Done
<1>. QED BY <1>0, <1>1, <1>2, <1>3, <1>4, PhaseFollows

LEMMA CaptureFollows ==
  ASSUME IInv, LogInv, IInv', Capture
  PROVE  LogInv' /\ CommittedLog' = CommittedLog /\ UNCHANGED undoStack
<1>0. /\ Busy /\ call.phase = "capture" /\ CallTypeOK /\ call.row = 1
      /\ UNCHANGED <<canon, flat, feat, undoStack, past>>
  BY InvariantParts DEF Capture, InPhase, Busy, CallTypeOK
<1> DEFINE phase == IF call.kind = "undoable" THEN "features"
                    ELSE IF RowsDone THEN "done" ELSE FirstPhase
<1>1. phase \in {"features", "done", "predict"} /\ phase \in Phases
  BY DEF FirstPhase, Phases
<1>2. phase = "done" => call.row > Len(call.rows)
  BY DEF FirstPhase, RowsDone
<1>3. /\ call'.phase = phase /\ call'.kind = call.kind /\ call'.rows = call.rows
      /\ call'.row = call.row /\ call'.start = call.start
  BY <1>0 DEF Capture, CallTypeOK
<1> HIDE DEF phase
<1>4. Busy' /\ Done' = Done
  BY <1>0, <1>1, <1>3 DEF Busy, Done
<1>5. Effective' = Effective
  BY <1>0 DEF Effective
<1>. QED BY <1>0, <1>1, <1>2, <1>3, <1>4, <1>5, PhaseFollows

LEMMA PredictFollows ==
  ASSUME IInv, LogInv, IInv', Predict
  PROVE  LogInv' /\ CommittedLog' = CommittedLog /\ UNCHANGED undoStack
<1>0. /\ Busy /\ call.phase = "predict" /\ CallTypeOK /\ StateTypes
      /\ UNCHANGED <<canon, flat, undoStack, past>>
  BY InvariantParts DEF Predict, InPhase, Busy
<1>1. feat' = feat
  <2>1. call.row <= Len(call.rows) /\ Row \in Reviews
    BY <1>0, RowFacts DEF CallTypeOK
  <2>. QED BY <1>0, <2>1, PredictionChangesNothing DEF Predict, StateTypes
<1> DEFINE phase == IF call.kind = "undoable" THEN "capture" ELSE "features"
<1>2. phase \in {"capture", "features"} /\ phase \in Phases /\ Go(phase)
  BY DEF Predict, Phases
<1> HIDE DEF phase
<1>3. /\ call'.phase = phase /\ call'.kind = call.kind /\ call'.rows = call.rows
      /\ call'.row = call.row /\ call'.start = call.start
  BY <1>0, <1>2 DEF Go, CallTypeOK
<1>4. Busy' /\ Done' = Done
  BY <1>0, <1>2, <1>3 DEF Busy, Done
<1>5. Effective' = Effective
  BY <1>0 DEF Effective
<1>. QED BY <1>0, <1>1, <1>2, <1>3, <1>4, <1>5, PhaseFollows

LEMMA NextRowFollows ==
  ASSUME IInv, LogInv, IInv', NextRow
  PROVE  LogInv' /\ CommittedLog' = CommittedLog /\ UNCHANGED undoStack
<1>0. /\ Busy /\ call.phase = "curves" /\ CallTypeOK
      /\ UNCHANGED <<canon, flat, feat, undoStack, past>>
      /\ call.row \in Nat /\ Len(call.rows) \in Nat
  BY InvariantParts DEF NextRow, InPhase, Busy, CallTypeOK
<1> DEFINE phase == IF call.row = Len(call.rows) THEN "done" ELSE FirstPhase
<1>1. phase \in {"features", "done", "predict"} /\ phase \in Phases
  BY DEF FirstPhase, Phases
<1>2. phase = "done" => call.row + 1 > Len(call.rows)
  BY <1>0 DEF FirstPhase
<1>3. /\ call'.phase = phase /\ call'.kind = call.kind /\ call'.rows = call.rows
      /\ call'.row = call.row + 1 /\ call'.start = call.start
  BY <1>0 DEF NextRow, CallTypeOK
<1> HIDE DEF phase
<1>4. Busy' /\ Done' = Done
  <2>1. (call.row + 1) - 1 = call.row
    BY <1>0
  <2>. QED BY <1>0, <1>1, <1>3, <2>1 DEF Busy, Done
<1>5. Effective' = Effective
  BY <1>0 DEF Effective
<1>. QED BY <1>0, <1>1, <1>2, <1>3, <1>4, <1>5, PhaseFollows

LEMMA FeaturesFollows ==
  ASSUME IInv, LogInv, IInv', Features
  PROVE  LogInv' /\ CommittedLog' = CommittedLog /\ UNCHANGED undoStack
<1>0. /\ Busy /\ call.phase = "features" /\ CallTypeOK /\ Go("store")
      /\ feat' = FeatureVector(feat, Row, TRUE)
      /\ UNCHANGED <<canon, flat, undoStack, past>>
  BY InvariantParts DEF Features, InPhase, Busy
<1>1. /\ call'.phase = "store" /\ call'.kind = call.kind /\ call'.rows = call.rows
      /\ call'.row = call.row /\ call'.start = call.start
  BY <1>0 DEF Go, CallTypeOK
<1>2. /\ Effective' = Effective /\ Row' = Row /\ Done' = Done /\ Processed' = Processed
      /\ Committed' = Committed
  BY <1>0, <1>1 DEF Effective, Row, Done, Processed, Committed, Busy
<1>3. CallFollows'
  BY <1>0, <1>1, <1>2 DEF LogInv, CallFollows
<1>. QED BY <1>0, <1>2, <1>3, CommittedStays

LEMMA StoreFollows ==
  ASSUME IInv, LogInv, IInv', StoreReviewStates
  PROVE  LogInv' /\ CommittedLog' = CommittedLog /\ UNCHANGED undoStack
<1>0. /\ Busy /\ call.phase = "store" /\ CallTypeOK /\ Go("record")
      /\ canon' = NextStates(canon, Row)
      /\ UNCHANGED <<feat, undoStack, past>>
  BY InvariantParts DEF StoreReviewStates, InPhase, Busy
<1>1. /\ call'.phase = "record" /\ call'.kind = call.kind /\ call'.rows = call.rows
      /\ call'.row = call.row /\ call'.start = call.start
  BY <1>0 DEF Go, CallTypeOK
<1>2. Busy' /\ Row' = Row /\ Done' = Done /\ Processed' = Processed /\ Committed' = Committed
  BY <1>0, <1>1 DEF Row, Done, Processed, Committed, Busy
<1>3. Effective = canon /\ Effective' = canon' /\ Row \in Reviews
  <2>1. flat' = NoStates /\ canon' \in MaybeStates
    BY <1>1, <1>2 DEF IInv, NothingFlat, TypeOK
  <2>2. \A k \in Keys : flat'[k] = None
    BY <2>1 DEF NoStates
  <2>3. canon' = [k \in Keys |-> canon'[k]]
    BY <2>1 DEF MaybeStates
  <2>4. Effective' = canon'
    BY <2>2, <2>3 DEF Effective
  <2>. QED BY <1>0, <2>4, WorkingFacts
<1>4. StatesFollow(Effective', Append(Processed, Row))
  <2>1. StatesFollow(Effective, Processed)
    BY <1>0 DEF LogInv, CallFollows
  <2>2. Processed \in Seq(Reviews)
    BY <1>0, ProcessedFacts
  <2>. QED BY <1>0, <1>3, <2>1, <2>2, StatesFollowOneMore
<1>5. feat = FeatureVector(FeaturesAfter(Processed), Row, TRUE)
  BY <1>0 DEF LogInv, CallFollows
<1>6. CallFollows'
  BY <1>0, <1>1, <1>2, <1>4, <1>5 DEF LogInv, CallFollows
<1>. QED BY <1>0, <1>2, <1>6, CommittedStays

LEMMA RecordFollows ==
  ASSUME IInv, LogInv, IInv', Record
  PROVE  LogInv' /\ CommittedLog' = CommittedLog /\ UNCHANGED undoStack
<1>0. /\ Busy /\ call.phase = "record" /\ CallTypeOK /\ Go("curves")
      /\ feat' = RecordProcessedRow(RecordRecurrentStateUpdate(feat, Row), Row)
      /\ UNCHANGED <<canon, flat, undoStack, past>>
      /\ call.row \in 1 .. Len(call.rows)
  BY InvariantParts DEF Record, InPhase, Busy, CallTypeOK
<1>1. /\ call'.phase = "curves" /\ call'.kind = call.kind /\ call'.rows = call.rows
      /\ call'.row = call.row /\ call'.start = call.start
  BY <1>0 DEF Go, CallTypeOK
<1>2. Busy' /\ Effective' = Effective /\ Committed' = Committed
  BY <1>0, <1>1 DEF Effective, Committed, Busy
<1>3. Processed' = Append(Processed, Row)
  <2>1. Done = call.row - 1 /\ Done' = call.row
    BY <1>0, <1>1 DEF Done
  <2>2. LogOf(call.start) \in Seq(Reviews) /\ call.rows \in Seq(Reviews)
    BY <1>0, ProcessedFacts
  <2>3. LogOf(call.start) \o SubSeq(call.rows, 1, call.row)
          = Append(LogOf(call.start) \o SubSeq(call.rows, 1, call.row - 1),
                   call.rows[call.row])
    BY <1>0, <2>2, OneRowMore
  <2>. QED BY <1>1, <2>1, <2>3 DEF Processed, Row
<1>4. feat' = FeaturesAfter(Append(Processed, Row))
  <2>1. feat = FeatureVector(FeaturesAfter(Processed), Row, TRUE)
    BY <1>0 DEF LogInv, CallFollows
  <2>2. Processed \in Seq(Reviews) /\ Row \in Reviews
    BY <1>0, ProcessedFacts, WorkingFacts
  <2>3. feat' = ProcessedFeatures(FeaturesAfter(Processed), Row)
    BY <1>0, <2>1 DEF ProcessedFeatures
  <2>. QED BY <2>2, <2>3, FeaturesAfterOneMore
<1>5. StatesFollow(Effective, Append(Processed, Row))
  BY <1>0 DEF LogInv, CallFollows
<1>6. CallFollows'
  BY <1>0, <1>1, <1>2, <1>3, <1>4, <1>5 DEF LogInv, CallFollows
<1>. QED BY <1>0, <1>2, <1>6, CommittedStays

\* A failed call leaves the log alone.
LEMMA FailFollows ==
  ASSUME IInv, LogInv, IInv', Fail \/ MaterializeFails
  PROVE  LogInv' /\ CommittedLog' = CommittedLog /\ UNCHANGED undoStack
<1>1. /\ Snapshot' = call.start /\ Busy /\ ~Busy' /\ UNCHANGED <<undoStack, past>>
  BY FailIsExact, MaterializeFailureIsExact
     DEF Fail, MaterializeFails, Busy, InPhase, Idle
<1>2. Committed' = Committed /\ CallFollows'
  BY <1>1 DEF Committed, CallFollows
<1>. QED BY <1>1, <1>2, CommittedStays

\* A call that is done has processed all its rows and nothing else.
LEMMA CallIsDone ==
  ASSUME IInv, LogInv, Commit
  PROVE  /\ CommittedLog \in Seq(Reviews) /\ call.rows \in Seq(Reviews)
         /\ CommittedLog' = CommittedLog \o call.rows
         /\ Committed' = Snapshot /\ ~Busy' /\ Follows(Snapshot, CommittedLog')
         /\ call.start = Committed
<1>0. /\ Busy /\ call.phase = "done" /\ CallTypeOK /\ ~Busy'
      /\ UNCHANGED <<canon, flat, feat>>
  BY InvariantParts DEF Commit, InPhase, Busy, Idle
<1>1. /\ CommittedLog \in Seq(Reviews) /\ call.rows \in Seq(Reviews)
      /\ Processed \in Seq(Reviews)
  BY <1>0, CommittedLogType, ProcessedFacts
<1>2. Committed' = Snapshot /\ Committed = call.start
  BY <1>0 DEF Committed, Snapshot, Effective
<1>3. Processed = CommittedLog \o call.rows
  <2>1. call.row > Len(call.rows) /\ call.row \in 1 .. Len(call.rows) + 1
    BY <1>0 DEF LogInv, CallFollows, CallTypeOK
  <2>2. Done = Len(call.rows)
    BY <1>0, <1>1, <2>1 DEF Done
  <2>3. SubSeq(call.rows, 1, Len(call.rows)) = call.rows
    BY <1>1
  <2>. QED BY <1>2, <2>2, <2>3 DEF Processed, CommittedLog
<1>4. Follows(Snapshot, Processed)
  BY <1>0 DEF LogInv, CallFollows, Follows, Snapshot
<1>5. LogOf(Snapshot) = Processed
  BY <1>1, <1>4, LogIsRead DEF Follows
<1>. QED BY <1>0, <1>1, <1>2, <1>3, <1>4, <1>5 DEF CommittedLog

LEMMA OneAppended ==
  ASSUME NEW x \in Seq(Reviews), NEW r \in Reviews
  PROVE  x \o <<r>> = Append(x, r)
<1>1. <<>> \in Seq(Reviews) /\ Append(<<>>, r) = <<r>>
  OBVIOUS
<1>2. x \o <<>> = x
  BY ConcatEmptySeq
<1>3. x \o Append(<<>>, r) = Append(x \o <<>>, r)
  BY <1>1, ConcatAppend
<1>. QED BY <1>1, <1>2, <1>3

LEMMA CommitFollows ==
  ASSUME IInv, LogInv, IInv', Commit
  PROVE  /\ LogInv'
         /\ \/ /\ UndoLimit > 0
               /\ \E r \in Reviews : CommittedLog' = Append(CommittedLog, r)
               /\ Len(undoStack') = IF Len(undoStack) = UndoLimit THEN UndoLimit
                                    ELSE Len(undoStack) + 1
            \/ /\ CommittedLog' = CommittedLog \o call.rows
               /\ undoStack' = <<>>
<1>0. /\ Busy /\ call.phase = "done" /\ CallTypeOK /\ past \in Seq(Snapshots)
  BY InvariantParts DEF Commit, InPhase, Busy
<1>1. /\ CommittedLog \in Seq(Reviews) /\ call.rows \in Seq(Reviews)
      /\ CommittedLog' = CommittedLog \o call.rows
      /\ Committed' = Snapshot /\ ~Busy' /\ Follows(Snapshot, CommittedLog')
      /\ call.start = Committed
  BY CallIsDone
<1>2. StateFollowsLog' /\ CallFollows'
  BY <1>1 DEF StateFollowsLog, CallFollows
<1>3. Rising(undoStack, past, Committed) /\ Len(undoStack) <= UndoLimit
  BY RisingDefinition DEF LogInv
<1>4. CASE call.kind = "undoable"
  <2> DEFINE r == call.rows[1]
             frame == [row |-> r, journal |-> call.journal[1]]
             s == Append(undoStack, frame)
             p == Append(past, call.start)
  <2>1. call.rows = <<r>> /\ r \in Reviews
    <3>1. Len(call.rows) = 1
      BY <1>0, <1>4 DEF CallTypeOK
    <3>. QED BY <1>1, <3>1
  <2>2. CommittedLog' = Append(CommittedLog, r)
    BY <1>1, <2>1, OneAppended
  <2>3. undoStack' = Newest(s) /\ past' = Newest(p)
    BY <1>4 DEF Commit
  <2> DEFINE R == {undoStack[n] : n \in DOMAIN undoStack} \cup {frame}
  <2>4. undoStack \in Seq(R) /\ frame \in R
    <3>1. undoStack \in Seq({undoStack[n] : n \in DOMAIN undoStack})
      BY InvariantParts DEF FramesAreExact
    <3>. QED BY <3>1
  <2>5. call.start \in Snapshots /\ frame.row = r
    BY <1>0 DEF CallTypeOK
  <2>6. /\ Follows(call.start, LogOf(call.start))
        /\ LogOf(Committed') = Append(LogOf(call.start), frame.row)
    BY <1>1, <2>2, <2>5 DEF LogInv, StateFollowsLog, CommittedLog
  <2> HIDE DEF frame, R
  <2>7. Rising(s, p, Committed')
    BY <1>0, <1>1, <1>3, <2>4, <2>5, <2>6, RisingPush
  <2>8. /\ s \in Seq(R) /\ p \in Seq(Snapshots) /\ Len(s) = Len(undoStack) + 1
        /\ Len(p) = Len(s) /\ Len(undoStack) \in Nat
    <3>1. Len(undoStack) = Len(past)
      BY <1>3 DEF Rising
    <3>. QED BY <1>0, <2>4, <2>5, <3>1
  <2> HIDE DEF s, p
  <2>9. UndoLimit \in Nat /\ UndoLimit > 0
    BY <1>0, <1>4, TransactionAssumption DEF LogInv, CallFollows
  <2>10. /\ Rising(Newest(s), Newest(p), Committed')
         /\ Len(Newest(s)) = IF Len(undoStack) = UndoLimit THEN UndoLimit
                             ELSE Len(undoStack) + 1
    <3>1. CASE Len(s) > UndoLimit
      <4>1. Newest(s) = Tail(s) /\ Newest(p) = Tail(p) /\ p # <<>> /\ s # <<>>
        BY <2>8, <2>9, <3>1 DEF Newest
      <4>2. Len(Tail(s)) = Len(undoStack) /\ Len(undoStack) = UndoLimit
        BY <1>3, <2>8, <2>9, <3>1, <4>1
      <4>. QED BY <2>7, <2>8, <4>1, <4>2, RisingTail
    <3>2. CASE ~(Len(s) > UndoLimit)
      <4>1. Newest(s) = s /\ Newest(p) = p
        BY <2>8, <3>2 DEF Newest
      <4>2. Len(undoStack) # UndoLimit
        BY <2>8, <2>9, <3>2
      <4>. QED BY <2>7, <2>8, <4>1, <4>2
    <3>. QED BY <3>1, <3>2
  <2>11. FramesFollow'
    BY <2>3, <2>10, RisingAfter
  <2>12. (Len(undoStack) <= UndoLimit)'
    BY <1>3, <2>3, <2>8, <2>9, <2>10
  <2>. QED BY <1>2, <2>1, <2>2, <2>3, <2>9, <2>10, <2>11, <2>12 DEF LogInv
<1>5. CASE call.kind # "undoable"
  <2>1. undoStack = <<>> /\ undoStack' = <<>> /\ UNCHANGED past
    BY <1>0, <1>5, InvariantParts DEF CallIsExact, Commit
  <2>2. past = <<>>
    <3>1. Len(past) = 0
      BY <1>3, <2>1 DEF Rising
    <3>. QED BY <1>0, <3>1
  <2>3. FramesFollow' /\ (Len(undoStack) <= UndoLimit)'
    BY <2>1, <2>2, RisingNothing, RisingAfter, TransactionAssumption
  <2>. QED BY <1>1, <1>2, <2>1, <2>3 DEF LogInv
<1>. QED BY <1>4, <1>5

LEMMA UndoFollows ==
  ASSUME IInv, LogInv, IInv', UndoLastProcess
  PROVE  /\ LogInv'
         /\ Len(undoStack) > 0 /\ Len(undoStack') = Len(undoStack) - 1
         /\ CommittedLog' \in Seq(Reviews)
         /\ \E r : CommittedLog = Append(CommittedLog', r)
<1> DEFINE last == Len(past)
<1>0. /\ ~Busy /\ ~Busy' /\ past \in Seq(Snapshots) /\ undoStack # <<>>
      /\ undoStack' = SubSeq(undoStack, 1, Len(undoStack) - 1)
      /\ past' = SubSeq(past, 1, Len(past) - 1)
      /\ Snapshot' = past[last]
  BY InvariantParts, UndoIsExact DEF UndoLastProcess, Busy
<1> DEFINE R == {undoStack[n] : n \in DOMAIN undoStack}
<1>1. /\ Rising(undoStack, past, Committed) /\ Len(undoStack) <= UndoLimit
      /\ undoStack \in Seq(R)
  BY InvariantParts, RisingDefinition DEF LogInv, FramesAreExact
<1> HIDE DEF R
<1>2. /\ last \in Nat /\ Len(undoStack) = last /\ last # 0 /\ last > 0
      /\ past[last] \in Snapshots
  <2>1. last \in Nat /\ Len(undoStack) = last
    BY <1>0, <1>1 DEF Rising
  <2>2. last # 0
    BY <1>0, <1>1, <2>1
  <2>3. last > 0 /\ last \in 1 .. last
    BY <2>1, <2>2
  <2>. QED BY <1>0, <2>1, <2>2, <2>3
<1>3. Committed' = past[last] /\ Committed = Snapshot
  BY <1>0 DEF Committed
<1>4. /\ Follows(past[last], LogOf(past[last]))
      /\ LogOf(Committed) = Append(LogOf(past[last]), undoStack[last].row)
  <2>1. /\ Follows(past[last], LogOf(past[last]))
        /\ LogOf(IF last = Len(past) THEN Committed ELSE past[last + 1])
             = Append(LogOf(past[last]), undoStack[last].row)
    <3>1. last \in 1 .. Len(past)
      BY <1>2
    <3>2. \A n \in 1 .. Len(past) :
            /\ Follows(past[n], LogOf(past[n]))
            /\ LogOf(IF n = Len(past) THEN Committed ELSE past[n + 1])
                 = Append(LogOf(past[n]), undoStack[n].row)
      BY <1>1 DEF Rising
    <3> HIDE DEF last
    <3>. QED BY <3>1, <3>2
  <2>. QED BY <2>1
<1>5. /\ CommittedLog' = LogOf(past[last]) /\ CommittedLog' \in Seq(Reviews)
      /\ CommittedLog = Append(CommittedLog', undoStack[last].row)
  BY <1>2, <1>3, <1>4, LogType DEF CommittedLog
<1>6. StateFollowsLog' /\ CallFollows'
  BY <1>0, <1>3, <1>4, <1>5 DEF StateFollowsLog, CallFollows
<1>7. FramesFollow'
  <2>1. Rising(undoStack', past', Committed')
    BY <1>0, <1>1, <1>2, <1>3, RisingPop
  <2>. QED BY <2>1, RisingAfter
<1>8. Len(undoStack') = last - 1 /\ Len(undoStack') <= UndoLimit
  <2>1. Len(undoStack') = last - 1
    BY <1>0, <1>1, <1>2
  <2>. QED BY <2>1, <1>1, <1>2, TransactionAssumption
<1>. QED BY <1>2, <1>5, <1>6, <1>7, <1>8 DEF LogInv

LEMMA GpuCacheFollows ==
  ASSUME IInv, LogInv, IInv', PredictGpu \/ ReleaseGpu
  PROVE  LogInv' /\ CommittedLog' = CommittedLog /\ UNCHANGED undoStack
<1>1. /\ UNCHANGED <<canon, flat, feat, undoStack, call, past>> /\ ~Busy
  BY DEF PredictGpu, ReleaseGpu
<1>2. Committed' = Committed /\ CallFollows'
  BY <1>1 DEF Committed, Snapshot, Effective, Busy, CallFollows
<1>. QED BY <1>1, <1>2, CommittedStays

LEMMA ScanFollows ==
  ASSUME IInv, LogInv, IInv', ProcessByScan
  PROVE  /\ LogInv' /\ undoStack' = <<>>
         /\ \E r \in Reviews : CommittedLog' = Append(CommittedLog, r)
<1>1. /\ ~Busy /\ ~Busy' /\ undoStack' = <<>> /\ past' = <<>>
  BY DEF ProcessByScan, Busy
<1>2. PICK r \in Reviews, toFlat \in BOOLEAN :
        /\ flat' = [k \in Keys |-> IF k \notin KeysOf(r) THEN flat[k]
                     ELSE IF toFlat THEN NextStates(Effective, r)[k] ELSE None]
        /\ canon' = [k \in Keys |-> IF k \notin KeysOf(r) THEN canon[k]
                      ELSE IF ~toFlat THEN NextStates(Effective, r)[k] ELSE None]
        /\ feat' = ProcessedFeatures(feat, r)
  BY DEF ProcessByScan
<1>3. \A k \in Keys : Effective'[k] = NextStates(Effective, r)[k]
  <2> SUFFICES ASSUME NEW k \in Keys PROVE Effective'[k] = NextStates(Effective, r)[k]
    OBVIOUS
  <2>1. Effective'[k] = IF canon'[k] # None THEN canon'[k] ELSE flat'[k]
    BY DEF Effective
  <2>2. CASE k \notin KeysOf(r)
    <3>1. canon'[k] = canon[k] /\ flat'[k] = flat[k]
      BY <1>2, <2>2
    <3>2. NextStates(Effective, r)[k] = Effective[k]
      BY <2>2 DEF NextStates
    <3>. QED BY <2>1, <3>1, <3>2 DEF Effective
  <2>3. CASE k \in KeysOf(r) /\ toFlat
    BY <1>2, <2>1, <2>3
  <2>4. CASE k \in KeysOf(r) /\ ~toFlat
    <3>1. canon'[k] = NextStates(Effective, r)[k] /\ flat'[k] = None
      BY <1>2, <2>4
    <3>. QED BY <2>1, <3>1
  <2>. QED BY <2>2, <2>3, <2>4
<1>4. /\ CommittedLog \in Seq(Reviews)
      /\ StatesFollow(Effective, CommittedLog) /\ feat = FeaturesAfter(CommittedLog)
  <2>1. Committed = Snapshot
    BY <1>1 DEF Committed
  <2>. QED BY <2>1, CommittedLogType DEF LogInv, StateFollowsLog, Follows, Snapshot
<1> DEFINE log == Append(CommittedLog, r)
<1>5. log \in Seq(Reviews)
  BY <1>4
<1>6. StatesFollow(Effective', log)
  <2>1. StatesFollow(NextStates(Effective, r), log)
    BY <1>4, StatesFollowOneMore
  <2>. QED BY <1>3, <2>1 DEF StatesFollow
<1>7. feat' = FeaturesAfter(log)
  BY <1>2, <1>4, FeaturesAfterOneMore
<1>8. Committed' = Snapshot' /\ Snapshot'.states = Effective' /\ Snapshot'.features = feat'
  BY <1>1 DEF Committed, Snapshot
<1> HIDE DEF log
<1>9. CommittedLog' = log /\ StateFollowsLog' /\ CallFollows'
  <2>1. LogOf(Snapshot') = log
    BY <1>5, <1>6, <1>8, LogIsRead
  <2>2. CommittedLog' = log
    BY <1>8, <2>1 DEF CommittedLog
  <2>. QED BY <1>1, <1>6, <1>7, <1>8, <2>2 DEF StateFollowsLog, Follows, CallFollows
<1>10. FramesFollow' /\ (Len(undoStack) <= UndoLimit)'
  BY <1>1, RisingNothing, RisingAfter, TransactionAssumption
<1>. QED BY <1>1, <1>9, <1>10 DEF LogInv, log

LEMMA StutterFollows ==
  ASSUME LogInv, UNCHANGED vars
  PROVE  LogInv' /\ CommittedLog' = CommittedLog /\ UNCHANGED undoStack
BY DEF vars, LogInv, StateFollowsLog, FramesFollow, CallFollows, CommittedLog, Committed,
       Snapshot, Effective, Busy, After, Done, Processed, Row

LEMMA InitFollows == Init => LogInv /\ Abstract!Init
<1>. SUFFICES ASSUME Init PROVE LogInv /\ Abstract!Init
  OBVIOUS
<1>1. ~Busy /\ undoStack = <<>> /\ past = <<>> /\ feat = EmptyFeatures
  BY DEF Init, Idle, Busy
<1>2. \A k \in Keys : Effective[k] = None
  BY DEF Init, Effective, NoStates
<1>3. Committed.states = Effective /\ Committed.features = feat
  BY <1>1 DEF Committed, Snapshot
<1>4. CommittedLog = <<>>
  BY <1>2, <1>3, GlobalKeyOfAll DEF CommittedLog, LogOf
<1>5. StateFollowsLog
  BY <1>1, <1>2, <1>3, <1>4, FeaturesAfterNothing, StateAfterNothing
     DEF StateFollowsLog, Follows, StatesFollow
<1>6. FramesFollow /\ CallFollows /\ Len(undoStack) <= UndoLimit
  <2>1. DOMAIN past = {}
    BY <1>1
  <2>2. FramesFollow
    BY <2>1 DEF FramesFollow
  <2>3. CallFollows
    BY <1>1 DEF CallFollows
  <2>4. Len(undoStack) = 0
    BY <1>1
  <2>. QED BY <2>2, <2>3, <2>4, TransactionAssumption
<1>. QED BY <1>1, <1>4, <1>5, <1>6 DEF LogInv, Abstract!Init

-------------------------------------------------------------------------------
(* The runtime implements the undoable log.                                 *)

\* A step that leaves log and stack alone, or forgets the stack.
LEMMA AbstractIdle ==
  ASSUME IInv, CommittedLog' = CommittedLog, UNCHANGED undoStack \/ undoStack' = <<>>
  PROVE  [Abstract!Next]_(Abstract!lvars)
<1>1. CASE UNCHANGED undoStack
  BY <1>1 DEF Abstract!lvars
<1>2. CASE undoStack' = <<>>
  <2>1. CommittedLog \in Seq(Reviews)
    BY CommittedLogType
  <2>2. /\ Len(CommittedLog) >= Len(CommittedLog)
        /\ SubSeq(CommittedLog, 1, Len(CommittedLog)) = CommittedLog
    BY <2>1
  <2>3. Abstract!AnswerForGood
    BY <1>2, <2>1, <2>2 DEF Abstract!AnswerForGood
  <2>. QED BY <2>3 DEF Abstract!Next
<1>. QED BY <1>1, <1>2

LEMMA AbstractGood ==
  ASSUME IInv, NEW rows \in Seq(Reviews), CommittedLog' = CommittedLog \o rows,
         undoStack' = <<>>
  PROVE  [Abstract!Next]_(Abstract!lvars)
<1>1. CommittedLog \in Seq(Reviews)
  BY CommittedLogType
<1>2. /\ CommittedLog \o rows \in Seq(Reviews)
      /\ Len(CommittedLog \o rows) >= Len(CommittedLog)
      /\ SubSeq(CommittedLog \o rows, 1, Len(CommittedLog)) = CommittedLog
  BY <1>1
<1>3. Abstract!AnswerForGood
  BY <1>2 DEF Abstract!AnswerForGood
<1>. QED BY <1>3 DEF Abstract!Next

LEMMA NextFollows ==
  ASSUME IInv, LogInv, IInv', [Next]_vars
  PROVE  LogInv' /\ [Abstract!Next]_(Abstract!lvars)
<1>1. CASE BeginUndoable
  <2>1. PICK r \in Reviews : Begin("undoable", <<r>>)
    BY <1>1 DEF BeginUndoable
  <2>2. <<r>> \in Seq(Reviews)
    OBVIOUS
  <2>. QED BY <2>1, <2>2, BeginFollows, AbstractIdle DEF CallKinds
<1>2. CASE BeginBatch
  <2>1. PICK kind \in CallKinds \ {"undoable"}, rows \in Batches : Begin(kind, rows)
    BY <1>2 DEF BeginBatch
  <2>2. rows \in Seq(Reviews)
    BY TransactionAssumption
  <2>. QED BY <2>1, <2>2, BeginFollows, AbstractIdle
<1>3. CASE CallStep /\ ~Commit
  <2>1. LogInv' /\ CommittedLog' = CommittedLog /\ UNCHANGED undoStack
    BY <1>3, MaterializeFollows, CaptureFollows, PredictFollows, FeaturesFollows,
       StoreFollows, RecordFollows, NextRowFollows, FailFollows DEF CallStep
  <2>. QED BY <2>1, AbstractIdle
<1>4. CASE Commit
  <2>1. CASE /\ UndoLimit > 0
             /\ \E r \in Reviews : CommittedLog' = Append(CommittedLog, r)
             /\ Len(undoStack') = IF Len(undoStack) = UndoLimit THEN UndoLimit
                                  ELSE Len(undoStack) + 1
    <3>1. Abstract!AnswerUndoably
      BY <2>1 DEF Abstract!AnswerUndoably
    <3>. QED BY <1>4, <3>1, CommitFollows DEF Abstract!Next
  <2>2. CASE CommittedLog' = CommittedLog \o call.rows /\ undoStack' = <<>>
    <3>1. call.rows \in Seq(Reviews)
      BY <1>4, CallIsDone
    <3>. QED BY <1>4, <2>2, <3>1, CommitFollows, AbstractGood
  <2>. QED BY <1>4, <2>1, <2>2, CommitFollows
<1>5. CASE UndoLastProcess
  <2>1. /\ LogInv' /\ Len(undoStack) > 0 /\ Len(undoStack') = Len(undoStack) - 1
        /\ CommittedLog' \in Seq(Reviews)
    BY <1>5, UndoFollows
  <2>2. PICK r : CommittedLog = Append(CommittedLog', r)
    BY <1>5, UndoFollows
  <2>3. /\ CommittedLog # <<>>
        /\ CommittedLog' = SubSeq(CommittedLog, 1, Len(CommittedLog) - 1)
    BY <2>1, <2>2
  <2>4. Abstract!Undo
    BY <2>1, <2>3 DEF Abstract!Undo
  <2>. QED BY <2>1, <2>4 DEF Abstract!Next
<1>6. CASE PredictGpu \/ ReleaseGpu
  BY <1>6, GpuCacheFollows, AbstractIdle
<1>7. CASE ProcessByScan
  <2>1. PICK r \in Reviews : CommittedLog' = Append(CommittedLog, r)
    BY <1>7, ScanFollows
  <2>2. CommittedLog' = CommittedLog \o <<r>> /\ <<r>> \in Seq(Reviews)
    BY <2>1, CommittedLogType, OneAppended
  <2>. QED BY <1>7, <2>2, ScanFollows, AbstractGood
<1>8. CASE UNCHANGED vars
  BY <1>8, StutterFollows, AbstractIdle
<1>. QED BY <1>1, <1>2, <1>3, <1>4, <1>5, <1>6, <1>7, <1>8 DEF Next

LEMMA LogIsFollowed == Spec => [](IInv /\ LogInv)
<1>1. IInv /\ LogInv /\ [Next]_vars /\ IInv' => (IInv /\ LogInv)'
  BY NextFollows
<1>. QED BY <1>1, InitIsExact, InitFollows, TransactionInvariant, PTL DEF Spec

\* Whatever was predicted, rolled back, undone or moved: features and states
\* are those of processing the committed log from scratch.
THEOREM LogMakesTheState == Spec => []StateFollowsLog
<1>1. LogInv => StateFollowsLog
  BY DEF LogInv
<1>. QED BY <1>1, LogIsFollowed, PTL

\* Every step of a transaction is a step of the undoable log or a stutter.
THEOREM TransactionsImplementLog == Spec => ImplementsUndoableLog
<1>1. IInv /\ LogInv /\ (IInv /\ LogInv)' /\ [Next]_vars => [Abstract!Next]_(Abstract!lvars)
  BY NextFollows
<1>. QED BY <1>1, InitFollows, LogIsFollowed, PTL DEF Spec, ImplementsUndoableLog, Abstract!Spec
===============================================================================
