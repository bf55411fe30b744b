---------------------------- MODULE LiveIndexProofs ----------------------------
(***************************************************************************)
(* The live index keeps its types, its slot map, its eligibility flags and *)
(* its rank order, undo restores the universe and the rank an answer       *)
(* found, every step is a step of the reference session and selections are *)
(* the reference's, for every set of cards, order, stack depth, refresh    *)
(* limit and sequence of calls.                                            *)
(***************************************************************************)
EXTENDS LiveIndexInvariant, LiveIndexRefinement, SubsequenceProofs, FiniteSetTheorems

-------------------------------------------------------------------------------
(* Sequences and records.                                                  *)

\* The length, domain and elements of a sequence.
LEMMA SeqFacts ==
  ASSUME NEW S, NEW q \in Seq(S)
  PROVE  /\ Len(q) \in Nat /\ DOMAIN q = 1..Len(q)
         /\ \A k \in DOMAIN q : q[k] \in S
OBVIOUS

\* A function on 1..n is a sequence of length n.
LEMMA FunctionIsSeq ==
  ASSUME NEW S, NEW n \in Nat, NEW q \in [1..n -> S]
  PROVE  q \in Seq(S) /\ Len(q) = n
OBVIOUS

\* The domain of a sequence whose element set is left open.
LEMMA IsSequenceFacts ==
  ASSUME NEW q, IsSequence(q)
  PROVE  Len(q) \in Nat /\ DOMAIN q = 1..Len(q)
BY SeqFacts DEF IsSequence

\* Every typed sequence is one.
LEMMA IsSequenceIntro ==
  ASSUME NEW S, NEW q \in Seq(S)
  PROVE  IsSequence(q)
<1>1. \A k \in 1..Len(q) : q[k] \in Range(q)
  BY SeqFacts DEF Range
<1>2. q \in [1..Len(q) -> Range(q)]
  BY <1>1, SeqFacts
<1> QED BY <1>2, FunctionIsSeq, SeqFacts DEF IsSequence

\* Pushing an element.
LEMMA AppendFacts ==
  ASSUME NEW q, IsSequence(q), NEW e
  PROVE  /\ IsSequence(Append(q, e)) /\ Len(Append(q, e)) = Len(q) + 1
         /\ Append(q, e)[Len(q) + 1] = e
         /\ \A k \in 1..Len(q) : Append(q, e)[k] = q[k]
<1> DEFINE S == Range(q) \cup {e}
<1>1. q \in Seq(S) /\ e \in S
  BY DEF IsSequence
<1>2. /\ Append(q, e) \in Seq(S) /\ Len(Append(q, e)) = Len(q) + 1
      /\ Append(q, e)[Len(q) + 1] = e
      /\ \A k \in 1..Len(q) : Append(q, e)[k] = q[k]
  BY <1>1
<1> QED BY <1>2, IsSequenceIntro

\* Dropping the oldest element.
LEMMA TailFacts ==
  ASSUME NEW q, IsSequence(q), Len(q) > 0
  PROVE  /\ IsSequence(Tail(q)) /\ Len(Tail(q)) = Len(q) - 1
         /\ \A k \in 1..(Len(q) - 1) : Tail(q)[k] = q[k + 1]
<1>1. q \in Seq(Range(q)) /\ q # <<>>
  BY DEF IsSequence
<1>2. /\ Tail(q) \in Seq(Range(q)) /\ Len(Tail(q)) = Len(q) - 1
      /\ \A k \in 1..(Len(q) - 1) : Tail(q)[k] = q[k + 1]
  BY <1>1
<1> QED BY <1>2, IsSequenceIntro

\* Popping the newest element.
LEMMA FrontFacts ==
  ASSUME NEW q, IsSequence(q), q # <<>>
  PROVE  /\ Len(q) > 0 /\ Last(q) = q[Len(q)]
         /\ IsSequence(Front(q)) /\ Len(Front(q)) = Len(q) - 1
         /\ \A k \in 1..(Len(q) - 1) : Front(q)[k] = q[k]
<1>1. q \in Seq(Range(q)) /\ Len(q) > 0
  BY DEF IsSequence
<1>2. /\ Front(q) \in Seq(Range(q)) /\ Len(Front(q)) = Len(q) - 1
      /\ \A k \in 1..(Len(q) - 1) : Front(q)[k] = q[k]
  <2>1. Front(q) = SubSeq(q, 1, Len(q) - 1)
    BY DEF Front
  <2>2. Len(q) \in Nat /\ DOMAIN q = 1..Len(q)
    BY <1>1, SeqFacts
  <2> QED BY <1>1, <2>1, <2>2, SubSeqProperties
<1> QED BY <1>1, <1>2, IsSequenceIntro DEF Last

\* Replacing one element.
LEMMA ExceptFacts ==
  ASSUME NEW q, IsSequence(q), NEW n \in DOMAIN q, NEW e
  PROVE  /\ IsSequence([q EXCEPT ![n] = e]) /\ Len([q EXCEPT ![n] = e]) = Len(q)
         /\ \A k \in 1..Len(q) : [q EXCEPT ![n] = e][k] = IF k = n THEN e ELSE q[k]
<1> DEFINE S == Range(q) \cup {e}
<1>1. q \in Seq(S) /\ e \in S
  BY DEF IsSequence
<1>2. [q EXCEPT ![n] = e] \in Seq(S) /\ Len([q EXCEPT ![n] = e]) = Len(q)
  BY <1>1
<1>3. \A k \in 1..Len(q) : [q EXCEPT ![n] = e][k] = IF k = n THEN e ELSE q[k]
  BY <1>1
<1> QED BY <1>2, <1>3, IsSequenceIntro

-------------------------------------------------------------------------------
(* Candidates.                                                             *)

\* from_seed builds a pending candidate of the card of the seed.
LEMMA FromSeedFacts ==
  ASSUME NEW seed \in Seed, NEW d \in Nat
  PROVE  /\ FromSeed(seed, d) \in Candidate
         /\ FromSeed(seed, d).card = seed.card
         /\ FromSeed(seed, d).status = "pending_refresh"
<1> DEFINE e == FromSeed(seed, d)
           a == IF seed.elapsed = NewCard THEN 0 ELSE d - seed.elapsed
           v == seed.elapsed # NewCard
<1>1. /\ seed.card \in Cards /\ seed.normal \in Int /\ seed.intraday \in Int
      /\ seed.random \in Int /\ seed.elapsed \in Int
  BY DEF Seed
<1>2. a \in Int /\ v \in BOOLEAN /\ NaN \in Values /\ "pending_refresh" \in Statuses
  BY <1>1 DEF NaN, Values, Statuses
<1>3. e = [card |-> seed.card, normal |-> seed.normal, intraday |-> seed.intraday,
           random |-> seed.random, prior |-> v, anchor |-> a, elapsed |-> seed.elapsed,
           pred |-> NaN, status |-> "pending_refresh"]
  BY DEF FromSeed
<1> HIDE DEF e, a, v
<1>4. e \in Candidate /\ e.card = seed.card /\ e.status = "pending_refresh"
  BY <1>1, <1>2, <1>3 DEF Candidate
<1> QED BY <1>4 DEF e

\* A status change keeps a candidate a candidate of its card.
LEMMA StatusFacts ==
  ASSUME NEW c \in Candidate, NEW t \in Statuses
  PROVE  LET e == [c EXCEPT !.status = t]
         IN  e \in Candidate /\ e.card = c.card /\ e.status = t
BY DEF Candidate

\* A refresh keeps the card, revives no tombstone, and changes nothing but
\* what a refresh delta puts back.
LEMMA PredictedFacts ==
  ASSUME NEW c \in Candidate, NEW d \in Nat, NEW p \in Values
  PROVE  LET e == Predicted(c, d, p)
         IN  /\ e \in Candidate /\ e.card = c.card
             /\ c.status # "removed" => e.status # "removed"
             /\ \A q : WithQuery(e, q) = WithQuery(c, q)
<1> DEFINE e == Predicted(c, d, p)
<1>1. Refreshed(c.status) \in Statuses
      /\ (c.status # "removed" => Refreshed(c.status) # "removed")
  BY DEF Refreshed, Statuses, Candidate
<1>2. QueriedElapsed(c, d) \in Int
  BY DEF QueriedElapsed, NewCard, Candidate
<1>3. e = [c EXCEPT !.elapsed = QueriedElapsed(c, d), !.pred = p, !.status = Refreshed(c.status)]
  BY DEF Predicted
<1>4. e \in Candidate /\ e.card = c.card /\ e.status = Refreshed(c.status)
  BY <1>1, <1>2, <1>3 DEF Candidate
<1>5. \A q : WithQuery(e, q) = WithQuery(c, q)
  BY <1>3 DEF Candidate, WithQuery
<1> QED BY <1>1, <1>4, <1>5

\* An answer keeps the card and leaves a tombstone unless it requeues.
LEMMA AnsweredFacts ==
  ASSUME NEW c \in Candidate, NEW d \in Nat, NEW requeue \in BOOLEAN
  PROVE  LET e == Answered(c, d, requeue)
         IN  /\ e \in Candidate /\ e.card = c.card
             /\ e.status = "removed" <=> ~requeue
             /\ ~IsUsable(e)
<1> DEFINE e == Answered(c, d, requeue)
           t == IF ~requeue THEN "removed"
                ELSE IF IsExcluded(c) THEN "excluded_pending_refresh" ELSE "pending_refresh"
<1>1. e = [c EXCEPT !.prior = TRUE, !.anchor = d, !.pred = NaN, !.status = t]
  BY DEF Answered
<1>2. t \in Statuses \ {"active", "excluded"} /\ (t = "removed" <=> ~requeue)
  BY DEF Statuses
<1> HIDE DEF t
<1>3. t \in Statuses /\ NaN \in Values
  BY <1>2 DEF NaN, Values
<1>4. e = [card |-> c.card, normal |-> c.normal, intraday |-> c.intraday,
           random |-> c.random, prior |-> TRUE, anchor |-> d, elapsed |-> c.elapsed,
           pred |-> NaN, status |-> t]
  BY <1>1 DEF Candidate
<1>5. /\ c.card \in Cards /\ c.normal \in Int /\ c.intraday \in Int
      /\ c.random \in Int /\ c.elapsed \in Int
  BY DEF Candidate
<1> HIDE DEF e
<1>6. e \in Candidate /\ e.card = c.card /\ e.status = t
  BY <1>3, <1>4, <1>5 DEF Candidate
<1> QED BY <1>2, <1>6 DEF IsUsable, e

\* Excluding or including a card creates no tombstone and keeps its
\* prediction usable or not.
LEMMA ExcludedFacts ==
  ASSUME NEW t \in Statuses
  PROVE  /\ Excluded(t) \in Statuses /\ Included(t) \in Statuses
         /\ t # "removed" => Excluded(t) # "removed" /\ Included(t) # "removed"
         /\ t \in {"active", "excluded"} <=> Excluded(t) \in {"active", "excluded"}
         /\ t \in {"active", "excluded"} <=> Included(t) \in {"active", "excluded"}
BY DEF Excluded, Included, Statuses

\* Eligibility reads the elapsed days, the prediction, the targets and whether
\* the status is a usable one.
LEMMA EligibleOfStatus ==
  ASSUME NEW c \in Candidate, NEW t \in Statuses, NEW r,
         t \in {"active", "excluded"} <=> c.status \in {"active", "excluded"}
  PROVE  EligibleAt([c EXCEPT !.status = t], r) = EligibleAt(c, r)
BY DEF EligibleAt, IsUsable, ApplicableTarget, Candidate

\* A candidate without a usable prediction is not eligible.
LEMMA PendingNotEligible ==
  ASSUME NEW c, NEW r, c.status \notin {"active", "excluded"}
  PROVE  EligibleAt(c, r) = FALSE
BY DEF EligibleAt, IsUsable

\* Eligibility is a truth value.
LEMMA EligibleIsBoolean ==
  ASSUME NEW c, NEW r
  PROVE  EligibleAt(c, r) \in BOOLEAN
BY DEF EligibleAt, IsUsable

\* Putting a refresh delta back keeps the card and takes the saved status.
LEMMA WithQueryFacts ==
  ASSUME NEW c \in Candidate, NEW q, IsQuery(q)
  PROVE  /\ WithQuery(c, q) \in Candidate
         /\ WithQuery(c, q).card = c.card
         /\ WithQuery(c, q).status = q.status
BY DEF WithQuery, IsQuery, Candidate

\* A refresh delta put back into the slot it was saved from changes nothing.
LEMMA SavedQueryFacts ==
  ASSUME NEW i, NEW s, i.slots[s] \in Candidate, i.eligible[s] \in BOOLEAN
  PROVE  /\ IsQuery(SavedQuery(i, s))
         /\ WithQuery(i.slots[s], SavedQuery(i, s)) = i.slots[s]
         /\ SavedQuery(i, s).status = i.slots[s].status
         /\ SavedQuery(i, s).eligible = i.eligible[s]
BY DEF WithQuery, IsQuery, SavedQuery, Candidate

-------------------------------------------------------------------------------
(* Indexes.                                                                *)

\* The type of an index, its flags left open.
IsUnflagged(i) ==
  /\ i = [slots |-> i.slots, slotOf |-> i.slotOf, eligible |-> i.eligible,
          ordered |-> i.ordered, retention |-> i.retention, day |-> i.day]
  /\ i.slots \in Seq(Candidate)
  /\ i.slotOf \in [Cards -> {Absent} \cup DOMAIN i.slots]
  /\ i.retention \in Int
  /\ i.day \in Nat

SameButOrder(i, j) ==
  /\ i.slots = j.slots /\ i.slotOf = j.slotOf /\ i.eligible = j.eligible
  /\ i.retention = j.retention /\ i.day = j.day

\* The slots of an index are numbered from 1 and hold candidates.
LEMMA IndexFacts ==
  ASSUME NEW i, IsIndex(i)
  PROVE  /\ Len(i.slots) \in Nat /\ Slots(i) = 1..Len(i.slots)
         /\ \A s \in Slots(i) : i.slots[s] \in Candidate /\ i.eligible[s] \in BOOLEAN
         /\ \A c \in Cards : i.slotOf[c] \in {Absent} \cup Slots(i)
BY DEF IsIndex, Slots

\* The rank order is no part of what the deltas restore.
LEMMA OrderedFacts ==
  ASSUME NEW i, IsIndex(i), NEW o
  PROVE  IsIndex([i EXCEPT !.ordered = o]) /\ SameButOrder([i EXCEPT !.ordered = o], i)
<1> DEFINE j == [i EXCEPT !.ordered = o]
<1>1. j = [slots |-> i.slots, slotOf |-> i.slotOf, eligible |-> i.eligible,
           ordered |-> o, retention |-> i.retention, day |-> i.day]
  BY DEF IsIndex
<1>2. SameButOrder(j, i)
  BY <1>1 DEF SameButOrder
<1>3. IsIndex(j)
  BY <1>1 DEF IsIndex
<1> QED BY <1>2, <1>3

\* rebuild_order changes the rank order only.
LEMMA RebuiltFacts ==
  ASSUME NEW i, IsIndex(i)
  PROVE  IsIndex(Rebuilt(i)) /\ SameButOrder(Rebuilt(i), i)
<1> DEFINE o == Ranked(i, LiveSlots(i), <<>>)
<1>1. Rebuilt(i) = [i EXCEPT !.ordered = o]
  BY DEF Rebuilt
<1> HIDE DEF o
<1> QED BY <1>1, OrderedFacts

\* So does update_order_after_refresh, whether it merges or rebuilds.
LEMMA ReorderedFacts ==
  ASSUME NEW i, IsIndex(i), NEW updated, NEW force
  PROVE  LET j == Reordered(i, updated, force)
         IN  IsIndex(j) /\ SameButOrder(j, i)
<1> DEFINE o == Ranked(i, updated \cap LiveSlots(i), Without(i.ordered, updated))
<1>1. Merged(i, updated) = [i EXCEPT !.ordered = o]
  BY DEF Merged
<1> HIDE DEF o
<1>2. IsIndex(Merged(i, updated)) /\ SameButOrder(Merged(i, updated), i)
  BY <1>1, OrderedFacts
<1> QED BY <1>2, RebuiltFacts DEF Reordered

\* recompute_all leaves every flag current.
LEMMA RecomputedFacts ==
  ASSUME NEW i, IsUnflagged(i)
  PROVE  LET j == Recomputed(i)
         IN  /\ IsIndex(j) /\ FlagsAreCurrent(j)
             /\ j.slots = i.slots /\ j.slotOf = i.slotOf
             /\ j.retention = i.retention /\ j.day = i.day
<1> DEFINE j == Recomputed(i)
           e == [s \in Slots(i) |-> EligibleAt(i.slots[s], i.retention)]
<1>1. e \in [DOMAIN i.slots -> BOOLEAN]
  BY EligibleIsBoolean DEF Slots
<1>2. j = [i EXCEPT !.eligible = e]
  BY DEF Recomputed
<1>3. j = [slots |-> i.slots, slotOf |-> i.slotOf, eligible |-> e,
           ordered |-> i.ordered, retention |-> i.retention, day |-> i.day]
  BY <1>2 DEF IsUnflagged
<1>4. IsIndex(j)
  BY <1>1, <1>3 DEF IsIndex, IsUnflagged
<1>5. FlagsAreCurrent(j)
  BY <1>3 DEF FlagsAreCurrent, Slots
<1> QED BY <1>3, <1>4, <1>5

\* An index is one whatever its flags.
LEMMA IndexIsUnflagged ==
  ASSUME NEW i, IsIndex(i)
  PROVE  IsUnflagged(i)
BY DEF IsIndex, IsUnflagged

\* Coherence does not depend on the rank order.
LEMMA CoherentButOrder ==
  ASSUME NEW i, NEW j, SameButOrder(j, i), IndexIsCoherent(i)
  PROVE  IndexIsCoherent(j)
BY DEF SameButOrder, IndexIsCoherent, MapMatches, LiveSlots, IsLive, Slots, FlagsAreCurrent

-------------------------------------------------------------------------------
(* The slot map, slot by slot.                                             *)

\* An exact map finds a live card on its slot and every live slot by its card.
LEMMA MapFacts ==
  ASSUME NEW i, IsIndex(i), MapMatches(i)
  PROVE  /\ \A c \in Cards : i.slotOf[c] # Absent =>
              IsLive(i, i.slotOf[c]) /\ i.slots[i.slotOf[c]].card = c
         /\ \A s \in Slots(i) : IsLive(i, s) => i.slotOf[i.slots[s].card] = s /\ s # Absent
<1>1. \A c \in Cards : i.slotOf[c] # Absent =>
              IsLive(i, i.slotOf[c]) /\ i.slots[i.slotOf[c]].card = c
  BY DEF MapMatches, LiveSlots
<1>2. \A s \in Slots(i) : i.slots[s].card \in Cards
  BY IndexFacts DEF Candidate
<1>3. ASSUME NEW s \in Slots(i), IsLive(i, s)
      PROVE  i.slotOf[i.slots[s].card] = s
  BY <1>2, <1>3 DEF MapMatches, LiveSlots
<1>4. \A s \in Slots(i) : s # Absent
  BY IndexFacts DEF Absent
<1> QED BY <1>1, <1>3, <1>4

\* And a map that does both is exact.
LEMMA MapIntro ==
  ASSUME NEW i, IsIndex(i),
         \A c \in Cards : i.slotOf[c] # Absent =>
              IsLive(i, i.slotOf[c]) /\ i.slots[i.slotOf[c]].card = c,
         \A s \in Slots(i) : IsLive(i, s) => i.slotOf[i.slots[s].card] = s
  PROVE  MapMatches(i)
<1> SUFFICES ASSUME NEW c \in Cards
             PROVE  {s \in LiveSlots(i) : i.slots[s].card = c}
                      = IF i.slotOf[c] = Absent THEN {} ELSE {i.slotOf[c]}
  BY DEF MapMatches
<1>1. \A s \in Slots(i) : s # Absent
  BY IndexFacts DEF Absent
<1>2. \A s \in LiveSlots(i) : i.slots[s].card = c => i.slotOf[c] = s /\ s # Absent
  BY <1>1 DEF LiveSlots
<1>3. i.slotOf[c] # Absent => i.slotOf[c] \in LiveSlots(i) /\ i.slots[i.slotOf[c]].card = c
  BY DEF LiveSlots, IsLive
<1> QED BY <1>2, <1>3

-------------------------------------------------------------------------------
(* What a frame brings back, slot by slot.                                 *)

\* A saved value is never the mark of a created slot.
LEMMA NewIsNoValue ==
  ASSUME NEW c, NEW e
  PROVE  [cand |-> c, eligible |-> e] # New
BY DEF New

\* Undo turns a slot created since the answer into a tombstone,
LEMMA RestoredNew ==
  ASSUME NEW i, NEW f, NEW s \in Slots(i), s \in DOMAIN f.full, f.full[s] = New
  PROVE  RestoredSlots(i, f)[s] = [i.slots[s] EXCEPT !.status = "removed"]
BY DEF RestoredSlots

\* which is not eligible,
LEMMA RestoredNewFlag ==
  ASSUME NEW i, NEW f, NEW s \in Slots(i), s \in DOMAIN f.full, f.full[s] = New
  PROVE  RestoredEligible(i, f)[s] = FALSE
BY DEF RestoredEligible

\* puts a fully recorded slot back as it was,
LEMMA RestoredFull ==
  ASSUME NEW i, NEW f, NEW s \in Slots(i), s \in DOMAIN f.full, f.full[s] # New
  PROVE  /\ RestoredSlots(i, f)[s] = f.full[s].cand
         /\ RestoredEligible(i, f)[s] = f.full[s].eligible
BY DEF RestoredSlots, RestoredEligible

\* puts the query fields of a refreshed slot back,
LEMMA RestoredRefresh ==
  ASSUME NEW i, NEW f, NEW s \in Slots(i), s \notin DOMAIN f.full, s \in DOMAIN f.refresh
  PROVE  /\ RestoredSlots(i, f)[s] = WithQuery(i.slots[s], f.refresh[s])
         /\ RestoredEligible(i, f)[s] = f.refresh[s].eligible
BY DEF RestoredSlots, RestoredEligible

\* and leaves every other slot alone.
LEMMA RestoredOther ==
  ASSUME NEW i, NEW f, NEW s \in Slots(i), s \notin DOMAIN f.full, s \notin DOMAIN f.refresh
  PROVE  /\ RestoredSlots(i, f)[s] = i.slots[s]
         /\ RestoredEligible(i, f)[s] = i.eligible[s]
BY DEF RestoredSlots, RestoredEligible

\* A restored slot is a candidate, and has the eligibility of a boolean.
LEMMA RestoredTyped ==
  ASSUME NEW i, IsIndex(i), NEW f, IsFrame(f), NEW s \in Slots(i)
  PROVE  /\ RestoredSlots(i, f)[s] \in Candidate
         /\ RestoredEligible(i, f)[s] \in BOOLEAN
<1>1. i.slots[s] \in Candidate /\ i.eligible[s] \in BOOLEAN
  BY IndexFacts
<1>2. CASE s \in DOMAIN f.full /\ f.full[s] = New
  <2>1. "removed" \in Statuses
    BY DEF Statuses
  <2>2. [i.slots[s] EXCEPT !.status = "removed"] \in Candidate
    BY <1>1, <2>1, StatusFacts
  <2>3. RestoredSlots(i, f)[s] \in Candidate
    BY <1>2, <2>2, RestoredNew
  <2>4. RestoredEligible(i, f)[s] \in BOOLEAN
    BY <1>2, RestoredNewFlag
  <2> QED BY <2>3, <2>4
<1>3. CASE s \in DOMAIN f.full /\ f.full[s] # New
  <2>1. f.full[s] \in [cand : Candidate, eligible : BOOLEAN]
    BY <1>3 DEF IsFrame
  <2> QED BY <2>1, <1>3, RestoredFull
<1>4. CASE s \notin DOMAIN f.full /\ s \in DOMAIN f.refresh
  <2>1. IsQuery(f.refresh[s])
    BY <1>4 DEF IsFrame
  <2>2. f.refresh[s].eligible \in BOOLEAN
    BY <2>1 DEF IsQuery
  <2> QED BY <1>1, <2>1, <2>2, <1>4, RestoredRefresh, WithQueryFacts
<1>5. CASE s \notin DOMAIN f.full /\ s \notin DOMAIN f.refresh
  BY <1>1, <1>5, RestoredOther
<1> QED BY <1>2, <1>3, <1>4, <1>5

\* A slot that none of the deltas of f names comes back as it is.
LEMMA FullValueRestores ==
  ASSUME NEW i, NEW f, NEW s \in Slots(i), s \notin DOMAIN f.full
  PROVE  /\ FullValue(f, i, s).cand = RestoredSlots(i, f)[s]
         /\ FullValue(f, i, s).eligible = RestoredEligible(i, f)[s]
         /\ FullValue(f, i, s) # New
         /\ FullValue(f, i, s) = [cand |-> RestoredSlots(i, f)[s],
                                  eligible |-> RestoredEligible(i, f)[s]]
<1>1. CASE s \in DOMAIN f.refresh
  BY <1>1, RestoredRefresh, NewIsNoValue DEF FullValue
<1>2. CASE s \notin DOMAIN f.refresh
  BY <1>2, RestoredOther, NewIsNoValue DEF FullValue, Saved
<1> QED BY <1>1, <1>2

-------------------------------------------------------------------------------
(* A frame keeps restoring its index while the index moves on.             *)

\* g, applied to j, brings back what f, applied to i, brings back.
LEMMA StillRestores ==
  ASSUME NEW f, NEW g, NEW i, NEW j, NEW h, IsIndex(j), FrameRestores(f, i, h),
         g.retention = f.retention, g.day = f.day,
         Slots(i) \subseteq Slots(j),
         \A s \in Slots(i) : j.slots[s].card = i.slots[s].card,
         DeltasAreLive(g, j, h),
         \A s \in Slots(j) : s \in Slots(h) \/ ~(s \in DOMAIN g.full) =>
           s \in Slots(i) /\ RestoredSlots(j, g)[s] = RestoredSlots(i, f)[s],
         RevisitsRetention \/
           (j.retention = f.retention =>
              /\ i.retention = f.retention
              /\ \A s \in Slots(j) : s \in Slots(h) \/ ~(s \in DOMAIN g.full) =>
                   RestoredEligible(j, g)[s] = RestoredEligible(i, f)[s])
  PROVE  FrameRestores(g, j, h)
<1>1. /\ f.retention = h.retention /\ f.day = h.day
      /\ Slots(h) \subseteq Slots(i)
      /\ \A s \in Slots(h) : h.slots[s].card = i.slots[s].card
      /\ SlotsRestored(f, i, h)
      /\ RevisitsRetention \/ FlagsRestored(f, i)
  BY DEF FrameRestores
<1>2. ASSUME NEW s \in Slots(j), s \notin Slots(h), s \in DOMAIN g.full
      PROVE  RestoredSlots(j, g)[s].status = "removed" /\ ~RestoredEligible(j, g)[s]
  <2>1. g.full[s] = New
    BY <1>2 DEF DeltasAreLive
  <2>2. j.slots[s] \in Candidate /\ "removed" \in Statuses
    BY IndexFacts DEF Statuses
  <2>3. RestoredSlots(j, g)[s].status = "removed"
    <3>1. RestoredSlots(j, g)[s] = [j.slots[s] EXCEPT !.status = "removed"]
      BY <1>2, <2>1, RestoredNew
    <3> QED BY <2>2, <3>1, StatusFacts
  <2>4. ~RestoredEligible(j, g)[s]
    <3>1. s \in Slots(j) /\ s \in DOMAIN g.full
      BY ONLY s \in Slots(j), <1>2
    <3> QED BY ONLY <2>1, <3>1, RestoredNewFlag
  <2> QED BY <2>3, <2>4
<1>3. SlotsRestored(g, j, h)
  <2> SUFFICES ASSUME NEW s \in Slots(j)
               PROVE  IF s \in Slots(h) THEN RestoredSlots(j, g)[s] = h.slots[s]
                      ELSE RestoredSlots(j, g)[s].status = "removed"
    BY DEF SlotsRestored
  <2>1. CASE s \in Slots(h) \/ ~(s \in DOMAIN g.full)
    <3>1. s \in Slots(i) /\ RestoredSlots(j, g)[s] = RestoredSlots(i, f)[s]
      BY <2>1
    <3> QED BY <1>1, <3>1 DEF SlotsRestored
  <2>2. CASE s \notin Slots(h) /\ s \in DOMAIN g.full
    BY <1>2, <2>2
  <2> QED BY <2>1, <2>2
<1>4. RevisitsRetention \/ FlagsRestored(g, j)
  <2> SUFFICES ASSUME ~RevisitsRetention, j.retention = g.retention, NEW s \in Slots(j)
               PROVE  RestoredEligible(j, g)[s]
                        = EligibleAt(RestoredSlots(j, g)[s], g.retention)
    BY DEF FlagsRestored
  <2>1. CASE s \in Slots(h) \/ ~(s \in DOMAIN g.full)
    <3>1. s \in Slots(i) /\ RestoredSlots(j, g)[s] = RestoredSlots(i, f)[s]
      BY <2>1
    <3>2. RestoredEligible(j, g)[s] = RestoredEligible(i, f)[s]
      BY <2>1
    <3>3. RestoredEligible(i, f)[s] = EligibleAt(RestoredSlots(i, f)[s], f.retention)
      BY <1>1, <3>1 DEF FlagsRestored
    <3> QED BY <3>1, <3>2, <3>3
  <2>2. CASE s \notin Slots(h) /\ s \in DOMAIN g.full
    <3>1. g.full[s] = New
      BY <2>2 DEF DeltasAreLive
    <3>2. s \in Slots(j) /\ s \in DOMAIN g.full
      BY ONLY s \in Slots(j), <2>2
    <3>3. RestoredEligible(j, g)[s] = FALSE
      BY ONLY <3>1, <3>2, RestoredNewFlag
    <3>4. RestoredSlots(j, g)[s].status = "removed"
      BY <1>2, <2>2
    <3>5. EligibleAt(RestoredSlots(j, g)[s], g.retention) = FALSE
      BY <3>4, PendingNotEligible
    <3> QED BY ONLY <3>3, <3>5
  <2> QED BY <2>1, <2>2
<1>5. \A s \in Slots(h) : h.slots[s].card = j.slots[s].card
  BY <1>1
<1> QED BY <1>1, <1>3, <1>4, <1>5 DEF FrameRestores

\* The frame an answer pushes: the answered slot, and nothing else changed.
LEMMA CaptureRestores ==
  ASSUME NEW i, NEW j, NEW s, IsIndex(i), IsIndex(j), IsLive(i, s),
         Slots(j) = Slots(i),
         \A t \in Slots(i) : j.slots[t].card = i.slots[t].card,
         \A t \in Slots(i) \ {s} : j.slots[t] = i.slots[t] /\ j.eligible[t] = i.eligible[t],
         RevisitsRetention \/ FlagsAreCurrent(i)
  PROVE  IsFrame(Capture(i, s)) /\ FrameRestores(Capture(i, s), j, i)
<1> DEFINE f == Capture(i, s)
<1>1. /\ f = [retention |-> i.retention, day |-> i.day, full |-> f.full,
              refresh |-> <<>>, before |-> <<>>]
      /\ DOMAIN f.full = {s} /\ f.full[s] = Saved(i, s)
      /\ f.refresh = <<>> /\ f.before = <<>>
  BY DEF Capture
<1>2. /\ s \in Slots(i) /\ s \in Nat /\ i.slots[s] \in Candidate /\ i.eligible[s] \in BOOLEAN
      /\ i.slots[s].status # "removed"
  BY IndexFacts DEF IsLive
<1>3. f.full[s] # New /\ f.full[s].cand = i.slots[s] /\ f.full[s].eligible = i.eligible[s]
      /\ f.full[s] \in [cand : Candidate, eligible : BOOLEAN]
  BY <1>1, <1>2, NewIsNoValue DEF Saved
<1>4. DOMAIN f.refresh = {}
  BY <1>1
<1>5. i.retention \in Int /\ i.day \in Nat
  BY DEF IsIndex
<1> HIDE DEF f
<1>6. IsFrame(f)
  BY <1>1, <1>2, <1>3, <1>4, <1>5 DEF IsFrame
<1>7. DeltasAreLive(f, j, i)
  BY <1>1, <1>2, <1>3, <1>4 DEF DeltasAreLive
<1>8. ASSUME NEW t \in Slots(j)
      PROVE  RestoredSlots(j, f)[t] = i.slots[t] /\ RestoredEligible(j, f)[t] = i.eligible[t]
  <2>1. CASE t = s
    BY <1>1, <1>3, <2>1, RestoredFull
  <2>2. CASE t # s
    BY <1>1, <1>4, <2>2, RestoredOther
  <2> QED BY <2>1, <2>2
<1>9. SlotsRestored(f, j, i)
  BY <1>8 DEF SlotsRestored
<1>10. RevisitsRetention \/ FlagsRestored(f, j)
  BY <1>1, <1>8 DEF FlagsRestored, FlagsAreCurrent
<1>11. f.retention = i.retention /\ f.day = i.day
  BY <1>1
<1>12. FrameRestores(f, j, i)
  BY <1>7, <1>9, <1>10, <1>11 DEF FrameRestores
<1> QED BY <1>6, <1>12 DEF f

\* j differs from i in the slots of S and in the slots it adds.
OnlyChanged(i, j, S) ==
  /\ Slots(i) \subseteq Slots(j) /\ S \subseteq LiveSlots(i)
  /\ j.retention = i.retention
  /\ \A s \in Slots(i) : j.slots[s].card = i.slots[s].card
  /\ \A s \in Slots(i) \ S : j.slots[s] = i.slots[s] /\ j.eligible[s] = i.eligible[s]

\* g adds to f the values of the slots of S and the marks of the new slots N.
SlotsRecorded(f, g, i, S, N) ==
  /\ g = [f EXCEPT !.full = g.full]
  /\ DOMAIN g.full = DOMAIN f.full \cup S \cup N
  /\ \A s \in DOMAIN f.full : g.full[s] = f.full[s]
  /\ \A s \in S \ DOMAIN f.full : g.full[s] = FullValue(f, i, s)
  /\ \A s \in N : g.full[s] = New

\* record_slot of live slots, and record_new_slot of the slots j adds to i.
LEMMA RecordedRestores ==
  ASSUME NEW f, NEW g, NEW i, NEW j, NEW h, NEW S,
         IsIndex(i), IsIndex(j), IsFrame(f), FrameRestores(f, i, h),
         OnlyChanged(i, j, S), SlotsRecorded(f, g, i, S, Slots(j) \ Slots(i))
  PROVE  IsFrame(g) /\ FrameRestores(g, j, h)
<1> USE DEF OnlyChanged, SlotsRecorded
<1>1. /\ g = [retention |-> f.retention, day |-> f.day, full |-> g.full,
              refresh |-> f.refresh, before |-> f.before]
      /\ g.retention = f.retention /\ g.day = f.day
      /\ g.refresh = f.refresh /\ g.before = f.before
  BY DEF IsFrame
<1>2. DeltasAreLive(f, i, h) /\ Slots(h) \subseteq Slots(i) /\ SlotsRestored(f, i, h)
  BY DEF FrameRestores
<1>3. DOMAIN f.full \cup DOMAIN f.refresh \subseteq Slots(i)
  BY <1>2 DEF DeltasAreLive
<1>4. Slots(i) \subseteq Nat /\ Slots(j) \subseteq Nat
  BY IndexFacts
<1>5. S \subseteq Slots(i)
  BY DEF LiveSlots
<1>6. ASSUME NEW s \in S \ DOMAIN f.full
      PROVE  s \in Slots(h) /\ RestoredSlots(i, f)[s].status # "removed"
  <2>1. s \in Slots(i) /\ i.slots[s].status # "removed" /\ i.slots[s] \in Candidate
    BY <1>5, IndexFacts DEF LiveSlots, IsLive
  <2>2. CASE s \in DOMAIN f.refresh
    <3>1. IsQuery(f.refresh[s]) /\ f.refresh[s].status # "removed"
      BY <1>2, <2>2 DEF IsFrame, DeltasAreLive
    <3>2. RestoredSlots(i, f)[s] = WithQuery(i.slots[s], f.refresh[s])
      BY <2>1, <2>2, RestoredRefresh
    <3> QED BY <2>1, <1>2, <3>1, <3>2, WithQueryFacts DEF SlotsRestored
  <2>3. CASE s \notin DOMAIN f.refresh
    <3>1. RestoredSlots(i, f)[s] = i.slots[s]
      BY <2>1, <2>3, RestoredOther
    <3> QED BY <2>1, <1>2, <3>1 DEF SlotsRestored
  <2> QED BY <2>2, <2>3
<1>6a. ASSUME NEW s \in S \ DOMAIN f.full
      PROVE  /\ g.full[s] # New /\ g.full[s] \in [cand : Candidate, eligible : BOOLEAN]
             /\ g.full[s].cand = RestoredSlots(i, f)[s]
             /\ g.full[s].eligible = RestoredEligible(i, f)[s]
  <2>1. s \in Slots(i) /\ g.full[s] = FullValue(f, i, s)
    BY <1>5
  <2>2. RestoredSlots(i, f)[s] \in Candidate /\ RestoredEligible(i, f)[s] \in BOOLEAN
    BY <2>1, RestoredTyped
  <2>3. g.full[s] = [cand |-> RestoredSlots(i, f)[s], eligible |-> RestoredEligible(i, f)[s]]
    BY <2>1, FullValueRestores
  <2>4. g.full[s] \in [cand : Candidate, eligible : BOOLEAN]
    BY <2>2, <2>3
  <2> QED BY <2>1, <2>4, FullValueRestores
<1>7. IsFrame(g)
  <2>1. \A s \in S \ DOMAIN f.full : g.full[s] \in [cand : Candidate, eligible : BOOLEAN]
    BY <1>6a
  <2>2. \A s \in DOMAIN g.full : g.full[s] = New
                                 \/ g.full[s] \in [cand : Candidate, eligible : BOOLEAN]
    BY <2>1 DEF IsFrame
  <2>3. /\ f.retention \in Int /\ f.day \in Nat
        /\ \A s \in DOMAIN f.refresh : IsQuery(f.refresh[s])
        /\ f.before = <<>> \/ (f.before = <<f.before[1]>> /\ IsIndex(f.before[1]))
    BY DEF IsFrame
  <2>4. DOMAIN g.full \cup DOMAIN g.refresh \subseteq Nat
    BY <1>1, <1>3, <1>4, <1>5
  <2> QED BY <1>1, <2>2, <2>3, <2>4 DEF IsFrame
<1>8. DeltasAreLive(g, j, h)
  <2>1. DOMAIN g.full \cup DOMAIN g.refresh \subseteq Slots(j)
    BY <1>1, <1>3, <1>5
  <2>2. ASSUME NEW s \in DOMAIN g.full
        PROVE  IF s \in Slots(h) THEN g.full[s] # New /\ g.full[s].cand.status # "removed"
                                 ELSE g.full[s] = New
    <3>1. CASE s \in DOMAIN f.full
      BY <1>2, <3>1 DEF DeltasAreLive
    <3>2. CASE s \in S \ DOMAIN f.full
      <4>1. s \in Slots(h)
        BY <1>6, <3>2
      <4>2. g.full[s].cand.status # "removed"
        BY <1>6, <1>6a, <3>2
      <4> QED BY <1>6a, <3>2, <4>1, <4>2
    <3>3. CASE s \in Slots(j) \ Slots(i)
      BY <1>2, <3>3
    <3> QED BY <3>1, <3>2, <3>3
  <2>3. ASSUME NEW s \in DOMAIN g.refresh \ DOMAIN g.full
        PROVE  g.refresh[s].status # "removed" /\ j.slots[s].status # "removed"
    <3>1. s \in DOMAIN f.refresh \ DOMAIN f.full /\ s \in Slots(i) \ S
      BY <1>1, <1>3
    <3> QED BY <1>1, <1>2, <3>1 DEF DeltasAreLive
  <2> QED BY <2>1, <2>2, <2>3 DEF DeltasAreLive
<1>9. ASSUME NEW s \in Slots(j), s \in Slots(h) \/ ~(s \in DOMAIN g.full)
      PROVE  /\ s \in Slots(i) /\ RestoredSlots(j, g)[s] = RestoredSlots(i, f)[s]
             /\ RestoredEligible(j, g)[s] = RestoredEligible(i, f)[s]
  <2>1. s \in Slots(i)
    BY <1>2, <1>9
  <2>2. CASE s \in DOMAIN f.full
    <3>1. f.full[s] # New /\ g.full[s] = f.full[s] /\ s \in DOMAIN g.full
      BY <1>2, <1>9, <2>2 DEF DeltasAreLive
    <3> QED BY <2>1, <2>2, <3>1, RestoredFull
  <2>3. CASE s \in S \ DOMAIN f.full
    <3>1. s \in DOMAIN g.full /\ g.full[s] # New
          /\ g.full[s].cand = RestoredSlots(i, f)[s]
          /\ g.full[s].eligible = RestoredEligible(i, f)[s]
      BY <1>6a, <2>3
    <3> QED BY <2>1, <3>1, RestoredFull
  <2>4. CASE s \notin DOMAIN f.full /\ s \notin S
    <3>1. s \notin DOMAIN g.full /\ j.slots[s] = i.slots[s] /\ j.eligible[s] = i.eligible[s]
      BY <2>1, <2>4
    <3>2. CASE s \in DOMAIN f.refresh
      <4>1. s \in DOMAIN g.refresh /\ g.refresh[s] = f.refresh[s] /\ s \in Slots(j)
        BY <1>1, <2>1, <3>2
      <4>2. /\ RestoredSlots(j, g)[s] = WithQuery(j.slots[s], g.refresh[s])
            /\ RestoredEligible(j, g)[s] = g.refresh[s].eligible
        BY <3>1, <4>1, RestoredRefresh
      <4>3. /\ RestoredSlots(i, f)[s] = WithQuery(i.slots[s], f.refresh[s])
            /\ RestoredEligible(i, f)[s] = f.refresh[s].eligible
        BY <2>1, <2>4, <3>2, RestoredRefresh
      <4> QED BY <2>1, <3>1, <4>1, <4>2, <4>3
    <3>3. CASE s \notin DOMAIN f.refresh
      <4>1. s \notin DOMAIN g.refresh
        BY <1>1, <3>3
      <4>2. RestoredSlots(j, g)[s] = j.slots[s] /\ RestoredEligible(j, g)[s] = j.eligible[s]
        BY <3>1, <4>1, RestoredOther
      <4>3. RestoredSlots(i, f)[s] = i.slots[s] /\ RestoredEligible(i, f)[s] = i.eligible[s]
        BY <2>1, <2>4, <3>3, RestoredOther
      <4> QED BY <2>1, <3>1, <4>2, <4>3
    <3> QED BY <3>2, <3>3
  <2> QED BY <2>2, <2>3, <2>4
<1>10. FrameRestores(g, j, h)
  <2>1. g.retention = f.retention /\ g.day = f.day
    BY <1>1
  <2>2. \A s \in Slots(j) : s \in Slots(h) \/ ~(s \in DOMAIN g.full) =>
           s \in Slots(i) /\ RestoredSlots(j, g)[s] = RestoredSlots(i, f)[s]
    BY <1>9
  <2>3. \A s \in Slots(j) : s \in Slots(h) \/ ~(s \in DOMAIN g.full) =>
           RestoredEligible(j, g)[s] = RestoredEligible(i, f)[s]
    BY <1>9
  <2>4. j.retention = f.retention => i.retention = f.retention
    OBVIOUS
  <2> QED BY <1>8, <2>1, <2>2, <2>3, <2>4, StillRestores
<1> QED BY <1>7, <1>10

\* record_refresh_slot of live slots that a prediction then updates.
\* j is i after a refresh of the slots of S, and g is f after it recorded them.
OnlyQueried(i, j, S) ==
  /\ Slots(j) = Slots(i) /\ S \subseteq LiveSlots(i)
  /\ \A s \in S : /\ j.slots[s].card = i.slots[s].card
                  /\ j.slots[s].status # "removed"
                  /\ \A q : WithQuery(j.slots[s], q) = WithQuery(i.slots[s], q)
  /\ \A s \in Slots(i) \ S : j.slots[s] = i.slots[s]

QueriesRecorded(f, g, i, S) ==
  /\ g = [f EXCEPT !.refresh = g.refresh]
  /\ DOMAIN g.refresh = DOMAIN f.refresh \cup (S \ DOMAIN f.full)
  /\ \A s \in DOMAIN f.refresh : g.refresh[s] = f.refresh[s]
  /\ \A s \in S \ (DOMAIN f.full \cup DOMAIN f.refresh) : g.refresh[s] = SavedQuery(i, s)

\* Whatever a refresh predicts again, the frame that recorded it still restores.
LEMMA RefreshedRestores ==
  ASSUME NEW f, NEW g, NEW i, NEW j, NEW h, NEW S,
         IsIndex(i), IsIndex(j), IsFrame(f), FrameRestores(f, i, h),
         OnlyQueried(i, j, S), QueriesRecorded(f, g, i, S),
         RevisitsRetention \/
           (j.retention = f.retention =>
              /\ i.retention = f.retention
              /\ \A s \in Slots(i) \ S : j.eligible[s] = i.eligible[s])
  PROVE  IsFrame(g) /\ FrameRestores(g, j, h)
<1> USE DEF OnlyQueried, QueriesRecorded
<1>1. /\ g = [retention |-> f.retention, day |-> f.day, full |-> f.full,
              refresh |-> g.refresh, before |-> f.before]
      /\ g.retention = f.retention /\ g.day = f.day
      /\ g.full = f.full /\ g.before = f.before
  BY DEF IsFrame
<1>2. DeltasAreLive(f, i, h) /\ Slots(h) \subseteq Slots(i)
  BY DEF FrameRestores
<1>3. DOMAIN f.full \cup DOMAIN f.refresh \subseteq Slots(i)
  BY <1>2 DEF DeltasAreLive
<1>4. Slots(i) \subseteq Nat /\ S \subseteq Slots(i)
  BY IndexFacts DEF LiveSlots
<1>5. ASSUME NEW s \in S
      PROVE  /\ IsQuery(SavedQuery(i, s)) /\ SavedQuery(i, s).status # "removed"
             /\ SavedQuery(i, s).eligible = i.eligible[s]
             /\ WithQuery(i.slots[s], SavedQuery(i, s)) = i.slots[s]
             /\ i.slots[s].status # "removed"
  <2>1. s \in Slots(i) /\ i.slots[s].status # "removed"
    BY DEF LiveSlots, IsLive
  <2>2. i.slots[s] \in Candidate /\ i.eligible[s] \in BOOLEAN
    BY <2>1, IndexFacts
  <2> QED BY <2>1, <2>2, SavedQueryFacts
<1>6. IsFrame(g)
  <2>1. \A s \in DOMAIN g.refresh : IsQuery(g.refresh[s])
    BY <1>5 DEF IsFrame
  <2>2. /\ f.retention \in Int /\ f.day \in Nat
        /\ \A s \in DOMAIN f.full : f.full[s] = New
                                    \/ f.full[s] \in [cand : Candidate, eligible : BOOLEAN]
        /\ f.before = <<>> \/ (f.before = <<f.before[1]>> /\ IsIndex(f.before[1]))
    BY DEF IsFrame
  <2>3. DOMAIN g.full \cup DOMAIN g.refresh \subseteq Nat
    BY <1>1, <1>3, <1>4
  <2> QED BY <1>1, <2>1, <2>2, <2>3 DEF IsFrame
<1>7. DeltasAreLive(g, j, h)
  <2>1. DOMAIN g.full \cup DOMAIN g.refresh \subseteq Slots(j)
    BY <1>1, <1>3, <1>4
  <2>2. ASSUME NEW s \in DOMAIN g.refresh \ DOMAIN g.full
        PROVE  g.refresh[s].status # "removed" /\ j.slots[s].status # "removed"
    <3>1. CASE s \in DOMAIN f.refresh
      <4>1. g.refresh[s] = f.refresh[s] /\ s \in Slots(i)
            /\ f.refresh[s].status # "removed" /\ i.slots[s].status # "removed"
        BY <1>1, <1>2, <1>3, <3>1 DEF DeltasAreLive
      <4> QED BY <4>1
    <3>2. CASE s \notin DOMAIN f.refresh
      <4>1. s \in S /\ g.refresh[s] = SavedQuery(i, s)
        BY <1>1, <3>2
      <4> QED BY <1>5, <4>1
    <3> QED BY <3>1, <3>2
  <2> QED BY <1>1, <1>2, <2>1, <2>2 DEF DeltasAreLive
<1>8. ASSUME NEW s \in Slots(j), s \in Slots(h) \/ ~(s \in DOMAIN g.full)
      PROVE  /\ s \in Slots(i) /\ RestoredSlots(j, g)[s] = RestoredSlots(i, f)[s]
             /\ RevisitsRetention \/ (j.retention = f.retention =>
                  RestoredEligible(j, g)[s] = RestoredEligible(i, f)[s])
  <2>1. CASE s \in DOMAIN f.full
    <3>1. f.full[s] # New
      BY <1>1, <1>2, <1>8, <2>1 DEF DeltasAreLive
    <3>2. RestoredSlots(j, g)[s] = f.full[s].cand
          /\ RestoredEligible(j, g)[s] = f.full[s].eligible
      BY <1>1, <2>1, <3>1, RestoredFull
    <3>3. RestoredSlots(i, f)[s] = f.full[s].cand
          /\ RestoredEligible(i, f)[s] = f.full[s].eligible
      BY <2>1, <3>1, RestoredFull
    <3> QED BY <3>2, <3>3
  <2>2. CASE s \notin DOMAIN f.full /\ s \in DOMAIN f.refresh
    <3>1. s \in DOMAIN g.refresh /\ g.refresh[s] = f.refresh[s] /\ s \notin DOMAIN g.full
      BY <1>1, <2>2
    <3>2. /\ RestoredSlots(j, g)[s] = WithQuery(j.slots[s], f.refresh[s])
          /\ RestoredEligible(j, g)[s] = f.refresh[s].eligible
      BY <3>1, RestoredRefresh
    <3>3. /\ RestoredSlots(i, f)[s] = WithQuery(i.slots[s], f.refresh[s])
          /\ RestoredEligible(i, f)[s] = f.refresh[s].eligible
      BY <2>2, RestoredRefresh
    <3>4. WithQuery(j.slots[s], f.refresh[s]) = WithQuery(i.slots[s], f.refresh[s])
      OBVIOUS
    <3> QED BY <3>2, <3>3, <3>4
  <2>3. CASE s \in S /\ s \notin DOMAIN f.full /\ s \notin DOMAIN f.refresh
    <3>1. s \in DOMAIN g.refresh /\ g.refresh[s] = SavedQuery(i, s) /\ s \notin DOMAIN g.full
      BY <1>1, <2>3
    <3>2. /\ RestoredSlots(j, g)[s] = WithQuery(j.slots[s], SavedQuery(i, s))
          /\ RestoredEligible(j, g)[s] = SavedQuery(i, s).eligible
      BY <3>1, RestoredRefresh
    <3>3. RestoredSlots(i, f)[s] = i.slots[s] /\ RestoredEligible(i, f)[s] = i.eligible[s]
      BY <2>3, RestoredOther
    <3>4. WithQuery(j.slots[s], SavedQuery(i, s)) = i.slots[s]
          /\ SavedQuery(i, s).eligible = i.eligible[s]
      <4>1. s \in S /\ WithQuery(j.slots[s], SavedQuery(i, s))
                           = WithQuery(i.slots[s], SavedQuery(i, s))
        BY <2>3
      <4>2. /\ SavedQuery(i, s).eligible = i.eligible[s]
            /\ WithQuery(i.slots[s], SavedQuery(i, s)) = i.slots[s]
        BY ONLY <1>5, <4>1
      <4> QED BY ONLY <4>1, <4>2
    <3> QED BY <3>2, <3>3, <3>4
  <2>4. CASE s \notin S /\ s \notin DOMAIN f.full /\ s \notin DOMAIN f.refresh
    <3>1. s \notin DOMAIN g.refresh /\ s \notin DOMAIN g.full
      BY <1>1, <2>4
    <3>2. RestoredSlots(j, g)[s] = j.slots[s] /\ RestoredEligible(j, g)[s] = j.eligible[s]
      BY <3>1, RestoredOther
    <3>3. RestoredSlots(i, f)[s] = i.slots[s] /\ RestoredEligible(i, f)[s] = i.eligible[s]
      BY <2>4, RestoredOther
    <3> QED BY <2>4, <3>2, <3>3
  <2> QED BY <2>1, <2>2, <2>3, <2>4
<1>9. \A s \in Slots(i) : j.slots[s].card = i.slots[s].card
  OBVIOUS
<1>10. FrameRestores(g, j, h)
  <2>1. \A s \in Slots(j) : s \in Slots(h) \/ ~(s \in DOMAIN g.full) =>
           s \in Slots(i) /\ RestoredSlots(j, g)[s] = RestoredSlots(i, f)[s]
    BY <1>8
  <2>2. RevisitsRetention \/
          (j.retention = f.retention =>
             /\ i.retention = f.retention
             /\ \A s \in Slots(j) : s \in Slots(h) \/ ~(s \in DOMAIN g.full) =>
                  RestoredEligible(j, g)[s] = RestoredEligible(i, f)[s])
    BY <1>8
  <2>3. g.retention = f.retention /\ g.day = f.day
    BY <1>1
  <2> QED BY <1>7, <1>9, <2>1, <2>2, <2>3, StillRestores
<1> QED BY <1>6, <1>10

\* A new retention extra, which may not be one the frame has left.
LEMMA RetentionRestores ==
  ASSUME NEW f, NEW i, NEW j, NEW h, IsIndex(j), FrameRestores(f, i, h),
         j.slots = i.slots,
         RevisitsRetention \/
           (j.retention = f.retention => i.retention = f.retention /\ j.eligible = i.eligible)
  PROVE  FrameRestores(f, j, h)
<1>1. Slots(j) = Slots(i) /\ RestoredSlots(j, f) = RestoredSlots(i, f)
  BY DEF Slots, RestoredSlots
<1>2. j.eligible = i.eligible => RestoredEligible(j, f) = RestoredEligible(i, f)
  BY <1>1 DEF RestoredEligible
<1>3. RevisitsRetention \/ FlagsRestored(f, j)
  BY <1>1, <1>2 DEF FrameRestores, FlagsRestored
<1> QED BY <1>1, <1>3 DEF FrameRestores, DeltasAreLive, SlotsRestored

\* The frame below an undone one: the undone index has the slots its answer
\* found, and tombstones after them.
LEMMA PaddedRestores ==
  ASSUME NEW f, NEW i, NEW j, NEW h, IsIndex(i), IsIndex(j), FrameRestores(f, i, h),
         SameUniverse(j, i), j.retention = i.retention,
         RevisitsRetention \/ (FlagsAreCurrent(i) /\ FlagsAreCurrent(j))
  PROVE  FrameRestores(f, j, h)
<1>1. /\ f.retention = h.retention /\ f.day = h.day
      /\ Slots(h) \subseteq Slots(i)
      /\ \A s \in Slots(h) : h.slots[s].card = i.slots[s].card
      /\ DeltasAreLive(f, i, h) /\ SlotsRestored(f, i, h)
      /\ RevisitsRetention \/ FlagsRestored(f, i)
  BY DEF FrameRestores
<1>2. /\ Slots(i) \subseteq Slots(j)
      /\ \A s \in Slots(i) : j.slots[s] = i.slots[s]
      /\ \A s \in Slots(j) \ Slots(i) : j.slots[s].status = "removed"
  BY DEF SameUniverse
<1>3. DOMAIN f.full \cup DOMAIN f.refresh \subseteq Slots(i)
  BY <1>1 DEF DeltasAreLive
<1>4. DeltasAreLive(f, j, h)
  BY <1>1, <1>2, <1>3 DEF DeltasAreLive
<1>5. ASSUME NEW s \in Slots(i)
      PROVE  RestoredSlots(j, f)[s] = RestoredSlots(i, f)[s]
  BY <1>2 DEF RestoredSlots
<1>6. ASSUME NEW s \in Slots(j) \ Slots(i)
      PROVE  RestoredSlots(j, f)[s] = j.slots[s] /\ RestoredEligible(j, f)[s] = j.eligible[s]
  BY <1>3, RestoredOther
<1>7. SlotsRestored(f, j, h)
  <2> SUFFICES ASSUME NEW s \in Slots(j)
               PROVE  IF s \in Slots(h) THEN RestoredSlots(j, f)[s] = h.slots[s]
                      ELSE RestoredSlots(j, f)[s].status = "removed"
    BY DEF SlotsRestored
  <2>1. CASE s \in Slots(i)
    BY <1>1, <1>5, <2>1 DEF SlotsRestored
  <2>2. CASE s \notin Slots(i)
    BY <1>1, <1>2, <1>6, <2>2
  <2> QED BY <2>1, <2>2
<1>8. RevisitsRetention \/ FlagsRestored(f, j)
  <2> SUFFICES ASSUME ~RevisitsRetention, j.retention = f.retention, NEW s \in Slots(j)
               PROVE  RestoredEligible(j, f)[s]
                        = EligibleAt(RestoredSlots(j, f)[s], f.retention)
    BY DEF FlagsRestored
  <2>1. CASE s \in Slots(i)
    <3>1. i.eligible[s] = j.eligible[s]
      BY <1>2, <2>1 DEF FlagsAreCurrent
    <3>2. RestoredEligible(j, f)[s] = RestoredEligible(i, f)[s]
      BY <2>1, <3>1 DEF RestoredEligible
    <3> QED BY <1>1, <1>5, <2>1, <3>2 DEF FlagsRestored
  <2>2. CASE s \notin Slots(i)
    BY <1>6, <2>2 DEF FlagsAreCurrent
  <2> QED BY <2>1, <2>2
<1>9. \A s \in Slots(h) : h.slots[s].card = j.slots[s].card
  BY <1>1, <1>2
<1> QED BY <1>1, <1>2, <1>4, <1>7, <1>8, <1>9 DEF FrameRestores

-------------------------------------------------------------------------------
(* Undoing a frame.                                                        *)

\* A frame saves at most one value of a card: the live one of h.
LEMMA SavedIsLive ==
  ASSUME NEW f, NEW b, NEW h, IsIndex(h), MapMatches(h), FrameRestores(f, b, h),
         NEW s \in DOMAIN f.full, f.full[s] # New
  PROVE  /\ s \in Slots(h) /\ IsLive(h, s) /\ f.full[s].cand = h.slots[s]
         /\ h.slots[s].card \in Cards /\ h.slotOf[h.slots[s].card] = s
<1>1. s \in Slots(h) /\ s \in Slots(b) /\ f.full[s].cand.status # "removed"
  BY DEF FrameRestores, DeltasAreLive
<1>2. f.full[s].cand = h.slots[s]
  BY <1>1, RestoredFull DEF FrameRestores, SlotsRestored
<1>3. IsLive(h, s)
  BY <1>1, <1>2 DEF IsLive
<1>4. h.slots[s].card \in Cards
  BY <1>1, IndexFacts DEF Candidate
<1> QED BY <1>1, <1>2, <1>3, <1>4, MapFacts

\* The map after an undo is the one the answer found.
LEMMA RestoredMap ==
  ASSUME NEW f, NEW b, NEW h, IsIndex(b), IsIndex(h), IsFrame(f),
         MapMatches(b), MapMatches(h), FrameRestores(f, b, h)
  PROVE  RestoredSlotOf(b, f) = h.slotOf
<1>1. ASSUME NEW c \in Cards
      PROVE  RestoredSlotOf(b, f)[c] = h.slotOf[c]
  <2> DEFINE saved == {s \in DOMAIN f.full : f.full[s] # New /\ f.full[s].cand.card = c}
             s == b.slotOf[c]
  <2>1. CASE saved # {}
    <3>1. RestoredSlotOf(b, f)[c] = CHOOSE t \in saved : TRUE
      BY <2>1 DEF RestoredSlotOf
    <3>2. PICK t \in saved : RestoredSlotOf(b, f)[c] = t
      BY <2>1, <3>1
    <3> QED BY <3>2, SavedIsLive
  <2>2. CASE saved = {}
    <3>1. RestoredSlotOf(b, f)[c]
            = IF s \in DOMAIN f.full /\ f.full[s] = New THEN Absent ELSE s
      BY <2>2 DEF RestoredSlotOf
    <3>2. s # Absent => IsLive(b, s) /\ b.slots[s].card = c
      BY MapFacts
    \* A live slot of h that was not saved is live in b.
    <3>3. ASSUME h.slotOf[c] # Absent
          PROVE  s = h.slotOf[c] /\ s \notin DOMAIN f.full
      <4> DEFINE t == h.slotOf[c]
      <4>1. t \in Slots(h) /\ t \in Slots(b) /\ IsLive(h, t) /\ h.slots[t].card = c
        BY <3>3, MapFacts DEF IsLive, FrameRestores
      <4>2. b.slots[t].card = c
        BY <4>1 DEF FrameRestores
      <4>3. t \notin DOMAIN f.full
        <5> SUFFICES ASSUME t \in DOMAIN f.full PROVE FALSE
          OBVIOUS
        <5>1. f.full[t] # New
          BY <4>1 DEF FrameRestores, DeltasAreLive
        <5>2. t \in saved
          BY <4>1, <5>1, SavedIsLive
        <5> QED BY <2>2, <5>2
      <4>4. b.slots[t].status # "removed"
        <5>1. CASE t \in DOMAIN f.refresh
          BY <4>3, <5>1 DEF FrameRestores, DeltasAreLive
        <5>2. CASE t \notin DOMAIN f.refresh
          <6>1. RestoredSlots(b, f)[t] = b.slots[t]
            BY <4>1, <4>3, <5>2, RestoredOther
          <6> QED BY <4>1, <6>1 DEF FrameRestores, SlotsRestored, IsLive
        <5> QED BY <5>1, <5>2
      <4>5. IsLive(b, t)
        BY <4>1, <4>4 DEF IsLive
      <4> QED BY <4>1, <4>2, <4>3, <4>5, MapFacts
    \* A live slot of b that was not created since is live in h.
    <3>4. ASSUME s # Absent, h.slotOf[c] = Absent
          PROVE  s \in DOMAIN f.full /\ f.full[s] = New
      <4>1. IsLive(b, s) /\ s \in Slots(b) /\ b.slots[s].card = c /\ b.slots[s] \in Candidate
        BY <3>2, <3>4, IndexFacts DEF IsLive
      <4>2. s \in Slots(h) => ~IsLive(h, s)
        <5> SUFFICES ASSUME s \in Slots(h), IsLive(h, s) PROVE FALSE
          OBVIOUS
        <5>1. h.slots[s].card = c
          BY <4>1 DEF FrameRestores
        <5> QED BY <3>4, <5>1, MapFacts
      <4>3. RestoredSlots(b, f)[s].status = "removed"
        BY <4>1, <4>2 DEF FrameRestores, SlotsRestored, IsLive
      <4>4. s \in DOMAIN f.full
        <5> SUFFICES ASSUME s \notin DOMAIN f.full PROVE FALSE
          OBVIOUS
        <5>1. CASE s \in DOMAIN f.refresh
          <6>1. IsQuery(f.refresh[s]) /\ f.refresh[s].status # "removed"
            BY <5>1 DEF IsFrame, FrameRestores, DeltasAreLive
          <6>2. RestoredSlots(b, f)[s] = WithQuery(b.slots[s], f.refresh[s])
            BY <4>1, <5>1, RestoredRefresh
          <6> QED BY <4>1, <4>3, <6>1, <6>2, WithQueryFacts
        <5>2. CASE s \notin DOMAIN f.refresh
          BY <4>1, <4>3, <5>2, RestoredOther DEF IsLive
        <5> QED BY <5>1, <5>2
      <4>5. f.full[s] = New
        BY <4>2, <4>4, SavedIsLive
      <4> QED BY <4>4, <4>5
    <3> QED BY <3>1, <3>3, <3>4
  <2> QED BY <2>1, <2>2
<1>2. h.slotOf = [c \in Cards |-> h.slotOf[c]]
  BY DEF IsIndex
<1>3. RestoredSlotOf(b, f) = [c \in Cards |-> RestoredSlotOf(b, f)[c]]
  BY DEF RestoredSlotOf
<1> QED BY <1>1, <1>2, <1>3

\* A record with the fields of an index is the record of its fields.
LEMMA IndexRecord ==
  ASSUME NEW i, DOMAIN i = {"slots", "slotOf", "eligible", "ordered", "retention", "day"},
         i = [x \in DOMAIN i |-> i[x]]
  PROVE  i = [slots |-> i.slots, slotOf |-> i.slotOf, eligible |-> i.eligible,
              ordered |-> i.ordered, retention |-> i.retention, day |-> i.day]
OBVIOUS

\* The fields of an index.
LEMMA IndexDomain ==
  ASSUME NEW i, IsUnflagged(i)
  PROVE  DOMAIN i = {"slots", "slotOf", "eligible", "ordered", "retention", "day"}
BY DEF IsUnflagged

\* restore_undo yields a coherent index with the universe the answer found.
LEMMA RestoredIndex ==
  ASSUME NEW f, NEW cur, NEW b, NEW h, b = AppliedTo(f, cur),
         IsIndex(b), IsIndex(h), IsFrame(f), IndexIsCoherent(b), IndexIsCoherent(h),
         FrameRestores(f, b, h)
  PROVE  LET j == Restored(cur, f)
         IN  /\ IsIndex(j) /\ IndexIsCoherent(j) /\ SameUniverse(j, h)
             /\ j.retention = h.retention /\ j.day = h.day
<1> DEFINE k == [b EXCEPT !.slots = RestoredSlots(b, f), !.eligible = RestoredEligible(b, f),
                          !.slotOf = RestoredSlotOf(b, f),
                          !.retention = f.retention, !.day = f.day]
           j == Restored(cur, f)
<1>1. /\ k.slots = RestoredSlots(b, f) /\ k.slotOf = RestoredSlotOf(b, f)
      /\ k.eligible = RestoredEligible(b, f)
      /\ k.retention = f.retention /\ k.day = f.day
      /\ k = [slots |-> k.slots, slotOf |-> k.slotOf, eligible |-> k.eligible,
              ordered |-> k.ordered, retention |-> k.retention, day |-> k.day]
  <2>1. DOMAIN b = {"slots", "slotOf", "eligible", "ordered", "retention", "day"}
    BY IndexIsUnflagged, IndexDomain
  <2>2. DOMAIN k = DOMAIN b /\ k = [x \in DOMAIN k |-> k[x]]
    OBVIOUS
  <2>3. k = [slots |-> k.slots, slotOf |-> k.slotOf, eligible |-> k.eligible,
             ordered |-> k.ordered, retention |-> k.retention, day |-> k.day]
    <3> HIDE DEF k
    <3> QED BY <2>1, <2>2, IndexRecord
  <2> QED BY <2>1, <2>3
<1>2. RestoredSlots(b, f) \in [Slots(b) -> Candidate]
  <2>1. \A s \in Slots(b) : RestoredSlots(b, f)[s] \in Candidate
    BY RestoredTyped
  <2> QED BY <2>1 DEF RestoredSlots
<1>3. RestoredSlots(b, f) \in Seq(Candidate) /\ Slots(k) = Slots(b)
  BY <1>1, <1>2, IndexFacts, FunctionIsSeq DEF Slots
<1>4. RestoredEligible(b, f) \in [Slots(b) -> BOOLEAN]
  <2>1. \A s \in Slots(b) : RestoredEligible(b, f)[s] \in BOOLEAN
    BY RestoredTyped
  <2> QED BY <2>1 DEF RestoredEligible
<1>5. RestoredSlotOf(b, f) = h.slotOf
  BY RestoredMap DEF IndexIsCoherent
<1>6. h.slotOf \in [Cards -> {Absent} \cup Slots(b)]
  <2>1. h.slotOf \in [Cards -> {Absent} \cup Slots(h)] /\ Slots(h) \subseteq Slots(b)
    BY DEF IsIndex, FrameRestores, Slots
  <2> QED BY <2>1
<1>7. f.retention \in Int /\ f.day \in Nat /\ f.retention = h.retention /\ f.day = h.day
  BY DEF IsFrame, FrameRestores
<1> HIDE DEF k
<1>8. IsIndex(k)
  <2>1. k.slotOf = h.slotOf
    BY <1>1, <1>5
  <2>2. k.slots \in Seq(Candidate) /\ DOMAIN k.slots = Slots(b)
    BY <1>1, <1>3 DEF Slots
  <2>3. k.slotOf \in [Cards -> {Absent} \cup DOMAIN k.slots]
        /\ k.eligible \in [DOMAIN k.slots -> BOOLEAN]
    BY <1>1, <1>4, <1>6, <2>1, <2>2
  <2> QED BY <1>1, <1>7, <2>2, <2>3 DEF IsIndex
<1>9. SameUniverse(k, h)
  <2>1. k.slots = RestoredSlots(b, f) /\ k.slotOf = h.slotOf
    BY <1>1, <1>5
  <2> QED BY <1>3, <2>1 DEF SameUniverse, FrameRestores, SlotsRestored
<1>10. MapMatches(k)
  <2>1. \A s \in Slots(k) : IsLive(k, s) <=> s \in Slots(h) /\ IsLive(h, s)
    BY <1>9 DEF SameUniverse, IsLive
  <2>2. \A s \in Slots(h) : k.slots[s] = h.slots[s] /\ s \in Slots(k)
    BY <1>9 DEF SameUniverse
  <2>3. k.slotOf = h.slotOf /\ MapMatches(h)
    BY <1>9 DEF SameUniverse, IndexIsCoherent
  <2>4. \A c \in Cards : k.slotOf[c] # Absent =>
              IsLive(k, k.slotOf[c]) /\ k.slots[k.slotOf[c]].card = c
    <3> SUFFICES ASSUME NEW c \in Cards, h.slotOf[c] # Absent
                 PROVE  IsLive(k, h.slotOf[c]) /\ k.slots[h.slotOf[c]].card = c
      BY <2>3
    <3>1. IsLive(h, h.slotOf[c]) /\ h.slots[h.slotOf[c]].card = c
      BY <2>3, MapFacts
    <3>2. h.slotOf[c] \in Slots(h)
      BY <3>1 DEF IsLive
    <3> QED BY <2>1, <2>2, <3>1, <3>2
  <2>5. \A s \in Slots(k) : IsLive(k, s) => k.slotOf[k.slots[s].card] = s
    BY <2>1, <2>2, <2>3, MapFacts
  <2> QED BY <1>8, <2>4, <2>5, MapIntro
<1>11. k.retention = h.retention /\ k.day = h.day
  BY <1>1, <1>7
<1>12. CASE b.retention # f.retention
  <2>1. j = Rebuilt(Recomputed(k))
    BY <1>12 DEF Restored, k
  <2>2. /\ IsIndex(Recomputed(k)) /\ FlagsAreCurrent(Recomputed(k))
        /\ Recomputed(k).slots = k.slots /\ Recomputed(k).slotOf = k.slotOf
        /\ Recomputed(k).retention = k.retention /\ Recomputed(k).day = k.day
    BY <1>8, IndexIsUnflagged, RecomputedFacts
  <2>3. MapMatches(Recomputed(k))
    BY <1>10, <2>2 DEF MapMatches, LiveSlots, IsLive, Slots
  <2>4. IndexIsCoherent(Recomputed(k))
    BY <2>2, <2>3 DEF IndexIsCoherent
  <2>5. IsIndex(j) /\ SameButOrder(j, Recomputed(k))
    BY <2>1, <2>2, RebuiltFacts
  <2>6. IndexIsCoherent(j)
    BY <2>4, <2>5, CoherentButOrder
  <2>7. j.slots = k.slots /\ j.slotOf = k.slotOf /\ j.retention = k.retention /\ j.day = k.day
    BY <2>2, <2>5 DEF SameButOrder
  <2> QED BY <1>9, <1>11, <2>5, <2>6, <2>7 DEF SameUniverse, Slots
<1>13. CASE b.retention = f.retention
  <2>1. j = Reordered(k, DOMAIN f.full \cup DOMAIN f.refresh, FALSE)
    BY <1>13 DEF Restored, k
  <2>2. IsIndex(j) /\ SameButOrder(j, k)
    BY <1>8, <2>1, ReorderedFacts
  <2>3. RevisitsRetention \/ FlagsAreCurrent(k)
    BY <1>1, <1>3, <1>13 DEF FrameRestores, FlagsRestored, FlagsAreCurrent
  <2>4. IndexIsCoherent(j)
    BY <1>10, <2>2, <2>3, CoherentButOrder DEF IndexIsCoherent
  <2> QED BY <1>9, <1>11, <2>2, <2>4 DEF SameUniverse, Slots, SameButOrder
<1> QED BY <1>12, <1>13

-------------------------------------------------------------------------------
(* The invariant, frame by frame.                                          *)

FrameOK(f, b, h) ==
  /\ IsFrame(f) /\ IsIndex(b) /\ IsIndex(h)
  /\ IndexIsCoherent(b) /\ IndexIsCoherent(h)
  /\ FrameRestores(f, b, h)

\* The index frame k of a stack u applies to, when h are the indexes the
\* answers found and i is the current one.
BaseIn(u, h, i, k) == AppliedTo(u[k], IF k < Len(u) THEN h[k + 1] ELSE i)

StackOK(u, h, i) ==
  /\ IsSequence(u) /\ IsSequence(h) /\ Len(u) = Len(h)
  /\ \A k \in 1..Len(u) : FrameOK(u[k], BaseIn(u, h, i, k), h[k])

\* The index a frame is applied to is an index.
LEMMA AppliedTyped ==
  ASSUME NEW f, IsFrame(f), NEW i, IsIndex(i)
  PROVE  IsIndex(AppliedTo(f, i))
BY DEF IsFrame, AppliedTo

\* The invariant, read as a statement about a stack of frames over the index,
LEMMA Unfold ==
  ASSUME IInv
  PROVE  /\ IsIndex(index) /\ IndexIsCoherent(index) /\ generation \in Nat
         /\ StackOK(undo, history, index) /\ Len(undo) <= UndoLimit
<1>1. /\ IsSequence(undo) /\ IsSequence(history) /\ Len(undo) = Len(history)
      /\ Len(undo) \in Nat /\ DOMAIN undo = 1..Len(undo) /\ DOMAIN history = 1..Len(undo)
  BY IsSequenceFacts DEF IInv, TypeOK
<1>2. ASSUME NEW k \in 1..Len(undo)
      PROVE  FrameOK(undo[k], BaseIn(undo, history, index, k), history[k])
  <2>1. Base(k) = BaseIn(undo, history, index, k)
    BY DEF Base, BaseIn
  <2>2. IsFrame(undo[k]) /\ IsIndex(history[k]) /\ IsIndex(index)
        /\ (k < Len(undo) => IsIndex(history[k + 1]))
    BY <1>1 DEF IInv, TypeOK
  <2>3. IsIndex(Base(k))
    BY <2>2, AppliedTyped DEF Base
  <2>4. /\ IndexIsCoherent(Base(k)) /\ IndexIsCoherent(history[k])
        /\ FrameRestores(undo[k], Base(k), history[k])
    BY <1>1 DEF IInv, EveryFrameRestores
  <2> QED BY <2>1, <2>2, <2>3, <2>4 DEF FrameOK
<1>3. IsIndex(index) /\ IndexIsCoherent(index) /\ generation \in Nat /\ Len(undo) <= UndoLimit
  BY DEF IInv, TypeOK, EveryFrameRestores
<1> QED BY <1>1, <1>2, <1>3 DEF StackOK

\* and read back in the next state.
LEMMA FoldNext ==
  ASSUME IsIndex(index'), IndexIsCoherent(index'), generation' \in Nat,
         StackOK(undo', history', index'), Len(undo') <= UndoLimit
  PROVE  IInv'
<1>1. /\ IsSequence(undo') /\ IsSequence(history') /\ Len(undo') = Len(history')
      /\ DOMAIN undo' = 1..Len(undo') /\ DOMAIN history' = 1..Len(undo')
  BY IsSequenceFacts DEF StackOK
<1>2. \A k \in 1..Len(undo') : FrameOK(undo'[k], Base(k)', history'[k])
  BY DEF StackOK, Base, BaseIn
<1>3. TypeOK'
  BY <1>1, <1>2 DEF TypeOK, FrameOK
<1>4. EveryFrameRestores'
  BY <1>1, <1>2 DEF EveryFrameRestores, FrameOK
<1> QED BY <1>3, <1>4 DEF IInv

\* A mutation that is recorded in the newest frame.
LEMMA NewestStack ==
  ASSUME NEW u, NEW h, NEW i, NEW j, NEW g, StackOK(u, h, i), u # <<>>,
         FrameOK(g, AppliedTo(g, j), h[Len(u)])
  PROVE  StackOK([u EXCEPT ![Len(u)] = g], h, j) /\ Len([u EXCEPT ![Len(u)] = g]) = Len(u)
<1> DEFINE n == Len(u)
           v == [u EXCEPT ![n] = g]
<1>1. IsSequence(u) /\ IsSequence(h) /\ n = Len(h) /\ n \in Nat /\ DOMAIN u = 1..n /\ n > 0
  BY IsSequenceFacts, FrontFacts DEF StackOK
<1>2. /\ IsSequence(v) /\ Len(v) = n
      /\ \A k \in 1..n : v[k] = IF k = n THEN g ELSE u[k]
  <2>1. n \in DOMAIN u
    BY <1>1
  <2> QED BY <1>1, <2>1, ExceptFacts
<1>5. Len(v) = n /\ n \in Nat
  BY <1>1, <1>2
<1> HIDE DEF v
<1>3. ASSUME NEW k \in 1..n
      PROVE  FrameOK(v[k], BaseIn(v, h, j, k), h[k])
  <2>1. CASE k = n
    <3>1. v[k] = g
      BY <1>2, <2>1
    <3>0. ~(k < Len(v))
      BY <1>5, <2>1
    <3>2. BaseIn(v, h, j, k) = AppliedTo(g, j)
      BY <3>0, <3>1 DEF BaseIn
    <3> QED BY <2>1, <3>1, <3>2
  <2>2. CASE k # n
    <3>1. v[k] = u[k]
      BY <1>2, <2>2
    <3>0. k < Len(v) /\ k < Len(u)
      BY <1>5, <2>2
    <3>2. BaseIn(v, h, j, k) = BaseIn(u, h, i, k)
      BY <3>0, <3>1 DEF BaseIn
    <3> QED BY <3>1, <3>2 DEF StackOK
  <2> QED BY <2>1, <2>2
<1>4. StackOK(v, h, j)
  BY <1>1, <1>2, <1>3 DEF StackOK
<1> QED BY <1>2, <1>4 DEF v

\* An answer pushes a frame; the former newest one now applies to the index the
\* answer found.
LEMMA PushedStack ==
  ASSUME NEW u, NEW h, NEW i, NEW j, NEW g, StackOK(u, h, i), IsIndex(i),
         FrameOK(g, AppliedTo(g, j), i)
  PROVE  StackOK(Append(u, g), Append(h, i), j) /\ Len(Append(u, g)) = Len(u) + 1
<1> DEFINE n == Len(u)
           v == Append(u, g)
           w == Append(h, i)
<1>1. IsSequence(u) /\ IsSequence(h) /\ n = Len(h) /\ n \in Nat
  BY IsSequenceFacts DEF StackOK
<1>2. IsSequence(v) /\ Len(v) = n + 1 /\ v[n + 1] = g /\ \A k \in 1..n : v[k] = u[k]
  BY <1>1, AppendFacts
<1>3. IsSequence(w) /\ Len(w) = n + 1 /\ w[n + 1] = i /\ \A k \in 1..n : w[k] = h[k]
  BY <1>1, AppendFacts
<1> HIDE DEF v, w
<1>4. ASSUME NEW k \in 1..(n + 1)
      PROVE  FrameOK(v[k], BaseIn(v, w, j, k), w[k])
  <2>1. CASE k = n + 1
    <3>1. v[k] = g /\ w[k] = i /\ BaseIn(v, w, j, k) = AppliedTo(g, j)
      BY <1>1, <1>2, <1>3, <2>1 DEF BaseIn
    <3> QED BY <3>1
  <2>2. CASE k # n + 1
    <3>1. k \in 1..n /\ v[k] = u[k] /\ w[k] = h[k]
      BY <1>1, <1>2, <1>3, <2>2
    <3>2. BaseIn(v, w, j, k) = BaseIn(u, h, i, k)
      BY <1>1, <1>2, <1>3, <3>1 DEF BaseIn
    <3> QED BY <3>1, <3>2 DEF StackOK
  <2> QED BY <2>1, <2>2
<1>5. StackOK(v, w, j)
  BY <1>2, <1>3, <1>4 DEF StackOK
<1> QED BY <1>2, <1>5 DEF v, w

\* Dropping the oldest frame.
LEMMA TrimmedStack ==
  ASSUME NEW u, NEW h, NEW i, StackOK(u, h, i)
  PROVE  /\ StackOK(Trimmed(u), Trimmed(h), i)
         /\ Len(Trimmed(u)) = IF Len(u) > UndoLimit THEN Len(u) - 1 ELSE Len(u)
<1> DEFINE n == Len(u)
           v == Tail(u)
           w == Tail(h)
<1>1. IsSequence(u) /\ IsSequence(h) /\ n = Len(h) /\ n \in Nat
  BY IsSequenceFacts DEF StackOK
<1>2. CASE n <= UndoLimit
  BY <1>1, <1>2, IndexAssumption DEF Trimmed
<1>3. CASE n > UndoLimit
  <2>1. n > 0
    BY <1>1, <1>3, IndexAssumption
  <2>2. /\ IsSequence(v) /\ Len(v) = n - 1 /\ \A k \in 1..(n - 1) : v[k] = u[k + 1]
        /\ IsSequence(w) /\ Len(w) = n - 1 /\ \A k \in 1..(n - 1) : w[k] = h[k + 1]
    BY <1>1, <2>1, TailFacts
  <2>3. Trimmed(u) = v /\ Trimmed(h) = w
    BY <1>1, <1>3 DEF Trimmed
  <2> HIDE DEF v, w
  <2>4. ASSUME NEW k \in 1..(n - 1)
        PROVE  FrameOK(v[k], BaseIn(v, w, i, k), w[k])
    <3>1. k + 1 \in 1..n /\ v[k] = u[k + 1] /\ w[k] = h[k + 1]
      BY <1>1, <2>2
    <3>2. k + 1 < n => w[k + 1] = h[k + 2]
      BY <1>1, <2>2
    <3>3. BaseIn(v, w, i, k) = BaseIn(u, h, i, k + 1)
      BY <1>1, <2>2, <3>1, <3>2 DEF BaseIn
    <3> QED BY <3>1, <3>3 DEF StackOK
  <2>5. StackOK(v, w, i)
    BY <2>2, <2>4 DEF StackOK
  <2> QED BY <1>3, <2>2, <2>3, <2>5
<1> QED BY <1>1, <1>2, <1>3, IndexAssumption

\* Undoing the newest frame.
LEMMA PoppedStack ==
  ASSUME NEW u, NEW h, NEW i, StackOK(u, h, i), u # <<>>
  PROVE  LET j == Restored(i, Last(u))
         IN  /\ IsIndex(j) /\ IndexIsCoherent(j) /\ SameUniverse(j, Last(h))
             /\ j.retention = Last(h).retention /\ j.day = Last(h).day
             /\ StackOK(Front(u), Front(h), j) /\ Len(Front(u)) = Len(u) - 1
<1> DEFINE n == Len(u)
           j == Restored(i, Last(u))
           v == Front(u)
           w == Front(h)
<1>1. IsSequence(u) /\ IsSequence(h) /\ n = Len(h) /\ n \in Nat /\ n > 0 /\ h # <<>>
  BY IsSequenceFacts, FrontFacts DEF StackOK
<1>2. /\ Last(u) = u[n] /\ IsSequence(v) /\ Len(v) = n - 1 /\ \A k \in 1..(n - 1) : v[k] = u[k]
      /\ Last(h) = h[n] /\ IsSequence(w) /\ Len(w) = n - 1 /\ \A k \in 1..(n - 1) : w[k] = h[k]
  BY <1>1, FrontFacts
<1>3. FrameOK(u[n], AppliedTo(u[n], i), h[n])
  BY <1>1 DEF StackOK, BaseIn
<1>4. /\ IsIndex(j) /\ IndexIsCoherent(j) /\ SameUniverse(j, Last(h))
      /\ j.retention = Last(h).retention /\ j.day = Last(h).day
  BY <1>2, <1>3, RestoredIndex DEF FrameOK
<1> HIDE DEF v, w, j
<1>5. ASSUME NEW k \in 1..(n - 1)
      PROVE  FrameOK(v[k], BaseIn(v, w, j, k), w[k])
  <2>1. k \in 1..n /\ v[k] = u[k] /\ w[k] = h[k]
    BY <1>1, <1>2
  <2>2. FrameOK(u[k], BaseIn(u, h, i, k), h[k])
    BY <2>1 DEF StackOK
  <2>3. CASE k < n - 1 \/ u[k].before # <<>>
    <3>1. BaseIn(v, w, j, k) = BaseIn(u, h, i, k)
      BY <1>1, <1>2, <2>1, <2>3 DEF BaseIn, AppliedTo
    <3> QED BY <2>1, <2>2, <3>1
  <2>4. CASE k = n - 1 /\ u[k].before = <<>>
    <3>1. BaseIn(u, h, i, k) = h[n] /\ BaseIn(v, w, j, k) = j
      BY <1>1, <1>2, <2>1, <2>4 DEF BaseIn, AppliedTo
    <3>2. FrameRestores(u[k], j, h[k])
      BY <1>2, <1>4, <2>2, <3>1, PaddedRestores DEF FrameOK, IndexIsCoherent
    <3> QED BY <1>4, <2>1, <2>2, <3>1, <3>2 DEF FrameOK
  <2> QED BY <1>1, <2>3, <2>4
<1>6. StackOK(v, w, j)
  BY <1>2, <1>5 DEF StackOK
<1> QED BY <1>2, <1>4, <1>6 DEF v, w, j

-------------------------------------------------------------------------------
(* Complete universes.                                                     *)

\* A complete universe of distinct predicted cards is a coherent index.
LEMMA UniverseFacts ==
  ASSUME NEW slots \in Seq(Candidate), NEW d \in Nat, NEW r \in Int,
         \A s \in DOMAIN slots : slots[s].status = "active",
         \A s, t \in DOMAIN slots : slots[s].card = slots[t].card => s = t
  PROVE  LET i == Universe(slots, d, r)
         IN  IsIndex(i) /\ IndexIsCoherent(i) /\ i.retention = r
<1> DEFINE map == [c \in Cards |->
                     IF \E s \in DOMAIN slots : slots[s].card = c
                     THEN CHOOSE s \in DOMAIN slots : slots[s].card = c ELSE Absent]
           i == [slots |-> slots, eligible |-> <<>>, ordered |-> <<>>, retention |-> r,
                 day |-> d, slotOf |-> map]
           k == Recomputed(i)
<1>1. map \in [Cards -> {Absent} \cup DOMAIN slots]
  OBVIOUS
<1>2. \A c \in Cards : map[c] # Absent => map[c] \in DOMAIN slots /\ slots[map[c]].card = c
  OBVIOUS
<1>3. \A s \in DOMAIN slots : slots[s].card \in Cards
  <2>1. \A s \in DOMAIN slots : slots[s] \in Candidate
    BY SeqFacts
  <2> QED BY <2>1 DEF Candidate
<1>4. \A s \in DOMAIN slots : map[slots[s].card] = s
  BY <1>3
<1>5. Universe(slots, d, r) = Rebuilt(k)
  BY DEF Universe
<1> HIDE DEF map
<1>6. IsUnflagged(i)
  BY <1>1 DEF IsUnflagged
<1>7. /\ IsIndex(k) /\ FlagsAreCurrent(k) /\ k.slots = slots /\ k.slotOf = map
      /\ k.retention = r
  BY <1>6, RecomputedFacts
<1> HIDE DEF k
<1>8. MapMatches(k)
  <2>1. \A s \in Slots(k) : IsLive(k, s)
    BY <1>7 DEF IsLive, Slots
  <2>2. \A c \in Cards : k.slotOf[c] # Absent =>
              IsLive(k, k.slotOf[c]) /\ k.slots[k.slotOf[c]].card = c
    BY <1>2, <1>7, <2>1 DEF Slots
  <2>3. \A s \in Slots(k) : k.slotOf[k.slots[s].card] = s
    BY <1>4, <1>7 DEF Slots
  <2> QED BY <1>7, <2>2, <2>3, MapIntro
<1>9. IndexIsCoherent(k)
  BY <1>7, <1>8 DEF IndexIsCoherent
<1> QED BY <1>5, <1>7, <1>9, RebuiltFacts, CoherentButOrder DEF SameButOrder

-------------------------------------------------------------------------------
(* One slot changed.                                                       *)

\* j is i but for what it says of slot s, which now holds e, and of its card.
SlotReplaced(i, j, c, s, e) ==
  /\ DOMAIN j = DOMAIN i /\ j = [x \in DOMAIN j |-> j[x]]
  /\ j.slots = [i.slots EXCEPT ![s] = e]
  /\ j.slotOf = [i.slotOf EXCEPT ![c] = IF e.status = "removed" THEN Absent ELSE s]
  /\ DOMAIN j.eligible = Slots(i) /\ j.eligible = [t \in Slots(i) |-> j.eligible[t]]
  /\ \A t \in Slots(i) \ {s} : j.eligible[t] = i.eligible[t]
  /\ j.eligible[s] \in BOOLEAN
  /\ RevisitsRetention \/ j.eligible[s] = EligibleAt(e, i.retention)
  /\ j.retention = i.retention /\ j.day = i.day

\* j is a coherent index that differs from i in slot s alone.
StaysCoherent(i, j, s) ==
  /\ IsIndex(j) /\ IndexIsCoherent(j)
  /\ Slots(j) = Slots(i) /\ IsLive(i, s) /\ s \in Slots(i)
  /\ \A t \in Slots(i) : j.slots[t].card = i.slots[t].card
  /\ \A t \in Slots(i) \ {s} : j.slots[t] = i.slots[t] /\ j.eligible[t] = i.eligible[t]

\* Changing the one live slot of a card, its map entry and its flag together
\* keeps the index coherent.
LEMMA OneSlot ==
  ASSUME NEW i, NEW j, NEW c \in Cards, NEW s, NEW e \in Candidate,
         IsIndex(i), IndexIsCoherent(i), s = i.slotOf[c], s # Absent, e.card = c,
         SlotReplaced(i, j, c, s, e)
  PROVE  StaysCoherent(i, j, s)
<1> USE DEF SlotReplaced
<1>1. MapMatches(i) /\ (RevisitsRetention \/ FlagsAreCurrent(i))
  BY DEF IndexIsCoherent
<1>2. IsLive(i, s) /\ s \in Slots(i) /\ i.slots[s].card = c
  BY <1>1, MapFacts DEF IsLive
<1>3. /\ Slots(j) = Slots(i) /\ j.slots \in Seq(Candidate)
      /\ j.slots[s] = e /\ \A t \in Slots(i) \ {s} : j.slots[t] = i.slots[t]
  BY <1>2 DEF Slots, IsIndex
<1>4. j.slotOf \in [Cards -> {Absent} \cup Slots(i)]
  <2>1. i.slotOf \in [Cards -> {Absent} \cup Slots(i)]
    BY DEF IsIndex, Slots
  <2> QED BY <1>2, <2>1
<1>5. j.eligible \in [Slots(i) -> BOOLEAN]
  BY IndexFacts
<1>6. j = [slots |-> j.slots, slotOf |-> j.slotOf, eligible |-> j.eligible,
           ordered |-> j.ordered, retention |-> j.retention, day |-> j.day]
  BY IndexIsUnflagged, IndexDomain, IndexRecord
<1>7. IsIndex(j)
  <2>1. i.retention \in Int /\ i.day \in Nat
    BY DEF IsIndex
  <2> QED BY <1>3, <1>4, <1>5, <1>6, <2>1 DEF IsIndex, Slots
<1>8. \A t \in Slots(i) : j.slots[t].card = i.slots[t].card
  BY <1>2, <1>3
<1>9. MapMatches(j)
  <2>1. \A t \in Slots(i) \ {s} : IsLive(j, t) <=> IsLive(i, t)
    BY <1>3 DEF IsLive
  <2>2. IsLive(j, s) <=> e.status # "removed"
    BY <1>2, <1>3 DEF IsLive
  <2>3. j.slotOf[c] = (IF e.status = "removed" THEN Absent ELSE s)
        /\ \A b \in Cards \ {c} : j.slotOf[b] = i.slotOf[b]
    BY DEF IsIndex
  <2>4. \A b \in Cards : j.slotOf[b] # Absent =>
              IsLive(j, j.slotOf[b]) /\ j.slots[j.slotOf[b]].card = b
    <3> SUFFICES ASSUME NEW b \in Cards, j.slotOf[b] # Absent
                 PROVE  IsLive(j, j.slotOf[b]) /\ j.slots[j.slotOf[b]].card = b
      OBVIOUS
    <3>1. CASE b = c
      BY <1>2, <1>3, <2>2, <2>3, <3>1
    <3>2. CASE b # c
      <4>1. IsLive(i, i.slotOf[b]) /\ i.slots[i.slotOf[b]].card = b /\ i.slotOf[b] \in Slots(i)
        BY <1>1, <2>3, <3>2, MapFacts DEF IsLive
      <4>2. i.slotOf[b] # s
        BY <1>2, <3>2, <4>1
      <4> QED BY <1>3, <2>1, <2>3, <3>2, <4>1, <4>2
    <3> QED BY <3>1, <3>2
  <2>5. \A t \in Slots(j) : IsLive(j, t) => j.slotOf[j.slots[t].card] = t
    <3> SUFFICES ASSUME NEW t \in Slots(i), IsLive(j, t)
                 PROVE  j.slotOf[j.slots[t].card] = t
      BY <1>3
    <3>1. CASE t = s
      BY <1>3, <2>2, <2>3, <3>1
    <3>2. CASE t # s
      <4>1. IsLive(i, t) /\ i.slotOf[i.slots[t].card] = t /\ i.slots[t].card \in Cards
        BY <1>1, <2>1, <3>2, MapFacts, IndexFacts DEF Candidate
      <4>2. i.slots[t].card # c
        BY <3>2, <4>1
      <4> QED BY <1>3, <2>3, <3>2, <4>1, <4>2
    <3> QED BY <3>1, <3>2
  <2> QED BY <1>7, <2>4, <2>5, MapIntro
<1>10. RevisitsRetention \/ FlagsAreCurrent(j)
  BY <1>1, <1>3 DEF FlagsAreCurrent
<1> QED BY <1>2, <1>3, <1>7, <1>8, <1>9, <1>10 DEF IndexIsCoherent, StaysCoherent

-------------------------------------------------------------------------------
(* Every action keeps the invariant.                                       *)

\* advance_generation moves the generation forward.
LEMMA AdvanceFacts ==
  ASSUME IInv, Advance
  PROVE  generation' \in Nat /\ generation' > generation
BY Unfold DEF Advance

\* process_answer pushes a frame that restores what it found.
LEMMA AnswerStep ==
  ASSUME IInv, NEW c \in Cards, NEW d \in Days, NEW requeue \in BOOLEAN,
         Answer(c, d, requeue)
  PROVE  IInv'
<1> DEFINE s == index.slotOf[c]
           e == Answered(index.slots[s], d, requeue)
           j == [index EXCEPT !.slots[s] = Answered(@, d, requeue), !.eligible[s] = FALSE,
                              !.slotOf[c] = IF requeue THEN @ ELSE Absent]
           f == Capture(index, s)
<1>1. /\ IsIndex(index) /\ IndexIsCoherent(index) /\ StackOK(undo, history, index)
      /\ Len(undo) <= UndoLimit
  BY Unfold
<1>2. /\ s # Absent /\ index' = Reordered(j, {s}, FALSE)
      /\ undo' = Trimmed(Append(undo, f)) /\ history' = Trimmed(Append(history, index))
      /\ generation' \in Nat
  BY AdvanceFacts DEF Answer
<1>3. s \in Slots(index) /\ index.slots[s] \in Candidate /\ index.slots[s].card = c
      /\ index.eligible \in [Slots(index) -> BOOLEAN]
  BY <1>1, <1>2, MapFacts, IndexFacts DEF IndexIsCoherent, IsLive, IsIndex, Slots
<1>4. e \in Candidate /\ e.card = c /\ (e.status = "removed" <=> ~requeue) /\ ~IsUsable(e)
  <2>1. d \in Nat
    BY IndexAssumption
  <2> QED BY <1>3, <2>1, AnsweredFacts
<1>5. DOMAIN index = {"slots", "slotOf", "eligible", "ordered", "retention", "day"}
  BY <1>1, IndexIsUnflagged, IndexDomain
<1>6. /\ DOMAIN j = DOMAIN index /\ j = [x \in DOMAIN j |-> j[x]]
      /\ j.slots = [index.slots EXCEPT ![s] = e]
      /\ j.slotOf = [index.slotOf EXCEPT ![c] = IF requeue THEN s ELSE Absent]
      /\ j.eligible = [index.eligible EXCEPT ![s] = FALSE]
      /\ j.retention = index.retention /\ j.day = index.day
  BY <1>5
<1> HIDE DEF j, e
<1>7. /\ IsIndex(j) /\ IndexIsCoherent(j)
      /\ Slots(j) = Slots(index) /\ IsLive(index, s)
      /\ \A t \in Slots(index) : j.slots[t].card = index.slots[t].card
      /\ \A t \in Slots(index) \ {s} : j.slots[t] = index.slots[t]
                                       /\ j.eligible[t] = index.eligible[t]
  <2>1. j.slotOf = [index.slotOf EXCEPT ![c] = IF e.status = "removed" THEN Absent ELSE s]
    BY <1>4, <1>6
  <2>2. /\ DOMAIN j.eligible = Slots(index)
        /\ j.eligible = [t \in Slots(index) |-> j.eligible[t]]
        /\ \A t \in Slots(index) \ {s} : j.eligible[t] = index.eligible[t]
    BY <1>3, <1>6
  <2>3. j.eligible[s] = FALSE
    BY <1>3, <1>6
  <2>4. EligibleAt(e, index.retention) = FALSE
    BY <1>4, PendingNotEligible DEF IsUsable
  <2>5. j.eligible[s] \in BOOLEAN /\ j.eligible[s] = EligibleAt(e, index.retention)
    BY <2>3, <2>4
  <2>6. /\ DOMAIN j = DOMAIN index /\ j = [x \in DOMAIN j |-> j[x]]
        /\ j.slots = [index.slots EXCEPT ![s] = e]
        /\ j.retention = index.retention /\ j.day = index.day
    BY <1>6
  <2>7. IsIndex(index) /\ IndexIsCoherent(index) /\ s # Absent /\ e \in Candidate /\ e.card = c
    BY <1>1, <1>2, <1>4
  <2> HIDE DEF s
  <2>8. s = index.slotOf[c]
    BY DEF s
  <2>9. SlotReplaced(index, j, c, s, e)
    BY ONLY <2>1, <2>2, <2>5, <2>6 DEF SlotReplaced
  <2>10. StaysCoherent(index, j, s)
    BY ONLY c \in Cards, <2>7, <2>8, <2>9, OneSlot
  <2> QED BY ONLY <2>10 DEF StaysCoherent
<1>8. IsIndex(index') /\ IndexIsCoherent(index') /\ SameButOrder(index', j)
  BY <1>2, <1>7, ReorderedFacts, CoherentButOrder
<1>9. FrameOK(f, AppliedTo(f, index'), index)
  <2>1. /\ Slots(index') = Slots(index)
        /\ \A t \in Slots(index) : index'.slots[t].card = index.slots[t].card
        /\ \A t \in Slots(index) \ {s} : index'.slots[t] = index.slots[t]
                                         /\ index'.eligible[t] = index.eligible[t]
    BY <1>7, <1>8 DEF SameButOrder, Slots
  <2>2. IsFrame(f) /\ FrameRestores(f, index', index)
    BY <1>1, <1>7, <1>8, <2>1, CaptureRestores DEF IndexIsCoherent
  <2>3. AppliedTo(f, index') = index'
    BY DEF AppliedTo, Capture
  <2> QED BY <1>1, <1>8, <2>2, <2>3 DEF FrameOK
<1>10. StackOK(Append(undo, f), Append(history, index), index')
       /\ Len(Append(undo, f)) = Len(undo) + 1
  BY <1>1, <1>9, PushedStack
<1>11. StackOK(undo', history', index')
  BY <1>2, <1>10, TrimmedStack
<1>12. Len(undo') <= UndoLimit
  <2>1. Len(undo') = IF Len(undo) + 1 > UndoLimit THEN Len(undo) ELSE Len(undo) + 1
    <3>1. Len(undo) \in Nat
      BY <1>1, IsSequenceFacts DEF StackOK
    <3>2. Len(Trimmed(Append(undo, f)))
            = IF Len(Append(undo, f)) > UndoLimit THEN Len(Append(undo, f)) - 1
              ELSE Len(Append(undo, f))
      BY <1>10, TrimmedStack
    <3> QED BY <1>2, <1>10, <3>1, <3>2
  <2>2. Len(undo) \in Nat
    BY <1>1, IsSequenceFacts DEF StackOK
  <2> QED BY <1>1, <2>1, <2>2, IndexAssumption
<1> QED BY <1>2, <1>8, <1>11, <1>12, FoldNext

\* undo_last_answer pops a frame and restores what it saved.
LEMMA UndoStep ==
  ASSUME IInv, Undo
  PROVE  /\ IInv'
         /\ SameUniverse(index', Last(history))
         /\ index'.retention = Last(history).retention /\ index'.day = Last(history).day
<1>1. StackOK(undo, history, index) /\ Len(undo) <= UndoLimit /\ Len(undo) \in Nat
  BY Unfold, IsSequenceFacts DEF StackOK
<1>2. /\ undo # <<>> /\ index' = Restored(index, Last(undo))
      /\ undo' = Front(undo) /\ history' = Front(history) /\ generation' \in Nat
  BY AdvanceFacts DEF Undo
<1>3. /\ IsIndex(index') /\ IndexIsCoherent(index') /\ SameUniverse(index', Last(history))
      /\ index'.retention = Last(history).retention /\ index'.day = Last(history).day
      /\ StackOK(undo', history', index') /\ Len(undo') = Len(undo) - 1
  BY <1>1, <1>2, PoppedStack
<1>4. Len(undo') <= UndoLimit
  BY <1>1, <1>3, IndexAssumption
<1> QED BY <1>2, <1>3, <1>4, FoldNext

\* What every mutation that keeps the stack has to show of the newest frame.
LEMMA RecordedStep ==
  ASSUME IInv, NEW g, IsIndex(index'), IndexIsCoherent(index'), Advance,
         undo' = WithNewest(g), history' = history,
         undo # <<>> => FrameOK(g, AppliedTo(g, index'), history[Len(undo)])
  PROVE  IInv'
<1>1. /\ StackOK(undo, history, index) /\ Len(undo) <= UndoLimit /\ generation' \in Nat
  BY Unfold, AdvanceFacts
<1>2. CASE undo = <<>>
  <2>1. undo' = undo
    BY <1>2 DEF WithNewest
  <2>2. Len(undo) = 0
    BY <1>2
  <2>3. StackOK(undo', history', index')
    BY <1>1, <2>1, <2>2 DEF StackOK
  <2> QED BY <1>1, <2>1, <2>3, FoldNext
<1>3. CASE undo # <<>>
  <2>1. undo' = [undo EXCEPT ![Len(undo)] = g]
    BY <1>3 DEF WithNewest
  <2>2. StackOK([undo EXCEPT ![Len(undo)] = g], history, index')
        /\ Len([undo EXCEPT ![Len(undo)] = g]) = Len(undo)
    BY <1>1, <1>3, NewestStack
  <2>3. StackOK(undo', history', index') /\ Len(undo') = Len(undo)
    BY <2>1, <2>2
  <2> QED BY <1>1, <2>3, FoldNext
<1> QED BY <1>2, <1>3

\* The newest frame, and the index it applies to.
LEMMA NewestFacts ==
  ASSUME IInv, undo # <<>>
  PROVE  FrameOK(Newest, AppliedTo(Newest, index), history[Len(undo)])
<1>1. StackOK(undo, history, index) /\ Len(undo) \in Nat /\ Len(undo) > 0
  BY Unfold, IsSequenceFacts, FrontFacts DEF StackOK
<1> QED BY <1>1 DEF StackOK, BaseIn, Newest

\* A frame that saw its universe replaced records nothing more.
LEMMA ReconciledFrame ==
  ASSUME NEW f, NEW i, NEW j, NEW h, FrameOK(f, AppliedTo(f, i), h), f.before # <<>>
  PROVE  FrameOK(f, AppliedTo(f, j), h)
BY DEF AppliedTo

\* Replacing one field of a frame leaves the others.
LEMMA FrameRecord ==
  ASSUME NEW f, IsFrame(f), NEW x
  PROVE  /\ LET g == [f EXCEPT !.full = x]
            IN  g = [f EXCEPT !.full = g.full] /\ g.full = x /\ g.before = f.before
         /\ LET g == [f EXCEPT !.refresh = x]
            IN  g = [f EXCEPT !.refresh = g.refresh] /\ g.refresh = x /\ g.before = f.before
         /\ LET g == [f EXCEPT !.before = x]
            IN  /\ g.before = x /\ g.full = f.full /\ g.refresh = f.refresh
                /\ g.retention = f.retention /\ g.day = f.day
                /\ g = [retention |-> f.retention, day |-> f.day, full |-> f.full,
                        refresh |-> f.refresh, before |-> x]
BY DEF IsFrame

\* record_slot of live slots and record_new_slot of the slots j adds, whatever
\* the frame has seen before.
LEMMA RecordedFrame ==
  ASSUME NEW f, NEW i, NEW j, NEW h, NEW S,
         IsIndex(i), IsIndex(j), IndexIsCoherent(j),
         FrameOK(f, AppliedTo(f, i), h),
         Slots(i) \subseteq Slots(j), S \subseteq LiveSlots(i),
         j.retention = i.retention,
         \A s \in Slots(i) : j.slots[s].card = i.slots[s].card,
         \A s \in Slots(i) \ S : j.slots[s] = i.slots[s] /\ j.eligible[s] = i.eligible[s]
  PROVE  LET g == RecordNew(RecordSlots(f, i, S), Slots(j) \ Slots(i))
         IN  FrameOK(g, AppliedTo(g, j), h)
<1> DEFINE N == Slots(j) \ Slots(i)
           k == RecordSlots(f, i, S)
           g == RecordNew(k, N)
<1>1. CASE f.before # <<>>
  <2>1. g = f
    BY <1>1 DEF RecordSlots, RecordNew
  <2> QED BY <1>1, <2>1, ReconciledFrame
<1>2. CASE f.before = <<>>
  <2> DEFINE v == [s \in S |-> FullValue(f, i, s)]
             w == [s \in N |-> New]
  <2>1. k = [f EXCEPT !.full = OrElse(f.full, v)]
    BY <1>2 DEF RecordSlots
  <2> HIDE DEF v, k
  <2>2. IsFrame(f) /\ AppliedTo(f, i) = i /\ FrameRestores(f, i, h) /\ IsIndex(h)
        /\ IndexIsCoherent(h)
    BY <1>2 DEF FrameOK, AppliedTo
  <2>3. k.full = OrElse(f.full, v) /\ k.before = <<>>
    BY <1>2, <2>1, <2>2, FrameRecord
  <2>4. g = [k EXCEPT !.full = OrElse(k.full, w)]
    BY <2>3 DEF RecordNew
  <2> HIDE DEF w, g
  <2>5. g = [f EXCEPT !.full = g.full] /\ g.full = OrElse(OrElse(f.full, v), w)
        /\ g.before = <<>>
    <3>1. [[f EXCEPT !.full = OrElse(f.full, v)] EXCEPT !.full = OrElse(k.full, w)]
            = [f EXCEPT !.full = OrElse(k.full, w)]
      BY <2>2 DEF IsFrame
    <3>2. g = [f EXCEPT !.full = OrElse(k.full, w)]
      BY <2>1, <2>4, <3>1
    <3> QED BY <1>2, <2>2, <2>3, <3>2, FrameRecord
  <2>6. DOMAIN v = S /\ DOMAIN w = N
    BY DEF v, w
  <2>7. DOMAIN g.full = DOMAIN f.full \cup S \cup N
    BY <2>5, <2>6 DEF OrElse
  <2>8. S \subseteq Slots(i) /\ DOMAIN f.full \subseteq Slots(i)
    BY <2>2 DEF LiveSlots, FrameRestores, DeltasAreLive
  <2>9. \A s \in DOMAIN f.full : g.full[s] = f.full[s]
    BY <2>5, <2>6 DEF OrElse
  <2>10. \A s \in S \ DOMAIN f.full : g.full[s] = FullValue(f, i, s)
    <3>1. \A s \in S : v[s] = FullValue(f, i, s)
      BY DEF v
    <3>2. \A s \in S \ DOMAIN f.full : g.full[s] = v[s]
      BY <2>5, <2>6 DEF OrElse
    <3> QED BY <3>1, <3>2
  <2>11. \A s \in N : g.full[s] = New
    <3>1. \A s \in N : w[s] = New
      BY DEF w
    <3>2. \A s \in N : g.full[s] = w[s]
      BY <2>5, <2>6, <2>8 DEF OrElse
    <3> QED BY <3>1, <3>2
  <2>12. IsFrame(g) /\ FrameRestores(g, j, h)
    <3>1. OnlyChanged(i, j, S)
      BY DEF OnlyChanged
    <3>2. SlotsRecorded(f, g, i, S, Slots(j) \ Slots(i))
      BY ONLY <2>5, <2>7, <2>9, <2>10, <2>11 DEF SlotsRecorded
    <3> QED BY ONLY IsIndex(i), IsIndex(j), <2>2, <3>1, <3>2, RecordedRestores
  <2>13. AppliedTo(g, j) = j
    BY <2>5 DEF AppliedTo
  <2> QED BY <2>2, <2>12, <2>13 DEF FrameOK, g, k
<1> QED BY <1>1, <1>2

\* The same when no slot is added.
LEMMA RecordedSlotsFrame ==
  ASSUME NEW f, NEW i, NEW j, NEW h, NEW S,
         IsIndex(i), IsIndex(j), IndexIsCoherent(j),
         FrameOK(f, AppliedTo(f, i), h),
         Slots(j) = Slots(i), S \subseteq LiveSlots(i),
         j.retention = i.retention,
         \A s \in Slots(i) : j.slots[s].card = i.slots[s].card,
         \A s \in Slots(i) \ S : j.slots[s] = i.slots[s] /\ j.eligible[s] = i.eligible[s]
  PROVE  LET g == RecordSlots(f, i, S)
         IN  FrameOK(g, AppliedTo(g, j), h)
<1> DEFINE g == RecordSlots(f, i, S)
<1>1. CASE f.before # <<>>
  <2>1. g = f
    BY <1>1 DEF RecordSlots
  <2> QED BY <1>1, <2>1, ReconciledFrame
<1>2. CASE f.before = <<>>
  <2> DEFINE v == [s \in S |-> FullValue(f, i, s)]
  <2>1. g = [f EXCEPT !.full = OrElse(f.full, v)]
    BY <1>2 DEF RecordSlots
  <2> HIDE DEF v, g
  <2>2. IsFrame(f) /\ AppliedTo(f, i) = i /\ FrameRestores(f, i, h) /\ IsIndex(h)
        /\ IndexIsCoherent(h)
    BY <1>2 DEF FrameOK, AppliedTo
  <2>3. g = [f EXCEPT !.full = g.full] /\ g.full = OrElse(f.full, v) /\ g.before = <<>>
    BY <1>2, <2>1, <2>2, FrameRecord
  <2>4. DOMAIN v = S /\ \A s \in S : v[s] = FullValue(f, i, s)
    BY DEF v
  <2>5. DOMAIN g.full = DOMAIN f.full \cup S \cup (Slots(j) \ Slots(i))
    BY <2>3, <2>4 DEF OrElse
  <2>6. \A s \in DOMAIN f.full : g.full[s] = f.full[s]
    BY <2>3, <2>4 DEF OrElse
  <2>7. \A s \in S \ DOMAIN f.full : g.full[s] = FullValue(f, i, s)
    BY <2>3, <2>4 DEF OrElse
  <2>8. IsFrame(g) /\ FrameRestores(g, j, h)
    <3>1. OnlyChanged(i, j, S) /\ Slots(j) \ Slots(i) = {}
      BY DEF OnlyChanged
    <3>2. SlotsRecorded(f, g, i, S, Slots(j) \ Slots(i))
      BY ONLY <2>3, <2>5, <2>6, <2>7, <3>1 DEF SlotsRecorded
    <3> QED BY ONLY IsIndex(i), IsIndex(j), <2>2, <3>1, <3>2, RecordedRestores
  <2>9. AppliedTo(g, j) = j
    BY <2>3 DEF AppliedTo
  <2> QED BY <2>2, <2>8, <2>9 DEF FrameOK, g
<1> QED BY <1>1, <1>2

\* A status change of one card, recorded in the newest frame.
LEMMA SetStatusStep ==
  ASSUME IInv, NEW c \in Cards, NEW t \in Statuses, SetStatus(c, t),
         StatusOf(c) # "removed" => t # "removed",
         t \in {"active", "excluded"} <=> StatusOf(c) \in {"active", "excluded"}
  PROVE  IInv'
<1> DEFINE s == index.slotOf[c]
           e == [index.slots[s] EXCEPT !.status = t]
           j == [index EXCEPT !.slots[s].status = t]
<1>1. IsIndex(index) /\ IndexIsCoherent(index)
  BY Unfold
<1>2. /\ s # Absent /\ index' = j /\ history' = history /\ Advance
      /\ undo' = WithNewest(RecordSlots(Newest, index, {s}))
  BY DEF SetStatus
<1>3. s \in Slots(index) /\ index.slots[s] \in Candidate /\ index.slots[s].card = c
      /\ index.slots[s].status # "removed" /\ IsLive(index, s)
      /\ index.eligible \in [Slots(index) -> BOOLEAN]
  BY <1>1, <1>2, MapFacts, IndexFacts DEF IndexIsCoherent, IsLive, IsIndex, Slots
<1>4. e \in Candidate /\ e.card = c /\ e.status = t /\ t # "removed"
  BY <1>3, StatusFacts DEF StatusOf
<1>5. EligibleAt(e, index.retention) = EligibleAt(index.slots[s], index.retention)
  BY <1>3, EligibleOfStatus DEF StatusOf
<1>6. DOMAIN index = {"slots", "slotOf", "eligible", "ordered", "retention", "day"}
  BY <1>1, IndexIsUnflagged, IndexDomain
<1>7. /\ DOMAIN j = DOMAIN index /\ j = [x \in DOMAIN j |-> j[x]]
      /\ j.slots = [index.slots EXCEPT ![s] = e]
      /\ j.slotOf = index.slotOf /\ j.eligible = index.eligible
      /\ j.retention = index.retention /\ j.day = index.day
  BY <1>6
<1> HIDE DEF j, e
<1>8. /\ IsIndex(j) /\ IndexIsCoherent(j) /\ Slots(j) = Slots(index)
      /\ \A u \in Slots(index) : j.slots[u].card = index.slots[u].card
      /\ \A u \in Slots(index) \ {s} : j.slots[u] = index.slots[u]
                                       /\ j.eligible[u] = index.eligible[u]
  <2>1. j.slotOf = [index.slotOf EXCEPT ![c] = IF e.status = "removed" THEN Absent ELSE s]
    <3>1. index.slotOf \in [Cards -> {Absent} \cup Slots(index)]
      BY <1>1 DEF IsIndex, Slots
    <3> QED BY <1>4, <1>7, <3>1
  <2>2. /\ DOMAIN j.eligible = Slots(index)
        /\ j.eligible = [u \in Slots(index) |-> j.eligible[u]]
        /\ \A u \in Slots(index) \ {s} : j.eligible[u] = index.eligible[u]
        /\ j.eligible[s] \in BOOLEAN
    BY <1>3, <1>7
  <2>3. RevisitsRetention \/ j.eligible[s] = EligibleAt(e, index.retention)
    BY <1>1, <1>3, <1>5, <1>7 DEF IndexIsCoherent, FlagsAreCurrent
  <2>4. /\ DOMAIN j = DOMAIN index /\ j = [x \in DOMAIN j |-> j[x]]
        /\ j.slots = [index.slots EXCEPT ![s] = e]
        /\ j.retention = index.retention /\ j.day = index.day
    BY <1>7
  <2>5. IsIndex(index) /\ IndexIsCoherent(index) /\ s # Absent /\ e \in Candidate /\ e.card = c
    BY <1>1, <1>2, <1>4
  <2> HIDE DEF s
  <2>6. s = index.slotOf[c]
    BY DEF s
  <2>7. SlotReplaced(index, j, c, s, e)
    BY ONLY <2>1, <2>2, <2>3, <2>4 DEF SlotReplaced
  <2>8. StaysCoherent(index, j, s)
    BY ONLY c \in Cards, <2>5, <2>6, <2>7, OneSlot
  <2> QED BY ONLY <2>8 DEF StaysCoherent
<1>9. undo # <<>> => FrameOK(RecordSlots(Newest, index, {s}),
                             AppliedTo(RecordSlots(Newest, index, {s}), j), history[Len(undo)])
  <2> HAVE undo # <<>>
  <2>1. FrameOK(Newest, AppliedTo(Newest, index), history[Len(undo)])
    BY NewestFacts
  <2>2. {s} \subseteq LiveSlots(index)
    BY <1>3 DEF LiveSlots
  <2> QED BY <1>1, <1>7, <1>8, <2>1, <2>2, RecordedSlotsFrame
<1> QED BY <1>2, <1>8, <1>9, RecordedStep

\* exclude_card and include_card.
LEMMA ExcludeStep ==
  ASSUME IInv, NEW c \in Cards, ExcludeCard(c) \/ IncludeCard(c)
  PROVE  IInv'
<1>1. StatusOf(c) \in Statuses
  <2>1. IsIndex(index) /\ IndexIsCoherent(index) /\ index.slotOf[c] # Absent
    BY Unfold DEF ExcludeCard, IncludeCard, SetStatus
  <2>2. index.slots[index.slotOf[c]] \in Candidate
    BY <2>1, IndexFacts
  <2> QED BY <2>2 DEF StatusOf, Candidate
<1>2. /\ Excluded(StatusOf(c)) \in Statuses /\ Included(StatusOf(c)) \in Statuses
      /\ StatusOf(c) # "removed" =>
           Excluded(StatusOf(c)) # "removed" /\ Included(StatusOf(c)) # "removed"
      /\ StatusOf(c) \in {"active", "excluded"} <=>
           Excluded(StatusOf(c)) \in {"active", "excluded"}
      /\ StatusOf(c) \in {"active", "excluded"} <=>
           Included(StatusOf(c)) \in {"active", "excluded"}
  BY <1>1, ExcludedFacts
<1>3. CASE ExcludeCard(c)
  BY <1>2, <1>3, SetStatusStep DEF ExcludeCard
<1>4. CASE IncludeCard(c)
  BY <1>2, <1>4, SetStatusStep DEF IncludeCard
<1> QED BY <1>3, <1>4

\* remove_card leaves a recorded tombstone.
LEMMA RemoveStep ==
  ASSUME IInv, NEW c \in Cards, RemoveCard(c)
  PROVE  IInv'
<1> DEFINE s == index.slotOf[c]
           e == [index.slots[s] EXCEPT !.status = "removed"]
           j == [index EXCEPT !.slots[s].status = "removed", !.eligible[s] = FALSE,
                              !.slotOf[c] = Absent]
<1>1. IsIndex(index) /\ IndexIsCoherent(index)
  BY Unfold
<1>2. /\ s # Absent /\ index' = Reordered(j, {s}, FALSE) /\ history' = history /\ Advance
      /\ undo' = WithNewest(RecordSlots(Newest, index, {s}))
  BY DEF RemoveCard
<1>3. s \in Slots(index) /\ index.slots[s] \in Candidate /\ index.slots[s].card = c
      /\ IsLive(index, s) /\ index.eligible \in [Slots(index) -> BOOLEAN]
  BY <1>1, <1>2, MapFacts, IndexFacts DEF IndexIsCoherent, IsLive, IsIndex, Slots
<1>4. e \in Candidate /\ e.card = c /\ e.status = "removed"
  <2>1. "removed" \in Statuses
    BY DEF Statuses
  <2> QED BY <1>3, <2>1, StatusFacts
<1>6. DOMAIN index = {"slots", "slotOf", "eligible", "ordered", "retention", "day"}
  BY <1>1, IndexIsUnflagged, IndexDomain
<1>7. /\ DOMAIN j = DOMAIN index /\ j = [x \in DOMAIN j |-> j[x]]
      /\ j.slots = [index.slots EXCEPT ![s] = e]
      /\ j.slotOf = [index.slotOf EXCEPT ![c] = Absent]
      /\ j.eligible = [index.eligible EXCEPT ![s] = FALSE]
      /\ j.retention = index.retention /\ j.day = index.day
  BY <1>6
<1> HIDE DEF j, e
<1>8. /\ IsIndex(j) /\ IndexIsCoherent(j) /\ Slots(j) = Slots(index)
      /\ \A u \in Slots(index) : j.slots[u].card = index.slots[u].card
      /\ \A u \in Slots(index) \ {s} : j.slots[u] = index.slots[u]
                                       /\ j.eligible[u] = index.eligible[u]
  <2>1. j.slotOf = [index.slotOf EXCEPT ![c] = IF e.status = "removed" THEN Absent ELSE s]
    BY <1>4, <1>7
  <2>2. /\ DOMAIN j.eligible = Slots(index)
        /\ j.eligible = [u \in Slots(index) |-> j.eligible[u]]
        /\ \A u \in Slots(index) \ {s} : j.eligible[u] = index.eligible[u]
    BY <1>3, <1>7
  <2>3. j.eligible[s] = FALSE
    BY <1>3, <1>7
  <2>4. EligibleAt(e, index.retention) = FALSE
    BY <1>4, PendingNotEligible
  <2>5. j.eligible[s] \in BOOLEAN /\ j.eligible[s] = EligibleAt(e, index.retention)
    BY <2>3, <2>4
  <2>6. /\ DOMAIN j = DOMAIN index /\ j = [x \in DOMAIN j |-> j[x]]
        /\ j.slots = [index.slots EXCEPT ![s] = e]
        /\ j.retention = index.retention /\ j.day = index.day
    BY <1>7
  <2>7. IsIndex(index) /\ IndexIsCoherent(index) /\ s # Absent /\ e \in Candidate /\ e.card = c
    BY <1>1, <1>2, <1>4
  <2> HIDE DEF s
  <2>8. s = index.slotOf[c]
    BY DEF s
  <2>9. SlotReplaced(index, j, c, s, e)
    BY ONLY <2>1, <2>2, <2>5, <2>6 DEF SlotReplaced
  <2>10. StaysCoherent(index, j, s)
    BY ONLY c \in Cards, <2>7, <2>8, <2>9, OneSlot
  <2> QED BY ONLY <2>10 DEF StaysCoherent
<1>9. IsIndex(index') /\ IndexIsCoherent(index') /\ SameButOrder(index', j)
  BY <1>2, <1>8, ReorderedFacts, CoherentButOrder
<1>10. /\ Slots(index') = Slots(index) /\ index'.retention = index.retention
       /\ \A u \in Slots(index) : index'.slots[u].card = index.slots[u].card
       /\ \A u \in Slots(index) \ {s} : index'.slots[u] = index.slots[u]
                                        /\ index'.eligible[u] = index.eligible[u]
  <2>1. /\ index'.slots = j.slots /\ index'.eligible = j.eligible
        /\ index'.retention = j.retention
    BY ONLY <1>9 DEF SameButOrder
  <2>2. j.retention = index.retention
    BY <1>7
  <2>3. Slots(index') = Slots(index)
    BY ONLY <1>8, <2>1 DEF Slots
  <2> HIDE DEF j, s
  <2> QED BY ONLY <1>8, <2>1, <2>2, <2>3
<1>11. undo # <<>> => FrameOK(RecordSlots(Newest, index, {s}),
                              AppliedTo(RecordSlots(Newest, index, {s}), index'),
                              history[Len(undo)])
  <2> HAVE undo # <<>>
  <2>1. FrameOK(Newest, AppliedTo(Newest, index), history[Len(undo)])
    BY NewestFacts
  <2>2. {s} \subseteq LiveSlots(index)
    BY <1>3 DEF LiveSlots
  <2> QED BY <1>1, <1>9, <1>10, <2>1, <2>2, RecordedSlotsFrame
<1> QED BY <1>2, <1>9, <1>11, RecordedStep

\* Writing the newest frame back unchanged changes nothing.
LEMMA NewestUnchanged ==
  ASSUME IInv
  PROVE  WithNewest(Newest) = undo
<1>1. IsSequence(undo) /\ Len(undo) \in Nat /\ DOMAIN undo = 1..Len(undo)
  BY Unfold, IsSequenceFacts DEF StackOK
<1>2. undo \in Seq(Range(undo))
  BY <1>1 DEF IsSequence
<1>3. [undo EXCEPT ![Len(undo)] = undo[Len(undo)]] = undo
  BY <1>1, <1>2
<1> QED BY <1>3 DEF WithNewest, Newest

\* A retention extra the client may use is not one the newest frame has left.
LEMMA MayUseFacts ==
  ASSUME IInv, NEW r, MayUse(r), undo # <<>>, Newest.retention = r
  PROVE  RevisitsRetention \/ r = index.retention
<1>1. Len(undo) \in DOMAIN undo
  <2>1. IsSequence(undo) /\ undo # <<>>
    BY Unfold DEF StackOK
  <2> QED BY <2>1, IsSequenceFacts, FrontFacts
<1> QED BY <1>1 DEF MayUse, Newest

\* set_retention_extra recomputes every flag and records nothing.
LEMMA SetRetentionStep ==
  ASSUME IInv, NEW r \in Extras, SetRetention(r)
  PROVE  IInv'
<1> DEFINE i == [index EXCEPT !.retention = r]
           j == Recomputed(i)
<1>1. IsIndex(index) /\ IndexIsCoherent(index)
  BY Unfold
<1>2. /\ MayUse(r) /\ index' = Rebuilt(j) /\ undo' = undo /\ history' = history /\ Advance
  BY DEF SetRetention
<1>3. DOMAIN index = {"slots", "slotOf", "eligible", "ordered", "retention", "day"}
  BY <1>1, IndexIsUnflagged, IndexDomain
<1>4. /\ DOMAIN i = DOMAIN index /\ i = [x \in DOMAIN i |-> i[x]]
      /\ i.slots = index.slots /\ i.slotOf = index.slotOf /\ i.retention = r
      /\ i.day = index.day
  BY <1>3
<1> HIDE DEF i
<1>5. IsUnflagged(i)
  <2>1. r \in Int
    BY IndexAssumption
  <2>2. i = [slots |-> i.slots, slotOf |-> i.slotOf, eligible |-> i.eligible,
             ordered |-> i.ordered, retention |-> i.retention, day |-> i.day]
    BY <1>3, <1>4, IndexRecord
  <2> QED BY <1>1, <1>4, <2>1, <2>2 DEF IsUnflagged, IsIndex
<1>6. /\ IsIndex(j) /\ FlagsAreCurrent(j) /\ j.slots = index.slots
      /\ j.slotOf = index.slotOf /\ j.retention = r
  BY <1>4, <1>5, RecomputedFacts
<1> HIDE DEF j
<1>7. IndexIsCoherent(j)
  BY <1>1, <1>6 DEF IndexIsCoherent, MapMatches, LiveSlots, IsLive, Slots
<1>8. IsIndex(index') /\ IndexIsCoherent(index') /\ SameButOrder(index', j)
  BY <1>2, <1>6, <1>7, RebuiltFacts, CoherentButOrder
<1>9. undo # <<>> => FrameOK(Newest, AppliedTo(Newest, index'), history[Len(undo)])
  <2> HAVE undo # <<>>
  <2> DEFINE f == Newest
             h == history[Len(undo)]
  <2>1. FrameOK(f, AppliedTo(f, index), h)
    BY NewestFacts
  <2>2. CASE f.before # <<>>
    BY <2>1, <2>2, ReconciledFrame
  <2>3. CASE f.before = <<>>
    <3>1. AppliedTo(f, index) = index /\ AppliedTo(f, index') = index'
      BY <2>3 DEF AppliedTo
    <3>2. ASSUME ~RevisitsRetention, r = f.retention
          PROVE  index.retention = f.retention /\ index'.eligible = index.eligible
      <4>1. index.retention = r
        BY <1>2, <3>2, MayUseFacts
      <4>2. \A s \in Slots(index) : index'.eligible[s] = index.eligible[s]
        BY <1>1, <1>6, <1>8, <3>2, <4>1
           DEF SameButOrder, IndexIsCoherent, FlagsAreCurrent, Slots
      <4>3. index'.eligible \in [Slots(index) -> BOOLEAN]
            /\ index.eligible \in [Slots(index) -> BOOLEAN]
        BY <1>1, <1>6, <1>8 DEF SameButOrder, IsIndex, Slots
      <4>4. index'.eligible = index.eligible
        BY <4>2, <4>3
      <4> QED BY <3>2, <4>1, <4>4
    <3>3. index'.retention = r /\ index'.slots = index.slots
      BY <1>6, <1>8 DEF SameButOrder
    <3>4. FrameRestores(f, index', h)
      BY <1>8, <2>1, <3>1, <3>2, <3>3, RetentionRestores DEF FrameOK
    <3> QED BY <1>8, <2>1, <3>1, <3>4 DEF FrameOK
  <2> QED BY <2>2, <2>3
<1>10. undo' = WithNewest(Newest)
  BY <1>2, NewestUnchanged
<1> QED BY <1>2, <1>8, <1>9, <1>10, RecordedStep

\* A candidate of the replacement universe is active and of its card.
LEMMA MemberFacts ==
  ASSUME IInv, NEW cards \in Seq(Cards), NEW changed \in SUBSET ChangedSeeds,
         NEW d \in Days, NEW p \in Predictions, NEW k \in DOMAIN cards,
         IsReconcilable(cards, changed)
  PROVE  LET m == Member(cards[k], changed, d, p)
         IN  m \in Candidate /\ m.card = cards[k] /\ m.status = "active"
<1> DEFINE c == cards[k]
           fresh == {seed \in changed : seed.card = c}
           cand == IF fresh # {} THEN FromSeed(CHOOSE seed \in fresh : TRUE, d)
                   ELSE index.slots[index.slotOf[c]]
           elapsed == IF fresh # {} THEN cand.elapsed ELSE QueriedElapsed(cand, d)
           m == [cand EXCEPT !.elapsed = elapsed, !.pred = p, !.status = "active"]
<1>1. c \in Cards /\ c \in Range(cards) /\ d \in Nat /\ p \in Values
      /\ changed \subseteq Seed /\ "active" \in Statuses
  BY SeqFacts, IndexAssumption DEF Range, Statuses
<1>2. cand \in Candidate /\ cand.card = c
  <2>1. CASE fresh # {}
    <3>1. PICK seed \in fresh : seed = CHOOSE x \in fresh : TRUE
      BY <2>1
    <3>2. seed \in Seed /\ seed.card = c /\ cand = FromSeed(seed, d)
      BY <1>1, <2>1, <3>1
    <3> QED BY <1>1, <3>2, FromSeedFacts
  <2>2. CASE fresh = {}
    <3>1. index.slotOf[c] # Absent
      BY <1>1, <2>2 DEF IsReconcilable
    <3>2. IsIndex(index) /\ MapMatches(index)
      BY Unfold DEF IndexIsCoherent
    <3>3. index.slotOf[c] \in Slots(index) /\ index.slots[index.slotOf[c]].card = c
      BY <1>1, <3>1, <3>2, MapFacts DEF IsLive
    <3>4. index.slots[index.slotOf[c]] \in Candidate
      BY <3>2, <3>3, IndexFacts
    <3> QED BY <2>2, <3>3, <3>4
  <2> QED BY <2>1, <2>2
<1>3. Member(c, changed, d, p) = m
  BY DEF Member
<1> HIDE DEF cand
<1>4. elapsed \in Int
  BY <1>1, <1>2 DEF QueriedElapsed, Candidate, NewCard
<1> HIDE DEF elapsed
<1>5. m \in Candidate /\ m.card = c /\ m.status = "active"
  BY <1>1, <1>2, <1>4 DEF Candidate
<1> QED BY <1>3, <1>5

\* A reconciliation keeps the universe it replaced in the newest frame.
LEMMA ReconcileStep ==
  ASSUME IInv, NEW cards \in Universes, NEW changed \in SUBSET ChangedSeeds,
         NEW d \in Days, NEW r \in Extras, Reconcile(cards, changed, d, r)
  PROVE  IInv'
<1>1. IsIndex(index) /\ IndexIsCoherent(index)
  BY Unfold
<1>2. /\ IsInjective(cards) /\ IsReconcilable(cards, changed)
      /\ undo' = WithNewest(RecordReconciliation(Newest, index))
      /\ history' = history /\ Advance
  BY DEF Reconcile
<1>3. cards \in Seq(Cards) /\ d \in Nat /\ r \in Int
  BY IndexAssumption
<1>4. PICK p \in [DOMAIN cards -> Predictions] :
        index' = Universe([k \in DOMAIN cards |-> Member(cards[k], changed, d, p[k])], d, r)
  BY DEF Reconcile
<1> DEFINE slots == [k \in DOMAIN cards |-> Member(cards[k], changed, d, p[k])]
<1>5. IsIndex(index') /\ IndexIsCoherent(index')
  <2>1. DOMAIN cards = 1..Len(cards) /\ Len(cards) \in Nat
    BY <1>3, SeqFacts
  <2>2. ASSUME NEW k \in 1..Len(cards)
        PROVE  slots[k] \in Candidate /\ slots[k].card = cards[k] /\ slots[k].status = "active"
    <3>1. p[k] \in Predictions /\ k \in DOMAIN cards
      BY <1>4, <2>1
    <3>2. slots[k] = Member(cards[k], changed, d, p[k])
      BY <3>1
    <3> QED BY <1>2, <1>3, <3>1, <3>2, MemberFacts
  <2>3. \A k, l \in 1..Len(cards) : cards[k] = cards[l] => k = l
    BY <1>2, <2>1 DEF IsInjective
  <2>4. slots = [k \in 1..Len(cards) |-> slots[k]]
    BY <2>1
  <2>5. index' = Universe(slots, d, r)
    BY <1>4
  <2> HIDE DEF slots
  <2>6. \A k \in 1..Len(cards) : slots[k] \in Candidate /\ slots[k].card = cards[k]
                                 /\ slots[k].status = "active"
    BY <2>2
  <2>7. slots \in [1..Len(cards) -> Candidate] /\ DOMAIN slots = 1..Len(cards)
    BY <2>4, <2>6
  <2>8. slots \in Seq(Candidate)
    BY <2>1, <2>7, FunctionIsSeq
  <2>9. \A s \in DOMAIN slots : slots[s].status = "active"
    BY <2>6, <2>7
  <2>10. \A s, t \in DOMAIN slots : slots[s].card = slots[t].card => s = t
    BY <2>3, <2>6, <2>7
  <2> QED BY <1>3, <2>5, <2>8, <2>9, <2>10, UniverseFacts
<1>6. ASSUME undo # <<>>
      PROVE  LET g == RecordReconciliation(Newest, index)
             IN  FrameOK(g, AppliedTo(g, index'), history[Len(undo)])
  <2> DEFINE f == Newest
             g == RecordReconciliation(f, index)
             h == history[Len(undo)]
  <2>1. FrameOK(f, AppliedTo(f, index), h)
    BY <1>6, NewestFacts
  <2>2. CASE f.before # <<>>
    <3>1. g = f
      BY <2>2 DEF RecordReconciliation
    <3> QED BY <2>1, <2>2, <3>1, ReconciledFrame
  <2>3. CASE f.before = <<>>
    <3>1. g = [f EXCEPT !.before = <<index>>]
      BY <2>3 DEF RecordReconciliation
    <3>2. AppliedTo(f, index) = index /\ IsFrame(f) /\ FrameRestores(f, index, h)
      BY <2>1, <2>3 DEF AppliedTo, FrameOK
    <3> HIDE DEF g, f
    <3>3. /\ g.before = <<index>> /\ g.full = f.full /\ g.refresh = f.refresh
          /\ g.retention = f.retention /\ g.day = f.day
          /\ g = [retention |-> f.retention, day |-> f.day, full |-> f.full,
                  refresh |-> f.refresh, before |-> <<index>>]
      BY <3>1, <3>2, FrameRecord
    <3>4. AppliedTo(g, index') = index
      BY <3>3 DEF AppliedTo
    <3>5. IsFrame(g)
      BY <1>1, <3>2, <3>3 DEF IsFrame
    <3>6. RestoredSlots(index, g) = RestoredSlots(index, f)
          /\ RestoredEligible(index, g) = RestoredEligible(index, f)
      BY <3>3 DEF RestoredSlots, RestoredEligible
    <3>7. FrameRestores(g, index, h)
      BY <3>2, <3>3, <3>6 DEF FrameRestores, DeltasAreLive, SlotsRestored, FlagsRestored
    <3>8. FrameOK(g, AppliedTo(g, index'), h)
      BY <1>1, <2>1, <3>4, <3>5, <3>7 DEF FrameOK
    <3> QED BY <3>8 DEF g, f
  <2> QED BY <2>2, <2>3
<1> QED BY <1>2, <1>5, <1>6, RecordedStep

\* The universe a session is created with, or replaced by, is coherent.
LEMMA SeededUniverse ==
  ASSUME NEW seeds \in Seq(Seed), DistinctCards(seeds), NEW p \in [DOMAIN seeds -> Predictions],
         NEW d \in Nat, NEW r \in Int
  PROVE  LET i == Universe([k \in DOMAIN seeds |->
                    [FromSeed(seeds[k], d) EXCEPT !.pred = p[k], !.status = "active"]], d, r)
         IN  IsIndex(i) /\ IndexIsCoherent(i) /\ i.retention = r
<1> DEFINE slots == [k \in DOMAIN seeds |->
                      [FromSeed(seeds[k], d) EXCEPT !.pred = p[k], !.status = "active"]]
           cardOf == [k \in DOMAIN seeds |-> seeds[k].card]
<1>1. DOMAIN seeds = 1..Len(seeds) /\ Len(seeds) \in Nat
  BY SeqFacts
<1>2. ASSUME NEW k \in 1..Len(seeds)
      PROVE  slots[k] \in Candidate /\ slots[k].card = cardOf[k] /\ slots[k].status = "active"
  <2> DEFINE c == FromSeed(seeds[k], d)
  <2>1. seeds[k] \in Seed /\ p[k] \in Values
    BY <1>1, SeqFacts, IndexAssumption
  <2>2. c \in Candidate /\ c.card = seeds[k].card
    BY <2>1, FromSeedFacts
  <2>3. slots[k] = [c EXCEPT !.pred = p[k], !.status = "active"] /\ cardOf[k] = seeds[k].card
    BY <1>1
  <2>4. "active" \in Statuses
    BY DEF Statuses
  <2> HIDE DEF c, slots
  <2> QED BY <2>1, <2>2, <2>3, <2>4 DEF Candidate
<1>3. \A k, l \in 1..Len(seeds) : cardOf[k] = cardOf[l] => k = l
  BY <1>1 DEF DistinctCards, IsInjective
<1>4. slots = [k \in 1..Len(seeds) |-> slots[k]]
  BY <1>1
<1> HIDE DEF slots, cardOf
<1>5. \A k \in 1..Len(seeds) : slots[k] \in Candidate /\ slots[k].card = cardOf[k]
                               /\ slots[k].status = "active"
  BY <1>2
<1>6. slots \in [1..Len(seeds) -> Candidate] /\ DOMAIN slots = 1..Len(seeds)
  BY <1>4, <1>5
<1>7. slots \in Seq(Candidate)
  BY <1>1, <1>6, FunctionIsSeq
<1>8. \A s \in DOMAIN slots : slots[s].status = "active"
  BY <1>5, <1>6
<1>9. \A s, t \in DOMAIN slots : slots[s].card = slots[t].card => s = t
  BY <1>3, <1>5, <1>6
<1>10. LET i == Universe(slots, d, r)
       IN  IsIndex(i) /\ IndexIsCoherent(i) /\ i.retention = r
  BY <1>7, <1>8, <1>9, UniverseFacts
<1> QED BY <1>10 DEF slots

\* replace_candidates drops every frame.
LEMMA ReplaceStep ==
  ASSUME IInv, NEW seeds \in UpsertBatches, Replace(seeds)
  PROVE  IInv'
<1>1. PICK p \in [DOMAIN seeds -> Predictions] :
        index' = Universe([k \in DOMAIN seeds |->
          [FromSeed(seeds[k], index.day) EXCEPT !.pred = p[k], !.status = "active"]],
          index.day, index.retention)
  BY DEF Replace
<1>2. /\ DistinctCards(seeds) /\ undo' = <<>> /\ history' = <<>> /\ generation' \in Nat
  BY AdvanceFacts DEF Replace
<1>3. seeds \in Seq(Seed) /\ index.day \in Nat /\ index.retention \in Int
  BY Unfold, IndexAssumption DEF IsIndex
<1>4. IsIndex(index') /\ IndexIsCoherent(index')
  BY <1>1, <1>2, <1>3, SeededUniverse
<1>5. StackOK(undo', history', index') /\ Len(undo') <= UndoLimit
  <2>1. <<>> \in Seq({}) /\ Len(<<>>) = 0
    OBVIOUS
  <2>2. IsSequence(<<>>)
    BY <2>1, IsSequenceIntro
  <2> QED BY <1>2, <2>1, <2>2, IndexAssumption DEF StackOK
<1> QED BY <1>2, <1>4, <1>5, FoldNext

\* A new session satisfies the invariant.
LEMMA InitInv ==
  ASSUME Init
  PROVE  IInv
<1>1. PICK d \in Days, p \in [DOMAIN InitialSeeds -> Predictions] :
        index = Universe([k \in DOMAIN InitialSeeds |->
          [FromSeed(InitialSeeds[k], d) EXCEPT !.pred = p[k], !.status = "active"]], d, 0)
  BY DEF Init
<1>2. undo = <<>> /\ history = <<>> /\ generation = 1
  BY DEF Init
<1>3. IsIndex(index) /\ IndexIsCoherent(index)
  <2>1. d \in Nat /\ 0 \in Int
    BY IndexAssumption
  <2> QED BY <1>1, <2>1, IndexAssumption, SeededUniverse
<1>4. <<>> \in Seq({}) /\ Len(<<>>) = 0 /\ DOMAIN <<>> = {}
  OBVIOUS
<1>5. IsSequence(<<>>)
  BY <1>4, IsSequenceIntro
<1>6. TypeOK
  BY <1>2, <1>3, <1>4, <1>5, IndexAssumption DEF TypeOK
<1>7. EveryFrameRestores
  BY <1>2, <1>3, <1>4 DEF EveryFrameRestores
<1> QED BY <1>6, <1>7 DEF IInv

\* set_mode changes the generation only.
LEMMA SetModeStep ==
  ASSUME IInv, SetMode
  PROVE  IInv'
<1>1. index' = index /\ undo' = undo /\ history' = history /\ generation' \in Nat
  BY AdvanceFacts DEF SetMode
<1> QED BY <1>1, Unfold, FoldNext

\* refresh records the query fields of the slots it predicts.
LEMMA RefreshStep ==
  ASSUME IInv, NEW d \in Days, NEW r \in Extras, NEW excluded \in SUBSET Cards,
         Refresh(d, r, excluded)
  PROVE  IInv'
<1> DEFINE S == Membership(excluded)
           g == RecordRefresh(Newest, index, S)
<1>1. IsIndex(index) /\ MapMatches(index) /\ (RevisitsRetention \/ FlagsAreCurrent(index))
  BY Unfold DEF IndexIsCoherent
<1>2. MayUse(r) /\ undo' = WithNewest(g) /\ history' = history /\ Advance
  BY DEF Refresh
<1>3. PICK p \in [S -> Predictions] :
        LET i == [index EXCEPT !.retention = r, !.day = d,
                    !.slots = [s \in Slots(index) |->
                       IF s \in S THEN Predicted(@[s], d, p[s]) ELSE @[s]]]
            j == IF r # index.retention THEN Recomputed(i)
                 ELSE [i EXCEPT !.eligible = [s \in Slots(i) |->
                         IF s \in S THEN EligibleAt(i.slots[s], r) ELSE @[s]]]
        IN  index' = Reordered(j, S, r # index.retention)
  BY DEF Refresh
<1>4. S \subseteq LiveSlots(index) /\ S \subseteq Slots(index)
  BY DEF Membership, LiveSlots
<1> HIDE DEF S
<1> DEFINE q == [s \in Slots(index) |->
                  IF s \in S THEN Predicted(index.slots[s], d, p[s]) ELSE index.slots[s]]
           i == [index EXCEPT !.retention = r, !.day = d, !.slots = q]
           flags == [s \in Slots(i) |->
                      IF s \in S THEN EligibleAt(i.slots[s], r) ELSE i.eligible[s]]
           j == IF r # index.retention THEN Recomputed(i) ELSE [i EXCEPT !.eligible = flags]
<1>5. index' = Reordered(j, S, r # index.retention)
  BY <1>3
<1>6. d \in Nat /\ r \in Int
  BY IndexAssumption
<1>7. ASSUME NEW s \in S
      PROVE  /\ q[s] \in Candidate /\ q[s].card = index.slots[s].card
             /\ q[s].status # "removed"
             /\ \A x : WithQuery(q[s], x) = WithQuery(index.slots[s], x)
  <2>1. /\ index.slots[s] \in Candidate /\ index.slots[s].status # "removed"
        /\ p[s] \in Values
    BY <1>1, <1>4, IndexFacts, IndexAssumption DEF LiveSlots, IsLive
  <2>2. q[s] = Predicted(index.slots[s], d, p[s])
    BY <1>4
  <2> HIDE DEF q
  <2> QED BY <1>6, <2>1, <2>2, PredictedFacts
<1>8. \A s \in Slots(index) \ S : q[s] = index.slots[s]
  OBVIOUS
<1>9. q \in [Slots(index) -> Candidate] /\ q \in Seq(Candidate)
  <2>1. \A s \in Slots(index) : q[s] \in Candidate
    BY <1>1, <1>7, <1>8, IndexFacts
  <2>2. q \in [Slots(index) -> Candidate]
    BY <2>1
  <2> HIDE DEF q
  <2> QED BY <1>1, <2>2, IndexFacts, FunctionIsSeq
<1>10. DOMAIN index = {"slots", "slotOf", "eligible", "ordered", "retention", "day"}
  BY <1>1, IndexIsUnflagged, IndexDomain
<1> HIDE DEF q
<1>11. /\ DOMAIN i = DOMAIN index /\ i = [x \in DOMAIN i |-> i[x]]
       /\ i.slots = q /\ i.slotOf = index.slotOf /\ i.eligible = index.eligible
       /\ i.retention = r /\ i.day = d
  BY <1>10
<1> HIDE DEF i
<1>12. Slots(i) = Slots(index) /\ IsUnflagged(i)
  <2>1. Slots(i) = Slots(index)
    BY <1>9, <1>11 DEF Slots
  <2>2. i = [slots |-> i.slots, slotOf |-> i.slotOf, eligible |-> i.eligible,
             ordered |-> i.ordered, retention |-> i.retention, day |-> i.day]
    BY <1>10, <1>11, IndexRecord
  <2>3. i.slots \in Seq(Candidate) /\ i.slotOf \in [Cards -> {Absent} \cup DOMAIN i.slots]
    BY <1>1, <1>9, <1>11, <2>1 DEF IsIndex, Slots
  <2> QED BY <1>6, <1>11, <2>1, <2>2, <2>3 DEF IsUnflagged
<1>13. /\ IsIndex(j) /\ (RevisitsRetention \/ FlagsAreCurrent(j))
       /\ j.slots = q /\ j.slotOf = index.slotOf /\ j.retention = r
       /\ r = index.retention => \A s \in Slots(index) \ S : j.eligible[s] = index.eligible[s]
  <2>1. CASE r # index.retention
    <3>1. j = Recomputed(i)
      BY <2>1
    <3> HIDE DEF j
    <3> QED BY <1>11, <1>12, <2>1, <3>1, RecomputedFacts
  <2>2. CASE r = index.retention
    <3>1. j = [i EXCEPT !.eligible = flags]
      BY <2>2
    <3>2. flags \in [Slots(i) -> BOOLEAN]
      <4>1. \A s \in Slots(i) : i.eligible[s] \in BOOLEAN
        BY <1>1, <1>11, <1>12, IndexFacts
      <4> QED BY <4>1, EligibleIsBoolean
    <3>3. \A s \in Slots(i) : flags[s] = IF s \in S THEN EligibleAt(i.slots[s], r)
                                         ELSE i.eligible[s]
      OBVIOUS
    <3> HIDE DEF j, flags
    <3>4. /\ DOMAIN j = DOMAIN i /\ j = [x \in DOMAIN j |-> j[x]]
          /\ j.slots = i.slots /\ j.slotOf = i.slotOf /\ j.eligible = flags
          /\ j.retention = i.retention /\ j.day = i.day
      BY <1>10, <1>11, <3>1
    <3>5. j = [slots |-> j.slots, slotOf |-> j.slotOf, eligible |-> j.eligible,
               ordered |-> j.ordered, retention |-> j.retention, day |-> j.day]
      BY <1>10, <1>11, <3>4, IndexRecord
    <3>6. IsIndex(j)
      BY <1>12, <3>2, <3>4, <3>5 DEF IsIndex, IsUnflagged, Slots
    <3>7. RevisitsRetention \/ FlagsAreCurrent(j)
      <4> SUFFICES ASSUME FlagsAreCurrent(index), NEW s \in Slots(index)
                   PROVE  j.eligible[s] = EligibleAt(j.slots[s], j.retention)
        BY <1>1, <1>12, <3>4 DEF FlagsAreCurrent, Slots
      <4>1. CASE s \in S
        BY <1>11, <1>12, <3>3, <3>4, <4>1
      <4>2. CASE s \notin S
        <5>1. j.eligible[s] = index.eligible[s] /\ j.slots[s] = index.slots[s]
          BY <1>8, <1>11, <1>12, <3>3, <3>4, <4>2
        <5> QED BY <1>11, <2>2, <3>4, <5>1 DEF FlagsAreCurrent
      <4> QED BY <4>1, <4>2
    <3>8. \A s \in Slots(index) \ S : j.eligible[s] = index.eligible[s]
      BY <1>11, <1>12, <3>3, <3>4
    <3> QED BY <1>11, <3>4, <3>6, <3>7, <3>8
  <2> QED BY <2>1, <2>2
<1> HIDE DEF j
<1>14. Slots(j) = Slots(index) /\ MapMatches(j)
  <2>1. Slots(j) = Slots(index)
    BY <1>9, <1>13 DEF Slots
  <2>2. \A s \in Slots(index) : j.slots[s].card = index.slots[s].card
                                /\ (IsLive(j, s) <=> IsLive(index, s))
    BY <1>4, <1>7, <1>8, <1>13, <2>1 DEF IsLive, LiveSlots
  <2>3. MapMatches(j)
    BY <1>1, <1>13, <2>1, <2>2 DEF MapMatches, LiveSlots
  <2> QED BY <2>1, <2>3
<1>15. IsIndex(index') /\ IndexIsCoherent(index') /\ SameButOrder(index', j)
  BY <1>5, <1>13, <1>14, ReorderedFacts, CoherentButOrder DEF IndexIsCoherent
<1>16. /\ Slots(index') = Slots(index) /\ index'.slots = q /\ index'.retention = r
       /\ r = index.retention =>
            \A s \in Slots(index) \ S : index'.eligible[s] = index.eligible[s]
  BY <1>13, <1>14, <1>15 DEF SameButOrder, Slots
<1>17. ASSUME undo # <<>>
       PROVE  FrameOK(g, AppliedTo(g, index'), history[Len(undo)])
  <2> DEFINE f == Newest
             h == history[Len(undo)]
  <2>1. FrameOK(f, AppliedTo(f, index), h)
    BY <1>17, NewestFacts
  <2>2. CASE f.before # <<>>
    <3>1. g = f
      BY <2>2 DEF RecordRefresh
    <3> QED BY <2>1, <2>2, <3>1, ReconciledFrame
  <2>3. CASE f.before = <<>>
    <3> DEFINE v == [s \in S \ DOMAIN f.full |-> SavedQuery(index, s)]
    <3>1. g = [f EXCEPT !.refresh = OrElse(f.refresh, v)]
      BY <2>3 DEF RecordRefresh
    <3>2. AppliedTo(f, index) = index /\ IsFrame(f) /\ FrameRestores(f, index, h)
          /\ IsIndex(h) /\ IndexIsCoherent(h)
      BY <2>1, <2>3 DEF AppliedTo, FrameOK
    <3>3. r = f.retention => RevisitsRetention \/ r = index.retention
      BY <1>2, <1>17, MayUseFacts
    <3>4. DOMAIN v = S \ DOMAIN f.full
          /\ \A s \in S \ DOMAIN f.full : v[s] = SavedQuery(index, s)
      OBVIOUS
    <3> HIDE DEF g, f, v
    <3>5. g = [f EXCEPT !.refresh = g.refresh] /\ g.refresh = OrElse(f.refresh, v)
          /\ g.before = <<>>
      BY <2>3, <3>1, <3>2, FrameRecord
    <3>6. DOMAIN g.refresh = DOMAIN f.refresh \cup (S \ DOMAIN f.full)
      BY <3>4, <3>5 DEF OrElse
    <3>7. \A s \in DOMAIN f.refresh : g.refresh[s] = f.refresh[s]
      BY <3>4, <3>5 DEF OrElse
    <3>8. \A s \in S \ (DOMAIN f.full \cup DOMAIN f.refresh) :
            g.refresh[s] = SavedQuery(index, s)
      BY <3>4, <3>5 DEF OrElse
    <3>9. IsFrame(g) /\ FrameRestores(g, index', h)
      <4>1. RevisitsRetention \/
              (index'.retention = f.retention =>
                 /\ index.retention = f.retention
                 /\ \A s \in Slots(index) \ S : index'.eligible[s] = index.eligible[s])
        BY <1>16, <3>3
      <4>2. OnlyQueried(index, index', S)
        BY <1>4, <1>7, <1>8, <1>16 DEF OnlyQueried
      <4>3. QueriesRecorded(f, g, index, S)
        BY <3>5, <3>6, <3>7, <3>8 DEF QueriesRecorded
      <4>4. IsIndex(index) /\ IsIndex(index') /\ IsFrame(f) /\ FrameRestores(f, index, h)
        BY <1>1, <1>15, <3>2
      <4> HIDE DEF S, h
      <4> QED BY <4>1, <4>2, <4>3, <4>4, RefreshedRestores
    <3>10. AppliedTo(g, index') = index'
      BY <3>5 DEF AppliedTo
    <3>11. FrameOK(g, AppliedTo(g, index'), h)
      BY <1>15, <3>2, <3>9, <3>10 DEF FrameOK
    <3> QED BY <3>11 DEF g, f
  <2> QED BY <2>2, <2>3
<1> QED BY <1>2, <1>15, <1>17, RecordedStep

\* The new seeds of a batch take exactly the next slots, one each.
LEMMA NewSlotFacts ==
  ASSUME IsIndex(index), NEW batch \in Seq(Seed)
  PROVE  LET n == Len(index.slots)
             added == {k \in DOMAIN batch : IsNew(batch[k])}
             m == Cardinality(added)
         IN  /\ n \in Nat /\ m \in Nat
             /\ \A k \in added : NewSlot(batch, k) \in (n + 1) .. (n + m)
             /\ \A k, l \in added : NewSlot(batch, k) = NewSlot(batch, l) => k = l
             /\ \A s \in (n + 1) .. (n + m) : \E k \in added : NewSlot(batch, k) = s
<1> DEFINE n == Len(index.slots)
           added == {k \in DOMAIN batch : IsNew(batch[k])}
           m == Cardinality(added)
           upto(k) == {j \in 1..k : IsNew(batch[j])}
           f == [k \in added |-> NewSlot(batch, k)]
<1>1. n \in Nat /\ Len(batch) \in Nat /\ DOMAIN batch = 1..Len(batch)
  BY IndexFacts, SeqFacts
<1>2. IsFiniteSet(added) /\ m \in Nat
  <2>1. IsFiniteSet(1..Len(batch))
    BY <1>1, FS_Interval
  <2>2. added \in SUBSET (1..Len(batch))
    BY <1>1
  <2>3. IsFiniteSet(added)
    BY <2>1, <2>2, FS_Subset
  <2> QED BY <2>3, FS_CardinalityType
<1>3. ASSUME NEW k \in added
      PROVE  /\ k \in 1..Len(batch) /\ upto(k) \subseteq added /\ k \in upto(k)
             /\ IsFiniteSet(upto(k)) /\ Cardinality(upto(k)) \in 1..m
             /\ NewSlot(batch, k) = n + Cardinality(upto(k))
  <2>1. k \in 1..Len(batch) /\ upto(k) \subseteq added /\ k \in upto(k)
    BY <1>1
  <2>2. IsFiniteSet(upto(k)) /\ Cardinality(upto(k)) <= m
    BY <1>2, <2>1, FS_Subset
  <2>3. Cardinality(upto(k)) \in Nat /\ Cardinality(upto(k)) # 0
    BY <2>1, <2>2, FS_CardinalityType, FS_EmptySet
  <2>4. NewSlot(batch, k) = n + Cardinality(upto(k))
    BY DEF NewSlot
  <2> QED BY <1>2, <2>1, <2>2, <2>3, <2>4
<1>4. ASSUME NEW k \in added
      PROVE  f[k] = NewSlot(batch, k) /\ f[k] \in (n + 1) .. (n + m)
  <2>1. f[k] = NewSlot(batch, k)
    OBVIOUS
  <2> DEFINE x == Cardinality(upto(k))
  <2>2. x \in 1..m /\ NewSlot(batch, k) = n + x
    BY <1>3
  <2> HIDE DEF x, m, n, f
  <2> QED BY <1>1, <1>2, <2>1, <2>2
<1>5. ASSUME NEW k \in added, NEW l \in added, k < l
      PROVE  f[k] # f[l]
  <2>1. upto(k) \subseteq upto(l) /\ l \in upto(l) /\ l \notin upto(k)
    BY <1>1, <1>3, <1>5
  <2>2. IsFiniteSet(upto(l)) /\ upto(k) \in SUBSET upto(l) /\ upto(k) # upto(l)
    BY <1>3, <2>1
  <2> DEFINE x == Cardinality(upto(k))
             y == Cardinality(upto(l))
  <2>3. x \in Nat /\ y \in Nat /\ NewSlot(batch, k) = n + x /\ NewSlot(batch, l) = n + y
    <3>1. x \in 1..m /\ NewSlot(batch, k) = n + x
      BY <1>3
    <3>2. y \in 1..m /\ NewSlot(batch, l) = n + y
      BY <1>3
    <3> HIDE DEF x, y, m, n
    <3> QED BY <1>2, <3>1, <3>2
  <2>4. x # y
    <3> HIDE DEF upto
    <3> QED BY <2>2, FS_Subset
  <2>5. f[k] = NewSlot(batch, k) /\ f[l] = NewSlot(batch, l)
    BY <1>4
  <2> HIDE DEF x, y, n, f
  <2> QED BY <1>1, <2>3, <2>4, <2>5
<1>6. \A k, l \in added : f[k] = f[l] => k = l
  <2> SUFFICES ASSUME NEW k \in added, NEW l \in added, k # l
               PROVE  f[k] # f[l]
    OBVIOUS
  <2>1. k \in Nat /\ l \in Nat
    BY <1>1, <1>3
  <2>2. k < l \/ l < k
    BY <2>1
  <2> QED BY <1>5, <2>2
<1> HIDE DEF f
<1>7. f \in Injection(added, (n + 1) .. (n + m))
  <2>1. f = [k \in added |-> f[k]]
    BY DEF f
  <2>2. f \in [added -> (n + 1) .. (n + m)]
    BY <1>4, <2>1
  <2> QED BY <1>6, <2>2 DEF Injection, IsInjective
<1>8. IsFiniteSet((n + 1) .. (n + m)) /\ Cardinality((n + 1) .. (n + m)) = m
  <2>1. n + 1 \in Int /\ n + m \in Int
    BY <1>1, <1>2
  <2>2. /\ IsFiniteSet((n + 1) .. (n + m))
        /\ Cardinality((n + 1) .. (n + m))
             = IF n + 1 > n + m THEN 0 ELSE (n + m) - (n + 1) + 1
    BY <2>1, FS_Interval
  <2>3. n \in Nat
    BY ONLY <1>1
  <2>4. m \in Nat
    BY ONLY <1>2
  <2> HIDE DEF n, m
  <2>5. (IF n + 1 > n + m THEN 0 ELSE (n + m) - (n + 1) + 1) = m
    BY ONLY <2>3, <2>4
  <2> QED BY ONLY <2>2, <2>5
<1>9. f \in Surjection(added, (n + 1) .. (n + m))
  BY <1>7, <1>8, FS_Injection
<1>10. \A s \in (n + 1) .. (n + m) : \E k \in added : f[k] = s
  BY <1>9 DEF Surjection
<1>11. \A k \in added : NewSlot(batch, k) \in (n + 1) .. (n + m)
  BY ONLY <1>4
<1>12. \A k, l \in added : NewSlot(batch, k) = NewSlot(batch, l) => k = l
  BY ONLY <1>4, <1>6
<1>13. \A s \in (n + 1) .. (n + m) : \E k \in added : NewSlot(batch, k) = s
  BY ONLY <1>4, <1>10
<1>14. n \in Nat /\ m \in Nat
  BY ONLY <1>1, <1>2
<1> QED BY ONLY <1>11, <1>12, <1>13, <1>14

\* A batch of seeds with distinct cards overwrites the slots of its live cards
\* and gives every other one a slot of its own; both wait for a refresh.
LEMMA UpsertStep ==
  ASSUME IInv, NEW batch \in UpsertBatches, Upsert(batch)
  PROVE  IInv'
<1> DEFINE n == Len(index.slots)
           added == {k \in DOMAIN batch : IsNew(batch[k])}
           m == Cardinality(added)
           slots == 1 .. n + m
           of(s) == CHOOSE k \in DOMAIN batch :
                      s = IF k \in added THEN NewSlot(batch, k) ELSE index.slotOf[batch[k].card]
           replaced == {index.slotOf[batch[k].card] : k \in DOMAIN batch \ added}
           q == [s \in slots |->
                   IF s > n THEN FromSeed(batch[of(s)], index.day)
                   ELSE IF s \notin replaced THEN index.slots[s]
                   ELSE [FromSeed(batch[of(s)], index.day) EXCEPT !.status =
                     IF IsExcluded(index.slots[s]) THEN "excluded_pending_refresh" ELSE @]]
           flags == [s \in slots |-> s <= n /\ s \notin replaced /\ index.eligible[s]]
           map == [c \in Cards |->
                     IF \E k \in added : batch[k].card = c
                     THEN NewSlot(batch, CHOOSE k \in added : batch[k].card = c)
                     ELSE index.slotOf[c]]
           j == [index EXCEPT !.slots = q, !.eligible = flags, !.slotOf = map]
           g == RecordNew(RecordSlots(Newest, index, replaced), slots \ (1..n))
<1>1. /\ IsIndex(index) /\ MapMatches(index) /\ (RevisitsRetention \/ FlagsAreCurrent(index))
      /\ batch \in Seq(Seed)
  BY Unfold, IndexAssumption DEF IndexIsCoherent
<1>2. /\ DistinctCards(batch) /\ index' = Rebuilt(j) /\ undo' = WithNewest(g)
      /\ history' = history /\ Advance
  BY DEF Upsert
<1>3. /\ n \in Nat /\ m \in Nat /\ Slots(index) = 1..n
      /\ \A k \in added : NewSlot(batch, k) \in (n + 1) .. (n + m)
      /\ \A k, l \in added : NewSlot(batch, k) = NewSlot(batch, l) => k = l
      /\ \A s \in (n + 1) .. (n + m) : \E k \in added : NewSlot(batch, k) = s
  BY <1>1, NewSlotFacts, IndexFacts
<1>4. /\ \A k \in DOMAIN batch : batch[k] \in Seed /\ batch[k].card \in Cards
      /\ \A k, l \in DOMAIN batch : batch[k].card = batch[l].card => k = l
  <2>1. \A k \in DOMAIN batch : batch[k] \in Seed
    BY <1>1, SeqFacts
  <2>2. \A k, l \in DOMAIN batch : batch[k].card = batch[l].card => k = l
    BY <1>2 DEF DistinctCards, IsInjective
  <2> QED BY <2>1, <2>2 DEF Seed
<1>5. ASSUME NEW k \in DOMAIN batch \ added
      PROVE  LET s == index.slotOf[batch[k].card]
             IN  s \in 1..n /\ IsLive(index, s) /\ index.slots[s].card = batch[k].card
  <2>1. index.slotOf[batch[k].card] # Absent /\ batch[k].card \in Cards
    BY <1>4 DEF IsNew
  <2>2. /\ IsLive(index, index.slotOf[batch[k].card])
        /\ index.slots[index.slotOf[batch[k].card]].card = batch[k].card
    BY <1>1, <2>1, MapFacts
  <2> QED BY <1>3, <2>2 DEF IsLive
<1>6. ASSUME NEW s \in (n + 1) .. (n + m)
      PROVE  of(s) \in added /\ NewSlot(batch, of(s)) = s
  <2>1. PICK k \in added : NewSlot(batch, k) = s
    BY <1>3
  <2>2. k \in DOMAIN batch
    OBVIOUS
  <2>3. of(s) \in DOMAIN batch
        /\ s = IF of(s) \in added THEN NewSlot(batch, of(s)) ELSE index.slotOf[batch[of(s)].card]
    BY <2>1, <2>2
  <2> HIDE DEF of, added, m, n
  <2>4. CASE of(s) \notin added
    <3>1. s \in 1..n
      BY <1>5, <2>3, <2>4
    <3> QED BY <1>3, <3>1
  <2> QED BY <2>3, <2>4
<1>7. ASSUME NEW s \in replaced
      PROVE  of(s) \in DOMAIN batch \ added /\ index.slotOf[batch[of(s)].card] = s
  <2>1. PICK k \in DOMAIN batch \ added : s = index.slotOf[batch[k].card]
    OBVIOUS
  <2>2. of(s) \in DOMAIN batch
        /\ s = IF of(s) \in added THEN NewSlot(batch, of(s)) ELSE index.slotOf[batch[of(s)].card]
    BY <2>1
  <2>3. s \in 1..n
    BY <1>5, <2>1
  <2> HIDE DEF of, added, m, n
  <2>4. CASE of(s) \in added
    <3>1. s \in (n + 1) .. (n + m)
      BY <1>3, <2>2, <2>4
    <3> QED BY <1>3, <2>3, <3>1
  <2> QED BY <2>2, <2>4
<1>8. replaced \subseteq LiveSlots(index)
  BY <1>3, <1>5 DEF LiveSlots, IsLive
<1> HIDE DEF of, added, m, replaced
<1>9. ASSUME NEW s \in slots, s > n
      PROVE  /\ q[s] \in Candidate /\ q[s].card = batch[of(s)].card
             /\ q[s].status = "pending_refresh"
             /\ of(s) \in added /\ NewSlot(batch, of(s)) = s
  <2>1. s \in (n + 1) .. (n + m)
    BY <1>3, <1>9
  <2>2. q[s] = FromSeed(batch[of(s)], index.day)
    BY <1>9
  <2>3. batch[of(s)] \in Seed /\ index.day \in Nat
    BY <1>1, <1>4, <1>6, <2>1 DEF added, IsIndex
  <2> QED BY <1>6, <2>1, <2>2, <2>3, FromSeedFacts
<1>10. ASSUME NEW s \in replaced
       PROVE  /\ q[s] \in Candidate /\ q[s].card = index.slots[s].card
              /\ q[s].status \in {"pending_refresh", "excluded_pending_refresh"}
  <2> DEFINE e == FromSeed(batch[of(s)], index.day)
             t == IF IsExcluded(index.slots[s]) THEN "excluded_pending_refresh" ELSE e.status
  <2>1. s \in slots /\ s \in 1..n /\ ~(s > n)
    BY <1>3, <1>8 DEF LiveSlots
  <2>2. q[s] = [e EXCEPT !.status = t]
    BY <2>1
  <2>3. batch[of(s)] \in Seed /\ index.day \in Nat
    BY <1>1, <1>4, <1>7 DEF IsIndex
  <2>4. e \in Candidate /\ e.card = batch[of(s)].card /\ e.status = "pending_refresh"
    BY <2>3, FromSeedFacts
  <2>5. index.slots[s].card = batch[of(s)].card
    BY <1>5, <1>7
  <2>6. t \in {"pending_refresh", "excluded_pending_refresh"} /\ t \in Statuses
    BY <2>4 DEF Statuses
  <2> HIDE DEF e, t, q
  <2> QED BY <2>2, <2>4, <2>5, <2>6, StatusFacts
<1>11. \A s \in 1..n : s \in slots /\ (s \notin replaced => q[s] = index.slots[s])
  BY <1>3
<1>12. q \in Seq(Candidate) /\ DOMAIN q = slots
  <2>1. ASSUME NEW s \in slots
        PROVE  q[s] \in Candidate
    <3>1. CASE s > n
      BY <1>9, <3>1
    <3>2. CASE s \in replaced
      BY <1>10, <3>2
    <3>3. CASE ~(s > n) /\ s \notin replaced
      <4>1. s \in 1..n
        BY <1>3, <3>3
      <4> QED BY <1>1, <1>3, <1>11, <3>3, <4>1, IndexFacts
    <3> QED BY <3>1, <3>2, <3>3
  <2>2. q = [s \in slots |-> q[s]]
    OBVIOUS
  <2>3. n + m \in Nat
    BY <1>3
  <2> HIDE DEF q
  <2>4. q \in [slots -> Candidate]
    BY <2>1, <2>2
  <2> QED BY <2>3, <2>4, FunctionIsSeq
<1> HIDE DEF q
<1>13. /\ flags \in [slots -> BOOLEAN]
       /\ \A s \in slots : s > n \/ s \in replaced => ~flags[s]
       /\ \A s \in 1..n : s \notin replaced => flags[s] = index.eligible[s]
  <2>1. \A s \in 1..n : index.eligible[s] \in BOOLEAN
    BY <1>1, <1>3, IndexFacts
  <2>2. \A s \in slots : flags[s] \in BOOLEAN
    BY <1>3, <2>1
  <2>3. flags \in [slots -> BOOLEAN]
    BY <2>2
  <2>4. ASSUME NEW s \in slots, s > n \/ s \in replaced
        PROVE  ~flags[s]
    <3>1. flags[s] = (s <= n /\ s \notin replaced /\ index.eligible[s])
      OBVIOUS
    <3>2. ~(s <= n) \/ s \in replaced
      BY <1>3, <2>4
    <3> HIDE DEF flags
    <3> QED BY <3>1, <3>2, Zenon
  <2>5. ASSUME NEW s \in 1..n, s \notin replaced
        PROVE  flags[s] = index.eligible[s]
    <3>1. flags[s] = (s <= n /\ s \notin replaced /\ index.eligible[s])
      BY <1>11
    <3>2. s <= n
      BY <1>3
    <3> HIDE DEF flags
    <3> QED BY <2>1, <2>5, <3>1, <3>2, Zenon
  <2> QED BY <2>3, <2>4, <2>5
<1>14. /\ \A k \in added : map[batch[k].card] = NewSlot(batch, k)
       /\ \A c \in Cards : (\A k \in added : batch[k].card # c) => map[c] = index.slotOf[c]
       /\ map \in [Cards -> {Absent} \cup slots]
  <2>1. added \subseteq DOMAIN batch
    BY DEF added
  <2>2. ASSUME NEW k \in added
        PROVE  map[batch[k].card] = NewSlot(batch, k)
    <3>1. batch[k].card \in Cards
      BY <1>4, <2>1
    <3> DEFINE l == CHOOSE l \in added : batch[l].card = batch[k].card
    <3>2. l \in added /\ batch[l].card = batch[k].card
      OBVIOUS
    <3>3. l = k
      BY <1>4, <2>1, <3>2
    <3>4. map[batch[k].card] = NewSlot(batch, l)
      BY <3>1
    <3> QED BY <3>3, <3>4
  <2>3. \A c \in Cards : (\A k \in added : batch[k].card # c) => map[c] = index.slotOf[c]
    OBVIOUS
  <2>4. ASSUME NEW c \in Cards
        PROVE  map[c] \in {Absent} \cup slots
    <3>1. CASE \E k \in added : batch[k].card = c
      <4>1. PICK k \in added : batch[k].card = c
        BY <3>1
      <4>2. map[c] = NewSlot(batch, k)
        BY <2>2, <4>1
      <4>3. map[c] \in (n + 1) .. (n + m)
        BY <1>3, <4>2
      <4> HIDE DEF map
      <4> QED BY <1>3, <4>3
    <3>2. CASE \A k \in added : batch[k].card # c
      <4>1. map[c] = index.slotOf[c] /\ index.slotOf[c] \in {Absent} \cup 1..n
        BY <1>1, <1>3, <2>3, <3>2, IndexFacts
      <4> HIDE DEF map
      <4> QED BY <1>3, <4>1
    <3> QED BY <3>1, <3>2
  <2>5. map = [c \in Cards |-> map[c]]
    OBVIOUS
  <2> HIDE DEF map
  <2>6. map \in [Cards -> {Absent} \cup slots]
    BY <2>4, <2>5
  <2> QED BY <2>2, <2>3, <2>6
<1> HIDE DEF flags, map
<1>15. /\ j = [slots |-> j.slots, slotOf |-> j.slotOf, eligible |-> j.eligible,
               ordered |-> j.ordered, retention |-> j.retention, day |-> j.day]
       /\ j.slots = q /\ j.eligible = flags /\ j.slotOf = map
       /\ j.retention = index.retention /\ j.day = index.day
  <2>1. DOMAIN index = {"slots", "slotOf", "eligible", "ordered", "retention", "day"}
    BY <1>1, IndexIsUnflagged, IndexDomain
  <2>2. /\ DOMAIN j = DOMAIN index /\ j = [x \in DOMAIN j |-> j[x]]
        /\ j.slots = q /\ j.eligible = flags /\ j.slotOf = map
        /\ j.retention = index.retention /\ j.day = index.day
    BY <2>1
  <2> HIDE DEF j
  <2> QED BY <2>1, <2>2, IndexRecord
<1> HIDE DEF j
<1>16. IsIndex(j) /\ Slots(j) = slots
  BY <1>1, <1>12, <1>13, <1>14, <1>15 DEF IsIndex, Slots
<1>17. ASSUME NEW s \in 1..n
       PROVE  /\ s \in slots /\ q[s].card = index.slots[s].card
              /\ (IsLive(j, s) <=> IsLive(index, s))
  <2>1. CASE s \in replaced
    <3>1. IsLive(index, s) /\ s \in slots
      BY <1>8, <1>11, <2>1 DEF LiveSlots
    <3>2. q[s].card = index.slots[s].card /\ q[s].status # "removed"
      BY <1>10, <2>1
    <3> QED BY <1>15, <1>16, <3>1, <3>2 DEF IsLive
  <2>2. CASE s \notin replaced
    BY <1>3, <1>11, <1>15, <1>16, <2>2 DEF IsLive
  <2> QED BY <2>1, <2>2
<1>18. MapMatches(j)
  <2>1. ASSUME NEW c \in Cards, map[c] # Absent
        PROVE  IsLive(j, map[c]) /\ j.slots[map[c]].card = c
    <3>1. CASE \E k \in added : batch[k].card = c
      <4>1. PICK k \in added : batch[k].card = c
        BY <3>1
      <4>2. map[c] = NewSlot(batch, k) /\ map[c] \in (n + 1) .. (n + m)
        BY <1>3, <1>14, <4>1
      <4>3. map[c] \in slots /\ map[c] > n
        BY <1>3, <4>2
      <4>4. /\ q[map[c]].card = batch[of(map[c])].card /\ q[map[c]].status = "pending_refresh"
            /\ of(map[c]) \in added /\ NewSlot(batch, of(map[c])) = map[c]
        BY <1>9, <4>3
      <4>5. of(map[c]) = k
        BY <1>3, <4>2, <4>4
      <4> QED BY <1>15, <1>16, <4>1, <4>3, <4>4, <4>5 DEF IsLive
    <3>2. CASE \A k \in added : batch[k].card # c
      <4>1. map[c] = index.slotOf[c]
        BY <1>14, <3>2
      <4>2. IsLive(index, map[c]) /\ index.slots[map[c]].card = c
        BY <1>1, <2>1, <4>1, MapFacts
      <4>3. map[c] \in 1..n
        BY <1>3, <4>2 DEF IsLive
      <4> QED BY <1>15, <1>17, <4>2, <4>3
    <3> QED BY <3>1, <3>2
  <2>2. ASSUME NEW s \in slots, IsLive(j, s)
        PROVE  map[q[s].card] = s
    <3>1. CASE s > n
      <4>1. q[s].card = batch[of(s)].card /\ of(s) \in added /\ NewSlot(batch, of(s)) = s
        BY <1>9, <3>1
      <4> QED BY <1>14, <4>1
    <3>2. CASE ~(s > n)
      <4>1. s \in 1..n
        BY <1>3, <3>2
      <4>2. IsLive(index, s) /\ q[s].card = index.slots[s].card
        BY <1>17, <2>2, <4>1
      <4>3. index.slotOf[q[s].card] = s /\ s # Absent
        BY <1>1, <1>3, <4>1, <4>2, MapFacts
      <4>4. \A k \in added : batch[k].card # q[s].card
        BY <4>3 DEF added, IsNew
      <4>5. q[s].card \in Cards
        BY <1>1, <1>3, <4>1, <4>2, IndexFacts DEF Candidate
      <4> QED BY <1>14, <4>3, <4>4, <4>5
    <3> QED BY <3>1, <3>2
  <2> QED BY <1>15, <1>16, <2>1, <2>2, MapIntro
<1>19. RevisitsRetention \/ FlagsAreCurrent(j)
  <2> SUFFICES ASSUME FlagsAreCurrent(index), NEW s \in slots
               PROVE  flags[s] = EligibleAt(q[s], index.retention)
    BY <1>1, <1>15, <1>16 DEF FlagsAreCurrent
  <2>1. flags[s] \in BOOLEAN /\ EligibleAt(q[s], index.retention) \in BOOLEAN
    BY <1>13, EligibleIsBoolean
  <2>2. CASE s > n \/ s \in replaced
    <3>1. q[s].status \notin {"active", "excluded"}
      BY <1>9, <1>10, <2>2
    <3>2. EligibleAt(q[s], index.retention) = FALSE
      BY <3>1, PendingNotEligible
    <3>3. ~flags[s]
      BY <1>13, <2>2
    <3> QED BY <2>1, <3>2, <3>3
  <2>3. CASE ~(s > n) /\ s \notin replaced
    <3>1. s \in 1..n
      BY <1>3, <2>3
    <3>2. flags[s] = index.eligible[s] /\ q[s] = index.slots[s]
      BY <1>11, <1>13, <2>3, <3>1
    <3> QED BY <1>3, <3>1, <3>2 DEF FlagsAreCurrent
  <2> QED BY <2>2, <2>3
<1>20. IsIndex(index') /\ IndexIsCoherent(index') /\ SameButOrder(index', j)
  BY <1>2, <1>16, <1>18, <1>19, RebuiltFacts, CoherentButOrder DEF IndexIsCoherent
<1>21. /\ Slots(index') = slots /\ index'.retention = index.retention
       /\ \A s \in Slots(index) : index'.slots[s].card = index.slots[s].card
       /\ \A s \in Slots(index) \ replaced : index'.slots[s] = index.slots[s]
                                             /\ index'.eligible[s] = index.eligible[s]
       /\ Slots(index) \subseteq slots
  <2>1. index'.slots = q /\ index'.eligible = flags /\ index'.retention = index.retention
    BY <1>15, <1>20 DEF SameButOrder
  <2>2. Slots(index') = slots
    BY <1>12, <2>1 DEF Slots
  <2> QED BY <1>3, <1>11, <1>13, <1>17, <2>1, <2>2
<1>22. ASSUME undo # <<>>
       PROVE  FrameOK(g, AppliedTo(g, index'), history[Len(undo)])
  <2> DEFINE f == Newest
             h == history[Len(undo)]
             x == RecordNew(RecordSlots(f, index, replaced), Slots(index') \ Slots(index))
  <2>1. g = x
    BY <1>3, <1>21
  <2>2. FrameOK(f, AppliedTo(f, index), h)
    BY <1>22, NewestFacts
  <2> HIDE DEF f, h, g
  <2>3. FrameOK(x, AppliedTo(x, index'), h)
    BY <1>1, <1>8, <1>20, <1>21, <2>2, RecordedFrame
  <2> HIDE DEF x
  <2>4. FrameOK(g, AppliedTo(g, index'), h)
    BY <2>1, <2>3
  <2> QED BY <2>4 DEF h
<1> QED BY <1>2, <1>20, <1>22, RecordedStep

-------------------------------------------------------------------------------
(* The theorems.                                                           *)

\* Every step of the session, and every stutter, keeps the invariant.
LEMMA NextInv ==
  ASSUME IInv, [Next]_vars
  PROVE  IInv'
<1>1. ASSUME NEW c \in Cards, NEW d \in Days, NEW requeue \in BOOLEAN, Answer(c, d, requeue)
      PROVE  IInv'
  BY <1>1, AnswerStep
<1>2. CASE Undo
  BY <1>2, UndoStep
<1>3. ASSUME NEW d \in Days, NEW r \in Extras, NEW excluded \in SUBSET Cards,
             Refresh(d, r, excluded)
      PROVE  IInv'
  BY <1>3, RefreshStep
<1>4. ASSUME NEW c \in Cards, ExcludeCard(c) \/ IncludeCard(c)
      PROVE  IInv'
  BY <1>4, ExcludeStep
<1>5. ASSUME NEW c \in Cards, RemoveCard(c)
      PROVE  IInv'
  BY <1>5, RemoveStep
<1>6. ASSUME NEW batch \in UpsertBatches, Upsert(batch)
      PROVE  IInv'
  BY <1>6, UpsertStep
<1>7. ASSUME NEW r \in Extras, SetRetention(r)
      PROVE  IInv'
  BY <1>7, SetRetentionStep
<1>8. ASSUME NEW cards \in Universes, NEW changed \in SUBSET ChangedSeeds,
             NEW d \in Days, NEW r \in Extras, Reconcile(cards, changed, d, r)
      PROVE  IInv'
  BY <1>8, ReconcileStep
<1>9. ASSUME NEW seeds \in UpsertBatches, Replace(seeds)
      PROVE  IInv'
  BY <1>9, ReplaceStep
<1>10. CASE SetMode
  BY <1>10, SetModeStep
<1>11. CASE UNCHANGED vars
  <2>1. index' = index /\ generation' = generation /\ undo' = undo /\ history' = history
    BY <1>11 DEF vars
  <2> QED BY <2>1, Unfold, FoldNext
<1> QED BY <1>1, <1>2, <1>3, <1>4, <1>5, <1>6, <1>7, <1>8, <1>9, <1>10, <1>11 DEF Next

\* The inductive invariant of the live session holds in every reachable state.
THEOREM InvariantHolds == Spec => []IInv
<1>1. Init => IInv
  BY InitInv
<1>2. IInv /\ [Next]_vars => IInv'
  BY NextInv
<1> QED BY <1>1, <1>2, PTL DEF Spec

\* The slot vectors, the map, the flags and every snapshot and delta kept for
\* undo have their types, and the stack never outgrows undo_limit.
THEOREM TypeCorrect == Spec => []TypeOK
<1>1. IInv => TypeOK
  BY DEF IInv
<1> QED BY <1>1, InvariantHolds, PTL

\* However answers, refreshes, insertions, removals, reconciliations and undos
\* follow one another, slot_by_card_id names exactly the live slots.
THEOREM MapIsExact == Spec => []SlotMapMatchesLiveSlots
<1>1. IInv => SlotMapMatchesLiveSlots
  BY DEF IInv, EveryFrameRestores, IndexIsCoherent, SlotMapMatchesLiveSlots
<1> QED BY <1>1, InvariantHolds, PTL

\* Every frame of the undo stack, at every depth, keeps enough to restore the
\* index its answer found.
THEOREM FramesRestore == Spec => []EveryFrameRestores
<1>1. IInv => EveryFrameRestores
  BY DEF IInv
<1> QED BY <1>1, InvariantHolds, PTL

\* restore_undo may replay the full deltas of a frame in any order: no two of
\* them are values of one card, and none is a tombstone.
THEOREM FramesSaveEachCard == Spec => []FramesSaveEachCardOnce
<1>1. IInv => FramesSaveEachCardOnce
  <2> SUFFICES ASSUME IInv, NEW k \in DOMAIN undo,
                      NEW s \in DOMAIN undo[k].full, NEW t \in DOMAIN undo[k].full,
                      undo[k].full[s] # New, undo[k].full[t] # New
               PROVE  /\ undo[k].full[s].cand.status # "removed"
                      /\ undo[k].full[s].cand.card = undo[k].full[t].cand.card => s = t
    BY DEF FramesSaveEachCardOnce
  <2> DEFINE f == undo[k]
             h == history[k]
  <2>1. IsIndex(h) /\ MapMatches(h) /\ FrameRestores(f, Base(k), h)
    <3>1. k \in DOMAIN history
      BY IsSequenceFacts DEF IInv, TypeOK
    <3> QED BY <3>1 DEF IInv, TypeOK, EveryFrameRestores, IndexIsCoherent
  <2> HIDE DEF h
  <2>2. ASSUME NEW x \in DOMAIN f.full, f.full[x] # New
        PROVE  /\ IsLive(h, x) /\ f.full[x].cand = h.slots[x]
               /\ h.slotOf[h.slots[x].card] = x
    BY <2>1, <2>2, SavedIsLive
  <2>3. f.full[s].cand.status # "removed"
    BY <2>2 DEF IsLive
  <2>4. f.full[s].cand.card = f.full[t].cand.card => s = t
    BY <2>2
  <2> QED BY <2>3, <2>4
<1> QED BY <1>1, InvariantHolds, PTL

\* A client that never returns to the retention extra of an answer it can
\* still undo always reads flags that are what the rule says now.
THEOREM FlagsStayCurrent ==
  ASSUME ~RevisitsRetention
  PROVE  Spec => []EligibilityIsCurrent
<1>1. IInv => EligibilityIsCurrent
  BY DEF IInv, EveryFrameRestores, IndexIsCoherent, EligibilityIsCurrent
<1> QED BY <1>1, InvariantHolds, PTL

\* undo_last_answer puts back every candidate, the map, the retention extra and
\* the target that the answer found, whatever happened in between.
THEOREM UndoIsExact == Spec => UndoRestoresUniverse
<1>1. IInv /\ [Next]_vars =>
        [Undo => LET before == Last(history)
                 IN  /\ SameUniverse(index', before)
                     /\ index'.retention = before.retention
                     /\ index'.day = before.day]_vars
  BY UndoStep
<1> QED BY <1>1, InvariantHolds, PTL DEF Spec, UndoRestoresUniverse

\* Every mutation of a live session advances its generation, an undo included.
THEOREM GenerationGrows == Spec => GenerationAdvances
<1>1. IInv /\ [Next]_vars => [generation' > generation]_vars
  <2>1. ASSUME IInv, Next
        PROVE  Advance
    BY <2>1 DEF Next, Answer, Undo, Refresh, ExcludeCard, IncludeCard, SetStatus,
       RemoveCard, Upsert, SetRetention, Reconcile, Replace, SetMode
  <2> QED BY <2>1, AdvanceFacts
<1> QED BY <1>1, InvariantHolds, PTL DEF Spec, GenerationAdvances
-------------------------------------------------------------------------------
(* Rank.                                                                    *)

LEMMA TimesGrows ==
  ASSUME NEW a \in Nat, NEW b \in Nat, NEW m \in Nat, a <= b
  PROVE  a * m <= b * m
<1>1. PICK n \in Nat : b = a + n
  <2>1. b - a \in Nat /\ b = a + (b - a)
    OBVIOUS
  <2>. QED BY <2>1
<1>2. (a + n) * m = a * m + n * m
  OBVIOUS
<1>3. a * m \in Nat /\ n * m \in Nat
  OBVIOUS
<1>. QED BY <1>1, <1>2, <1>3

LEMMA TimesCancels ==
  ASSUME NEW a \in Nat, NEW b \in Nat, NEW m \in Nat, m > 0, a * m <= b * m
  PROVE  a <= b
<1> SUFFICES ASSUME b + 1 <= a PROVE FALSE
  OBVIOUS
<1>1. (b + 1) * m <= a * m
  BY TimesGrows
<1>2. (b + 1) * m = b * m + m
  OBVIOUS
<1>3. a * m \in Nat /\ b * m \in Nat
  OBVIOUS
<1>. QED BY <1>1, <1>2, <1>3

\* Ratios, compared by their cross products: f1 / g1 and so on.
LEMMA RatiosTransitive ==
  ASSUME NEW f1 \in Nat, NEW g1 \in Nat, NEW f2 \in Nat, NEW g2 \in Nat,
         NEW f3 \in Nat, NEW g3 \in Nat, g2 > 0,
         f2 * g1 <= f1 * g2, f3 * g2 <= f2 * g3
  PROVE  f3 * g1 <= f1 * g3
<1>1. /\ f2 * g1 \in Nat /\ f1 * g2 \in Nat /\ f3 * g2 \in Nat /\ f2 * g3 \in Nat
      /\ f3 * g1 \in Nat /\ f1 * g3 \in Nat
  OBVIOUS
<1>2. (f2 * g1) * g3 <= (f1 * g2) * g3
  BY <1>1, TimesGrows
<1>3. (f3 * g2) * g1 <= (f2 * g3) * g1
  BY <1>1, TimesGrows
<1>4. (f2 * g1) * g3 = (f2 * g3) * g1
  OBVIOUS
<1>5. (f3 * g2) * g1 = (f3 * g1) * g2
  OBVIOUS
<1>6. (f1 * g2) * g3 = (f1 * g3) * g2
  OBVIOUS
<1>7. /\ (f3 * g1) * g2 \in Nat /\ (f1 * g3) * g2 \in Nat /\ (f2 * g1) * g3 \in Nat
  BY <1>1
<1>8. (f3 * g1) * g2 <= (f1 * g3) * g2
  BY <1>2, <1>3, <1>4, <1>5, <1>6, <1>7
<1>. QED BY <1>1, <1>8, TimesCancels

LEMMA FlooredPositive == \A x \in Int : Floored(x) \in Nat /\ Floored(x) > 0
BY DEF Floored

\* Whatever the order, the candidates that come before another one by value are
\* a strict weak order.
LEMMA ValuesOrdered ==
  ASSUME NEW c \in Candidate, NEW d \in Candidate, NEW e \in Candidate
  PROVE  /\ ~(ValueBefore(c, d) /\ ValueBefore(d, c))
         /\ ValueBefore(c, e) => ValueBefore(c, d) \/ ValueBefore(d, e)
<1>1. /\ c.pred \in Int /\ d.pred \in Int /\ e.pred \in Int
      /\ c.random \in Int /\ d.random \in Int /\ e.random \in Int
      /\ ApplicableTarget(c) \in Int /\ ApplicableTarget(d) \in Int
      /\ ApplicableTarget(e) \in Int
  BY RankAssumption DEF Candidate, ApplicableTarget, Values, NaN
<1>2. CASE Order = "retrievability_ascending"
  BY <1>1, <1>2 DEF ValueBefore
<1>3. CASE Order = "retrievability_descending"
  BY <1>1, <1>3 DEF ValueBefore
<1>4. CASE Order = "relative_overdueness"
  <2> DEFINE fc == Floored(c.pred)
             gc == Floored(ApplicableTarget(c))
             fd == Floored(d.pred)
             gd == Floored(ApplicableTarget(d))
             fe == Floored(e.pred)
             ge == Floored(ApplicableTarget(e))
  <2>1. /\ ValueBefore(c, d) <=> fc * gd < fd * gc
        /\ ValueBefore(d, c) <=> fd * gc < fc * gd
        /\ ValueBefore(c, e) <=> fc * ge < fe * gc
        /\ ValueBefore(d, e) <=> fd * ge < fe * gd
    BY <1>4 DEF ValueBefore
  <2>2. /\ fc \in Nat /\ gc \in Nat /\ fd \in Nat /\ gd \in Nat /\ fe \in Nat /\ ge \in Nat
        /\ gd > 0
    BY <1>1, FlooredPositive
  <2> HIDE DEF fc, gc, fd, gd, fe, ge
  <2>3. /\ fc * gd \in Nat /\ fd * gc \in Nat /\ fc * ge \in Nat /\ fe * gc \in Nat
        /\ fd * ge \in Nat /\ fe * gd \in Nat
    BY <2>2
  <2>4. ~(fc * gd < fd * gc /\ fd * gc < fc * gd)
    BY <2>3
  <2>5. ASSUME fd * gc <= fc * gd, fe * gd <= fd * ge PROVE fe * gc <= fc * ge
    BY <2>2, <2>5, RatiosTransitive
  <2>6. fc * ge < fe * gc => fc * gd < fd * gc \/ fd * ge < fe * gd
    BY <2>3, <2>5
  <2>. QED BY <2>1, <2>4, <2>6
<1>5. CASE Order = "random"
  BY <1>1, <1>5 DEF ValueBefore
<1>. QED BY <1>2, <1>3, <1>4, <1>5, RankAssumption DEF Orders

\* Candidates of distinct cards are strictly ordered by rank.
LEMMA RanksOrdered ==
  ASSUME NEW c \in Candidate, NEW d \in Candidate, NEW e \in Candidate,
         NEW ec \in BOOLEAN, NEW ed \in BOOLEAN, NEW ee \in BOOLEAN
  PROVE  /\ ~Before(c, ec, c, ec)
         /\ Before(c, ec, d, ed) /\ Before(d, ed, e, ee) => Before(c, ec, e, ee)
         /\ c.card # d.card => Before(c, ec, d, ed) \/ Before(d, ed, c, ec)
<1>1. c.card \in Nat /\ d.card \in Nat /\ e.card \in Nat
  BY RankAssumption DEF Candidate
<1> DEFINE cd == ValueBefore(c, d)
           dc == ValueBefore(d, c)
           de == ValueBefore(d, e)
           ed1 == ValueBefore(e, d)
           ce == ValueBefore(c, e)
           ec1 == ValueBefore(e, c)
           hc == HasValue(c)
           hd == HasValue(d)
           he == HasValue(e)
<1>2. /\ ~(cd /\ dc) /\ ~(de /\ ed1) /\ ~(ce /\ ec1) /\ ~ValueBefore(c, c)
      /\ (ce => cd \/ de) /\ (ec1 => ed1 \/ dc) /\ (cd => ce \/ ed1)
      /\ (de => dc \/ ce) /\ (dc => de \/ ec1) /\ (ed1 => ec1 \/ cd)
  BY ValuesOrdered
<1>3. /\ Before(c, ec, d, ed) <=>
           IF ec # ed THEN ec ELSE IF hc # hd THEN hc
           ELSE IF hc /\ (cd \/ dc) THEN cd ELSE c.card < d.card
      /\ Before(d, ed, c, ec) <=>
           IF ed # ec THEN ed ELSE IF hd # hc THEN hd
           ELSE IF hd /\ (dc \/ cd) THEN dc ELSE d.card < c.card
      /\ Before(d, ed, e, ee) <=>
           IF ed # ee THEN ed ELSE IF hd # he THEN hd
           ELSE IF hd /\ (de \/ ed1) THEN de ELSE d.card < e.card
      /\ Before(c, ec, e, ee) <=>
           IF ec # ee THEN ec ELSE IF hc # he THEN hc
           ELSE IF hc /\ (ce \/ ec1) THEN ce ELSE c.card < e.card
      /\ Before(c, ec, c, ec) <=> IF hc /\ ValueBefore(c, c) THEN ValueBefore(c, c) ELSE c.card < c.card
  BY DEF Before
<1>4. /\ cd \in BOOLEAN /\ dc \in BOOLEAN /\ de \in BOOLEAN /\ ed1 \in BOOLEAN /\ ce \in BOOLEAN
      /\ ec1 \in BOOLEAN /\ hc \in BOOLEAN /\ hd \in BOOLEAN /\ he \in BOOLEAN
  <2>1. \A x, y \in Candidate : ValueBefore(x, y) \in BOOLEAN
    <3>1. ASSUME NEW x \in Candidate, NEW y \in Candidate PROVE ValueBefore(x, y) \in BOOLEAN
      <4>1. CASE Order = "retrievability_ascending"
        BY <4>1 DEF ValueBefore
      <4>2. CASE Order = "retrievability_descending"
        BY <4>2 DEF ValueBefore
      <4>3. CASE Order = "relative_overdueness"
        BY <4>3 DEF ValueBefore
      <4>4. CASE Order = "random"
        BY <4>4 DEF ValueBefore
      <4>. QED BY <4>1, <4>2, <4>3, <4>4, RankAssumption DEF Orders
    <3>. QED BY <3>1
  <2>2. \A x : HasValue(x) \in BOOLEAN
    BY DEF HasValue
  <2>. QED BY <2>1, <2>2
<1> HIDE DEF cd, dc, de, ed1, ce, ec1, hc, hd, he
<1>5. ~Before(c, ec, c, ec)
  BY <1>1, <1>2, <1>3
<1>6. ASSUME Before(c, ec, d, ed), Before(d, ed, e, ee) PROVE Before(c, ec, e, ee)
  <2>1. CASE ec # ed \/ ed # ee
    BY <1>3, <1>6, <2>1
  <2>2. CASE ec = ed /\ ed = ee /\ (hc # hd \/ hd # he)
    BY <1>3, <1>4, <1>6, <2>2
  <2>3. CASE ec = ed /\ ed = ee /\ hc = hd /\ hd = he /\ hc
    <3>1. CASE cd \/ dc \/ de \/ ed1
      BY <1>2, <1>3, <1>6, <2>3, <3>1
    <3>2. CASE ~(cd \/ dc \/ de \/ ed1)
      <4>1. ~ce /\ ~ec1
        BY <1>2, <3>2
      <4>2. c.card < d.card /\ d.card < e.card
        BY <1>3, <1>6, <2>3, <3>2
      <4>3. c.card < e.card
        BY <1>1, <4>2
      <4>. QED BY <1>3, <2>3, <4>1, <4>3
    <3>. QED BY <3>1, <3>2
  <2>4. CASE ec = ed /\ ed = ee /\ hc = hd /\ hd = he /\ ~hc
    BY <1>1, <1>3, <1>6, <2>4
  <2>. QED BY <2>1, <2>2, <2>3, <2>4
<1>7. ASSUME c.card # d.card PROVE Before(c, ec, d, ed) \/ Before(d, ed, c, ec)
  <2>1. c.card < d.card \/ d.card < c.card
    BY <1>1, <1>7
  <2>. QED BY <1>2, <1>3, <1>4, <2>1
<1>. QED BY <1>5, <1>6, <1>7
-------------------------------------------------------------------------------
(* The order of one index.                                                 *)

\* The live slots of an index are strictly ordered by rank.
LEMMA PrecedenceOrders ==
  ASSUME NEW i, IsIndex(i), MapMatches(i)
  PROVE  StrictlyOrders(Precedence(i), LiveSlots(i))
<1>1. \A s \in LiveSlots(i) :
        s \in Slots(i) /\ IsLive(i, s) /\ i.slots[s] \in Candidate /\ i.eligible[s] \in BOOLEAN
  BY IndexFacts DEF LiveSlots
<1>2. \A s, t \in LiveSlots(i) : <<s, t>> \in Precedence(i) <=> RanksBefore(i, s, t)
  BY <1>1 DEF Precedence
<1>3. \A s, t \in LiveSlots(i) : s # t => i.slots[s].card # i.slots[t].card
  BY <1>1, MapFacts
<1>4. \A s, t, u \in LiveSlots(i) :
        /\ ~RanksBefore(i, s, s)
        /\ RanksBefore(i, s, t) /\ RanksBefore(i, t, u) => RanksBefore(i, s, u)
        /\ s # t => RanksBefore(i, s, t) \/ RanksBefore(i, t, s)
  BY <1>1, <1>3, RanksOrdered DEF RanksBefore
<1>. QED BY <1>2, <1>4 DEF StrictlyOrders

\* The numbers in increasing order.
InTurn == {p \in Nat \X Nat : p[1] < p[2]}

LEMMA InTurnOrders ==
  ASSUME NEW S \in SUBSET Nat
  PROVE  StrictlyOrders(InTurn, S)
<1>1. \A m, n \in S : m \in Nat /\ n \in Nat /\ (<<m, n>> \in InTurn <=> m < n)
  BY DEF InTurn
<1>. QED BY <1>1 DEF StrictlyOrders

\* A sequence is one of what it has.
LEMMA SeqOfHas ==
  ASSUME NEW A, NEW B, NEW x \in Seq(A), \A z : Has(x, z) => z \in B
  PROVE  x \in Seq(B)
<1>1. Len(x) \in Nat /\ x = [k \in 1 .. Len(x) |-> x[k]]
  OBVIOUS
<1>2. \A k \in 1 .. Len(x) : x[k] \in B
  BY DEF Has
<1>3. x \in [1 .. Len(x) -> B]
  BY <1>1, <1>2
<1>. QED BY <1>1, <1>3, FunctionIsSeq

\* A sequence in a strict order repeats nothing.
LEMMA SortedDistinct ==
  ASSUME NEW S, NEW prec, StrictlyOrders(prec, S), NEW x \in Seq(S), Sorted(prec, x)
  PROVE  \A k, l \in 1 .. Len(x) : k # l => x[k] # x[l]
<1>1. \A k \in 1 .. Len(x) : x[k] \in S /\ <<x[k], x[k]>> \notin prec
  BY DEF StrictlyOrders
<1>2. \A k, l \in 1 .. Len(x) : k < l => <<x[k], x[l]>> \in prec
  BY DEF Sorted
<1>. TAKE k, l \in 1 .. Len(x)
<1>. HAVE k # l
<1>3. k < l \/ l < k
  OBVIOUS
<1>. QED BY <1>1, <1>2, <1>3

\* Some slots of an index, each once, in slot order.
IsInTurn(x, S) ==
  /\ x \in Seq(S) /\ Sorted(InTurn, x)
  /\ \A s : Has(x, s) <=> s \in S
  /\ \A k, l \in 1 .. Len(x) : k # l => x[k] # x[l]

LEMMA SlotsInTurnFacts ==
  ASSUME NEW i, IsIndex(i), NEW S \in SUBSET Slots(i)
  PROVE  IsInTurn(Chosen(SlotsInTurn(i), S), S)
<1> DEFINE n == Len(i.slots)
           x == SlotsInTurn(i)
           y == Chosen(x, S)
<1>1. n \in Nat /\ Slots(i) = 1 .. n
  BY IndexFacts
<1>2. x \in [1 .. n -> Nat] /\ \A k \in 1 .. n : x[k] = k
  BY <1>1 DEF SlotsInTurn
<1> HIDE DEF n, x
<1>3. x \in Seq(Nat) /\ Len(x) = n
  BY <1>1, <1>2, FunctionIsSeq
<1>4. Sorted(InTurn, x)
  BY <1>1, <1>2, <1>3 DEF Sorted, InTurn
<1>5. \A s : Has(x, s) <=> s \in Slots(i)
  BY <1>1, <1>2, <1>3 DEF Has
<1>6. y \in Seq(Nat) /\ Sorted(InTurn, y) /\ \A s : Has(y, s) <=> s \in S
  BY <1>3, <1>4, <1>5, ChosenType, ChosenSorted
<1> HIDE DEF y
<1>7. \A k, l \in 1 .. Len(y) : k # l => y[k] # y[l]
  BY <1>6, InTurnOrders, SortedDistinct
<1>8. y \in Seq(S)
  BY <1>6, SeqOfHas
<1>9. IsInTurn(y, S)
  BY <1>6, <1>7, <1>8 DEF IsInTurn
<1>. QED BY <1>9 DEF y, x

\* o is the rank order of index i.
IsRank(i, o) ==
  /\ o \in Seq(LiveSlots(i)) /\ Sorted(Precedence(i), o)
  /\ \A s : Has(o, s) <=> s \in LiveSlots(i)

LEMMA ExactIsRank ==
  ASSUME NEW i, OrderIsExact(i)
  PROVE  IsRank(i, i.ordered)
<1> DEFINE o == i.ordered
<1>1. /\ o \in Seq(Slots(i)) /\ Range(o) = LiveSlots(i)
      /\ \A k, l \in DOMAIN o : k < l => RanksBefore(i, o[k], o[l])
  BY DEF OrderIsExact
<1> HIDE DEF o
<1>2. DOMAIN o = 1 .. Len(o) /\ \A k \in 1 .. Len(o) : o[k] \in Slots(i)
  BY <1>1
<1>3. \A s : Has(o, s) <=> s \in LiveSlots(i)
  BY <1>1, <1>2 DEF Has, Range
<1>4. Sorted(Precedence(i), o)
  BY <1>1, <1>2 DEF Sorted, Precedence
<1>5. o \in Seq(LiveSlots(i))
  BY <1>1, <1>3, SeqOfHas
<1>. QED BY <1>3, <1>4, <1>5 DEF IsRank, o

LEMMA RankIsExact ==
  ASSUME NEW i, IsIndex(i), MapMatches(i), IsRank(i, i.ordered)
  PROVE  OrderIsExact(i)
<1> DEFINE o == i.ordered
<1>1. /\ o \in Seq(LiveSlots(i)) /\ Sorted(Precedence(i), o)
      /\ \A s : Has(o, s) <=> s \in LiveSlots(i)
  BY DEF IsRank
<1> HIDE DEF o
<1>2. DOMAIN o = 1 .. Len(o) /\ \A k \in 1 .. Len(o) : o[k] \in LiveSlots(i)
  BY <1>1
<1>3. \A k, l \in 1 .. Len(o) : k # l => o[k] # o[l]
  BY <1>1, PrecedenceOrders, SortedDistinct
<1>4. Range(o) = LiveSlots(i) /\ IsInjective(o)
  BY <1>1, <1>2, <1>3 DEF Has, Range, IsInjective
<1>5. \A k, l \in DOMAIN o : k < l => RanksBefore(i, o[k], o[l])
  BY <1>1, <1>2 DEF Sorted, Precedence
<1>6. o \in Seq(Slots(i))
  BY <1>1, SeqOfHas DEF LiveSlots
<1>. QED BY <1>4, <1>5, <1>6 DEF OrderIsExact, o

\* Slots ranked into an order of other slots.
LEMMA RankedIsRank ==
  ASSUME NEW i, IsIndex(i), MapMatches(i), NEW S \in SUBSET LiveSlots(i),
         NEW o \in Seq(LiveSlots(i) \ S), Sorted(Precedence(i), o),
         \A s : Has(o, s) <=> s \in LiveSlots(i) \ S
  PROVE  IsRank(i, Ranked(i, S, o))
<1> DEFINE xs == Chosen(SlotsInTurn(i), S)
           prec == Precedence(i)
           L == LiveSlots(i)
<1>1. IsInTurn(xs, S)
  <2>1. S \subseteq Slots(i)
    BY DEF LiveSlots
  <2>. QED BY <2>1, SlotsInTurnFacts
<1>2. Ranked(i, S, o) = RankInto(prec, xs, o)
  BY DEF Ranked
<1>3. StrictlyOrders(prec, L)
  BY PrecedenceOrders
<1> HIDE DEF xs, prec
<1>4. /\ xs \in Seq(L) /\ \A k, l \in 1 .. Len(xs) : k # l => xs[k] # xs[l]
      /\ \A s : Has(xs, s) <=> s \in S
  BY <1>1, SeqOfHas DEF IsInTurn
<1>5. o \in Seq(L)
  BY SeqOfHas
<1>6. \A k \in 1 .. Len(xs) : ~Has(o, xs[k])
  BY <1>4 DEF Has
<1>7. Sorted(prec, o)
  BY DEF prec
<1> DEFINE r == RankInto(prec, xs, o)
<1>8. r \in Seq(L) /\ Sorted(prec, r) /\ \A z : Has(r, z) <=> Has(o, z) \/ Has(xs, z)
  BY <1>3, <1>4, <1>5, <1>6, <1>7, RankIntoSorted
<1> HIDE DEF r
<1>9. \A z : Has(r, z) <=> z \in L
  BY <1>4, <1>8
<1>10. IsRank(i, r)
  BY <1>8, <1>9 DEF IsRank, prec
<1>. QED BY <1>2, <1>10 DEF r

\* k is j in some order.
IsOrderOf(k, j, o) ==
  /\ k.ordered = o /\ k.slots = j.slots /\ k.eligible = j.eligible

LEMMA OrderedAs ==
  ASSUME NEW j, NEW o, NEW k, k = [j EXCEPT !.ordered = o], IsIndex(k)
  PROVE  IsOrderOf(k, j, o)
<1>1. DOMAIN k = {"slots", "slotOf", "eligible", "ordered", "retention", "day"}
  BY IndexIsUnflagged, IndexDomain
<1>2. DOMAIN j = DOMAIN k
  OBVIOUS
<1>. QED BY <1>1, <1>2 DEF IsOrderOf

\* Rank is a matter of slots and flags.
LEMMA RankOf ==
  ASSUME NEW k, NEW j, k.slots = j.slots, k.eligible = j.eligible
  PROVE  /\ Slots(k) = Slots(j) /\ LiveSlots(k) = LiveSlots(j)
         /\ Precedence(k) = Precedence(j) /\ SlotsInTurn(k) = SlotsInTurn(j)
         /\ \A S, o : Ranked(k, S, o) = Ranked(j, S, o)
<1>1. Slots(k) = Slots(j)
  BY DEF Slots
<1>2. LiveSlots(k) = LiveSlots(j)
  BY <1>1 DEF LiveSlots, IsLive
<1>3. Precedence(k) = Precedence(j)
  BY <1>1 DEF Precedence, RanksBefore
<1>4. SlotsInTurn(k) = SlotsInTurn(j)
  BY <1>1 DEF SlotsInTurn
<1>. QED BY <1>1, <1>2, <1>3, <1>4 DEF Ranked

\* rebuild_order leaves an exact order, whatever there was before.
LEMMA RebuiltIsExact ==
  ASSUME NEW j, NEW k, k = Rebuilt(j), IsIndex(k), MapMatches(k)
  PROVE  OrderIsExact(k)
<1> DEFINE o == Ranked(j, LiveSlots(j), <<>>)
<1>1. k = [j EXCEPT !.ordered = o]
  BY DEF Rebuilt
<1> HIDE DEF o
<1>2. IsOrderOf(k, j, o)
  BY <1>1, OrderedAs
<1>3. k.ordered = Ranked(k, LiveSlots(k), <<>>)
  BY <1>2, RankOf DEF IsOrderOf, o
<1>4. <<>> \in Seq(LiveSlots(k) \ LiveSlots(k)) /\ Len(<<>>) = 0
  OBVIOUS
<1>5. Sorted(Precedence(k), <<>>) /\ \A s : Has(<<>>, s) <=> s \in LiveSlots(k) \ LiveSlots(k)
  BY <1>4 DEF Sorted, Has
<1>6. IsRank(k, k.ordered)
  BY <1>3, <1>4, <1>5, RankedIsRank
<1>. QED BY <1>6, RankIsExact

\* k has the slots of i, of which those outside U rank as they did.
OutsideSame(i, k, U) ==
  /\ Slots(k) = Slots(i)
  /\ \A s \in Slots(i) \ U : k.slots[s] = i.slots[s] /\ k.eligible[s] = i.eligible[s]

\* merge_updated_order keeps an order exact.
LEMMA MergedIsExact ==
  ASSUME NEW i, NEW j, NEW k, NEW U, k = Merged(j, U), IsIndex(k), MapMatches(k),
         j.ordered = i.ordered, OrderIsExact(i), OutsideSame(i, k, U)
  PROVE  OrderIsExact(k)
<1> DEFINE o == Ranked(j, U \cap LiveSlots(j), Without(j.ordered, U))
           w == Without(i.ordered, U)
<1>1. k = [j EXCEPT !.ordered = o]
  BY DEF Merged
<1> HIDE DEF o
<1>2. IsOrderOf(k, j, o)
  BY <1>1, OrderedAs
<1>3. k.ordered = Ranked(k, U \cap LiveSlots(k), w)
  <2>1. o = Ranked(j, U \cap LiveSlots(j), w)
    BY DEF o
  <2> HIDE DEF w
  <2>2. k.slots = j.slots /\ k.eligible = j.eligible /\ k.ordered = o
    BY <1>2 DEF IsOrderOf
  <2>3. LiveSlots(k) = LiveSlots(j) /\ \A S, v : Ranked(k, S, v) = Ranked(j, S, v)
    BY <2>2, RankOf
  <2>. QED BY <2>1, <2>2, <2>3
<1> DEFINE L == LiveSlots(i)
           x == i.ordered
           C == Range(x) \ U
<1>4. IsRank(i, x)
  BY ExactIsRank
<1>5. /\ x \in Seq(L) /\ Sorted(Precedence(i), x) /\ \A s : Has(x, s) <=> s \in L
      /\ w = Chosen(x, C)
  BY <1>4 DEF IsRank, Without
<1>6. Range(x) = L
  BY <1>5 DEF Has, Range
<1> HIDE DEF x, w
<1>7. /\ w \in Seq(L) /\ Sorted(Precedence(i), w)
      /\ \A s : Has(w, s) <=> s \in L \ U
  BY <1>5, <1>6, ChosenType, ChosenSorted
<1>8. \A s : s \in L \ U <=> s \in LiveSlots(k) \ U
  BY DEF OutsideSame, LiveSlots, IsLive
<1>9. w \in Seq(LiveSlots(k) \ (U \cap LiveSlots(k)))
      /\ \A s : Has(w, s) <=> s \in LiveSlots(k) \ (U \cap LiveSlots(k))
  BY <1>7, <1>8, SeqOfHas
<1>10. Sorted(Precedence(k), w)
  <2>1. \A s, t \in L \ U : <<s, t>> \in Precedence(i) => <<s, t>> \in Precedence(k)
    BY DEF OutsideSame, Precedence, RanksBefore, LiveSlots
  <2>2. \A m \in 1 .. Len(w) : w[m] \in L \ U
    BY <1>7 DEF Has
  <2>. QED BY <1>7, <2>1, <2>2 DEF Sorted
<1>11. IsRank(k, k.ordered)
  BY <1>3, <1>9, <1>10, RankedIsRank
<1>. QED BY <1>11, RankIsExact

\* And so does update_order_after_refresh.
LEMMA ReorderedIsExact ==
  ASSUME NEW i, NEW j, NEW k, NEW U, NEW force, k = Reordered(j, U, force),
         IsIndex(k), MapMatches(k), OrderIsExact(i),
         force \/ (j.ordered = i.ordered /\ OutsideSame(i, k, U))
  PROVE  OrderIsExact(k)
<1>1. k = Rebuilt(j) \/ (~force /\ k = Merged(j, U))
  BY DEF Reordered
<1>. QED BY <1>1, RebuiltIsExact, MergedIsExact

\* The rank does not depend on what exclude_card and include_card change.
LEMMA StatusKeepsExact ==
  ASSUME NEW i, NEW k, IsIndex(i), IsIndex(k), OrderIsExact(i), k.ordered = i.ordered,
         k.eligible = i.eligible, Slots(k) = Slots(i),
         \A s \in Slots(i) : /\ \E t : k.slots[s] = [i.slots[s] EXCEPT !.status = t]
                             /\ IsLive(k, s) <=> IsLive(i, s)
  PROVE  OrderIsExact(k)
<1>1. LiveSlots(k) = LiveSlots(i)
  BY DEF LiveSlots
<1>2. \A s \in Slots(i) :
        /\ i.slots[s] \in Candidate /\ k.slots[s] \in Candidate
        /\ k.slots[s].card = i.slots[s].card /\ k.slots[s].pred = i.slots[s].pred
        /\ k.slots[s].random = i.slots[s].random /\ k.slots[s].elapsed = i.slots[s].elapsed
        /\ k.slots[s].normal = i.slots[s].normal /\ k.slots[s].intraday = i.slots[s].intraday
  <2>. TAKE s \in Slots(i)
  <2>1. PICK t : k.slots[s] = [i.slots[s] EXCEPT !.status = t]
    OBVIOUS
  <2>2. i.slots[s] \in Candidate /\ k.slots[s] \in Candidate
    BY IndexFacts
  <2>. QED BY <2>1, <2>2 DEF Candidate
<1>3. \A s, t \in Slots(i) : RanksBefore(k, s, t) = RanksBefore(i, s, t)
  BY <1>2 DEF RanksBefore, Before, HasValue, ValueBefore, ApplicableTarget
<1>4. \A m \in DOMAIN i.ordered : i.ordered[m] \in Slots(i)
  BY DEF OrderIsExact
<1>. QED BY <1>1, <1>3, <1>4 DEF OrderIsExact

\* Reordering touches neither slots nor flags.
LEMMA ReorderedAs ==
  ASSUME NEW j, NEW k, NEW U, NEW force, k = Reordered(j, U, force), IsIndex(k)
  PROVE  k.slots = j.slots /\ k.eligible = j.eligible
<1>1. k = Rebuilt(j) \/ k = Merged(j, U)
  BY DEF Reordered
<1>2. \E o : k = [j EXCEPT !.ordered = o]
  <2>1. CASE k = Rebuilt(j)
    BY <2>1 DEF Rebuilt
  <2>2. CASE k = Merged(j, U)
    BY <2>2 DEF Merged
  <2>. QED BY <1>1, <2>1, <2>2
<1>. QED BY <1>2, OrderedAs DEF IsOrderOf

\* restore_undo merges what the deltas touched into an exact order, or rebuilds.
LEMMA RestoredIsExact ==
  ASSUME NEW f, NEW cur, NEW b, NEW k, b = AppliedTo(f, cur), k = Restored(cur, f),
         IsIndex(b), OrderIsExact(b), IsIndex(k), MapMatches(k)
  PROVE  OrderIsExact(k)
<1> DEFINE j == [b EXCEPT !.slots = RestoredSlots(b, f), !.eligible = RestoredEligible(b, f),
                          !.slotOf = RestoredSlotOf(b, f),
                          !.retention = f.retention, !.day = f.day]
           U == DOMAIN f.full \cup DOMAIN f.refresh
<1>1. DOMAIN b = {"slots", "slotOf", "eligible", "ordered", "retention", "day"}
  BY IndexIsUnflagged, IndexDomain
<1>2. /\ j.slots = RestoredSlots(b, f) /\ j.eligible = RestoredEligible(b, f)
      /\ j.ordered = b.ordered
  BY <1>1
<1>3. CASE b.retention # f.retention
  <2>1. k = Rebuilt(Recomputed(j))
    BY <1>3 DEF Restored
  <2>. QED BY <2>1, RebuiltIsExact
<1>4. CASE b.retention = f.retention
  <2>1. k = Reordered(j, U, FALSE)
    BY <1>4 DEF Restored
  <2> HIDE DEF j, U
  <2>2. k.slots = RestoredSlots(b, f) /\ k.eligible = RestoredEligible(b, f)
    <3>1. k.slots = j.slots /\ k.eligible = j.eligible
      BY <2>1, ReorderedAs
    <3>. QED BY <1>2, <3>1
  <2>3. DOMAIN RestoredSlots(b, f) = Slots(b)
    BY DEF RestoredSlots
  <2>4. \A s \in Slots(b) \ U : /\ RestoredSlots(b, f)[s] = b.slots[s]
                                /\ RestoredEligible(b, f)[s] = b.eligible[s]
    BY RestoredOther DEF U
  <2>5. OutsideSame(b, k, U)
    BY <2>2, <2>3, <2>4 DEF OutsideSame, Slots
  <2>. QED BY <1>2, <2>1, <2>5, ReorderedIsExact
<1>. QED BY <1>3, <1>4

-------------------------------------------------------------------------------
(* Every order of the stack.                                               *)

OrdersOK(u, h, i) ==
  /\ OrderIsExact(i)
  /\ \A k \in 1 .. Len(u) : /\ OrderIsExact(h[k])
                            /\ u[k].before # <<>> => OrderIsExact(u[k].before[1])

LEMMA UnfoldOrders ==
  ASSUME IInv, OrderIsExactAndSorted
  PROVE  OrdersOK(undo, history, index)
<1>1. DOMAIN undo = 1 .. Len(undo)
  BY Unfold, IsSequenceFacts DEF StackOK
<1>. QED BY <1>1 DEF OrderIsExactAndSorted, OrdersOK

LEMMA FoldOrders ==
  ASSUME IInv', OrdersOK(undo', history', index')
  PROVE  OrderIsExactAndSorted'
<1>1. IsSequence(undo')
  BY DEF IInv, TypeOK
<1>2. DOMAIN undo' = 1 .. Len(undo')
  BY <1>1, IsSequenceFacts
<1>. QED BY <1>2 DEF OrderIsExactAndSorted, OrdersOK

LEMMA UnfoldNext ==
  ASSUME IInv'
  PROVE  IsIndex(index') /\ MapMatches(index') /\ (RevisitsRetention \/ FlagsAreCurrent(index'))
BY DEF IInv, TypeOK, EveryFrameRestores, IndexIsCoherent

\* What a mutation that keeps the stack has to show of its orders.
LEMMA RecordedOrders ==
  ASSUME IInv, OrdersOK(undo, history, index), OrderIsExact(index'), NEW g,
         undo' = WithNewest(g), history' = history,
         undo # <<>> => g.before = Newest.before \/ g.before = <<index>>
  PROVE  OrdersOK(undo', history', index')
<1>1. IsSequence(undo) /\ Len(undo) \in Nat
  BY Unfold, IsSequenceFacts DEF StackOK
<1>2. CASE undo = <<>>
  BY <1>2 DEF WithNewest, OrdersOK
<1>3. CASE undo # <<>>
  <2> DEFINE n == Len(undo)
  <2>1. n \in 1 .. n /\ n \in DOMAIN undo
    BY <1>1, <1>3, FrontFacts, IsSequenceFacts
  <2>2. undo' = [undo EXCEPT ![n] = g]
    BY <1>3 DEF WithNewest
  <2>3. /\ Len(undo') = n
        /\ \A k \in 1 .. n : undo'[k] = IF k = n THEN g ELSE undo[k]
    BY <1>1, <2>1, <2>2, ExceptFacts
  <2>4. g.before # <<>> => OrderIsExact(g.before[1])
    <3>1. CASE g.before = Newest.before
      BY <2>1, <3>1 DEF OrdersOK, Newest
    <3>2. CASE g.before = <<index>>
      BY <3>2 DEF OrdersOK
    <3>. QED BY <1>3, <3>1, <3>2
  <2> HIDE DEF n
  <2>5. \A k \in 1 .. n : /\ OrderIsExact(history[k])
                          /\ undo[k].before # <<>> => OrderIsExact(undo[k].before[1])
    BY DEF OrdersOK, n
  <2>6. \A k \in 1 .. n : undo'[k].before # <<>> => OrderIsExact(undo'[k].before[1])
    BY <2>3, <2>4, <2>5
  <2>. QED BY <2>3, <2>5, <2>6 DEF OrdersOK
<1>. QED BY <1>2, <1>3

\* process_answer: the answered slot is merged, and the snapshot was exact.
LEMMA AnswerOrders ==
  ASSUME IInv, IInv', OrdersOK(undo, history, index),
         NEW c \in Cards, NEW d \in Days, NEW requeue \in BOOLEAN, Answer(c, d, requeue)
  PROVE  OrdersOK(undo', history', index')
<1> DEFINE s == index.slotOf[c]
           j == [index EXCEPT !.slots[s] = Answered(@, d, requeue), !.eligible[s] = FALSE,
                              !.slotOf[c] = IF requeue THEN @ ELSE Absent]
           f == Capture(index, s)
           u == Append(undo, f)
           h == Append(history, index)
<1>1. /\ index' = Reordered(j, {s}, FALSE)
      /\ undo' = Trimmed(u) /\ history' = Trimmed(h)
  BY DEF Answer
<1>2. /\ IsIndex(index) /\ IsSequence(undo) /\ IsSequence(history)
      /\ Len(undo) = Len(history) /\ Len(undo) \in Nat /\ IsIndex(index') /\ MapMatches(index')
  BY Unfold, UnfoldNext, IsSequenceFacts DEF StackOK
<1>3. DOMAIN index = {"slots", "slotOf", "eligible", "ordered", "retention", "day"}
  BY <1>2, IndexIsUnflagged, IndexDomain
<1>4. /\ \E e : j.slots = [index.slots EXCEPT ![s] = e]
      /\ j.eligible = [index.eligible EXCEPT ![s] = FALSE]
      /\ j.ordered = index.ordered
  BY <1>3
<1> HIDE DEF j
<1>5. index'.slots = j.slots /\ index'.eligible = j.eligible
  BY <1>1, <1>2, ReorderedAs
<1>6. DOMAIN index.eligible = Slots(index)
  BY <1>2 DEF IsIndex, Slots
<1>7. OutsideSame(index, index', {s})
  BY <1>4, <1>5, <1>6 DEF OutsideSame, Slots
<1>8. OrderIsExact(index') /\ OrderIsExact(index)
  <2>1. OrderIsExact(index)
    BY DEF OrdersOK
  <2>2. j.ordered = index.ordered
    BY <1>4
  <2> HIDE DEF s
  <2>. QED BY <1>1, <1>2, <1>7, <2>1, <2>2, ReorderedIsExact
<1>9. f.before = <<>>
  BY DEF Capture
<1> HIDE DEF f, s
<1> DEFINE n == Len(undo)
<1>10. /\ IsSequence(u) /\ Len(u) = n + 1 /\ u[n + 1] = f /\ \A k \in 1 .. n : u[k] = undo[k]
       /\ IsSequence(h) /\ Len(h) = n + 1 /\ h[n + 1] = index /\ \A k \in 1 .. n : h[k] = history[k]
  BY <1>2, AppendFacts
<1> HIDE DEF u, h
<1>11. \A k \in 1 .. n + 1 : /\ OrderIsExact(h[k])
                             /\ u[k].before # <<>> => OrderIsExact(u[k].before[1])
  <2>. TAKE k \in 1 .. n + 1
  <2>1. CASE k = n + 1
    BY <1>8, <1>9, <1>10, <2>1
  <2>2. CASE k # n + 1
    <3>1. k \in 1 .. n
      BY <1>2, <2>2
    <3>. QED BY <1>10, <3>1 DEF OrdersOK
  <2>. QED BY <2>1, <2>2
<1>12. CASE Len(u) <= UndoLimit
  <2>1. undo' = u /\ history' = h
    BY <1>1, <1>2, <1>10, <1>12, IndexAssumption DEF Trimmed
  <2>. QED BY <1>8, <1>10, <1>11, <2>1 DEF OrdersOK
<1>13. CASE Len(u) > UndoLimit
  <2>1. undo' = Tail(u) /\ history' = Tail(h)
    BY <1>1, <1>10, <1>13 DEF Trimmed
  <2>2. /\ Len(undo') = n /\ \A k \in 1 .. n : undo'[k] = u[k + 1] /\ history'[k] = h[k + 1]
    BY <1>2, <1>10, <2>1, TailFacts
  <2>3. \A k \in 1 .. n : k + 1 \in 1 .. n + 1
    BY <1>2
  <2>4. \A k \in 1 .. n : /\ OrderIsExact(history'[k])
                          /\ undo'[k].before # <<>> => OrderIsExact(undo'[k].before[1])
    BY <1>11, <2>2, <2>3
  <2>. QED BY <1>8, <2>2, <2>4 DEF OrdersOK
<1>. QED BY <1>2, <1>10, <1>12, <1>13, IndexAssumption

\* undo_last_answer: the order the frame is applied to was exact.
LEMMA UndoOrders ==
  ASSUME IInv, IInv', OrdersOK(undo, history, index), Undo
  PROVE  OrdersOK(undo', history', index') /\ OrderIsExact(Last(history))
<1> DEFINE n == Len(undo)
           f == undo[n]
           b == AppliedTo(f, index)
<1>1. /\ undo # <<>> /\ index' = Restored(index, Last(undo))
      /\ undo' = Front(undo) /\ history' = Front(history)
  BY DEF Undo
<1>2. /\ IsSequence(undo) /\ IsSequence(history) /\ Len(history) = n /\ n \in Nat
      /\ IsIndex(index') /\ MapMatches(index')
  BY Unfold, UnfoldNext, IsSequenceFacts DEF StackOK
<1>3. /\ n > 0 /\ Last(undo) = f /\ Len(undo') = n - 1
      /\ \A k \in 1 .. n - 1 : undo'[k] = undo[k]
  BY <1>1, <1>2, FrontFacts
<1>4. history # <<>>
  BY <1>2, <1>3
<1>5. Last(history) = history[n] /\ \A k \in 1 .. n - 1 : history'[k] = history[k]
  BY <1>1, <1>2, <1>4, FrontFacts
<1>6. n \in 1 .. n /\ \A k \in 1 .. n - 1 : k \in 1 .. n
  BY <1>2, <1>3
<1>7. IsIndex(b) /\ OrderIsExact(b)
  <2>1. IsIndex(b)
    BY <1>1, NewestFacts DEF FrameOK, Newest
  <2>2. f.before # <<>> => OrderIsExact(f.before[1])
    BY <1>6 DEF OrdersOK
  <2>. QED BY <2>1, <2>2 DEF AppliedTo, OrdersOK
<1>8. OrderIsExact(index')
  BY <1>1, <1>2, <1>3, <1>7, RestoredIsExact
<1> HIDE DEF b, f
<1>9. \A k \in 1 .. n - 1 : /\ OrderIsExact(history'[k])
                            /\ undo'[k].before # <<>> => OrderIsExact(undo'[k].before[1])
  BY <1>3, <1>5, <1>6 DEF OrdersOK
<1>. QED BY <1>3, <1>5, <1>6, <1>8, <1>9 DEF OrdersOK

\* refresh: the predicted slots are merged, or everything is sorted again.
LEMMA RefreshOrders ==
  ASSUME IInv, IInv', OrdersOK(undo, history, index),
         NEW d \in Days, NEW r \in Extras, NEW excluded \in SUBSET Cards,
         Refresh(d, r, excluded)
  PROVE  OrdersOK(undo', history', index')
<1> DEFINE S == Membership(excluded)
           g == RecordRefresh(Newest, index, S)
<1>1. undo' = WithNewest(g) /\ history' = history
  BY DEF Refresh
<1>2. PICK p \in [S -> Predictions] :
        LET i == [index EXCEPT !.retention = r, !.day = d,
                    !.slots = [s \in Slots(index) |->
                       IF s \in S THEN Predicted(@[s], d, p[s]) ELSE @[s]]]
            j == IF r # index.retention THEN Recomputed(i)
                 ELSE [i EXCEPT !.eligible = [s \in Slots(i) |->
                         IF s \in S THEN EligibleAt(i.slots[s], r) ELSE @[s]]]
        IN  index' = Reordered(j, S, r # index.retention)
  BY DEF Refresh
<1> HIDE DEF S
<1> DEFINE q == [s \in Slots(index) |->
                  IF s \in S THEN Predicted(index.slots[s], d, p[s]) ELSE index.slots[s]]
           i == [index EXCEPT !.retention = r, !.day = d, !.slots = q]
           flags == [s \in Slots(i) |->
                      IF s \in S THEN EligibleAt(i.slots[s], r) ELSE i.eligible[s]]
           j == IF r # index.retention THEN Recomputed(i) ELSE [i EXCEPT !.eligible = flags]
           force == r # index.retention
<1>3. index' = Reordered(j, S, force)
  BY <1>2
<1>4. IsIndex(index) /\ IsIndex(index') /\ MapMatches(index') /\ OrderIsExact(index)
  BY Unfold, UnfoldNext DEF OrdersOK
<1>5. DOMAIN index = {"slots", "slotOf", "eligible", "ordered", "retention", "day"}
  BY <1>4, IndexIsUnflagged, IndexDomain
<1>6. DOMAIN q = Slots(index) /\ \A s \in Slots(index) \ S : q[s] = index.slots[s]
  OBVIOUS
<1> HIDE DEF q
<1>7. /\ DOMAIN i = DOMAIN index /\ i.slots = q /\ i.eligible = index.eligible
      /\ i.ordered = index.ordered /\ Slots(i) = Slots(index)
  BY <1>5, <1>6 DEF Slots
<1> HIDE DEF i
<1>8. ASSUME ~force
      PROVE  j.ordered = index.ordered /\ OutsideSame(index, index', S)
  <2>1. \A s \in Slots(index) \ S : flags[s] = index.eligible[s]
    BY <1>7
  <2> HIDE DEF flags
  <2>2. j = [i EXCEPT !.eligible = flags]
    BY <1>8
  <2>3. j.slots = q /\ j.ordered = index.ordered /\ j.eligible = flags
    BY <1>5, <1>7, <2>2
  <2> HIDE DEF j
  <2>4. index'.slots = q /\ index'.eligible = flags
    BY <1>3, <1>4, <2>3, ReorderedAs
  <2>5. Slots(index') = Slots(index)
    BY <1>6, <2>4 DEF Slots
  <2>. QED BY <1>6, <2>1, <2>3, <2>4, <2>5 DEF OutsideSame
<1> HIDE DEF j, force
<1>9. OrderIsExact(index')
  BY <1>3, <1>4, <1>8, ReorderedIsExact
<1>10. undo # <<>> => g.before = Newest.before
  <2>1. undo # <<>> => IsFrame(Newest)
    BY NewestFacts DEF FrameOK
  <2>. QED BY <2>1, FrameRecord DEF RecordRefresh
<1>. QED BY <1>1, <1>9, <1>10, RecordedOrders

\* Saving slots, old or new, leaves the universe a frame saw replaced.
LEMMA RecordedBefore ==
  ASSUME NEW f, IsFrame(f), NEW i, NEW S, NEW N
  PROVE  /\ RecordSlots(f, i, S).before = f.before
         /\ RecordNew(RecordSlots(f, i, S), N).before = f.before
<1>1. DOMAIN f = {"retention", "day", "full", "refresh", "before"}
  BY DEF IsFrame
<1>2. RecordSlots(f, i, S).before = f.before /\ DOMAIN RecordSlots(f, i, S) = DOMAIN f
  BY <1>1 DEF RecordSlots
<1>. QED BY <1>1, <1>2 DEF RecordNew

\* exclude_card and include_card leave the rank alone.
LEMMA SetStatusOrders ==
  ASSUME IInv, IInv', OrdersOK(undo, history, index),
         NEW c \in Cards, NEW t, SetStatus(c, t), StatusOf(c) # "removed" => t # "removed"
  PROVE  OrdersOK(undo', history', index')
<1> DEFINE s == index.slotOf[c]
           e == [index.slots[s] EXCEPT !.status = t]
<1>1. /\ s # Absent /\ index' = [index EXCEPT !.slots[s].status = t] /\ history' = history
      /\ undo' = WithNewest(RecordSlots(Newest, index, {s}))
  BY DEF SetStatus
<1>2. /\ IsIndex(index) /\ MapMatches(index) /\ IsIndex(index') /\ OrderIsExact(index)
  BY Unfold, UnfoldNext DEF OrdersOK, IndexIsCoherent
<1>3. IsLive(index, s) /\ s \in Slots(index)
  BY <1>1, <1>2, MapFacts DEF IsLive
<1>4. DOMAIN index = {"slots", "slotOf", "eligible", "ordered", "retention", "day"}
  BY <1>2, IndexIsUnflagged, IndexDomain
<1>5. /\ index'.slots = [index.slots EXCEPT ![s] = e] /\ index'.eligible = index.eligible
      /\ index'.ordered = index.ordered
  BY <1>1, <1>4
<1>6. e.status = t /\ t # "removed"
  <2>1. index.slots[s] \in Candidate
    BY <1>2, <1>3, IndexFacts
  <2>2. index.slots[s].status # "removed"
    BY <1>3 DEF IsLive
  <2>. QED BY <2>1, <2>2 DEF Candidate, StatusOf
<1>7. Slots(index') = Slots(index)
  BY <1>5 DEF Slots
<1>8. \A u \in Slots(index) : u # s => index'.slots[u] = index.slots[u]
  BY <1>5 DEF Slots
<1>9. index'.slots[s] = e
  BY <1>3, <1>5 DEF Slots
<1>10. ASSUME NEW u \in Slots(index)
       PROVE  /\ \E x : index'.slots[u] = [index.slots[u] EXCEPT !.status = x]
              /\ IsLive(index', u) <=> IsLive(index, u)
  <2>1. CASE u = s
    BY <1>3, <1>6, <1>7, <1>9, <2>1 DEF IsLive
  <2>2. CASE u # s
    <3>1. index.slots[u] \in Candidate
      BY <1>2, IndexFacts
    <3>2. index.slots[u] = [index.slots[u] EXCEPT !.status = index.slots[u].status]
      BY <3>1 DEF Candidate
    <3>. QED BY <1>7, <1>8, <2>2, <3>2 DEF IsLive
  <2>. QED BY <2>1, <2>2
<1>11. OrderIsExact(index')
  BY <1>2, <1>5, <1>7, <1>10, StatusKeepsExact
<1>12. undo # <<>> => RecordSlots(Newest, index, {s}).before = Newest.before
  BY NewestFacts, RecordedBefore DEF FrameOK
<1>. QED BY <1>1, <1>11, <1>12, RecordedOrders

\* remove_candidate: the tombstone is taken out.
LEMMA RemoveOrders ==
  ASSUME IInv, IInv', OrdersOK(undo, history, index), NEW c \in Cards, RemoveCard(c)
  PROVE  OrdersOK(undo', history', index')
<1> DEFINE s == index.slotOf[c]
           j == [index EXCEPT !.slots[s].status = "removed", !.eligible[s] = FALSE,
                              !.slotOf[c] = Absent]
<1>1. /\ index' = Reordered(j, {s}, FALSE) /\ history' = history
      /\ undo' = WithNewest(RecordSlots(Newest, index, {s}))
  BY DEF RemoveCard
<1>2. IsIndex(index) /\ IsIndex(index') /\ MapMatches(index') /\ OrderIsExact(index)
  BY Unfold, UnfoldNext DEF OrdersOK
<1>3. DOMAIN index = {"slots", "slotOf", "eligible", "ordered", "retention", "day"}
  BY <1>2, IndexIsUnflagged, IndexDomain
<1>4. /\ \E e : j.slots = [index.slots EXCEPT ![s] = e]
      /\ j.eligible = [index.eligible EXCEPT ![s] = FALSE]
      /\ j.ordered = index.ordered
  BY <1>3
<1> HIDE DEF j
<1>5. index'.slots = j.slots /\ index'.eligible = j.eligible
  BY <1>1, <1>2, ReorderedAs
<1>6. DOMAIN index.eligible = Slots(index)
  BY <1>2 DEF IsIndex, Slots
<1>7. OutsideSame(index, index', {s})
  BY <1>4, <1>5, <1>6 DEF OutsideSame, Slots
<1> HIDE DEF s
<1>8. j.ordered = index.ordered
  BY <1>4
<1>9. OrderIsExact(index')
  BY <1>1, <1>2, <1>7, <1>8, ReorderedIsExact
<1>10. undo # <<>> => RecordSlots(Newest, index, {s}).before = Newest.before
  BY NewestFacts, RecordedBefore DEF FrameOK
<1>. QED BY <1>1, <1>9, <1>10, RecordedOrders

\* Every step keeps the orders exact.
LEMMA NextOrders ==
  ASSUME IInv, [Next]_vars, OrderIsExactAndSorted
  PROVE  OrderIsExactAndSorted'
<1>0. OrdersOK(undo, history, index) /\ IInv'
  BY UnfoldOrders, NextInv
<1>. SUFFICES OrdersOK(undo', history', index')
  BY <1>0, FoldOrders
<1>1. IsIndex(index') /\ MapMatches(index')
  BY <1>0, UnfoldNext
<1>2. undo # <<>> => IsFrame(Newest)
  BY NewestFacts DEF FrameOK
<1>3. ASSUME NEW c \in Cards, NEW d \in Days, NEW requeue \in BOOLEAN, Answer(c, d, requeue)
      PROVE  OrdersOK(undo', history', index')
  BY <1>0, <1>3, AnswerOrders
<1>4. CASE Undo
  <2>1. OrdersOK(undo', history', index') /\ OrderIsExact(Last(history))
    BY <1>0, <1>4, UndoOrders
  <2>. QED BY <2>1
<1>5. ASSUME NEW d \in Days, NEW r \in Extras, NEW excluded \in SUBSET Cards,
             Refresh(d, r, excluded)
      PROVE  OrdersOK(undo', history', index')
  BY <1>0, <1>5, RefreshOrders
<1>6. ASSUME NEW c \in Cards, ExcludeCard(c) \/ IncludeCard(c)
      PROVE  OrdersOK(undo', history', index')
  <2>1. StatusOf(c) # "removed" => Excluded(StatusOf(c)) # "removed" /\ Included(StatusOf(c)) # "removed"
    BY DEF Excluded, Included
  <2>. QED BY <1>0, <1>6, <2>1, SetStatusOrders DEF ExcludeCard, IncludeCard
<1>7. ASSUME NEW c \in Cards, RemoveCard(c)
      PROVE  OrdersOK(undo', history', index')
  BY <1>0, <1>7, RemoveOrders
<1>8. ASSUME NEW batch \in UpsertBatches, Upsert(batch)
      PROVE  OrdersOK(undo', history', index')
  <2>1. PICK j, S, N : /\ index' = Rebuilt(j) /\ history' = history
                       /\ undo' = WithNewest(RecordNew(RecordSlots(Newest, index, S), N))
    BY <1>8 DEF Upsert
  <2>2. OrderIsExact(index')
    BY <1>1, <2>1, RebuiltIsExact
  <2>3. undo # <<>> => RecordNew(RecordSlots(Newest, index, S), N).before = Newest.before
    BY <1>2, RecordedBefore
  <2>. QED BY <1>0, <2>1, <2>2, <2>3, RecordedOrders
<1>9. ASSUME NEW r \in Extras, SetRetention(r)
      PROVE  OrdersOK(undo', history', index')
  <2>1. OrderIsExact(index') /\ undo' = undo /\ history' = history
    BY <1>1, <1>9, RebuiltIsExact DEF SetRetention
  <2>. QED BY <1>0, <2>1 DEF OrdersOK
<1>10. ASSUME NEW cards \in Universes, NEW changed \in SUBSET ChangedSeeds,
              NEW d \in Days, NEW r \in Extras, Reconcile(cards, changed, d, r)
       PROVE  OrdersOK(undo', history', index')
  <2>1. PICK j : /\ index' = Rebuilt(j) /\ history' = history
                 /\ undo' = WithNewest(RecordReconciliation(Newest, index))
    BY <1>10 DEF Reconcile, Universe
  <2>2. OrderIsExact(index')
    BY <1>1, <2>1, RebuiltIsExact
  <2>3. undo # <<>> => \/ RecordReconciliation(Newest, index).before = Newest.before
                       \/ RecordReconciliation(Newest, index).before = <<index>>
    BY <1>2, FrameRecord DEF RecordReconciliation
  <2>. QED BY <1>0, <2>1, <2>2, <2>3, RecordedOrders
<1>11. ASSUME NEW seeds \in UpsertBatches, Replace(seeds)
       PROVE  OrdersOK(undo', history', index')
  <2>1. PICK j : index' = Rebuilt(j)
    BY <1>11 DEF Replace, Universe
  <2>2. OrderIsExact(index') /\ undo' = <<>>
    BY <1>1, <1>11, <2>1, RebuiltIsExact DEF Replace
  <2>. QED BY <2>2 DEF OrdersOK
<1>12. CASE SetMode \/ UNCHANGED vars
  <2>1. index' = index /\ undo' = undo /\ history' = history
    BY <1>12 DEF SetMode, vars
  <2>. QED BY <1>0, <2>1
<1>13. OrdersOK(undo', history', index')
  <2>1. CASE Next
    BY <1>3, <1>4, <1>5, <1>6, <1>7, <1>8, <1>9, <1>10, <1>11, <1>12, <2>1 DEF Next
  <2>. QED BY <1>12, <2>1
<1>. QED BY <1>13

\* Answers, refreshes, removals and undos merge the slots they touched into an
\* order that is always exact, and so is every snapshot an undo may merge into.
THEOREM OrdersStayExact == Spec => []OrderIsExactAndSorted
<1>1. Init => OrderIsExactAndSorted
  <2> SUFFICES ASSUME Init PROVE OrderIsExactAndSorted
    OBVIOUS
  <2>1. IInv /\ undo = <<>>
    BY InitInv DEF Init
  <2>2. PICK j : index = Rebuilt(j)
    BY DEF Init, Universe
  <2>3. IsIndex(index) /\ MapMatches(index)
    BY <2>1, Unfold DEF IndexIsCoherent
  <2>4. OrderIsExact(index)
    BY <2>2, <2>3, RebuiltIsExact
  <2>. QED BY <2>1, <2>4 DEF OrderIsExactAndSorted
<1>2. IInv /\ OrderIsExactAndSorted /\ [Next]_vars => OrderIsExactAndSorted'
  BY NextOrders
<1>. QED BY <1>1, <1>2, InvariantHolds, PTL DEF Spec

\* undo_last_answer restores the exact rank the answer found.
THEOREM UndoIsExactInRank ==
  ASSUME ~RevisitsRetention
  PROVE  Spec => UndoRestoresRank
<1>1. IInv /\ OrderIsExactAndSorted /\ [Next]_vars =>
        [Undo => RankedView(index)' = RankedView(Last(history))]_vars
  <2> SUFFICES ASSUME IInv, OrderIsExactAndSorted, [Next]_vars, Undo
               PROVE  RankedView(index') = RankedView(Last(history))
    OBVIOUS
  <2> DEFINE i == index'
             h == Last(history)
  <2>1. /\ SameUniverse(i, h) /\ i.retention = h.retention
        /\ IsIndex(i) /\ MapMatches(i) /\ FlagsAreCurrent(i)
    BY UndoStep, UnfoldNext
  <2>2. OrderIsExact(i) /\ OrderIsExact(h)
    BY NextInv, UnfoldOrders, UndoOrders DEF OrdersOK
  <2>3. IsIndex(h) /\ MapMatches(h) /\ FlagsAreCurrent(h)
    <3>1. /\ undo # <<>> /\ IsSequence(history) /\ Len(history) = Len(undo)
          /\ Len(undo) \in Nat
      BY Unfold, IsSequenceFacts DEF StackOK, Undo
    <3>2. history # <<>>
      <4>1. Len(undo) > 0
        BY Unfold, <3>1, FrontFacts DEF StackOK
      <4>. QED BY <3>1, <4>1
    <3>3. h = history[Len(undo)]
      BY <3>1, <3>2, FrontFacts
    <3>. QED BY <3>1, <3>3, NewestFacts DEF FrameOK, IndexIsCoherent
  <2> HIDE DEF i, h
  <2>4. /\ Slots(h) \subseteq Slots(i)
        /\ \A s \in Slots(h) : i.slots[s] = h.slots[s] /\ i.eligible[s] = h.eligible[s]
        /\ \A s \in Slots(i) \ Slots(h) : i.slots[s].status = "removed"
    BY <2>1, <2>3 DEF SameUniverse, FlagsAreCurrent
  <2>5. LiveSlots(i) = LiveSlots(h)
    BY <2>4 DEF LiveSlots, IsLive
  <2>6. IsRank(i, i.ordered) /\ IsRank(h, h.ordered)
    BY <2>2, ExactIsRank
  <2> DEFINE L == LiveSlots(h)
             x == i.ordered
             y == h.ordered
  <2>7. /\ x \in Seq(L) /\ y \in Seq(L) /\ Sorted(Precedence(i), x) /\ Sorted(Precedence(h), y)
        /\ \A z : Has(x, z) <=> Has(y, z)
    BY <2>5, <2>6 DEF IsRank
  <2>8. \A s, t \in L : <<s, t>> \in Precedence(h) => <<s, t>> \in Precedence(i)
    BY <2>4 DEF Precedence, RanksBefore, LiveSlots
  <2>9. StrictlyOrders(Precedence(i), L)
    BY <2>1, <2>5, PrecedenceOrders
  <2> HIDE DEF x, y
  <2>10. Sorted(Precedence(i), y)
    <3>1. \A k \in 1 .. Len(y) : y[k] \in L
      BY <2>7
    <3>. QED BY <2>7, <2>8, <3>1 DEF Sorted
  <2>11. x = y
    BY <2>7, <2>9, <2>10, SortedUnique
  <2>12. \A k \in DOMAIN y : y[k] \in Slots(h)
    BY <2>7 DEF LiveSlots
  <2>13. \A k \in DOMAIN y : Saved(i, y[k]) = Saved(h, y[k])
    BY <2>4, <2>12 DEF Saved
  <2>14. RankedView(i) = RankedView(h)
    BY <2>11, <2>13 DEF RankedView, x, y
  <2>. QED BY <2>14 DEF i, h
<1>. QED BY <1>1, InvariantHolds, OrdersStayExact, PTL DEF Spec, UndoRestoresRank

-------------------------------------------------------------------------------
(* What a selection returns.                                               *)

\* A set of integers above a bound has a least element.
LEMMA LeastAbove ==
  ASSUME NEW n \in Int, NEW B \in SUBSET Int, \A b \in B : b > n, B # {}
  PROVE  \E b \in B : \A x \in B : b <= x
<1> DEFINE T == {b - n : b \in B}
<1>1. T \in SUBSET Nat /\ T # {}
  <2>1. \A b \in B : b - n \in Nat
    OBVIOUS
  <2>. QED BY <2>1
<1>2. PICK m \in T : \A x \in T : m <= x
  BY <1>1, LeastNatural
<1>3. PICK b \in B : m = b - n
  OBVIOUS
<1>4. \A x \in B : b - n <= x - n
  BY <1>2, <1>3
<1>5. \A x \in B : b <= x
  BY <1>4
<1>. QED BY <1>5

\* The boundary of a candidate is the least extra that admits it.
LEMMA BoundaryAdmits ==
  ASSUME NEW c \in Candidate, NEW q \in Int, NEW r \in Int, q <= r
  PROVE  /\ EligibleAt(c, q) => EligibleAt(c, r) /\ NextBoundary(c, q) = {}
         /\ ~EligibleAt(c, q) => (EligibleAt(c, r) <=> \E b \in NextBoundary(c, q) : b <= r)
         /\ \A b \in NextBoundary(c, q) : b \in Int /\ b > q
<1> DEFINE t == ApplicableTarget(c)
           p == c.pred
<1>1. t \in Int /\ p \in Values /\ One \in Nat /\ One > 0
  BY RankAssumption DEF ApplicableTarget, Candidate
<1>2. p \in Int /\ (p # NaN => 0 <= p /\ p <= One)
  BY <1>1 DEF Values, NaN
<1> HIDE DEF t, p
<1>3. \A x \in Int : EligibleAt(c, x) <=> IsUsable(c) /\ p # NaN /\ p < Clamp(t + x)
  BY DEF EligibleAt, t, p
<1>4. \A x \in Int : p # NaN => (p < Clamp(t + x) <=> p < One /\ p + 1 - t <= x)
  BY <1>1, <1>2 DEF Clamp
<1>5. \A b : b \in NextBoundary(c, q) <=>
               b = p + 1 - t /\ IsUsable(c) /\ p # NaN /\ p < One /\ b > q
  BY DEF NextBoundary, t, p
<1>6. EligibleAt(c, q) => EligibleAt(c, r) /\ NextBoundary(c, q) = {}
  BY <1>1, <1>2, <1>3, <1>4, <1>5
<1>7. ~EligibleAt(c, q) => (EligibleAt(c, r) <=> \E b \in NextBoundary(c, q) : b <= r)
  <2> HAVE ~EligibleAt(c, q)
  <2> DEFINE x == p + 1 - t
             able == IsUsable(c) /\ p # NaN /\ p < One
  <2>1. \A b : b \in NextBoundary(c, q) <=> b = x /\ able /\ b > q
    BY <1>5
  <2>2. EligibleAt(c, r) <=> able /\ x <= r
    BY <1>3, <1>4
  <2>3. ~(able /\ x <= q)
    BY <1>3, <1>4
  <2>4. p # NaN => x \in Int
    BY <1>1, <1>2
  <2>5. able => x > q
    BY <2>3, <2>4
  <2>. QED BY <2>1, <2>2, <2>5
<1>8. \A b \in NextBoundary(c, q) : b \in Int /\ b > q
  BY <1>1, <1>2, <1>5
<1>. QED BY <1>6, <1>7, <1>8

\* The slots a scan of the cached order shows.
ShownSlots(excluded) ==
  {s \in LiveSlots(index) :
     IsIncluded(index.slots[s]) /\ index.slots[s].card \notin excluded}
ActiveSlots(excluded) ==
  Chosen(index.ordered, {s \in Slots(index) : IsIncluded(index.slots[s])
                                              /\ index.slots[s].card \notin excluded})

LEMMA ActiveFacts ==
  ASSUME OrderIsExact(index), NEW excluded
  PROVE  LET a == ActiveSlots(excluded)
         IN  /\ a \in Seq(LiveSlots(index)) /\ \A s : Has(a, s) <=> s \in ShownSlots(excluded)
             /\ Range(a) = ShownSlots(excluded)
<1> DEFINE o == index.ordered
           C == {s \in Slots(index) : IsIncluded(index.slots[s])
                                      /\ index.slots[s].card \notin excluded}
           a == Chosen(o, C)
<1>1. /\ o \in Seq(LiveSlots(index)) /\ \A s : Has(o, s) <=> s \in LiveSlots(index)
  BY ExactIsRank DEF IsRank
<1>2. \A s : s \in LiveSlots(index) /\ s \in C <=> s \in ShownSlots(excluded)
  BY DEF ShownSlots, LiveSlots
<1> HIDE DEF o, C
<1>3. a \in Seq(LiveSlots(index)) /\ \A s : Has(a, s) <=> Has(o, s) /\ s \in C
  BY <1>1, ChosenType, ChosenSorted
<1>4. ActiveSlots(excluded) = a
  BY DEF ActiveSlots, o, C
<1> HIDE DEF a
<1>5. \A s : Has(a, s) <=> s \in ShownSlots(excluded)
  BY <1>1, <1>2, <1>3
<1>6. Range(a) = ShownSlots(excluded)
  BY <1>3, <1>5 DEF Has, Range
<1>. QED BY <1>3, <1>4, <1>5, <1>6

\* The boundaries of the candidates shown, read from the cached flags.
Boundaries(excluded) ==
  UNION {NextBoundary(index.slots[s], index.retention) :
           s \in {s \in ShownSlots(excluded) : ~index.eligible[s]}}

LEMMA SelectionNext ==
  ASSUME OrderIsExact(index), NEW limit, NEW excluded
  PROVE  FinalSelection(limit, excluded).next =
           {b \in Boundaries(excluded) : \A x \in Boundaries(excluded) : b <= x}
<1>1. FinalSelection(limit, excluded).next =
        LET B == UNION {NextBoundary(index.slots[s], index.retention) :
                          s \in {s \in Range(ActiveSlots(excluded)) : ~index.eligible[s]}}
        IN  {b \in B : \A x \in B : b <= x}
  BY DEF FinalSelection, ActiveSlots
<1>2. Range(ActiveSlots(excluded)) = ShownSlots(excluded)
  BY ActiveFacts
<1>. QED BY <1>1, <1>2 DEF Boundaries

LEMMA BoundaryIsTight ==
  ASSUME IInv, OrderIsExactAndSorted, ~RevisitsRetention
  PROVE  NextBoundaryIsTight
<1>1. IsIndex(index) /\ FlagsAreCurrent(index) /\ OrderIsExact(index)
  BY Unfold DEF IndexIsCoherent, OrderIsExactAndSorted
<1> DEFINE q == index.retention
           S == ShownSlots({})
           B == Boundaries({})
           next == {b \in B : \A x \in B : b <= x}
<1>2. q \in Int /\ \A s \in S : /\ index.slots[s] \in Candidate
                                /\ index.eligible[s] = EligibleAt(index.slots[s], q)
  BY <1>1, IndexFacts DEF ShownSlots, LiveSlots, FlagsAreCurrent, IsIndex
<1>3. S = {s \in LiveSlots(index) : IsIncluded(index.slots[s])}
  BY DEF ShownSlots
<1>4. FinalSelection(0, {}).next = next
  BY <1>1, SelectionNext
<1> HIDE DEF S
<1>5. \A b : b \in B <=> \E s \in S : /\ ~EligibleAt(index.slots[s], q)
                                      /\ b \in NextBoundary(index.slots[s], q)
  BY <1>2 DEF Boundaries, S
<1>6. B \in SUBSET Int /\ \A b \in B : b > q
  BY <1>2, <1>5, BoundaryAdmits
<1> HIDE DEF B
<1>7. ASSUME NEW r \in Int, r > q
      PROVE  {s \in S : EligibleAt(index.slots[s], r)} = {s \in S : EligibleAt(index.slots[s], q)}
               <=> \A b \in next : r < b
  <2>1. \A s \in S :
          /\ EligibleAt(index.slots[s], q) => EligibleAt(index.slots[s], r)
          /\ ~EligibleAt(index.slots[s], q) =>
               (EligibleAt(index.slots[s], r)
                  <=> \E b \in NextBoundary(index.slots[s], q) : b <= r)
    BY <1>2, <1>7, BoundaryAdmits
  <2>2. {s \in S : EligibleAt(index.slots[s], r)} = {s \in S : EligibleAt(index.slots[s], q)}
          <=> \A s \in S : EligibleAt(index.slots[s], r) => EligibleAt(index.slots[s], q)
    BY <2>1
  <2>3. (\A s \in S : EligibleAt(index.slots[s], r) => EligibleAt(index.slots[s], q))
          <=> \A b \in B : ~(b <= r)
    BY <1>5, <2>1
  <2>4. (\A b \in B : ~(b <= r)) <=> \A b \in next : r < b
    <3>1. CASE B = {}
      BY <3>1
    <3>2. CASE B # {}
      <4>1. PICK m \in B : \A x \in B : m <= x
        BY <1>2, <1>6, <3>2, LeastAbove
      <4>2. m \in next
        BY <4>1
      <4>3. \A b \in next : r < b => \A x \in B : ~(x <= r)
        BY <1>6
      <4>4. (\A b \in B : ~(b <= r)) => \A b \in next : r < b
        BY <1>6
      <4>. QED BY <4>2, <4>3, <4>4
    <3>. QED BY <3>1, <3>2
  <2>. QED BY <2>2, <2>3, <2>4
<1> HIDE DEF next
<1>8. \A r \in q + 1 .. q + 2 * One : r \in Int /\ r > q
  BY <1>2, RankAssumption
<1>. QED BY <1>3, <1>4, <1>7, <1>8 DEF NextBoundaryIsTight

\* next_retention_extra, read from the cached flags, is exactly the extra at
\* which the next card becomes eligible.
THEOREM BoundaryIsExact ==
  ASSUME ~RevisitsRetention
  PROVE  Spec => []NextBoundaryIsTight
<1>1. IInv /\ OrderIsExactAndSorted => NextBoundaryIsTight
  BY BoundaryIsTight
<1>. QED BY <1>1, InvariantHolds, OrdersStayExact, PTL

-------------------------------------------------------------------------------
(* The reference session ranks and selects by the same rules.              *)

LEMMA RefRules ==
  /\ \A c, r : Ref!EligibleAt(c, r) = EligibleAt(c, r)
  /\ \A c, r : Ref!NextBoundary(c, r) = NextBoundary(c, r)
  /\ \A c, ec, d, ed : Ref!Before(c, ec, d, ed) = Before(c, ec, d, ed)
<1>1. \A c : Ref!ApplicableTarget(c) = ApplicableTarget(c) /\ Ref!IsUsable(c) = IsUsable(c)
             /\ Ref!HasValue(c) = HasValue(c)
  BY DEF Ref!ApplicableTarget, ApplicableTarget, Ref!IsUsable, IsUsable,
         Ref!HasValue, HasValue, Ref!NaN, NaN
<1>2. \A x : Ref!Clamp(x) = Clamp(x) /\ Ref!Floored(x) = Floored(x)
  BY DEF Ref!Clamp, Clamp, Ref!Floored, Floored
<1>3. \A c, d : Ref!ValueBefore(c, d) = ValueBefore(c, d)
  BY <1>1, <1>2 DEF Ref!ValueBefore, ValueBefore
<1>4. \A c, r : Ref!EligibleAt(c, r) = EligibleAt(c, r)
  BY <1>1, <1>2 DEF Ref!EligibleAt, EligibleAt, Ref!NaN, NaN
<1>5. \A c, r : Ref!NextBoundary(c, r) = NextBoundary(c, r)
  BY <1>1, <1>2 DEF Ref!NextBoundary, NextBoundary, Ref!NaN, NaN
<1>6. \A c, ec, d, ed : Ref!Before(c, ec, d, ed) = Before(c, ec, d, ed)
  BY <1>1, <1>3 DEF Ref!Before, Before
<1>. QED BY <1>4, <1>5, <1>6

LEMMA RefSequences ==
  /\ \A x, C : Ref!Chosen(x, C) = Chosen(x, C)
  /\ \A prec, x, y : Ref!RankInto(prec, x, y) = RankInto(prec, x, y)
<1>1. \A x, C : Ref!Chosen(x, C) = Chosen(x, C)
  BY DEF Ref!Chosen, Chosen
<1>2. \A prec, x, y : Ref!Inserted(prec, x, y) = Inserted(prec, x, y)
  BY DEF Ref!Inserted, Inserted
<1>3. \A prec, x, y : Ref!RankInto(prec, x, y) = RankInto(prec, x, y)
  BY <1>2 DEF Ref!RankInto, RankInto
<1>. QED BY <1>1, <1>3

\* The candidate on each live slot.
OnSlot(i) == [s \in LiveSlots(i) |-> i.slots[s]]
LiveInTurn(i) == Chosen(SlotsInTurn(i), LiveSlots(i))

\* What the reference session holds, in terms of the slots.
LEMMA CandidatesOnSlots ==
  ASSUME NEW i, IsIndex(i), MapMatches(i)
  PROVE  /\ IsInTurn(LiveInTurn(i), LiveSlots(i))
         /\ LiveCandidates(i) = Mapped(OnSlot(i), LiveInTurn(i))
         /\ IsBetween(OnSlot(i), LiveSlots(i), Range(LiveCandidates(i)))
         /\ LiveCandidates(i) \in Seq(Range(LiveCandidates(i)))
         /\ Range(LiveCandidates(i)) = {i.slots[s] : s \in LiveSlots(i)}
         /\ Range(LiveCandidates(i)) \subseteq Candidate
         /\ \A c, d \in Range(LiveCandidates(i)) : c # d => c.card # d.card
         /\ \A k, l \in 1 .. Len(LiveCandidates(i)) :
              k # l => LiveCandidates(i)[k].card # LiveCandidates(i)[l].card
<1> DEFINE L == LiveSlots(i)
           g == OnSlot(i)
           x == LiveInTurn(i)
           D == {i.slots[s] : s \in L}
           m == Mapped(g, x)
<1>1. IsInTurn(x, L)
  <2>1. L \subseteq Slots(i)
    BY DEF LiveSlots
  <2>. QED BY <2>1, SlotsInTurnFacts DEF LiveInTurn
<1>2. x \in Seq(L) /\ (\A s : Has(x, s) <=> s \in L) /\ \A k, l \in 1 .. Len(x) : k # l => x[k] # x[l]
  BY <1>1 DEF IsInTurn
<1>3. \A s \in L : g[s] = i.slots[s] /\ i.slots[s] \in Candidate
  BY IndexFacts DEF OnSlot, LiveSlots
<1>4. IsBetween(g, L, D)
  BY <1>3 DEF IsBetween
<1>5. \A s, t \in L : s # t => i.slots[s].card # i.slots[t].card
  BY MapFacts DEF LiveSlots
<1>6. LiveCandidates(i) = m
  <2>1. DOMAIN x = 1 .. Len(x) /\ \A k \in 1 .. Len(x) : i.slots[x[k]] = g[x[k]]
    BY <1>2, <1>3
  <2>2. LiveCandidates(i) = [k \in DOMAIN x |-> i.slots[x[k]]]
    BY DEF LiveCandidates, LiveInTurn
  <2> HIDE DEF g, x
  <2>. QED BY <2>1, <2>2 DEF Mapped
<1> HIDE DEF g, x
<1>7. m \in Seq(D) /\ Len(m) = Len(x) /\ \A k \in 1 .. Len(x) : m[k] = g[x[k]]
  BY <1>2, <1>4, MappedFacts DEF IsMapped
<1> HIDE DEF m
<1>8. \A k \in 1 .. Len(x) : x[k] \in L
  BY <1>2
<1>9. Range(m) = D
  <2>1. DOMAIN m = 1 .. Len(x)
    BY <1>7
  <2>2. \A k \in 1 .. Len(x) : m[k] \in D
    BY <1>3, <1>7, <1>8
  <2>3. \A s \in L : \E k \in 1 .. Len(x) : m[k] = i.slots[s]
    BY <1>2, <1>3, <1>7 DEF Has
  <2>. QED BY <2>1, <2>2, <2>3 DEF Range
<1>10. D \subseteq Candidate /\ \A c, d \in D : c # d => c.card # d.card
  BY <1>3, <1>5
<1>11. \A k, l \in 1 .. Len(m) : k # l => m[k].card # m[l].card
  BY <1>2, <1>3, <1>5, <1>7, <1>8
<1> HIDE DEF D
<1>12. /\ IsInTurn(x, L) /\ LiveCandidates(i) = m /\ IsBetween(g, L, Range(m))
       /\ m \in Seq(Range(m)) /\ Range(m) = D /\ Range(m) \subseteq Candidate
       /\ \A c, d \in Range(m) : c # d => c.card # d.card
       /\ \A k, l \in 1 .. Len(m) : k # l => m[k].card # m[l].card
  BY <1>1, <1>4, <1>6, <1>7, <1>9, <1>10, <1>11
<1>. QED BY <1>12 DEF g, x, m, D

\* The order the reference session computes is the one the index caches.
LEMMA RankedAlike ==
  ASSUME IsIndex(index), MapMatches(index), FlagsAreCurrent(index), OrderIsExact(index)
  PROVE  Ref!Ranked = Mapped(OnSlot(index), index.ordered)
<1> DEFINE L == LiveSlots(index)
           g == OnSlot(index)
           o == index.ordered
           x == LiveCandidates(index)
           D == Range(x)
           q == index.retention
           P == Ref!Precedence
<1>1. /\ IsBetween(g, L, D) /\ x \in Seq(D) /\ D = {index.slots[s] : s \in L} /\ D \subseteq Candidate
      /\ \A c, d \in D : c # d => c.card # d.card
      /\ \A k, l \in 1 .. Len(x) : k # l => x[k].card # x[l].card
  BY CandidatesOnSlots
<1>2. \A p : p \in P <=> p \in D \X D /\ Before(p[1], EligibleAt(p[1], q), p[2], EligibleAt(p[2], q))
  BY RefRules DEF Ref!Precedence, Ref!Eligible, Range, Ref!Range
<1>3. \A c, d \in D : <<c, d>> \in P <=> Before(c, EligibleAt(c, q), d, EligibleAt(d, q))
  BY <1>2
<1>4. Ref!Ranked = RankInto(P, x, <<>>)
  BY RefSequences DEF Ref!Ranked
<1>5. /\ o \in Seq(L) /\ Sorted(Precedence(index), o) /\ \A s : Has(o, s) <=> s \in L
  BY ExactIsRank DEF IsRank
<1>6. \A s \in L : /\ s \in Slots(index) /\ index.slots[s] \in D /\ g[s] = index.slots[s]
                   /\ index.eligible[s] = EligibleAt(index.slots[s], q)
  BY <1>1 DEF FlagsAreCurrent, LiveSlots, OnSlot
<1> HIDE DEF P, x, o, g
<1>7. StrictlyOrders(P, D)
  <2>1. \A c, d, e \in D :
          /\ <<c, c>> \notin P
          /\ <<c, d>> \in P /\ <<d, e>> \in P => <<c, e>> \in P
          /\ c # d => <<c, d>> \in P \/ <<d, c>> \in P
    <3>. TAKE c, d, e \in D
    <3>1. /\ EligibleAt(c, q) \in BOOLEAN /\ EligibleAt(d, q) \in BOOLEAN
          /\ EligibleAt(e, q) \in BOOLEAN /\ c \in Candidate /\ d \in Candidate /\ e \in Candidate
      BY <1>1, EligibleIsBoolean
    <3>2. /\ ~Before(c, EligibleAt(c, q), c, EligibleAt(c, q))
          /\ Before(c, EligibleAt(c, q), d, EligibleAt(d, q))
               /\ Before(d, EligibleAt(d, q), e, EligibleAt(e, q))
             => Before(c, EligibleAt(c, q), e, EligibleAt(e, q))
          /\ c.card # d.card => \/ Before(c, EligibleAt(c, q), d, EligibleAt(d, q))
                                \/ Before(d, EligibleAt(d, q), c, EligibleAt(c, q))
      BY <3>1, RanksOrdered
    <3>. QED BY <1>1, <1>3, <3>2
  <2>. QED BY <2>1 DEF StrictlyOrders
<1> DEFINE r == RankInto(P, x, <<>>)
           m == Mapped(g, o)
<1>8. r \in Seq(D) /\ Sorted(P, r) /\ \A z : Has(r, z) <=> z \in D
  <2>1. <<>> \in Seq(D) /\ Sorted(P, <<>>) /\ \A z : ~Has(<<>>, z)
    <3>1. <<>> \in Seq(D) /\ Len(<<>>) = 0
      OBVIOUS
    <3>. QED BY <3>1 DEF Sorted, Has
  <2>2. \A k, l \in 1 .. Len(x) : k # l => x[k] # x[l]
    BY <1>1
  <2>3. r \in Seq(D) /\ Sorted(P, r) /\ \A z : Has(r, z) <=> Has(<<>>, z) \/ Has(x, z)
    BY <1>1, <1>7, <2>1, <2>2, RankIntoSorted
  <2>4. \A z : Has(x, z) <=> z \in D
    BY <1>1 DEF Has, Range
  <2> HIDE DEF r
  <2>. QED BY <2>1, <2>3, <2>4
<1>9. m \in Seq(D) /\ Len(m) = Len(o) /\ \A k \in 1 .. Len(o) : m[k] = g[o[k]]
  BY <1>1, <1>5, MappedFacts DEF IsMapped
<1> HIDE DEF r, m, D
<1>10. \A k \in 1 .. Len(o) : o[k] \in L
  BY <1>5
<1>11. Sorted(P, m)
  <2>1. \A s, t \in L : <<s, t>> \in Precedence(index) => <<index.slots[s], index.slots[t]>> \in P
    BY <1>3, <1>6 DEF Precedence, RanksBefore
  <2>2. \A k, l \in 1 .. Len(o) : k < l => <<o[k], o[l]>> \in Precedence(index)
    BY <1>5 DEF Sorted
  <2>3. \A k, l \in 1 .. Len(o) : k < l => <<m[k], m[l]>> \in P
    <3>1. \A k \in 1 .. Len(o) : m[k] = index.slots[o[k]]
      BY <1>6, <1>9, <1>10
    <3> HIDE DEF L
    <3>. QED BY <1>10, <2>1, <2>2, <3>1
  <2>. QED BY <1>9, <2>3 DEF Sorted
<1>12. \A z : Has(m, z) <=> z \in D
  <2>1. \A z \in D : \E s \in L : z = index.slots[s]
    BY <1>1
  <2>2. \A s \in L : \E k \in 1 .. Len(o) : m[k] = index.slots[s]
    BY <1>5, <1>6, <1>9 DEF Has
  <2>3. \A k \in 1 .. Len(o) : m[k] \in D
    BY <1>6, <1>9, <1>10
  <2>. QED BY <1>9, <2>1, <2>2, <2>3 DEF Has
<1>13. r = m
  BY <1>7, <1>8, <1>9, <1>11, <1>12, SortedUnique
<1>. QED BY <1>4, <1>13 DEF r, m, g, o

\* Mapping keeps the length and the elements' images.
LEMMA MappedHas ==
  ASSUME NEW S, NEW D, NEW g, IsBetween(g, S, D), NEW x \in Seq(S)
  PROVE  /\ Mapped(g, x) \in Seq(D) /\ Len(Mapped(g, x)) = Len(x)
         /\ \A k \in 1 .. Len(x) : Mapped(g, x)[k] = g[x[k]]
         /\ \A s : Has(x, s) => g[s] \in Range(Mapped(g, x))
         /\ \A c \in Range(Mapped(g, x)) : \E s : Has(x, s) /\ c = g[s]
<1> DEFINE m == Mapped(g, x)
<1>1. m \in Seq(D) /\ Len(m) = Len(x) /\ \A k \in 1 .. Len(x) : m[k] = g[x[k]]
  BY MappedFacts DEF IsMapped
<1> HIDE DEF m
<1>2. DOMAIN m = 1 .. Len(x)
  BY <1>1
<1>3. /\ \A s : Has(x, s) => g[s] \in Range(m)
      /\ \A c \in Range(m) : \E s : Has(x, s) /\ c = g[s]
  BY <1>1, <1>2 DEF Has, Range
<1>. QED BY <1>1, <1>3 DEF m

\* What the reference shows, and what of it is eligible, are the candidates on
\* the slots the index shows.
LEMMA ShownAlike ==
  ASSUME IsIndex(index), MapMatches(index), FlagsAreCurrent(index), OrderIsExact(index),
         NEW excluded
  PROVE  LET a == Ref!Shown(Ref!Ranked, {"active", "pending_refresh"}, excluded)
         IN  /\ a = Mapped(OnSlot(index), ActiveSlots(excluded))
             /\ Range(a) = {index.slots[s] : s \in ShownSlots(excluded)}
             /\ Chosen(a, {c \in Range(a) : Ref!Eligible(c)})
                  = Mapped(OnSlot(index), Chosen(ActiveSlots(excluded),
                                                 {s \in Slots(index) : index.eligible[s]}))
<1> DEFINE L == LiveSlots(index)
           g == OnSlot(index)
           o == index.ordered
           D == Range(LiveCandidates(index))
           m == Mapped(g, o)
           B == {s \in Slots(index) : IsIncluded(index.slots[s])
                                      /\ index.slots[s].card \notin excluded}
           C == {c \in Range(m) : c.status \in {"active", "pending_refresh"}
                                  /\ c.card \notin excluded}
           x == ActiveSlots(excluded)
           a == Mapped(g, x)
           E == {s \in Slots(index) : index.eligible[s]}
           F == {c \in Range(a) : Ref!Eligible(c)}
<1>1. IsBetween(g, L, D)
  BY CandidatesOnSlots
<1>2. o \in Seq(L) /\ \A s : Has(o, s) <=> s \in L
  BY ExactIsRank DEF IsRank
<1>3. \A s \in L : /\ s \in Slots(index) /\ g[s] = index.slots[s]
                   /\ index.eligible[s] = EligibleAt(index.slots[s], index.retention)
  BY DEF FlagsAreCurrent, LiveSlots, OnSlot
<1>4. x \in Seq(L) /\ (\A s : Has(x, s) <=> s \in ShownSlots(excluded)) /\ x = Chosen(o, B)
  BY ActiveFacts DEF ActiveSlots
<1>5. \A c : Ref!Eligible(c) = EligibleAt(c, index.retention)
  BY RefRules DEF Ref!Eligible
<1>6. Ref!Ranked = m
  BY RankedAlike
<1>7. Ref!Shown(m, {"active", "pending_refresh"}, excluded) = Chosen(m, C)
  BY RefSequences DEF Ref!Shown, Range, Ref!Range
<1> HIDE DEF g, x, o
<1>8. \A s \in L : s \in B <=> g[s] \in C
  <2>1. \A s \in L : g[s] \in Range(m)
    BY <1>1, <1>2, MappedHas
  <2> HIDE DEF m
  <2>. QED BY <1>3, <2>1 DEF IsIncluded
<1> HIDE DEF B, C, m
<1>9. Chosen(m, C) = a
  BY <1>1, <1>2, <1>4, <1>8, ChosenMapped DEF m
<1>10. Range(a) = {index.slots[s] : s \in ShownSlots(excluded)}
  <2>1. /\ \A s : Has(x, s) => g[s] \in Range(a)
        /\ \A c \in Range(a) : \E s : Has(x, s) /\ c = g[s]
    BY <1>1, <1>4, MappedHas
  <2>2. \A s \in ShownSlots(excluded) : g[s] = index.slots[s]
    BY <1>3 DEF ShownSlots
  <2> HIDE DEF a
  <2>. QED BY <1>4, <2>1, <2>2
<1>11. Chosen(a, F) = Mapped(g, Chosen(x, E))
  <2> DEFINE S == ShownSlots(excluded)
  <2>1. x \in Seq(S) /\ S \subseteq L
    BY <1>4, SeqOfHas DEF ShownSlots
  <2>2. IsBetween(g, S, D)
    BY <1>1, <2>1 DEF IsBetween
  <2> HIDE DEF a
  <2>3. \A s \in S : s \in E <=> g[s] \in F
    <3>1. \A s \in S : g[s] \in Range(a) /\ g[s] = index.slots[s]
      BY <1>3, <1>10, <2>1
    <3>2. \A s \in S : EligibleAt(index.slots[s], index.retention) \in BOOLEAN
      BY EligibleIsBoolean
    <3>. QED BY <1>3, <1>5, <2>1, <3>1, <3>2
  <2> HIDE DEF E, F, S
  <2>. QED BY <2>1, <2>2, <2>3, ChosenMapped DEF a
<1>12. Ref!Shown(Ref!Ranked, {"active", "pending_refresh"}, excluded) = a
  BY <1>6, <1>7, <1>9
<1> HIDE DEF a
<1>. QED BY <1>10, <1>11, <1>12 DEF a, g, x, E, F

\* Whatever limit and exclusions are passed, reading the caches selects what
\* the reference selects.
LEMMA SelectionAlike ==
  ASSUME IInv, OrderIsExactAndSorted, ~RevisitsRetention
  PROVE  SelectionMatchesReference
<1>1. IsIndex(index) /\ MapMatches(index) /\ FlagsAreCurrent(index) /\ OrderIsExact(index)
  BY Unfold DEF IndexIsCoherent, OrderIsExactAndSorted
<1>. SUFFICES ASSUME NEW limit \in 0 .. Cardinality(Cards), NEW excluded \in SUBSET Cards
              PROVE  FinalSelection(limit, excluded) = Ref!SelectionResult(limit, excluded)
  BY DEF SelectionMatchesReference
<1> DEFINE q == index.retention
           g == OnSlot(index)
           L == LiveSlots(index)
           S == ShownSlots(excluded)
           x == ActiveSlots(excluded)
           a == Mapped(g, x)
           E == {s \in Slots(index) : index.eligible[s]}
           y == Chosen(x, E)
           b == Mapped(g, y)
           D == Range(LiveCandidates(index))
           next == {n \in Boundaries(excluded) : \A z \in Boundaries(excluded) : n <= z}
           top == IF limit < Len(y) THEN limit ELSE Len(y)
<1>2. IsBetween(g, L, D) /\ \A s \in L : g[s] = index.slots[s]
  BY <1>1, CandidatesOnSlots DEF OnSlot
<1>3. x \in Seq(L) /\ Range(x) = S
  BY <1>1, ActiveFacts
<1>4. y \in Seq(L)
  BY <1>3, ChosenType
<1>5. FinalSelection(limit, excluded) =
        [active_count |-> Len(x), eligible_count |-> Len(y),
         selected |-> SubSeq([k \in DOMAIN y |-> index.slots[y[k]].card], 1, top),
         next |-> next]
  <2>1. FinalSelection(limit, excluded) =
          [active_count |-> Len(x), eligible_count |-> Len(y),
           selected |-> SubSeq([k \in DOMAIN y |-> index.slots[y[k]].card], 1, top),
           next |-> FinalSelection(limit, excluded).next]
    BY DEF FinalSelection, ActiveSlots
  <2>2. FinalSelection(limit, excluded).next = next
    BY <1>1, SelectionNext
  <2>. QED BY <2>1, <2>2
<1>6. /\ Ref!Shown(Ref!Ranked, {"active", "pending_refresh"}, excluded) = a
      /\ Range(a) = {index.slots[s] : s \in S}
      /\ Chosen(a, {c \in Range(a) : Ref!Eligible(c)}) = b
  BY <1>1, ShownAlike
<1>7. /\ Len(a) = Len(x)
      /\ Len(b) = Len(y) /\ DOMAIN b = DOMAIN y
      /\ \A k \in DOMAIN y : b[k] = index.slots[y[k]]
  <2> HIDE DEF g, y, x
  <2>1. Len(a) = Len(x) /\ b \in Seq(D) /\ Len(b) = Len(y) /\ \A k \in 1 .. Len(y) : b[k] = g[y[k]]
    BY <1>2, <1>3, <1>4, MappedHas
  <2> HIDE DEF b
  <2>2. DOMAIN b = 1 .. Len(y) /\ DOMAIN y = 1 .. Len(y) /\ \A k \in 1 .. Len(y) : y[k] \in L
    BY <1>4, <2>1
  <2>. QED BY <1>2, <2>1, <2>2
<1>8. UNION {NextBoundary(c, q) : c \in Range(a)} = Boundaries(excluded)
  <2>1. \A s \in S : /\ index.slots[s] \in Candidate
                     /\ index.eligible[s] = EligibleAt(index.slots[s], q)
    BY <1>1, IndexFacts DEF ShownSlots, LiveSlots, FlagsAreCurrent
  <2>2. q \in Int
    BY <1>1 DEF IsIndex
  <2>3. \A s \in S : index.eligible[s] => NextBoundary(index.slots[s], q) = {}
    BY <2>1, <2>2, BoundaryAdmits
  <2> HIDE DEF a, S
  <2>4. \A n : n \in UNION {NextBoundary(c, q) : c \in Range(a)}
                 <=> \E s \in S : n \in NextBoundary(index.slots[s], q)
    BY <1>6
  <2>5. \A n : n \in Boundaries(excluded)
                 <=> \E s \in S : ~index.eligible[s] /\ n \in NextBoundary(index.slots[s], q)
    BY DEF Boundaries, S
  <2>. QED BY <2>3, <2>4, <2>5
<1>9. Ref!SelectionResult(limit, excluded) =
        [active_count |-> Len(a), eligible_count |-> Len(b),
         selected |-> SubSeq([k \in DOMAIN b |-> b[k].card], 1,
                             IF limit < Len(b) THEN limit ELSE Len(b)),
         next |-> LET B == UNION {NextBoundary(c, q) : c \in Range(a)}
                  IN  {n \in B : \A z \in B : n <= z}]
  <2> HIDE DEF a, b
  <2>1. \A z, T : Ref!Chosen(z, T) = Chosen(z, T)
    BY RefSequences
  <2>2. \A c, r : Ref!NextBoundary(c, r) = NextBoundary(c, r)
    BY RefRules
  <2>3. \A z : Ref!Range(z) = Range(z)
    BY DEF Ref!Range, Range
  <2> DEFINE a0 == Ref!Shown(Ref!Ranked, {"active", "pending_refresh"}, excluded)
             b0 == Ref!Chosen(a0, {c \in Ref!Range(a0) : Ref!Eligible(c)})
             B0 == UNION {Ref!NextBoundary(c, q) : c \in Ref!Range(a0)}
             B1 == UNION {NextBoundary(c, q) : c \in Range(a)}
  <2>4. Ref!SelectionResult(limit, excluded) =
          [active_count |-> Len(a0), eligible_count |-> Len(b0),
           selected |-> SubSeq([k \in DOMAIN b0 |-> b0[k].card], 1,
                               IF limit < Len(b0) THEN limit ELSE Len(b0)),
           next |-> {n \in B0 : \A z \in B0 : n <= z}]
    BY DEF Ref!SelectionResult
  <2>5. a0 = a
    BY <1>6
  <2> HIDE DEF a0
  <2>6. b0 = b
    BY <1>6, <2>1, <2>3, <2>5
  <2>7. B0 = B1
    BY <2>2, <2>3, <2>5
  <2> HIDE DEF b0, B0, B1
  <2>8. Ref!SelectionResult(limit, excluded) =
          [active_count |-> Len(a), eligible_count |-> Len(b),
           selected |-> SubSeq([k \in DOMAIN b |-> b[k].card], 1,
                               IF limit < Len(b) THEN limit ELSE Len(b)),
           next |-> {n \in B1 : \A z \in B1 : n <= z}]
    BY <2>4, <2>5, <2>6, <2>7
  <2>. QED BY <2>8 DEF B1
<1> HIDE DEF x, y, a, b, next
<1>10. [k \in DOMAIN b |-> b[k].card] = [k \in DOMAIN y |-> index.slots[y[k]].card]
  BY <1>7
<1>. QED BY <1>5, <1>7, <1>8, <1>9, <1>10 DEF next

\* A native selection, its counts and its next boundary, read from the caches,
\* are what the reference session computes from scratch.
THEOREM SelectionIsReference ==
  ASSUME ~RevisitsRetention
  PROVE  Spec => []SelectionMatchesReference
<1>1. IInv /\ OrderIsExactAndSorted => SelectionMatchesReference
  BY SelectionAlike
<1>. QED BY <1>1, InvariantHolds, OrdersStayExact, PTL

-------------------------------------------------------------------------------
(* The refinement.  Candidates in the order of their slots: q lists the     *)
(* live slots of i in turn.                                                 *)

IsView(i, q) ==
  /\ IsInTurn(q, LiveSlots(i)) /\ Len(q) \in Nat
  /\ LiveCandidates(i) = [k \in 1 .. Len(q) |-> i.slots[q[k]]]

\* Slots are listed in turn in one way only.
LEMMA InTurnUnique ==
  ASSUME NEW S \in SUBSET Nat, NEW x, NEW y, IsInTurn(x, S), IsInTurn(y, S)
  PROVE  x = y
<1>1. x \in Seq(S) /\ y \in Seq(S) /\ Sorted(InTurn, x) /\ Sorted(InTurn, y)
      /\ \A s : Has(x, s) <=> Has(y, s)
  BY DEF IsInTurn
<1>. QED BY <1>1, InTurnOrders, SortedUnique

\* Every index has a view, and whatever lists its live slots in turn is it.
LEMMA ViewIs ==
  ASSUME NEW i, IsIndex(i), NEW q, IsInTurn(q, LiveSlots(i))
  PROVE  IsView(i, q)
<1>1. LiveSlots(i) \subseteq Slots(i) /\ LiveSlots(i) \in SUBSET Nat
  BY IndexFacts DEF LiveSlots
<1>2. IsInTurn(LiveInTurn(i), LiveSlots(i))
  BY <1>1, SlotsInTurnFacts DEF LiveInTurn
<1>3. q = LiveInTurn(i)
  BY <1>1, <1>2, InTurnUnique
<1>4. Len(q) \in Nat /\ DOMAIN q = 1 .. Len(q)
  BY SeqFacts DEF IsInTurn
<1>5. LiveCandidates(i) = [k \in DOMAIN q |-> i.slots[q[k]]]
  BY <1>3 DEF LiveCandidates, LiveInTurn
<1>. QED BY <1>4, <1>5 DEF IsView

LEMMA ViewExists ==
  ASSUME NEW i, IsIndex(i)
  PROVE  \E q : IsView(i, q)
<1>1. LiveSlots(i) \subseteq Slots(i)
  BY DEF LiveSlots
<1>2. IsInTurn(LiveInTurn(i), LiveSlots(i))
  BY <1>1, SlotsInTurnFacts DEF LiveInTurn
<1>. QED BY <1>2, ViewIs

\* The reference finds a card where the slot map says it is.
LEMMA PositionFacts ==
  ASSUME IsIndex(index), MapMatches(index), NEW q, IsView(index, q), NEW c \in Cards
  PROVE  /\ index.slotOf[c] = Absent => Ref!PositionOf(c) = {}
         /\ index.slotOf[c] # Absent =>
              \E k \in 1 .. Len(q) : q[k] = index.slotOf[c] /\ Ref!PositionOf(c) = {k}
<1> DEFINE s == index.slotOf[c]
           L == LiveSlots(index)
<1>1. Ref!PositionOf(c) = {k \in 1 .. Len(q) : index.slots[q[k]].card = c}
  BY DEF Ref!PositionOf, Ref!Positions, Ref!CardOf, IsView
<1>2. /\ \A k \in 1 .. Len(q) : q[k] \in L
      /\ \A k, l \in 1 .. Len(q) : k # l => q[k] # q[l]
      /\ \A t \in L : \E k \in 1 .. Len(q) : q[k] = t
  BY DEF IsView, IsInTurn, Has
<1>3. \A t \in L : index.slots[t].card = c <=> s # Absent /\ t = s
  BY DEF MapMatches
<1>4. s # Absent => s \in L
  BY DEF MapMatches
<1>. QED BY <1>1, <1>2, <1>3, <1>4

\* The operators the reference session has of its own.
LEMMA RefOperators ==
  /\ \A c, d, requeue : Ref!Answered(c, d, requeue) = Answered(c, d, requeue)
  /\ \A c, d, p : Ref!Predicted(c, d, p) = Predicted(c, d, p)
  /\ \A seed, d : Ref!FromSeed(seed, d) = FromSeed(seed, d)
  /\ \A t : Ref!Excluded(t) = Excluded(t) /\ Ref!Included(t) = Included(t)
  /\ \A c : Ref!IsExcluded(c) = IsExcluded(c)
<1>1. \A c : Ref!IsExcluded(c) = IsExcluded(c)
  BY DEF Ref!IsExcluded, IsExcluded
<1>2. \A t : Ref!Excluded(t) = Excluded(t) /\ Ref!Included(t) = Included(t)
  BY DEF Ref!Excluded, Excluded, Ref!Included, Included
<1>3. \A t : Ref!Refreshed(t) = Refreshed(t)
  BY DEF Ref!Refreshed, Refreshed
<1>4. \A c, d : Ref!QueriedElapsed(c, d) = QueriedElapsed(c, d)
  BY DEF Ref!QueriedElapsed, QueriedElapsed, Ref!NewCard, NewCard
<1>5. \A c, d, requeue : Ref!Answered(c, d, requeue) = Answered(c, d, requeue)
  BY <1>1 DEF Ref!Answered, Answered, Ref!NaN, NaN
<1>6. \A c, d, p : Ref!Predicted(c, d, p) = Predicted(c, d, p)
  BY <1>3, <1>4 DEF Ref!Predicted, Predicted
<1>7. \A seed, d : Ref!FromSeed(seed, d) = FromSeed(seed, d)
  BY DEF Ref!FromSeed, FromSeed, Ref!NaN, NaN, Ref!NewCard, NewCard
<1>. QED BY <1>1, <1>2, <1>5, <1>6, <1>7

LEMMA RefOnSequences ==
  /\ \A x, k : Ref!RemoveAt(x, k) = RemoveAt(x, k)
  /\ \A x : /\ Ref!Last(x) = Last(x) /\ Ref!Front(x) = Front(x)
            /\ Ref!Range(x) = Range(x) /\ Ref!Trimmed(x) = Trimmed(x)
BY DEF Ref!RemoveAt, RemoveAt, Ref!Last, Last, Ref!Front, Front, Ref!Range, Range,
       Ref!Trimmed, Trimmed

\* Reordering touches neither candidates nor target nor retention extra.
LEMMA ReorderedKeeps ==
  ASSUME NEW j, NEW k, IsIndex(k),
         \/ k = Rebuilt(j)
         \/ \E U, force : k = Reordered(j, U, force)
  PROVE  k.slots = j.slots /\ k.retention = j.retention /\ k.day = j.day
<1>1. \E o : k = [j EXCEPT !.ordered = o]
  <2>1. CASE k = Rebuilt(j)
    BY <2>1 DEF Rebuilt
  <2>2. ASSUME NEW U, k = Merged(j, U)
        PROVE  \E o : k = [j EXCEPT !.ordered = o]
    BY <2>2 DEF Merged
  <2>3. k = Rebuilt(j) \/ \E U : k = Merged(j, U)
    BY DEF Reordered
  <2>. QED BY <2>1, <2>2, <2>3
<1>2. PICK o : k = [j EXCEPT !.ordered = o]
  BY <1>1
<1>3. DOMAIN k = {"slots", "slotOf", "eligible", "ordered", "retention", "day"}
  BY IndexIsUnflagged, IndexDomain
<1>4. DOMAIN j = DOMAIN k
  BY <1>2
<1>. QED BY <1>2, <1>3, <1>4

\* One slot changes: so does one position.
LEMMA ViewChanged ==
  ASSUME NEW i, NEW j, IsIndex(j), NEW q, IsView(i, q), NEW l \in 1 .. Len(q),
         LiveSlots(j) = LiveSlots(i),
         \A t \in LiveSlots(i) : t # q[l] => j.slots[t] = i.slots[t]
  PROVE  /\ LiveCandidates(j) = [LiveCandidates(i) EXCEPT ![l] = j.slots[q[l]]]
         /\ LiveCandidates(i)[l] = i.slots[q[l]]
<1>1. IsView(j, q)
  BY ViewIs DEF IsView
<1>2. /\ \A k \in 1 .. Len(q) : q[k] \in LiveSlots(i)
      /\ \A k \in 1 .. Len(q) : k # l => q[k] # q[l]
  BY DEF IsView, IsInTurn
<1> DEFINE m == LiveCandidates(i)
           e == j.slots[q[l]]
<1>3. m = [k \in 1 .. Len(q) |-> i.slots[q[k]]]
      /\ LiveCandidates(j) = [k \in 1 .. Len(q) |-> j.slots[q[k]]]
  BY <1>1 DEF IsView
<1> HIDE DEF m
<1>4. m[l] = i.slots[q[l]] /\ DOMAIN m = 1 .. Len(q)
  BY <1>3
<1>5. \A k \in 1 .. Len(q) : j.slots[q[k]] = IF k = l THEN e ELSE m[k]
  BY <1>2, <1>3
<1> HIDE DEF e
<1>6. [m EXCEPT ![l] = e] = [k \in 1 .. Len(q) |-> IF k = l THEN e ELSE m[k]]
  BY <1>4
<1>7. LiveCandidates(j) = [m EXCEPT ![l] = e]
  BY <1>3, <1>5, <1>6
<1>. QED BY <1>4, <1>7 DEF m, e

\* What remains of a sequence.
LEMMA RemoveAtFacts ==
  ASSUME NEW S, NEW x \in Seq(S), NEW l \in 1 .. Len(x)
  PROVE  /\ RemoveAt(x, l) \in Seq(S) /\ Len(RemoveAt(x, l)) = Len(x) - 1
         /\ \A k \in 1 .. Len(x) - 1 :
              RemoveAt(x, l)[k] = IF k < l THEN x[k] ELSE x[k + 1]
<1> DEFINE u == SubSeq(x, 1, l - 1)
           v == SubSeq(x, l + 1, Len(x))
<1>1. Len(x) \in Nat
  OBVIOUS
<1>2. u \in Seq(S) /\ Len(u) = l - 1 /\ \A k \in 1 .. l - 1 : u[k] = x[k]
  BY <1>1
<1>3. v \in Seq(S) /\ Len(v) = Len(x) - l /\ \A k \in 1 .. Len(x) - l : v[k] = x[l + k]
  BY <1>1
<1>4. RemoveAt(x, l) = u \o v
  BY DEF RemoveAt
<1> HIDE DEF u, v
<1>5. u \o v \in Seq(S) /\ Len(u \o v) = Len(x) - 1
  <2>1. u \o v \in Seq(S) /\ Len(u \o v) = Len(u) + Len(v)
    BY <1>2, <1>3, ConcatProperties
  <2>2. (l - 1) + (Len(x) - l) = Len(x) - 1
    BY <1>1
  <2>. QED BY <1>2, <1>3, <2>1, <2>2
<1>6. ASSUME NEW k \in 1 .. Len(x) - 1
      PROVE  (u \o v)[k] = IF k < l THEN x[k] ELSE x[k + 1]
  <2>1. CASE k < l
    BY <1>1, <1>2, <1>3, <2>1
  <2>2. CASE k >= l
    <3>1. k - (l - 1) \in 1 .. Len(x) - l /\ k > Len(u) /\ k <= Len(u) + Len(v)
      BY <1>1, <1>2, <1>3, <2>2
    <3>2. (u \o v)[k] = v[k - (l - 1)]
      <4>1. /\ Len(u) + Len(v) = Len(x) - 1
            /\ \A n \in 1 .. Len(u) + Len(v) :
                 (u \o v)[n] = IF n <= Len(u) THEN u[n] ELSE v[n - Len(u)]
        <5>1. \A n \in 1 .. Len(u) + Len(v) :
                (u \o v)[n] = IF n <= Len(u) THEN u[n] ELSE v[n - Len(u)]
          BY <1>2, <1>3, ConcatProperties
        <5>. QED BY <1>1, <1>2, <1>3, <5>1
      <4>. QED BY <1>1, <1>2, <3>1, <4>1
    <3>3. v[k - (l - 1)] = x[l + (k - (l - 1))]
      BY <1>3, <3>1
    <3>4. l + (k - (l - 1)) = k + 1
      BY <1>1
    <3>. QED BY <1>1, <2>2, <3>2, <3>3, <3>4
  <2>3. k < l \/ k >= l
    BY <1>1
  <2>. QED BY <2>1, <2>2, <2>3
<1>. QED BY <1>4, <1>5, <1>6

\* A slot becomes a tombstone: a position goes.
LEMMA ViewRemoved ==
  ASSUME NEW i, NEW j, IsIndex(i), IsIndex(j), NEW q, IsView(i, q), NEW l \in 1 .. Len(q),
         LiveSlots(j) = LiveSlots(i) \ {q[l]},
         \A t \in LiveSlots(j) : j.slots[t] = i.slots[t]
  PROVE  LiveCandidates(j) = RemoveAt(LiveCandidates(i), l)
<1> DEFINE L == LiveSlots(i)
           r == RemoveAt(q, l)
           m == LiveCandidates(i)
<1>1. /\ q \in Seq(L) /\ Sorted(InTurn, q) /\ Len(q) \in Nat
      /\ \A s : Has(q, s) <=> s \in L
      /\ \A k, n \in 1 .. Len(q) : k # n => q[k] # q[n]
  BY DEF IsView, IsInTurn
<1>2. /\ r \in Seq(L) /\ Len(r) = Len(q) - 1
      /\ \A k \in 1 .. Len(q) - 1 : r[k] = IF k < l THEN q[k] ELSE q[k + 1]
  BY <1>1, RemoveAtFacts
<1> HIDE DEF r
<1>3. \A k \in 1 .. Len(q) - 1 : \E n \in 1 .. Len(q) : n # l /\ r[k] = q[n]
  BY <1>1, <1>2
<1>4. \A n \in 1 .. Len(q) : n # l => \E k \in 1 .. Len(q) - 1 : r[k] = q[n]
  <2> SUFFICES ASSUME NEW n \in 1 .. Len(q), n # l
               PROVE  \E k \in 1 .. Len(q) - 1 : r[k] = q[n]
    OBVIOUS
  <2>1. CASE n < l
    BY <1>1, <1>2, <2>1
  <2>2. CASE n > l
    <3>1. n - 1 \in 1 .. Len(q) - 1 /\ ~(n - 1 < l) /\ (n - 1) + 1 = n
      BY <1>1, <2>2
    <3>. QED BY <1>2, <3>1
  <2>. QED BY <1>1, <2>1, <2>2
<1>5. \A s : Has(r, s) <=> s \in L \ {q[l]}
  <2>1. ASSUME NEW s, Has(r, s)
        PROVE  s \in L \ {q[l]}
    <3>1. PICK k \in 1 .. Len(q) - 1 : r[k] = s
      BY <1>2, <2>1 DEF Has
    <3>2. PICK n \in 1 .. Len(q) : n # l /\ r[k] = q[n]
      BY <1>3
    <3>3. q[n] \in L /\ q[n] # q[l]
      BY <1>1, <3>2
    <3>. QED BY <3>1, <3>2, <3>3
  <2>2. \A s \in L \ {q[l]} : \E n \in 1 .. Len(q) : n # l /\ q[n] = s
    BY <1>1 DEF Has
  <2>. QED BY <1>2, <1>4, <2>1, <2>2 DEF Has
<1>6. \A k, n \in 1 .. Len(r) : k < n => <<r[k], r[n]>> \in InTurn
  <2> SUFFICES ASSUME NEW k \in 1 .. Len(r), NEW n \in 1 .. Len(r), k < n
               PROVE  <<r[k], r[n]>> \in InTurn
    OBVIOUS
  <2> DEFINE a == IF k < l THEN k ELSE k + 1
             b == IF n < l THEN n ELSE n + 1
  <2>1. a \in 1 .. Len(q) /\ b \in 1 .. Len(q) /\ a < b
    BY <1>1, <1>2
  <2>2. r[k] = q[a] /\ r[n] = q[b]
    BY <1>2
  <2> HIDE DEF a, b
  <2>3. <<q[a], q[b]>> \in InTurn
    BY <1>1, <2>1 DEF Sorted
  <2>. QED BY <2>2, <2>3
<1>7. IsInTurn(r, L \ {q[l]})
  <2>1. L \subseteq Nat
    BY IndexFacts DEF LiveSlots
  <2>2. Sorted(InTurn, r)
    BY <1>6 DEF Sorted
  <2>3. \A k, n \in 1 .. Len(r) : k # n => r[k] # r[n]
    BY <1>2, <2>1, <2>2, InTurnOrders, SortedDistinct
  <2>4. r \in Seq(L \ {q[l]})
    BY <1>2, <1>5, SeqOfHas
  <2>. QED BY <1>5, <2>2, <2>3, <2>4 DEF IsInTurn
<1>8. IsView(j, r)
  BY <1>7, ViewIs
<1>9. m = [k \in 1 .. Len(q) |-> i.slots[q[k]]] /\ m \in Seq(Candidate) /\ Len(m) = Len(q)
  <2>1. \A k \in 1 .. Len(q) : i.slots[q[k]] \in Candidate
    BY <1>1, IndexFacts DEF LiveSlots
  <2>2. m = [k \in 1 .. Len(q) |-> i.slots[q[k]]]
    BY DEF IsView
  <2>3. m \in [1 .. Len(q) -> Candidate]
    BY <2>1, <2>2
  <2>. QED BY <1>1, <2>2, <2>3, FunctionIsSeq
<1> HIDE DEF m
<1>10. /\ RemoveAt(m, l) \in Seq(Candidate) /\ Len(RemoveAt(m, l)) = Len(q) - 1
       /\ \A k \in 1 .. Len(q) - 1 : RemoveAt(m, l)[k] = IF k < l THEN m[k] ELSE m[k + 1]
  <2>1. m \in Seq(Candidate) /\ l \in 1 .. Len(m)
    BY <1>9
  <2>2. /\ RemoveAt(m, l) \in Seq(Candidate) /\ Len(RemoveAt(m, l)) = Len(m) - 1
        /\ \A k \in 1 .. Len(m) - 1 : RemoveAt(m, l)[k] = IF k < l THEN m[k] ELSE m[k + 1]
    BY <2>1, RemoveAtFacts
  <2>. QED BY <1>9, <2>2
<1>11. LiveCandidates(j) = [k \in 1 .. Len(r) |-> j.slots[r[k]]]
  BY <1>8 DEF IsView
<1>12. ASSUME NEW k \in 1 .. Len(q) - 1
       PROVE  j.slots[r[k]] = RemoveAt(m, l)[k]
  <2>1. r[k] \in L \ {q[l]}
    BY <1>2, <1>5 DEF Has
  <2>2. j.slots[r[k]] = i.slots[r[k]]
    BY <2>1
  <2>3. k \in 1 .. Len(q) /\ k + 1 \in 1 .. Len(q)
    BY <1>1
  <2>4. m[k] = i.slots[q[k]] /\ m[k + 1] = i.slots[q[k + 1]]
    BY <1>9, <2>3
  <2>. QED BY <1>2, <1>10, <2>2, <2>4
<1>13. RemoveAt(m, l) = [k \in 1 .. Len(q) - 1 |-> RemoveAt(m, l)[k]]
  BY <1>10
<1>. QED BY <1>2, <1>11, <1>12, <1>13 DEF m

\* Sequences with the same elements are equal.
LEMMA SequencesEqual ==
  ASSUME NEW x, NEW y, IsSequence(x), IsSequence(y), Len(x) = Len(y),
         \A k \in 1 .. Len(x) : x[k] = y[k]
  PROVE  x = y
<1> DEFINE S == Range(x) \cup Range(y)
<1>1. x \in Seq(Range(x)) /\ y \in Seq(Range(y))
  BY DEF IsSequence
<1> HIDE DEF S
<1>2. x \in Seq(S) /\ y \in Seq(S)
  <2>1. x \in Seq(Range(x) \cup Range(y)) /\ y \in Seq(Range(x) \cup Range(y))
    BY <1>1
  <2>. QED BY <2>1 DEF S
<1>. QED BY <1>2, SeqEqual

\* What the reference saves of a stack.
LEMMA CopiesFacts ==
  ASSUME NEW h, IsSequence(h)
  PROVE  /\ IsSequence(Copies(h)) /\ Len(Copies(h)) = Len(h)
         /\ \A k \in 1 .. Len(h) : Copies(h)[k] = Copy(h[k])
<1>1. Len(h) \in Nat /\ DOMAIN h = 1 .. Len(h)
  BY IsSequenceFacts
<1> DEFINE S == {Copy(h[k]) : k \in 1 .. Len(h)}
<1>2. Copies(h) \in [1 .. Len(h) -> S] /\ \A k \in 1 .. Len(h) : Copies(h)[k] = Copy(h[k])
  BY <1>1 DEF Copies
<1> HIDE DEF S
<1>3. Copies(h) \in Seq(S) /\ Len(Copies(h)) = Len(h)
  BY <1>1, <1>2, FunctionIsSeq
<1>. QED BY <1>2, <1>3, IsSequenceIntro

\* An answer pushes the same in both.
LEMMA CopiesPushed ==
  ASSUME NEW h, IsSequence(h), NEW i
  PROVE  Copies(Trimmed(Append(h, i))) = Ref!Trimmed(Append(Copies(h), Copy(i)))
<1> DEFINE x == Append(h, i)
           y == Append(Copies(h), Copy(i))
           n == Len(h) + 1
<1>1. Len(h) \in Nat /\ IsSequence(Copies(h)) /\ Len(Copies(h)) = Len(h)
      /\ \A k \in 1 .. Len(h) : Copies(h)[k] = Copy(h[k])
  BY CopiesFacts, IsSequenceFacts
<1>2. /\ IsSequence(x) /\ Len(x) = n /\ x[n] = i /\ \A k \in 1 .. Len(h) : x[k] = h[k]
  BY AppendFacts
<1>3. /\ IsSequence(y) /\ Len(y) = n /\ y[n] = Copy(i)
      /\ \A k \in 1 .. Len(h) : y[k] = Copies(h)[k]
  <2> HIDE DEF n
  <2>1. /\ IsSequence(y) /\ Len(y) = Len(Copies(h)) + 1 /\ y[Len(Copies(h)) + 1] = Copy(i)
        /\ \A k \in 1 .. Len(Copies(h)) : y[k] = Copies(h)[k]
    BY <1>1, AppendFacts
  <2>. QED BY <1>1, <2>1 DEF n
<1> HIDE DEF x, y
<1>4. \A k \in 1 .. n : y[k] = Copy(x[k])
  <2>1. \A k \in 1 .. n : k = n \/ k \in 1 .. Len(h)
    BY <1>1
  <2>. QED BY <1>1, <1>2, <1>3, <2>1
<1>5. Copies(x) = y
  <2>1. /\ IsSequence(Copies(x)) /\ Len(Copies(x)) = n
        /\ \A k \in 1 .. n : Copies(x)[k] = Copy(x[k])
    BY <1>2, CopiesFacts
  <2>2. \A k \in 1 .. Len(Copies(x)) : Copies(x)[k] = y[k]
    BY <1>4, <2>1
  <2>. QED BY <1>3, <2>1, <2>2, SequencesEqual
<1>6. Copies(Tail(x)) = Tail(y)
  <2>1. Len(x) > 0 /\ Len(y) > 0
    BY <1>1, <1>2, <1>3
  <2>2. /\ IsSequence(Tail(x)) /\ Len(Tail(x)) = Len(h)
        /\ \A k \in 1 .. Len(h) : Tail(x)[k] = x[k + 1]
    <3>1. /\ IsSequence(Tail(x)) /\ Len(Tail(x)) = Len(x) - 1
          /\ \A k \in 1 .. Len(x) - 1 : Tail(x)[k] = x[k + 1]
      BY <1>2, <2>1, TailFacts
    <3>2. Len(x) - 1 = Len(h)
      BY <1>1, <1>2
    <3>. QED BY <3>1, <3>2
  <2>3. /\ IsSequence(Tail(y)) /\ Len(Tail(y)) = Len(h)
        /\ \A k \in 1 .. Len(h) : Tail(y)[k] = y[k + 1]
    <3>1. /\ IsSequence(Tail(y)) /\ Len(Tail(y)) = Len(y) - 1
          /\ \A k \in 1 .. Len(y) - 1 : Tail(y)[k] = y[k + 1]
      BY <1>3, <2>1, TailFacts
    <3>2. Len(y) - 1 = Len(h)
      BY <1>1, <1>3
    <3>. QED BY <3>1, <3>2
  <2>4. /\ IsSequence(Copies(Tail(x))) /\ Len(Copies(Tail(x))) = Len(h)
        /\ \A k \in 1 .. Len(h) : Copies(Tail(x))[k] = Copy(Tail(x)[k])
    BY <2>2, CopiesFacts
  <2>5. \A k \in 1 .. Len(h) : k + 1 \in 1 .. n
    BY <1>1
  <2>6. \A k \in 1 .. Len(Copies(Tail(x))) : Copies(Tail(x))[k] = Tail(y)[k]
    BY <1>4, <2>2, <2>3, <2>4, <2>5
  <2>. QED BY <2>3, <2>4, <2>6, SequencesEqual
<1>7. Ref!Trimmed(y) = Trimmed(y)
  BY RefOnSequences
<1>8. Copies(Trimmed(x)) = Trimmed(y)
  BY <1>2, <1>3, <1>5, <1>6 DEF Trimmed
<1>. QED BY <1>7, <1>8 DEF x, y

\* An undo pops the same in both.
LEMMA CopiesPopped ==
  ASSUME NEW h, IsSequence(h), h # <<>>
  PROVE  /\ Copies(h) # <<>> /\ Ref!Last(Copies(h)) = Copy(Last(h))
         /\ Copies(Front(h)) = Ref!Front(Copies(h))
<1> DEFINE n == Len(h)
<1>1. /\ n \in Nat /\ n > 0 /\ Last(h) = h[n] /\ IsSequence(Front(h)) /\ Len(Front(h)) = n - 1
      /\ \A k \in 1 .. n - 1 : Front(h)[k] = h[k]
  BY FrontFacts, IsSequenceFacts
<1>2. /\ IsSequence(Copies(h)) /\ Len(Copies(h)) = n /\ \A k \in 1 .. n : Copies(h)[k] = Copy(h[k])
  BY CopiesFacts
<1>3. Copies(h) # <<>>
  BY <1>1, <1>2
<1>4. /\ Last(Copies(h)) = Copies(h)[n] /\ IsSequence(Front(Copies(h)))
      /\ Len(Front(Copies(h))) = n - 1
      /\ \A k \in 1 .. n - 1 : Front(Copies(h))[k] = Copies(h)[k]
  <2>1. /\ Last(Copies(h)) = Copies(h)[Len(Copies(h))] /\ IsSequence(Front(Copies(h)))
        /\ Len(Front(Copies(h))) = Len(Copies(h)) - 1
        /\ \A k \in 1 .. Len(Copies(h)) - 1 : Front(Copies(h))[k] = Copies(h)[k]
    BY <1>2, <1>3, FrontFacts
  <2>. QED BY <1>2, <2>1
<1>5. /\ IsSequence(Copies(Front(h))) /\ Len(Copies(Front(h))) = n - 1
      /\ \A k \in 1 .. n - 1 : Copies(Front(h))[k] = Copy(Front(h)[k])
  <2>1. /\ IsSequence(Copies(Front(h))) /\ Len(Copies(Front(h))) = Len(Front(h))
        /\ \A k \in 1 .. Len(Front(h)) : Copies(Front(h))[k] = Copy(Front(h)[k])
    BY <1>1, CopiesFacts
  <2>. QED BY <1>1, <2>1
<1>6. \A k \in 1 .. n - 1 : k \in 1 .. n
  BY <1>1
<1>7. \A k \in 1 .. Len(Copies(Front(h))) : Copies(Front(h))[k] = Front(Copies(h))[k]
  BY <1>1, <1>2, <1>4, <1>5, <1>6
<1>8. Copies(Front(h)) = Front(Copies(h))
  BY <1>4, <1>5, <1>7, SequencesEqual
<1>9. n \in 1 .. n
  BY <1>1
<1>. QED BY <1>1, <1>2, <1>3, <1>4, <1>8, <1>9, RefOnSequences

-------------------------------------------------------------------------------
(* Each action of the index is one of the reference session.               *)

\* What every lemma below needs of the two states.
LEMMA BothStates ==
  ASSUME IInv, IInv'
  PROVE  /\ IsIndex(index) /\ MapMatches(index) /\ IsIndex(index') /\ MapMatches(index')
         /\ IsSequence(history)
         /\ DOMAIN index = {"slots", "slotOf", "eligible", "ordered", "retention", "day"}
<1>1. IsIndex(index) /\ MapMatches(index) /\ IsSequence(history)
  BY Unfold DEF IndexIsCoherent, StackOK
<1>. QED BY <1>1, UnfoldNext, IndexIsUnflagged, IndexDomain

\* A live card's slot and position.
LEMMA CardIsAt ==
  ASSUME IsIndex(index), MapMatches(index), NEW c \in Cards, index.slotOf[c] # Absent
  PROVE  /\ index.slotOf[c] \in Slots(index) /\ IsLive(index, index.slotOf[c])
         /\ \E q : /\ IsView(index, q)
                   /\ \E k \in 1 .. Len(q) : q[k] = index.slotOf[c] /\ Ref!PositionOf(c) = {k}
<1>1. PICK q : IsView(index, q)
  BY ViewExists
<1>2. \E k \in 1 .. Len(q) : q[k] = index.slotOf[c] /\ Ref!PositionOf(c) = {k}
  BY <1>1, PositionFacts
<1>3. IsLive(index, index.slotOf[c])
  BY MapFacts
<1>. QED BY <1>1, <1>2, <1>3 DEF IsLive

\* Answering.
LEMMA AnswerRefined ==
  ASSUME IInv, IInv', NEW c \in Cards, NEW d \in Days, NEW requeue \in BOOLEAN,
         Answer(c, d, requeue)
  PROVE  Ref!Answer(c, d, requeue)
<1> DEFINE s == index.slotOf[c]
           e == Answered(index.slots[s], d, requeue)
           j == [index EXCEPT !.slots[s] = Answered(@, d, requeue), !.eligible[s] = FALSE,
                              !.slotOf[c] = IF requeue THEN @ ELSE Absent]
           m == LiveCandidates(index)
<1>1. /\ s # Absent /\ index' = Reordered(j, {s}, FALSE)
      /\ history' = Trimmed(Append(history, index)) /\ generation' = generation + 1
  BY DEF Answer, Advance
<1>2. /\ IsIndex(index) /\ MapMatches(index) /\ IsIndex(index') /\ IsSequence(history)
      /\ DOMAIN index = {"slots", "slotOf", "eligible", "ordered", "retention", "day"}
  BY BothStates
<1>3. j.slots = [index.slots EXCEPT ![s] = e] /\ j.retention = index.retention /\ j.day = index.day
  BY <1>2
<1> HIDE DEF j
<1>4. /\ index'.slots = [index.slots EXCEPT ![s] = e]
      /\ index'.retention = index.retention /\ index'.day = index.day
  BY <1>1, <1>2, <1>3, ReorderedKeeps
<1>5. PICK q : /\ IsView(index, q)
               /\ \E k \in 1 .. Len(q) : q[k] = s /\ Ref!PositionOf(c) = {k}
  BY <1>1, <1>2, CardIsAt
<1>6. PICK k \in 1 .. Len(q) : q[k] = s /\ Ref!PositionOf(c) = {k}
  BY <1>5
<1>7. s \in Slots(index) /\ IsLive(index, s) /\ index.slots[s] \in Candidate
  BY <1>1, <1>2, CardIsAt, IndexFacts
<1>8. e.status = "removed" <=> ~requeue
  BY <1>7, AnsweredFacts, IndexAssumption
<1> HIDE DEF e, s
<1>9. /\ Slots(index') = Slots(index) /\ index'.slots[s] = e
      /\ \A t \in Slots(index) : t # s => index'.slots[t] = index.slots[t]
  BY <1>4, <1>7 DEF Slots
<1>10. m[k] = index.slots[s]
  BY <1>5, <1>6 DEF IsView
<1>11. CASE requeue
  <2>1. LiveSlots(index') = LiveSlots(index)
    BY <1>7, <1>8, <1>9, <1>11 DEF LiveSlots, IsLive
  <2>2. LiveCandidates(index') = [m EXCEPT ![k] = e]
    BY <1>2, <1>5, <1>6, <1>9, <2>1, ViewChanged DEF LiveSlots
  <2>3. e = Answered(m[k], d, TRUE)
    BY <1>10, <1>11 DEF e
  <2>4. LiveCandidates(index') = [m EXCEPT ![k] = Ref!Answered(@, d, TRUE)]
    BY <2>2, <2>3, RefOperators
  <2>. QED BY <1>1, <1>2, <1>4, <1>6, <1>11, <2>4, CopiesPushed DEF Ref!Answer, Ref!Advance, Copy
<1>12. CASE ~requeue
  <2>1. LiveSlots(index') = LiveSlots(index) \ {s}
    BY <1>7, <1>8, <1>9, <1>12 DEF LiveSlots, IsLive
  <2>2. LiveCandidates(index') = RemoveAt(m, k)
    BY <1>2, <1>5, <1>6, <1>9, <2>1, ViewRemoved DEF LiveSlots
  <2>3. LiveCandidates(index') = Ref!RemoveAt(m, k)
    BY <2>2, RefOnSequences
  <2>. QED BY <1>1, <1>2, <1>4, <1>6, <1>12, <2>3, CopiesPushed DEF Ref!Answer, Ref!Advance, Copy
<1>. QED BY <1>11, <1>12

\* Undoing an answer.
LEMMA UndoRefined ==
  ASSUME IInv, IInv', Undo
  PROVE  Ref!Undo
<1> DEFINE h == Last(history)
<1>1. /\ undo # <<>> /\ history' = Front(history) /\ generation' = generation + 1
  BY DEF Undo, Advance
<1>2. /\ SameUniverse(index', h) /\ index'.retention = h.retention /\ index'.day = h.day
  BY UndoStep
<1>3. IsIndex(index') /\ IsSequence(history)
  BY BothStates
<1>4. IsIndex(h) /\ history # <<>>
  <2>1. IsSequence(undo) /\ Len(history) = Len(undo) /\ StackOK(undo, history, index)
    BY Unfold DEF StackOK
  <2>2. Len(undo) \in Nat /\ Len(undo) > 0
    BY <1>1, <2>1, FrontFacts, IsSequenceFacts
  <2>3. history # <<>>
    BY <2>1, <2>2
  <2>4. h = history[Len(undo)] /\ Len(undo) \in 1 .. Len(undo)
    BY <1>3, <2>1, <2>2, <2>3, FrontFacts
  <2>. QED BY <2>1, <2>3, <2>4 DEF StackOK, FrameOK
<1> HIDE DEF h
<1>5. LiveSlots(index') = LiveSlots(h) /\ \A s \in LiveSlots(h) : index'.slots[s] = h.slots[s]
  BY <1>2 DEF SameUniverse, LiveSlots, IsLive
<1>6. PICK q : IsView(h, q)
  BY <1>4, ViewExists
<1>7. IsView(index', q) /\ \A k \in 1 .. Len(q) : q[k] \in LiveSlots(h)
  <2>1. IsInTurn(q, LiveSlots(index'))
    BY <1>5, <1>6 DEF IsView
  <2>. QED BY <1>3, <1>6, <2>1, ViewIs DEF IsView, IsInTurn
<1>8. LiveCandidates(index') = LiveCandidates(h)
  BY <1>5, <1>6, <1>7 DEF IsView
<1>9. Copies(history) # <<>> /\ Ref!Last(Copies(history)) = Copy(h)
      /\ Copies(history') = Ref!Front(Copies(history))
  BY <1>1, <1>3, <1>4, CopiesPopped DEF h
<1>. QED BY <1>1, <1>2, <1>8, <1>9 DEF Ref!Undo, Ref!Advance, Copy

\* Excluding and including.
LEMMA StatusRefined ==
  ASSUME IInv, IInv', NEW c \in Cards, NEW t, SetStatus(c, t),
         StatusOf(c) # "removed" => t # "removed"
  PROVE  /\ \E k \in Ref!PositionOf(c) :
              /\ LiveCandidates(index)[k].status = StatusOf(c)
              /\ LiveCandidates(index') = [LiveCandidates(index) EXCEPT ![k].status = t]
         /\ index'.retention = index.retention /\ index'.day = index.day
         /\ history' = history /\ generation' = generation + 1
<1> DEFINE s == index.slotOf[c]
           e == [index.slots[s] EXCEPT !.status = t]
           m == LiveCandidates(index)
<1>1. /\ s # Absent /\ index' = [index EXCEPT !.slots[s].status = t]
      /\ history' = history /\ generation' = generation + 1
  BY DEF SetStatus, Advance
<1>2. /\ IsIndex(index) /\ MapMatches(index) /\ IsIndex(index')
      /\ DOMAIN index = {"slots", "slotOf", "eligible", "ordered", "retention", "day"}
  BY BothStates
<1>3. /\ index'.slots = [index.slots EXCEPT ![s] = e]
      /\ index'.retention = index.retention /\ index'.day = index.day
  BY <1>1, <1>2
<1>4. PICK q : /\ IsView(index, q)
               /\ \E k \in 1 .. Len(q) : q[k] = s /\ Ref!PositionOf(c) = {k}
  BY <1>1, <1>2, CardIsAt
<1>5. PICK k \in 1 .. Len(q) : q[k] = s /\ Ref!PositionOf(c) = {k}
  BY <1>4
<1>6. s \in Slots(index) /\ IsLive(index, s) /\ index.slots[s] \in Candidate
  BY <1>1, <1>2, CardIsAt, IndexFacts
<1>7. e.status = t /\ t # "removed" /\ index.slots[s].status = StatusOf(c)
  BY <1>6 DEF Candidate, StatusOf, IsLive
<1> HIDE DEF e
<1>8. /\ Slots(index') = Slots(index) /\ index'.slots[s] = e
      /\ \A u \in Slots(index) : u # s => index'.slots[u] = index.slots[u]
  BY <1>3, <1>6 DEF Slots
<1>9. m[k] = index.slots[s]
  BY <1>4, <1>5 DEF IsView
<1>10. LiveSlots(index') = LiveSlots(index)
  BY <1>6, <1>7, <1>8 DEF LiveSlots, IsLive
<1>11. LiveCandidates(index') = [m EXCEPT ![k] = e]
  BY <1>2, <1>4, <1>5, <1>8, <1>10, ViewChanged DEF LiveSlots
<1>12. [m EXCEPT ![k] = e] = [m EXCEPT ![k].status = t]
  BY <1>9 DEF e
<1>. QED BY <1>1, <1>3, <1>5, <1>7, <1>9, <1>11, <1>12

LEMMA ExcludeRefined ==
  ASSUME IInv, IInv', NEW c \in Cards, ExcludeCard(c)
  PROVE  Ref!ExcludeCard(c)
<1> DEFINE t == Excluded(StatusOf(c))
           m == LiveCandidates(index)
<1>1. SetStatus(c, t)
  BY DEF ExcludeCard
<1>2. StatusOf(c) # "removed" => t # "removed"
  BY DEF Excluded
<1> HIDE DEF t
<1>3. /\ \E k \in Ref!PositionOf(c) :
           m[k].status = StatusOf(c) /\ LiveCandidates(index') = [m EXCEPT ![k].status = t]
      /\ index'.retention = index.retention /\ index'.day = index.day
      /\ history' = history /\ generation' = generation + 1
  BY <1>1, <1>2, StatusRefined
<1>4. PICK k \in Ref!PositionOf(c) :
        m[k].status = StatusOf(c) /\ LiveCandidates(index') = [m EXCEPT ![k].status = t]
  BY <1>3
<1>5. LiveCandidates(index') = [m EXCEPT ![k].status = Ref!Excluded(@)]
  BY <1>4, RefOperators DEF t
<1>. QED BY <1>3, <1>5 DEF Ref!ExcludeCard, Ref!SetStatus, Ref!Advance

LEMMA IncludeRefined ==
  ASSUME IInv, IInv', NEW c \in Cards, IncludeCard(c)
  PROVE  Ref!IncludeCard(c)
<1> DEFINE t == Included(StatusOf(c))
           m == LiveCandidates(index)
<1>1. SetStatus(c, t)
  BY DEF IncludeCard
<1>2. StatusOf(c) # "removed" => t # "removed"
  BY DEF Included
<1> HIDE DEF t
<1>3. /\ \E k \in Ref!PositionOf(c) :
           m[k].status = StatusOf(c) /\ LiveCandidates(index') = [m EXCEPT ![k].status = t]
      /\ index'.retention = index.retention /\ index'.day = index.day
      /\ history' = history /\ generation' = generation + 1
  BY <1>1, <1>2, StatusRefined
<1>4. PICK k \in Ref!PositionOf(c) :
        m[k].status = StatusOf(c) /\ LiveCandidates(index') = [m EXCEPT ![k].status = t]
  BY <1>3
<1>5. LiveCandidates(index') = [m EXCEPT ![k].status = Ref!Included(@)]
  BY <1>4, RefOperators DEF t
<1>. QED BY <1>3, <1>5 DEF Ref!IncludeCard, Ref!SetStatus, Ref!Advance

\* Removing.
LEMMA RemoveRefined ==
  ASSUME IInv, IInv', NEW c \in Cards, RemoveCard(c)
  PROVE  Ref!RemoveCandidate(c)
<1> DEFINE s == index.slotOf[c]
           j == [index EXCEPT !.slots[s].status = "removed", !.eligible[s] = FALSE,
                              !.slotOf[c] = Absent]
           e == [index.slots[s] EXCEPT !.status = "removed"]
           m == LiveCandidates(index)
<1>1. /\ s # Absent /\ index' = Reordered(j, {s}, FALSE)
      /\ history' = history /\ generation' = generation + 1
  BY DEF RemoveCard, Advance
<1>2. /\ IsIndex(index) /\ MapMatches(index) /\ IsIndex(index')
      /\ DOMAIN index = {"slots", "slotOf", "eligible", "ordered", "retention", "day"}
  BY BothStates
<1>3. j.slots = [index.slots EXCEPT ![s] = e] /\ j.retention = index.retention /\ j.day = index.day
  BY <1>2
<1> HIDE DEF j
<1>4. /\ index'.slots = [index.slots EXCEPT ![s] = e]
      /\ index'.retention = index.retention /\ index'.day = index.day
  BY <1>1, <1>2, <1>3, ReorderedKeeps
<1>5. PICK q : /\ IsView(index, q)
               /\ \E k \in 1 .. Len(q) : q[k] = s /\ Ref!PositionOf(c) = {k}
  BY <1>1, <1>2, CardIsAt
<1>6. PICK k \in 1 .. Len(q) : q[k] = s /\ Ref!PositionOf(c) = {k}
  BY <1>5
<1>7. s \in Slots(index) /\ IsLive(index, s) /\ index.slots[s] \in Candidate
  BY <1>1, <1>2, CardIsAt, IndexFacts
<1>8. e.status = "removed"
  BY <1>7 DEF Candidate
<1> HIDE DEF e, s
<1>9. /\ Slots(index') = Slots(index) /\ index'.slots[s] = e
      /\ \A t \in Slots(index) : t # s => index'.slots[t] = index.slots[t]
  BY <1>4, <1>7 DEF Slots
<1>10. LiveSlots(index') = LiveSlots(index) \ {s}
  BY <1>7, <1>8, <1>9 DEF LiveSlots, IsLive
<1>11. LiveCandidates(index') = RemoveAt(m, k)
  BY <1>2, <1>5, <1>6, <1>9, <1>10, ViewRemoved DEF LiveSlots
<1>12. LiveCandidates(index') = Ref!RemoveAt(m, k)
  BY <1>11, RefOnSequences
<1>. QED BY <1>1, <1>4, <1>6, <1>12 DEF Ref!RemoveCandidate, Ref!Advance

\* Another retention extra: no candidate changes.
LEMMA RetentionRefined ==
  ASSUME IInv, IInv', NEW r \in Extras, SetRetention(r)
  PROVE  Ref!SetRetention(r)
<1> DEFINE i == [index EXCEPT !.retention = r]
           j == Recomputed(i)
<1>1. /\ index' = Rebuilt(j) /\ history' = history /\ generation' = generation + 1
  BY DEF SetRetention, Advance
<1>2. /\ IsIndex(index) /\ IsIndex(index')
      /\ DOMAIN index = {"slots", "slotOf", "eligible", "ordered", "retention", "day"}
  BY BothStates
<1>3. i.slots = index.slots /\ i.retention = r /\ i.day = index.day /\ DOMAIN i = DOMAIN index
  BY <1>2
<1> HIDE DEF i
<1>4. j.slots = i.slots /\ j.retention = i.retention /\ j.day = i.day
  BY <1>2, <1>3 DEF Recomputed
<1> HIDE DEF j
<1>5. index'.slots = index.slots /\ index'.retention = r /\ index'.day = index.day
  BY <1>1, <1>2, <1>3, <1>4, ReorderedKeeps
<1>6. LiveSlots(index') = LiveSlots(index)
  BY <1>5 DEF LiveSlots, IsLive, Slots
<1>7. LiveCandidates(index') = LiveCandidates(index)
  BY <1>5, <1>6 DEF LiveCandidates, SlotsInTurn, Slots
<1>. QED BY <1>1, <1>5, <1>7 DEF Ref!SetRetention, Ref!Advance

LEMMA ModeRefined ==
  ASSUME SetMode
  PROVE  Ref!SetMode
BY DEF SetMode, Advance, Ref!SetMode, Ref!Advance

\* What is shown of any statuses.
LEMMA ShownOf ==
  ASSUME IsIndex(index), MapMatches(index), NEW x \in Seq(LiveSlots(index)),
         NEW statuses, NEW excluded
  PROVE  LET B == {s \in Slots(index) : /\ index.slots[s].card \notin excluded
                                        /\ index.slots[s].status \in statuses}
         IN  Ref!Shown(Mapped(OnSlot(index), x), statuses, excluded)
               = Mapped(OnSlot(index), Chosen(x, B))
<1> DEFINE L == LiveSlots(index)
           g == OnSlot(index)
           D == Range(LiveCandidates(index))
           m == Mapped(g, x)
           B == {s \in Slots(index) : /\ index.slots[s].card \notin excluded
                                      /\ index.slots[s].status \in statuses}
           C == {c \in Range(m) : c.status \in statuses /\ c.card \notin excluded}
           S == {s \in L : Has(x, s)}
<1>1. IsBetween(g, L, D)
  BY CandidatesOnSlots
<1>2. \A s \in L : s \in Slots(index) /\ g[s] = index.slots[s]
  BY DEF LiveSlots, OnSlot
<1>3. Ref!Shown(m, statuses, excluded) = Chosen(m, C)
  BY RefSequences DEF Ref!Shown, Range, Ref!Range
<1> HIDE DEF g
<1>4. \A s : Has(x, s) => g[s] \in Range(m)
  BY <1>1, MappedHas
<1>5. x \in Seq(S) /\ S \subseteq L
  <2>1. \A s : Has(x, s) => s \in S
    BY DEF Has
  <2> HIDE DEF S
  <2>2. x \in Seq(S)
    BY <2>1, SeqOfHas
  <2>. QED BY <2>2 DEF S
<1>6. \A s \in S : s \in B <=> g[s] \in C
  BY <1>2, <1>4
<1>7. IsBetween(g, S, D)
  BY <1>1, <1>5 DEF IsBetween
<1> HIDE DEF B, C, S, D, m
<1>8. Chosen(m, C) = Mapped(g, Chosen(x, B))
  BY <1>5, <1>6, <1>7, ChosenMapped DEF m
<1>. QED BY <1>3, <1>8 DEF m, g, B

\* One refresh predicts the same cards in both.
LEMMA MembershipAlike ==
  ASSUME IInv, OrderIsExactAndSorted, ~RevisitsRetention, NEW excluded
  PROVE  Ref!Membership(excluded) = {index.slots[s].card : s \in Membership(excluded)}
<1>1. IsIndex(index) /\ MapMatches(index) /\ FlagsAreCurrent(index) /\ OrderIsExact(index)
  BY Unfold DEF IndexIsCoherent, OrderIsExactAndSorted
<1> DEFINE L == LiveSlots(index)
           g == OnSlot(index)
           o == index.ordered
           x == LiveInTurn(index)
           D == Range(LiveCandidates(index))
           B(t) == {s \in Slots(index) : /\ index.slots[s].card \notin excluded
                                         /\ index.slots[s].status \in {t}}
           u == Chosen(x, B("pending_refresh"))
           v == Chosen(o, B("active"))
           z == u \o v
           ref == Ref!Shown(LiveCandidates(index), {"pending_refresh"}, excluded)
                    \o Ref!Shown(Ref!Ranked, {"active"}, excluded)
<1>2. IsBetween(g, L, D) /\ x \in Seq(L) /\ LiveCandidates(index) = Mapped(g, x)
  BY <1>1, CandidatesOnSlots DEF IsInTurn
<1>3. o \in Seq(L) /\ Ref!Ranked = Mapped(g, o)
  BY <1>1, RankedAlike, ExactIsRank DEF IsRank
<1>4. RefreshQueue(excluded) = z
  <2>1. L \subseteq Slots(index) /\ SlotsInTurn(index) \in Seq(Slots(index))
    <3>1. SlotsInTurn(index) \in [1 .. Len(index.slots) -> Slots(index)]
      BY <1>1, IndexFacts DEF SlotsInTurn
    <3>. QED BY <1>1, <3>1, IndexFacts, FunctionIsSeq DEF LiveSlots
  <2>2. B("pending_refresh") \subseteq L
    BY DEF LiveSlots, IsLive
  <2> DEFINE P == B("pending_refresh")
  <2> HIDE DEF P
  <2>3. Chosen(x, P) = Chosen(SlotsInTurn(index), P)
    BY <2>1, <2>2, ChosenChosen DEF LiveInTurn, P
  <2>4. /\ P = {s \in {s \in Slots(index) : index.slots[s].card \notin excluded} :
                   index.slots[s].status = "pending_refresh"}
        /\ B("active") = {s \in {s \in Slots(index) : index.slots[s].card \notin excluded} :
                   index.slots[s].status = "active"}
    BY DEF P
  <2>5. RefreshQueue(excluded) = Chosen(SlotsInTurn(index), P) \o Chosen(o, B("active"))
    BY <2>4 DEF RefreshQueue
  <2>. QED BY <2>3, <2>5 DEF P
<1>5. Ref!Shown(LiveCandidates(index), {"pending_refresh"}, excluded) = Mapped(g, u)
  BY <1>1, <1>2, ShownOf
<1>6. Ref!Shown(Ref!Ranked, {"active"}, excluded) = Mapped(g, v)
  BY <1>1, <1>3, ShownOf
<1>7. u \in Seq(L) /\ v \in Seq(L)
  BY <1>2, <1>3, ChosenType
<1> HIDE DEF u, v, g, x, o
<1>8. ref = Mapped(g, z) /\ z \in Seq(L)
  BY <1>2, <1>5, <1>6, <1>7, MappedConcat, ConcatProperties
<1> HIDE DEF z, ref
<1>9. DOMAIN ref = 1 .. Len(z) /\ DOMAIN z = 1 .. Len(z)
      /\ \A k \in 1 .. Len(z) : ref[k] = index.slots[z[k]] /\ z[k] \in L
  <2>1. ref \in Seq(D) /\ Len(ref) = Len(z) /\ \A k \in 1 .. Len(z) : ref[k] = g[z[k]]
    BY <1>2, <1>8, MappedHas
  <2>2. \A k \in 1 .. Len(z) : z[k] \in L
    BY <1>8
  <2>3. DOMAIN ref = 1 .. Len(z) /\ DOMAIN z = 1 .. Len(z)
    BY <1>8, <2>1
  <2>4. \A s \in L : g[s] = index.slots[s]
    BY DEF g, OnSlot
  <2>. QED BY <2>1, <2>2, <2>3, <2>4
<1>10. Ref!Membership(excluded) = {ref[k].card : k \in {k \in DOMAIN ref : k <= RefreshLimit}}
  BY DEF Ref!Membership, ref
<1>11. Membership(excluded) = {s \in L : \E k \in DOMAIN z : k <= RefreshLimit /\ z[k] = s}
  BY <1>4 DEF Membership
<1>12. \A k \in DOMAIN ref : k <= RefreshLimit => \E s \in Membership(excluded) : index.slots[s].card = ref[k].card
  BY <1>9, <1>11
<1>13. \A s \in Membership(excluded) : \E k \in DOMAIN ref : k <= RefreshLimit /\ index.slots[s].card = ref[k].card
  BY <1>9, <1>11
<1>. QED BY <1>10, <1>12, <1>13

\* Refreshing.
LEMMA RefreshRefined ==
  ASSUME IInv, IInv', OrderIsExactAndSorted, ~RevisitsRetention,
         NEW d \in Days, NEW r \in Extras, NEW excluded \in SUBSET Cards,
         Refresh(d, r, excluded)
  PROVE  Ref!Refresh(d, r, excluded)
<1> DEFINE S == Membership(excluded)
           m == LiveCandidates(index)
           cards == Ref!Membership(excluded)
<1>1. cards = {index.slots[s].card : s \in S} /\ S \subseteq LiveSlots(index)
  BY MembershipAlike DEF Membership
<1>2. history' = history /\ generation' = generation + 1
  BY DEF Refresh, Advance
<1>3. PICK p \in [S -> Predictions] :
        LET i == [index EXCEPT !.retention = r, !.day = d,
                    !.slots = [s \in Slots(index) |->
                       IF s \in S THEN Predicted(@[s], d, p[s]) ELSE @[s]]]
            j == IF r # index.retention THEN Recomputed(i)
                 ELSE [i EXCEPT !.eligible = [s \in Slots(i) |->
                         IF s \in S THEN EligibleAt(i.slots[s], r) ELSE @[s]]]
        IN  index' = Reordered(j, S, r # index.retention)
  BY DEF Refresh
<1> HIDE DEF S, cards
<1> DEFINE e == [s \in Slots(index) |->
                  IF s \in S THEN Predicted(index.slots[s], d, p[s]) ELSE index.slots[s]]
           i == [index EXCEPT !.retention = r, !.day = d, !.slots = e]
           flags == [s \in Slots(i) |->
                      IF s \in S THEN EligibleAt(i.slots[s], r) ELSE i.eligible[s]]
           j == IF r # index.retention THEN Recomputed(i) ELSE [i EXCEPT !.eligible = flags]
           force == r # index.retention
<1>4. index' = Reordered(j, S, force)
  BY <1>3
<1>5. /\ IsIndex(index) /\ MapMatches(index) /\ IsIndex(index')
      /\ DOMAIN index = {"slots", "slotOf", "eligible", "ordered", "retention", "day"}
  BY BothStates
<1>6. /\ DOMAIN e = Slots(index)
      /\ \A s \in S : e[s] = Predicted(index.slots[s], d, p[s])
      /\ \A s \in Slots(index) \ S : e[s] = index.slots[s]
  BY <1>1 DEF LiveSlots
<1> HIDE DEF e
<1>7. DOMAIN i = DOMAIN index /\ i.slots = e /\ i.retention = r /\ i.day = d
  BY <1>5
<1> HIDE DEF i
<1>8. j.slots = e /\ j.retention = r /\ j.day = d
  <2>1. CASE force
    BY <1>5, <1>7, <2>1 DEF Recomputed
  <2>2. CASE ~force
    <3> HIDE DEF flags
    <3>1. j = [i EXCEPT !.eligible = flags]
      BY <2>2
    <3> HIDE DEF j
    <3>. QED BY <1>5, <1>7, <3>1
  <2>. QED BY <2>1, <2>2
<1> HIDE DEF j, force
<1>9. index'.slots = e /\ index'.retention = r /\ index'.day = d
  BY <1>4, <1>5, <1>8, ReorderedKeeps
<1>10. \A s \in S : p[s] \in Values /\ index.slots[s] \in Candidate /\ index.slots[s].status # "removed"
  BY <1>1, <1>5, IndexFacts, IndexAssumption DEF LiveSlots, IsLive
<1>11. \A s \in S : e[s].status # "removed"
  BY <1>6, <1>10, PredictedFacts, IndexAssumption
<1>12. LiveSlots(index') = LiveSlots(index)
  <2>1. Slots(index') = Slots(index)
    BY <1>6, <1>9 DEF Slots
  <2>2. \A s \in Slots(index) : e[s].status # "removed" <=> index.slots[s].status # "removed"
    BY <1>6, <1>10, <1>11
  <2>. QED BY <1>9, <2>1, <2>2 DEF LiveSlots, IsLive
<1>13. PICK q : IsView(index, q)
  BY <1>5, ViewExists
<1>14. IsView(index', q)
  BY <1>5, <1>12, <1>13, ViewIs DEF IsView
<1>15. \A k \in 1 .. Len(q) : q[k] \in LiveSlots(index)
  BY <1>13 DEF IsView, IsInTurn
<1>16. DOMAIN m = 1 .. Len(q) /\ \A k \in 1 .. Len(q) : m[k] = index.slots[q[k]]
  BY <1>13 DEF IsView
<1>17. LiveCandidates(index') = [k \in 1 .. Len(q) |-> e[q[k]]]
  BY <1>9, <1>14 DEF IsView
<1>18. \A s, t \in LiveSlots(index) : index.slots[s].card = index.slots[t].card => s = t
  BY <1>5, MapFacts DEF LiveSlots
<1>19. \A s \in LiveSlots(index) : index.slotOf[index.slots[s].card] = s
  BY <1>5, MapFacts DEF LiveSlots
<1> DEFINE pc == [c \in cards |-> p[index.slotOf[c]]]
<1>20. pc \in [cards -> Predictions] /\ \A s \in S : pc[index.slots[s].card] = p[s]
  <2>1. \A c \in cards : index.slotOf[c] \in S
    BY <1>1, <1>19
  <2>. QED BY <1>1, <1>19, <2>1
<1> HIDE DEF pc, m
<1>21. \A k \in 1 .. Len(q) :
         e[q[k]] = IF m[k].card \in cards THEN Ref!Predicted(m[k], d, pc[m[k].card]) ELSE m[k]
  <2>. TAKE k \in 1 .. Len(q)
  <2>1. q[k] \in LiveSlots(index) /\ q[k] \in Slots(index) /\ m[k] = index.slots[q[k]]
    BY <1>15, <1>16 DEF LiveSlots
  <2>2. m[k].card \in cards <=> q[k] \in S
    BY <1>1, <1>18, <2>1
  <2>3. CASE q[k] \in S
    BY <1>6, <1>20, <2>1, <2>2, <2>3, RefOperators
  <2>4. CASE q[k] \notin S
    BY <1>6, <2>1, <2>2, <2>4
  <2>. QED BY <2>3, <2>4
<1>22. LiveCandidates(index') =
         [k \in DOMAIN m |-> IF m[k].card \in cards THEN Ref!Predicted(m[k], d, pc[m[k].card])
                             ELSE m[k]]
  BY <1>16, <1>17, <1>21
<1>. QED BY <1>2, <1>9, <1>20, <1>22
     DEF Ref!Refresh, Ref!Advance, Ref!Positions, Ref!CardOf, m, cards

\* A complete universe is what it was built from.
LEMMA UniverseCandidates ==
  ASSUME NEW slots \in Seq(Candidate), NEW d, NEW r, NEW i, i = Universe(slots, d, r), IsIndex(i),
         \A s \in DOMAIN slots : slots[s].status = "active"
  PROVE  LiveCandidates(i) = slots /\ i.retention = r /\ i.day = d
<1> DEFINE map == [c \in Cards |->
                     IF \E s \in DOMAIN slots : slots[s].card = c
                     THEN CHOOSE s \in DOMAIN slots : slots[s].card = c ELSE Absent]
           j == [slots |-> slots, eligible |-> <<>>, ordered |-> <<>>, retention |-> r,
                 day |-> d, slotOf |-> map]
           k == Recomputed(j)
           n == Len(slots)
           q == [s \in 1 .. n |-> s]
<1>1. i = Rebuilt(k)
  BY DEF Universe
<1> HIDE DEF map
<1>2. k.slots = slots /\ k.retention = r /\ k.day = d
  BY DEF Recomputed
<1> HIDE DEF k
<1>3. i.slots = slots /\ i.retention = r /\ i.day = d
  BY <1>1, <1>2, ReorderedKeeps
<1>4. n \in Nat /\ DOMAIN slots = 1 .. n /\ slots = [s \in 1 .. n |-> slots[s]]
  OBVIOUS
<1>5. LiveSlots(i) = 1 .. n
  BY <1>3, <1>4 DEF LiveSlots, IsLive, Slots
<1>6. q \in Seq(1 .. n) /\ Len(q) = n /\ \A s \in 1 .. n : q[s] = s
  <2>1. q \in [1 .. n -> 1 .. n] /\ \A s \in 1 .. n : q[s] = s
    OBVIOUS
  <2> HIDE DEF q
  <2>. QED BY <1>4, <2>1, FunctionIsSeq
<1> HIDE DEF q, n
<1>7. IsInTurn(q, 1 .. n)
  <2>1. Sorted(InTurn, q)
    BY <1>4, <1>6 DEF Sorted, InTurn
  <2>2. \A s : Has(q, s) <=> s \in 1 .. n
    BY <1>4, <1>6 DEF Has
  <2>. QED BY <1>6, <2>1, <2>2 DEF IsInTurn
<1>8. IsView(i, q)
  BY <1>5, <1>7, ViewIs
<1>9. LiveCandidates(i) = [s \in 1 .. n |-> slots[q[s]]]
  BY <1>3, <1>6, <1>8 DEF IsView
<1>. QED BY <1>3, <1>4, <1>6, <1>9

\* The universe of seeds.
Seeded(seeds, p, d) ==
  [k \in DOMAIN seeds |-> [FromSeed(seeds[k], d) EXCEPT !.pred = p[k], !.status = "active"]]

LEMMA SeededCandidates ==
  ASSUME NEW seeds \in Seq(Seed), NEW p \in [DOMAIN seeds -> Predictions], NEW d \in Nat, NEW r,
         NEW i, IsIndex(i), i = Universe(Seeded(seeds, p, d), d, r)
  PROVE  /\ LiveCandidates(i) = Seeded(seeds, p, d)
         /\ LiveCandidates(i) \in Seq(Candidate)
         /\ \A k \in DOMAIN LiveCandidates(i) : LiveCandidates(i)[k].status = "active"
         /\ i.retention = r /\ i.day = d
<1> DEFINE slots == Seeded(seeds, p, d)
<1>1. DOMAIN seeds = 1 .. Len(seeds) /\ Len(seeds) \in Nat
  BY SeqFacts
<1>2. ASSUME NEW k \in 1 .. Len(seeds)
      PROVE  slots[k] \in Candidate /\ slots[k].status = "active"
  <2> DEFINE c == FromSeed(seeds[k], d)
  <2>1. seeds[k] \in Seed /\ p[k] \in Values
    BY <1>1, SeqFacts, IndexAssumption
  <2>2. c \in Candidate
    BY <2>1, FromSeedFacts
  <2>3. slots[k] = [c EXCEPT !.pred = p[k], !.status = "active"]
    BY <1>1 DEF Seeded
  <2>4. "active" \in Statuses
    BY DEF Statuses
  <2> HIDE DEF c, slots
  <2> QED BY <2>1, <2>2, <2>3, <2>4 DEF Candidate
<1>3. slots = [k \in 1 .. Len(seeds) |-> slots[k]]
  BY <1>1 DEF Seeded
<1>4. i = Universe(slots, d, r)
  OBVIOUS
<1> HIDE DEF slots
<1>5. slots \in [1 .. Len(seeds) -> Candidate]
  BY <1>2, <1>3
<1>6. slots \in Seq(Candidate) /\ DOMAIN slots = 1 .. Len(seeds)
  BY <1>1, <1>5, FunctionIsSeq
<1>7. \A s \in DOMAIN slots : slots[s].status = "active"
  BY <1>2, <1>6
<1>8. LiveCandidates(i) = slots /\ i.retention = r /\ i.day = d
  BY <1>4, <1>6, <1>7, UniverseCandidates
<1>. QED BY <1>6, <1>7, <1>8 DEF slots

\* Replacing the universe.
LEMMA ReplaceRefined ==
  ASSUME IInv, IInv', NEW seeds \in UpsertBatches, Replace(seeds)
  PROVE  Ref!Replace(seeds)
<1>1. PICK p \in [DOMAIN seeds -> Predictions] :
        index' = Universe([k \in DOMAIN seeds |->
          [FromSeed(seeds[k], index.day) EXCEPT !.pred = p[k], !.status = "active"]],
          index.day, index.retention)
  BY DEF Replace
<1>2. history' = <<>> /\ generation' = generation + 1
  BY DEF Replace, Advance
<1>3. seeds \in Seq(Seed) /\ index.day \in Nat /\ IsIndex(index')
  BY BothStates, IndexAssumption DEF IsIndex
<1> DEFINE d == index.day
           r == index.retention
           i == index'
<1> HIDE DEF d, r, i
<1>4. i = Universe(Seeded(seeds, p, d), d, r)
  BY <1>1 DEF d, r, i, Seeded
<1>5. d \in Nat /\ IsIndex(i)
  BY <1>3 DEF d, i
<1>6. /\ LiveCandidates(i) = Seeded(seeds, p, d)
      /\ i.retention = r /\ i.day = d
  BY <1>3, <1>4, <1>5, SeededCandidates
<1>7. LiveCandidates(i) = [k \in DOMAIN seeds |->
        [Ref!FromSeed(seeds[k], d) EXCEPT !.pred = p[k], !.status = "active"]]
  BY <1>6, RefOperators DEF Seeded
<1>8. Copies(<<>>) = <<>>
  BY DEF Copies
<1>9. /\ LiveCandidates(index') = [k \in DOMAIN seeds |->
           [Ref!FromSeed(seeds[k], index.day) EXCEPT !.pred = p[k], !.status = "active"]]
      /\ index'.retention = index.retention /\ index'.day = index.day
  BY <1>6, <1>7 DEF i, d, r
<1>. QED BY <1>2, <1>8, <1>9 DEF Ref!Replace, Ref!Advance

\* A new session.
LEMMA InitRefined ==
  ASSUME Init
  PROVE  Ref!Init
<1>1. PICK d \in Days, p \in [DOMAIN InitialSeeds -> Predictions] :
        index = Universe(Seeded(InitialSeeds, p, d), d, 0)
  BY DEF Init, Seeded
<1>2. history = <<>> /\ generation = 1
  BY DEF Init
<1>3. IsIndex(index)
  BY InitInv, Unfold
<1>4. d \in Nat /\ InitialSeeds \in Seq(Seed)
  BY IndexAssumption
<1>5. /\ LiveCandidates(index) \in Seq(Candidate)
      /\ \A k \in DOMAIN LiveCandidates(index) : LiveCandidates(index)[k].status = "active"
      /\ index.retention = 0 /\ index.day = d
  BY <1>1, <1>3, <1>4, SeededCandidates
<1>6. Ref!Candidate = Candidate
  BY DEF Ref!Candidate, Candidate, Ref!Values, Values, Ref!NaN, NaN, Ref!Statuses, Statuses
<1>7. Copies(<<>>) = <<>>
  BY DEF Copies
<1>. QED BY <1>2, <1>5, <1>6, <1>7 DEF Ref!Init, Ref!Positions

\* What a member of the new universe comes from.
RefMember(c, changed, d, p) ==
  LET seeds == {seed \in changed : seed.card = c}
      k == CHOOSE k \in Ref!PositionOf(c) : TRUE
  IN  IF seeds # {}
      THEN [Ref!FromSeed(CHOOSE seed \in seeds : TRUE, d) EXCEPT !.pred = p, !.status = "active"]
      ELSE [Ref!Predicted(LiveCandidates(index)[k], d, p) EXCEPT !.status = "active"]

LEMMA MemberAlike ==
  ASSUME IInv, NEW c \in Cards, NEW changed \in SUBSET ChangedSeeds, NEW d \in Days, NEW p,
         {seed \in changed : seed.card = c} # {} \/ index.slotOf[c] # Absent
  PROVE  Member(c, changed, d, p) = RefMember(c, changed, d, p)
<1> DEFINE seeds == {seed \in changed : seed.card = c}
<1>1. CASE seeds # {}
  <2> DEFINE seed == CHOOSE seed \in seeds : TRUE
  <2>1. Member(c, changed, d, p) = [FromSeed(seed, d) EXCEPT !.elapsed = @, !.pred = p, !.status = "active"]
    BY <1>1 DEF Member
  <2> HIDE DEF seed
  <2>2. [FromSeed(seed, d) EXCEPT !.elapsed = @, !.pred = p, !.status = "active"]
          = [FromSeed(seed, d) EXCEPT !.pred = p, !.status = "active"]
    BY DEF FromSeed
  <2>3. Ref!FromSeed(seed, d) = FromSeed(seed, d)
    BY RefOperators
  <2>. QED BY <1>1, <2>1, <2>2, <2>3 DEF seed, RefMember
<1>2. CASE seeds = {}
  <2> DEFINE e == index.slots[index.slotOf[c]]
             t == QueriedElapsed(e, d)
             l == CHOOSE k \in Ref!PositionOf(c) : TRUE
  <2>1. Member(c, changed, d, p) = [e EXCEPT !.elapsed = t, !.pred = p, !.status = "active"]
    BY <1>2 DEF Member
  <2>2. IsIndex(index) /\ MapMatches(index)
    BY Unfold DEF IndexIsCoherent
  <2>3. PICK q : /\ IsView(index, q)
                 /\ \E k \in 1 .. Len(q) : q[k] = index.slotOf[c] /\ Ref!PositionOf(c) = {k}
    BY <1>2, <2>2, CardIsAt
  <2>4. PICK k \in 1 .. Len(q) : q[k] = index.slotOf[c] /\ Ref!PositionOf(c) = {k}
    BY <2>3
  <2>5. l = k
    BY <2>4
  <2>6. LiveCandidates(index)[k] = e
    BY <2>3, <2>4 DEF IsView
  <2>7. e \in Candidate
    BY <1>2, <2>2, CardIsAt, IndexFacts
  <2> HIDE DEF e, l
  <2>8. [Predicted(e, d, p) EXCEPT !.status = "active"]
          = [e EXCEPT !.elapsed = t, !.pred = p, !.status = "active"]
    <3> DEFINE u == Refreshed(e.status)
    <3>1. Predicted(e, d, p) = [e EXCEPT !.elapsed = t, !.pred = p, !.status = u]
      BY DEF Predicted
    <3> HIDE DEF u, t
    <3>2. [[e EXCEPT !.elapsed = t, !.pred = p, !.status = u] EXCEPT !.status = "active"]
            = [e EXCEPT !.elapsed = t, !.pred = p, !.status = "active"]
      BY <2>7 DEF Candidate
    <3>. QED BY <3>1, <3>2
  <2>9. Ref!Predicted(e, d, p) = Predicted(e, d, p)
    BY RefOperators
  <2>. QED BY <1>2, <2>1, <2>5, <2>6, <2>8, <2>9 DEF l, RefMember
<1>. QED BY <1>1, <1>2

\* Reconciling.
LEMMA ReconcileRefined ==
  ASSUME IInv, IInv', NEW cards \in Universes, NEW changed \in SUBSET ChangedSeeds,
         NEW d \in Days, NEW r \in Extras, Reconcile(cards, changed, d, r)
  PROVE  Ref!Reconcile(cards, changed, d, r)
<1>1. /\ IsInjective(cards) /\ IsReconcilable(cards, changed)
      /\ history' = history /\ generation' = generation + 1
  BY DEF Reconcile, Advance
<1>2. PICK p \in [DOMAIN cards -> Predictions] :
        index' = Universe([k \in DOMAIN cards |-> Member(cards[k], changed, d, p[k])], d, r)
  BY DEF Reconcile
<1>3. /\ IsIndex(index) /\ MapMatches(index) /\ IsIndex(index')
      /\ cards \in Seq(Cards) /\ DOMAIN cards = 1 .. Len(cards) /\ Len(cards) \in Nat
  BY BothStates, SeqFacts, IndexAssumption
<1> DEFINE slots == [k \in DOMAIN cards |-> Member(cards[k], changed, d, p[k])]
           seeds(c) == {seed \in changed : seed.card = c}
<1>4. ASSUME NEW k \in 1 .. Len(cards)
      PROVE  slots[k] \in Candidate /\ slots[k].status = "active"
  <2>1. p[k] \in Predictions /\ k \in DOMAIN cards
    BY <1>2, <1>3
  <2>2. slots[k] = Member(cards[k], changed, d, p[k])
    BY <2>1
  <2>. QED BY <1>1, <1>3, <2>1, <2>2, MemberFacts
<1>5. slots = [k \in 1 .. Len(cards) |-> slots[k]] /\ index' = Universe(slots, d, r)
  BY <1>2, <1>3
<1> HIDE DEF slots
<1>6. slots \in [1 .. Len(cards) -> Candidate]
  BY <1>4, <1>5
<1>7. slots \in Seq(Candidate) /\ DOMAIN slots = 1 .. Len(cards)
  BY <1>3, <1>6, FunctionIsSeq
<1>8. LiveCandidates(index') = slots /\ index'.retention = r /\ index'.day = d
  <2> DEFINE i == index'
  <2> HIDE DEF i
  <2>1. IsIndex(i) /\ i = Universe(slots, d, r)
    BY <1>3, <1>5 DEF i
  <2>2. LiveCandidates(i) = slots /\ i.retention = r /\ i.day = d
    BY <1>4, <1>7, <2>1, UniverseCandidates
  <2>. QED BY <2>2 DEF i
<1>9. \A c \in Cards : index.slotOf[c] # Absent => Ref!PositionOf(c) # {}
  BY <1>3, CardIsAt
<1>10. \A k \in 1 .. Len(cards) :
         cards[k] \in Cards /\ (seeds(cards[k]) # {} \/ index.slotOf[cards[k]] # Absent)
  BY <1>1, <1>3 DEF IsReconcilable, Range
<1>11. \A k \in 1 .. Len(cards) : Member(cards[k], changed, d, p[k]) = RefMember(cards[k], changed, d, p[k])
  BY <1>10, MemberAlike
<1>12. slots = [k \in DOMAIN cards |-> RefMember(cards[k], changed, d, p[k])]
  BY <1>3, <1>11 DEF slots
<1>13. Ref!Range(cards) = Range(cards)
  BY RefOnSequences
<1>14. \A seed \in changed : seed.card \in Ref!Range(cards)
  BY <1>1, <1>13 DEF IsReconcilable
<1>15. \A c \in Ref!Range(cards) : seeds(c) # {} \/ Ref!PositionOf(c) # {}
  BY <1>3, <1>9, <1>10, <1>13 DEF Range
<1> HIDE DEF slots
<1>. QED BY <1>1, <1>2, <1>8, <1>12, <1>14, <1>15 DEF Ref!Reconcile, Ref!Advance, RefMember

\* How many of the first k elements of x are in C.
Counted(x, C, k) == Cardinality({j \in 1 .. k : x[j] \in C})

CountsOn(x, C, k) ==
  Counted(x, C, k + 1) = IF x[k + 1] \in C THEN Counted(x, C, k) + 1 ELSE Counted(x, C, k)

LEMMA CountedFacts ==
  ASSUME NEW x, NEW C, NEW k \in Nat
  PROVE  Counted(x, C, k) \in Nat /\ Counted(x, C, 0) = 0 /\ CountsOn(x, C, k)
<1> DEFINE A(n) == {j \in 1 .. n : x[j] \in C}
<1>1. IsFiniteSet(A(k))
  <2>1. IsFiniteSet(1 .. k)
    BY FS_Interval
  <2>2. A(k) \in SUBSET (1 .. k)
    OBVIOUS
  <2>. QED BY <2>1, <2>2, FS_Subset
<1>2. Cardinality(A(k)) \in Nat
  BY <1>1, FS_CardinalityType
<1>3. Cardinality(A(0)) = 0
  <2>1. A(0) = {}
    OBVIOUS
  <2>. QED BY <2>1, FS_EmptySet
<1>4. A(k + 1) = IF x[k + 1] \in C THEN A(k) \cup {k + 1} ELSE A(k)
  OBVIOUS
<1>5. k + 1 \notin A(k)
  OBVIOUS
<1> HIDE DEF A
<1>6. Cardinality(A(k) \cup {k + 1}) = Cardinality(A(k)) + 1
  BY <1>1, <1>5, FS_AddElement
<1>7. Counted(x, C, k) = Cardinality(A(k)) /\ Counted(x, C, k + 1) = Cardinality(A(k + 1))
      /\ Counted(x, C, 0) = Cardinality(A(0))
  BY DEF Counted, A
<1>. QED BY <1>2, <1>3, <1>4, <1>6, <1>7 DEF CountsOn

\* An element that is chosen is found at the count of those chosen up to it.
IsCounted(x, C) ==
  /\ Len(Chosen(x, C)) = Counted(x, C, Len(x))
  /\ \A k \in 1 .. Len(x) :
       x[k] \in C => /\ Counted(x, C, k) \in 1 .. Counted(x, C, Len(x))
                     /\ Chosen(x, C)[Counted(x, C, k)] = x[k]

LEMMA CountedSame ==
  ASSUME NEW x, NEW y, NEW C, NEW k \in Nat, \A j \in 1 .. k : x[j] = y[j]
  PROVE  Counted(x, C, k) = Counted(y, C, k)
<1>1. {j \in 1 .. k : x[j] \in C} = {j \in 1 .. k : y[j] \in C}
  OBVIOUS
<1>. QED BY <1>1 DEF Counted

LEMMA ChosenCounted ==
  ASSUME NEW S, NEW C
  PROVE  \A x \in Seq(S) : IsCounted(x, C)
<1> DEFINE T == {x \in Seq(S) : IsCounted(x, C)}
<1>1. <<>> \in T
  <2>1. Len(<<>>) = 0 /\ <<>> \in Seq(S) /\ Chosen(<<>>, C) = <<>>
    BY ChosenEmpty
  <2>2. Counted(<<>>, C, 0) = 0
    BY CountedFacts
  <2>. QED BY <2>1, <2>2 DEF IsCounted
<1>2. ASSUME NEW x \in Seq(S), NEW r \in S, x \in T PROVE Append(x, r) \in T
  <2> DEFINE y == Append(x, r)
             n == Len(x)
             u == Chosen(x, C)
             v == Chosen(y, C)
  <2>1. /\ y \in Seq(S) /\ n \in Nat /\ Len(y) = n + 1 /\ y[n + 1] = r
        /\ \A k \in 1 .. n : y[k] = x[k]
    OBVIOUS
  <2>2. v = IF r \in C THEN Append(u, r) ELSE u
    BY ChosenAppend
  <2>3. u \in Seq(S)
    BY ChosenType
  <2>4. IsCounted(x, C)
    BY <1>2
  <2> HIDE DEF y, v
  <2>5. ASSUME NEW k \in 0 .. n PROVE Counted(y, C, k) = Counted(x, C, k)
    <3>1. k \in Nat /\ \A j \in 1 .. k : x[j] = y[j]
      BY <2>1
    <3>. QED BY <3>1, CountedSame
  <2>6. /\ Counted(x, C, n) \in Nat
        /\ Counted(y, C, n + 1) = IF r \in C THEN Counted(x, C, n) + 1 ELSE Counted(x, C, n)
    <3>0. n \in Nat
      BY <2>1
    <3> HIDE DEF n
    <3>1. Counted(y, C, n + 1) = IF y[n + 1] \in C THEN Counted(y, C, n) + 1 ELSE Counted(y, C, n)
      <4>1. CountsOn(y, C, n)
        BY <3>0, CountedFacts
      <4>. QED BY <4>1 DEF CountsOn
    <3>2. Counted(y, C, n) = Counted(x, C, n)
      BY <3>0, <2>5
    <3>. QED BY <2>1, <3>1, <3>2, CountedFacts
  <2>7. Len(u) = Counted(x, C, n)
        /\ \A k \in 1 .. n : x[k] \in C => /\ Counted(x, C, k) \in 1 .. Counted(x, C, n)
                                           /\ u[Counted(x, C, k)] = x[k]
    BY <2>4 DEF IsCounted
  <2> HIDE DEF u
  <2>8. /\ Len(v) = Counted(y, C, n + 1)
        /\ \A l \in 1 .. Len(u) : v[l] = u[l]
        /\ r \in C => v[Len(u) + 1] = r
    BY <2>2, <2>3, <2>6, <2>7
  <2>9. ASSUME NEW k \in 1 .. n + 1, y[k] \in C
        PROVE  Counted(y, C, k) \in 1 .. Counted(y, C, n + 1) /\ v[Counted(y, C, k)] = y[k]
    <3>1. CASE k = n + 1
      <4>1. r \in C /\ Counted(y, C, k) = Len(u) + 1 /\ y[k] = r
        BY <2>1, <2>6, <2>7, <2>9, <3>1
      <4>2. Counted(y, C, k) \in 1 .. Counted(y, C, n + 1)
        BY <2>6, <2>7, <3>1, <4>1
      <4>. QED BY <2>8, <4>1, <4>2
    <3>2. CASE k # n + 1
      <4>1. k \in 1 .. n /\ k \in 0 .. n
        BY <2>1, <3>2
      <4>2. y[k] = x[k] /\ Counted(y, C, k) = Counted(x, C, k)
        BY <2>1, <2>5, <4>1
      <4>3. Counted(x, C, k) \in 1 .. Counted(x, C, n) /\ u[Counted(x, C, k)] = x[k]
        BY <2>7, <2>9, <4>1, <4>2
      <4>4. Counted(x, C, n) <= Counted(y, C, n + 1) /\ Counted(y, C, n + 1) \in Nat
        BY <2>6
      <4>5. Counted(y, C, k) \in 1 .. Counted(y, C, n + 1)
        BY <2>6, <4>2, <4>3, <4>4
      <4>. QED BY <2>7, <2>8, <4>2, <4>3, <4>5
    <3>. QED BY <3>1, <3>2
  <2>10. IsCounted(y, C)
    BY <2>1, <2>8, <2>9 DEF IsCounted, v
  <2>. QED BY <2>1, <2>10 DEF y
<1> HIDE DEF T
<1>3. \A x \in Seq(S) : x \in T
  BY <1>1, <1>2, SeqInduct
<1>. QED BY <1>3 DEF T

\* A batch of seeds: those that get a slot, and the slots of the others.
Added(batch) == {k \in DOMAIN batch : IsNew(batch[k])}
Replaced(batch) == {index.slotOf[batch[k].card] : k \in DOMAIN batch \ Added(batch)}
Overwritten(c, seed, d) ==
  [FromSeed(seed, d) EXCEPT !.status = IF IsExcluded(c) THEN "excluded_pending_refresh" ELSE @]

\* What an upsert makes of the slots.
LEMMA UpsertedSlots ==
  ASSUME IInv, IInv', NEW batch \in UpsertBatches, Upsert(batch)
  PROVE  LET n == Len(index.slots)
             m == Cardinality(Added(batch))
         IN  /\ Slots(index') = 1 .. n + m
             /\ index'.retention = index.retention /\ index'.day = index.day
             /\ \A k \in Added(batch) :
                  index'.slots[NewSlot(batch, k)] = FromSeed(batch[k], index.day)
             /\ \A k \in DOMAIN batch \ Added(batch) :
                  LET s == index.slotOf[batch[k].card]
                  IN  /\ s \in 1 .. n /\ IsLive(index, s) /\ index.slots[s].card = batch[k].card
                      /\ index'.slots[s] = Overwritten(index.slots[s], batch[k], index.day)
             /\ \A s \in 1 .. n : s \notin Replaced(batch) => index'.slots[s] = index.slots[s]
<1> DEFINE n == Len(index.slots)
           added == Added(batch)
           m == Cardinality(added)
           slots == 1 .. n + m
           of(s) == CHOOSE k \in DOMAIN batch :
                      s = IF k \in added THEN NewSlot(batch, k) ELSE index.slotOf[batch[k].card]
           replaced == Replaced(batch)
           q == [s \in slots |->
                   IF s > n THEN FromSeed(batch[of(s)], index.day)
                   ELSE IF s \notin replaced THEN index.slots[s]
                   ELSE [FromSeed(batch[of(s)], index.day) EXCEPT !.status =
                     IF IsExcluded(index.slots[s]) THEN "excluded_pending_refresh" ELSE @]]
           flags == [s \in slots |-> s <= n /\ s \notin replaced /\ index.eligible[s]]
           map == [c \in Cards |->
                     IF \E k \in added : batch[k].card = c
                     THEN NewSlot(batch, CHOOSE k \in added : batch[k].card = c)
                     ELSE index.slotOf[c]]
           j == [index EXCEPT !.slots = q, !.eligible = flags, !.slotOf = map]
<1>1. /\ IsIndex(index) /\ MapMatches(index) /\ IsIndex(index') /\ batch \in Seq(Seed)
      /\ DOMAIN index = {"slots", "slotOf", "eligible", "ordered", "retention", "day"}
  BY BothStates, IndexAssumption
<1>2. DistinctCards(batch) /\ index' = Rebuilt(j)
  BY DEF Upsert, Added, Replaced
<1>3. /\ n \in Nat /\ m \in Nat /\ Slots(index) = 1..n
      /\ \A k \in added : NewSlot(batch, k) \in (n + 1) .. (n + m)
      /\ \A k, l \in added : NewSlot(batch, k) = NewSlot(batch, l) => k = l
  BY <1>1, NewSlotFacts, IndexFacts DEF Added
<1>4. /\ added \subseteq DOMAIN batch
      /\ \A k \in DOMAIN batch : batch[k] \in Seed /\ batch[k].card \in Cards
      /\ \A k, l \in DOMAIN batch : batch[k].card = batch[l].card => k = l
  <2>1. \A k \in DOMAIN batch : batch[k] \in Seed
    BY <1>1, SeqFacts
  <2>2. \A k, l \in DOMAIN batch : batch[k].card = batch[l].card => k = l
    BY <1>2 DEF DistinctCards, IsInjective
  <2> QED BY <2>1, <2>2 DEF Seed, Added
<1>5. ASSUME NEW k \in DOMAIN batch \ added
      PROVE  LET s == index.slotOf[batch[k].card]
             IN  /\ s \in 1..n /\ IsLive(index, s) /\ index.slots[s].card = batch[k].card
                 /\ s \in replaced
  <2>1. index.slotOf[batch[k].card] # Absent /\ batch[k].card \in Cards
    BY <1>4 DEF IsNew, Added
  <2>2. /\ IsLive(index, index.slotOf[batch[k].card])
        /\ index.slots[index.slotOf[batch[k].card]].card = batch[k].card
    BY <1>1, <2>1, MapFacts
  <2> QED BY <1>3, <2>2 DEF IsLive, Replaced
<1>6. /\ j.slots = q /\ j.retention = index.retention /\ j.day = index.day
  BY <1>1
<1> HIDE DEF q, map, flags
<1>7. j.slots = q /\ j.retention = index.retention /\ j.day = index.day
  BY <1>6
<1> HIDE DEF j
<1>8. index'.slots = q /\ index'.retention = index.retention /\ index'.day = index.day
  BY <1>1, <1>2, <1>7, ReorderedKeeps
<1>9. DOMAIN q = slots
  BY DEF q
<1>10. ASSUME NEW k \in added
       PROVE  q[NewSlot(batch, k)] = FromSeed(batch[k], index.day)
  <2> DEFINE s == NewSlot(batch, k)
  <2>1. s \in (n + 1) .. (n + m) /\ k \in DOMAIN batch
    BY <1>3, <1>4
  <2>2. s > n /\ s \in slots /\ s \notin 1 .. n
    BY <1>3, <2>1
  <2>3. of(s) \in DOMAIN batch
        /\ s = IF of(s) \in added THEN NewSlot(batch, of(s)) ELSE index.slotOf[batch[of(s)].card]
    BY <2>1
  <2>4. q[s] = FromSeed(batch[of(s)], index.day)
    BY <2>2 DEF q
  <2> HIDE DEF s, of, n, m, added
  <2>5. of(s) \in added
    BY <1>5, <2>2, <2>3
  <2>6. of(s) = k
    BY <1>3, <2>3, <2>5 DEF s
  <2>. QED BY <2>4, <2>6 DEF s
<1>11. ASSUME NEW k \in DOMAIN batch \ added
       PROVE  LET s == index.slotOf[batch[k].card]
              IN  q[s] = Overwritten(index.slots[s], batch[k], index.day)
  <2> DEFINE s == index.slotOf[batch[k].card]
  <2>1. s \in 1 .. n /\ s \in replaced
    BY <1>5
  <2>2. ~(s > n) /\ s \in slots /\ s \notin (n + 1) .. (n + m)
    BY <1>3, <2>1
  <2>3. of(s) \in DOMAIN batch
        /\ s = IF of(s) \in added THEN NewSlot(batch, of(s)) ELSE index.slotOf[batch[of(s)].card]
    OBVIOUS
  <2>4. q[s] = Overwritten(index.slots[s], batch[of(s)], index.day)
    BY <2>1, <2>2 DEF q, Overwritten
  <2>5. of(s) = k
    <3> HIDE DEF of, n, m, added
    <3>1. of(s) \notin added
      BY <1>3, <2>2, <2>3
    <3>2. of(s) \in DOMAIN batch \ added /\ s = index.slotOf[batch[of(s)].card]
      BY <2>3, <3>1
    <3>3. index.slots[s].card = batch[of(s)].card
      BY <1>5, <3>2
    <3>4. index.slots[s].card = batch[k].card
      BY <1>5
    <3>. QED BY <1>4, <3>2, <3>3, <3>4
  <2>. QED BY <2>4, <2>5
<1>12. ASSUME NEW s \in 1 .. n, s \notin replaced
       PROVE  q[s] = index.slots[s]
  <2>1. ~(s > n) /\ s \in slots
    BY <1>3
  <2>. QED BY <1>12, <2>1 DEF q
<1>13. Slots(index') = slots
  BY <1>8, <1>9 DEF Slots
<1> HIDE DEF slots, of
<1>. QED BY <1>5, <1>8, <1>10, <1>11, <1>12, <1>13 DEF slots

\* The seeds that get a slot, in the order of their slots.
SelectsNew(batch, A) == \A k \in DOMAIN batch : IsNew(batch[k]) <=> batch[k] \in A
AreInTurn(batch, x) ==
  LET n == Len(index.slots)
      m == Cardinality(Added(batch))
  IN  /\ n \in Nat /\ m \in Nat /\ DOMAIN x = 1 .. m
      /\ \A l \in 1 .. m :
           \E k \in Added(batch) : NewSlot(batch, k) = n + l /\ x[l] = batch[k]

LEMMA AddedInTurn ==
  ASSUME IsIndex(index), NEW batch \in Seq(Seed), NEW A, SelectsNew(batch, A)
  PROVE  AreInTurn(batch, Chosen(batch, A))
<1> DEFINE n == Len(index.slots)
           added == Added(batch)
           m == Cardinality(added)
           x == Chosen(batch, A)
<1>1. /\ n \in Nat /\ m \in Nat
      /\ \A s \in (n + 1) .. (n + m) : \E k \in added : NewSlot(batch, k) = s
  BY NewSlotFacts DEF Added
<1>2. DOMAIN batch = 1 .. Len(batch) /\ Len(batch) \in Nat /\ added \subseteq DOMAIN batch
  BY SeqFacts DEF Added
<1>3. ASSUME NEW k \in 1 .. Len(batch)
      PROVE  NewSlot(batch, k) = n + Counted(batch, A, k)
  <2>1. {j \in 1 .. k : IsNew(batch[j])} = {j \in 1 .. k : batch[j] \in A}
    BY <1>2 DEF SelectsNew
  <2>. QED BY <2>1 DEF NewSlot, Counted
<1>4. m = Counted(batch, A, Len(batch))
  <2>1. added = {j \in 1 .. Len(batch) : batch[j] \in A}
    BY <1>2 DEF Added, SelectsNew
  <2>. QED BY <2>1 DEF Counted
<1>5. x \in Seq(Seed) /\ IsCounted(batch, A)
  BY ChosenType, ChosenCounted
<1>6. Len(x) = m /\ DOMAIN x = 1 .. m
  <2>1. Len(x) = m
    BY <1>4, <1>5 DEF IsCounted
  <2> HIDE DEF x, m
  <2>. QED BY <1>5, <2>1
<1>7. ASSUME NEW k \in added
      PROVE  Counted(batch, A, k) \in 1 .. m /\ x[Counted(batch, A, k)] = batch[k]
  <2>1. k \in 1 .. Len(batch) /\ batch[k] \in A
    BY <1>2 DEF Added, SelectsNew
  <2>. QED BY <1>4, <1>5, <2>1 DEF IsCounted
<1>8. ASSUME NEW l \in 1 .. m
      PROVE  \E k \in added : NewSlot(batch, k) = n + l /\ x[l] = batch[k]
  <2> HIDE DEF m, n, x, added
  <2>1. n + l \in (n + 1) .. (n + m)
    BY <1>1
  <2>2. PICK k \in added : NewSlot(batch, k) = n + l
    BY <1>1, <2>1
  <2>3. NewSlot(batch, k) = n + Counted(batch, A, k) /\ Counted(batch, A, k) \in 1 .. m
    BY <1>2, <1>3, <1>7
  <2>4. Counted(batch, A, k) = l
    BY <1>1, <2>2, <2>3
  <2>. QED BY <1>7, <2>2, <2>4
<1>. QED BY <1>1, <1>6, <1>8 DEF AreInTurn

\* New slots come behind the others.
Extended(j, q, n, m) == [k \in 1 .. Len(q) |-> j.slots[q[k]]] \o [l \in 1 .. m |-> j.slots[n + l]]

LEMMA ViewExtended ==
  ASSUME NEW i, NEW j, IsIndex(i), IsIndex(j), NEW q, IsView(i, q), NEW n \in Nat, NEW m \in Nat,
         Slots(i) = 1 .. n, Slots(j) = 1 .. n + m,
         LiveSlots(j) = LiveSlots(i) \cup ((n + 1) .. (n + m))
  PROVE  LiveCandidates(j) = Extended(j, q, n, m)
<1> DEFINE t == [l \in 1 .. m |-> n + l]
           z == q \o t
           L == LiveSlots(j)
           a == Len(q)
<1>1. /\ a \in Nat /\ \A k \in 1 .. a : q[k] \in LiveSlots(i) /\ q[k] \in 1 .. n
      /\ q \in Seq(LiveSlots(i)) /\ \A k, l \in 1 .. a : k < l => q[k] < q[l]
  <2>1. q \in Seq(LiveSlots(i)) /\ a \in Nat /\ Sorted(InTurn, q)
    BY DEF IsView, IsInTurn
  <2>2. \A k \in 1 .. a : q[k] \in LiveSlots(i)
    BY <2>1
  <2>3. LiveSlots(i) \subseteq 1 .. n
    BY DEF LiveSlots
  <2>4. \A k, l \in 1 .. a : k < l => <<q[k], q[l]>> \in InTurn
    BY <2>1 DEF Sorted
  <2>5. \A u, v : <<u, v>> \in InTurn => u < v
    BY DEF InTurn
  <2>. QED BY <2>1, <2>2, <2>3, <2>4, <2>5
<1>2. q \in Seq(L) /\ \A s \in LiveSlots(i) : \E k \in 1 .. a : q[k] = s
  <2>1. \A s : Has(q, s) => s \in L
    BY DEF IsView, IsInTurn
  <2>2. q \in Seq(L)
    BY <1>1, <2>1, SeqOfHas
  <2>. QED BY <2>2 DEF IsView, IsInTurn, Has
<1>3. t \in Seq(L) /\ Len(t) = m /\ \A l \in 1 .. m : t[l] = n + l
  <2>1. t \in [1 .. m -> L] /\ \A l \in 1 .. m : t[l] = n + l
    OBVIOUS
  <2> HIDE DEF t
  <2>. QED BY <2>1, FunctionIsSeq
<1>4. L \subseteq 1 .. n + m
  BY DEF LiveSlots
<1> HIDE DEF t, a
<1>5. /\ z \in Seq(L) /\ Len(z) = a + m
      /\ \A k \in 1 .. a + m : z[k] = IF k <= a THEN q[k] ELSE t[k - a]
  <2>1. /\ z \in Seq(L) /\ Len(z) = Len(q) + Len(t)
        /\ \A k \in 1 .. Len(q) + Len(t) : z[k] = IF k <= Len(q) THEN q[k] ELSE t[k - Len(q)]
    BY <1>2, <1>3, ConcatProperties
  <2>2. Len(q) = a /\ Len(t) = m
    BY <1>3 DEF a
  <2>. QED BY <2>1, <2>2
<1> HIDE DEF z
<1>6. \A k \in 1 .. a + m : z[k] = IF k <= a THEN q[k] ELSE n + (k - a)
  <2>. TAKE k \in 1 .. a + m
  <2>1. k > a => k - a \in 1 .. m
    BY <1>1
  <2>. QED BY <1>1, <1>3, <1>5, <2>1
<1>7. \A k, l \in 1 .. a + m : k < l => z[k] < z[l]
  <2>. SUFFICES ASSUME NEW k \in 1 .. a + m, NEW l \in 1 .. a + m, k < l PROVE z[k] < z[l]
    OBVIOUS
  <2>1. CASE l <= a
    <3>1. k \in 1 .. a /\ l \in 1 .. a /\ z[k] = q[k] /\ z[l] = q[l]
      BY <1>1, <1>6, <2>1
    <3>. QED BY <1>1, <3>1
  <2>2. CASE ~(l <= a) /\ k <= a
    <3>1. k \in 1 .. a /\ z[k] = q[k] /\ z[l] = n + (l - a) /\ l - a > 0
      BY <1>1, <1>6, <2>2
    <3>2. q[k] \in 1 .. n
      BY <1>1, <3>1
    <3>. QED BY <1>1, <3>1, <3>2
  <2>3. CASE ~(k <= a)
    <3>1. ~(l <= a) /\ z[k] = n + (k - a) /\ z[l] = n + (l - a)
      BY <1>1, <1>6, <2>3
    <3>. QED BY <1>1, <3>1
  <2>. QED BY <2>1, <2>2, <2>3
<1>8. IsInTurn(z, L)
  <2>1. \A k \in 1 .. a + m : z[k] \in L /\ z[k] \in Nat
    BY <1>4, <1>5
  <2>2. Sorted(InTurn, z)
    BY <1>5, <1>7, <2>1 DEF Sorted, InTurn
  <2>3. \A k, l \in 1 .. a + m : k # l => z[k] # z[l]
    <3>. SUFFICES ASSUME NEW k \in 1 .. a + m, NEW l \in 1 .. a + m, k # l PROVE z[k] # z[l]
      OBVIOUS
    <3>1. k < l \/ l < k
      BY <1>1
    <3>2. z[k] < z[l] \/ z[l] < z[k]
      BY <1>7, <3>1
    <3>. QED BY <2>1, <3>2
  <2>4. ASSUME NEW s \in L PROVE \E k \in 1 .. a + m : z[k] = s
    <3>1. CASE s \in LiveSlots(i)
      <4>1. PICK k \in 1 .. a : q[k] = s
        BY <1>2, <3>1
      <4>2. k \in 1 .. a + m /\ k <= a
        BY <1>1
      <4>. QED BY <1>6, <4>1, <4>2
    <3>2. CASE s \in (n + 1) .. (n + m)
      <4>1. a + (s - n) \in 1 .. a + m /\ ~(a + (s - n) <= a) /\ n + ((a + (s - n)) - a) = s
        BY <1>1, <3>2
      <4>. QED BY <1>6, <4>1
    <3>. QED BY <3>1, <3>2
  <2>. QED BY <1>5, <2>1, <2>2, <2>3, <2>4 DEF IsInTurn, Has
<1>9. IsView(j, z)
  BY <1>8, ViewIs
<1>10. LiveCandidates(j) = Mapped(j.slots, z)
  BY <1>9 DEF IsView, Mapped
<1>11. IsBetween(j.slots, L, Candidate)
  BY IndexFacts DEF IsBetween, LiveSlots
<1>12. Mapped(j.slots, z) = Mapped(j.slots, q) \o Mapped(j.slots, t)
  BY <1>2, <1>3, <1>11, MappedConcat DEF z
<1>13. Mapped(j.slots, q) = [k \in 1 .. Len(q) |-> j.slots[q[k]]]
  BY DEF Mapped
<1>14. Mapped(j.slots, t) = [l \in 1 .. m |-> j.slots[n + l]]
  BY <1>3 DEF Mapped
<1>. QED BY <1>10, <1>12, <1>13, <1>14 DEF Extended

\* Upserting.
LEMMA UpsertRefined ==
  ASSUME IInv, IInv', NEW batch \in UpsertBatches, Upsert(batch)
  PROVE  Ref!Upsert(batch)
<1> DEFINE n == Len(index.slots)
           m == Cardinality(Added(batch))
           d == index.day
           A == {seed \in Range(batch) : Ref!PositionOf(seed.card) = {}}
           x == Chosen(batch, A)
           c == LiveCandidates(index)
           update(e) == {seed \in Range(batch) : seed.card = e.card}
<1>1. /\ DistinctCards(batch) /\ history' = history /\ generation' = generation + 1
      /\ batch \in Seq(Seed) /\ DOMAIN batch = 1 .. Len(batch)
  BY SeqFacts, IndexAssumption DEF Upsert, Advance
<1>2. IsIndex(index) /\ MapMatches(index) /\ IsIndex(index') /\ n \in Nat /\ Slots(index) = 1 .. n
      /\ d \in Nat
  BY BothStates, IndexFacts DEF IsIndex
<1>3. /\ Slots(index') = 1 .. n + m
      /\ index'.retention = index.retention /\ index'.day = d
      /\ \A k \in Added(batch) : index'.slots[NewSlot(batch, k)] = FromSeed(batch[k], d)
      /\ \A k \in DOMAIN batch \ Added(batch) :
           LET s == index.slotOf[batch[k].card]
           IN  /\ s \in 1 .. n /\ IsLive(index, s) /\ index.slots[s].card = batch[k].card
               /\ index'.slots[s] = Overwritten(index.slots[s], batch[k], d)
      /\ \A s \in 1 .. n : s \notin Replaced(batch) => index'.slots[s] = index.slots[s]
  BY UpsertedSlots
<1>4. /\ \A k \in DOMAIN batch : batch[k] \in Seed /\ batch[k].card \in Cards
      /\ \A k, l \in DOMAIN batch : batch[k].card = batch[l].card => k = l
  <2>1. \A k \in DOMAIN batch : batch[k] \in Seed
    BY <1>1, SeqFacts
  <2>2. \A k, l \in DOMAIN batch : batch[k].card = batch[l].card => k = l
    BY <1>1 DEF DistinctCards, IsInjective
  <2> QED BY <2>1, <2>2 DEF Seed
<1>5. \A k \in DOMAIN batch : IsNew(batch[k]) <=> batch[k] \in A
  <2>. TAKE k \in DOMAIN batch
  <2>1. index.slotOf[batch[k].card] = Absent <=> Ref!PositionOf(batch[k].card) = {}
    <3>1. PICK q : IsView(index, q)
      BY <1>2, ViewExists
    <3>. QED BY <1>2, <1>4, <3>1, PositionFacts
  <2>. QED BY <2>1 DEF IsNew, Range
<1> HIDE DEF A
<1>6. /\ m \in Nat /\ DOMAIN x = 1 .. m
      /\ \A l \in 1 .. m : \E k \in Added(batch) : NewSlot(batch, k) = n + l /\ x[l] = batch[k]
  <2>1. SelectsNew(batch, A)
    BY <1>5 DEF SelectsNew
  <2>2. AreInTurn(batch, x)
    BY <1>1, <1>2, <2>1, AddedInTurn
  <2>. QED BY <2>2 DEF AreInTurn
<1> HIDE DEF x, m
<1>7. \A l \in 1 .. m : index'.slots[n + l] = FromSeed(x[l], d)
  BY <1>3, <1>6
<1>8. ASSUME NEW k \in Added(batch)
      PROVE  k \in DOMAIN batch /\ batch[k] \in Seed
  BY <1>4 DEF Added
<1>9. ASSUME NEW s \in (n + 1) .. (n + m)
      PROVE  s \in 1 .. n + m /\ index'.slots[s].status = "pending_refresh"
  <2>1. s - n \in 1 .. m /\ n + (s - n) = s /\ s \in 1 .. n + m
    BY <1>2, <1>6
  <2>2. index'.slots[n + (s - n)] = FromSeed(x[s - n], d)
    BY <1>7, <2>1
  <2>3. index'.slots[s] = FromSeed(x[s - n], d)
    BY <2>1, <2>2
  <2>4. PICK k \in Added(batch) : x[s - n] = batch[k]
    BY <1>6, <2>1
  <2>. QED BY <1>2, <1>8, <2>1, <2>3, <2>4, FromSeedFacts
<1>10. ASSUME NEW s \in Replaced(batch)
       PROVE  /\ s \in 1 .. n /\ IsLive(index, s)
              /\ \E seed \in Seed : /\ update(index.slots[s]) = {seed}
                                    /\ index'.slots[s] = Overwritten(index.slots[s], seed, d)
  <2>1. PICK k \in DOMAIN batch \ Added(batch) : s = index.slotOf[batch[k].card]
    BY DEF Replaced
  <2>2. /\ s \in 1 .. n /\ IsLive(index, s) /\ index.slots[s].card = batch[k].card
        /\ index'.slots[s] = Overwritten(index.slots[s], batch[k], d)
    BY <1>3, <2>1
  <2>3. update(index.slots[s]) = {batch[k]}
    BY <1>4, <2>2 DEF Range
  <2>. QED BY <1>4, <2>2, <2>3
<1>11. ASSUME NEW s \in LiveSlots(index), s \notin Replaced(batch)
       PROVE  index'.slots[s] = index.slots[s] /\ update(index.slots[s]) = {}
  <2>1. s \in 1 .. n /\ index.slotOf[index.slots[s].card] = s /\ s # Absent
    BY <1>2, MapFacts DEF LiveSlots
  <2>2. ASSUME NEW k \in DOMAIN batch, batch[k].card = index.slots[s].card
        PROVE  FALSE
    <3>1. k \notin Added(batch)
      BY <2>1, <2>2 DEF Added, IsNew
    <3>. QED BY <1>11, <2>1, <2>2, <3>1 DEF Replaced
  <2>. QED BY <1>3, <1>11, <2>1, <2>2 DEF Range
<1> HIDE DEF d
<1>12. LiveSlots(index') = LiveSlots(index) \cup ((n + 1) .. (n + m))
  <2>1. ASSUME NEW s \in 1 .. n
        PROVE  index'.slots[s].status # "removed" <=> index.slots[s].status # "removed"
    <3>1. CASE s \in Replaced(batch)
      <4>1. PICK seed \in Seed : index'.slots[s] = Overwritten(index.slots[s], seed, d)
        BY <1>10, <3>1
      <4> DEFINE e == FromSeed(seed, d)
                 t == IF IsExcluded(index.slots[s]) THEN "excluded_pending_refresh" ELSE e.status
      <4>2. e \in Candidate /\ e.status = "pending_refresh" /\ index'.slots[s] = [e EXCEPT !.status = t]
        BY <1>2, <4>1, FromSeedFacts DEF Overwritten
      <4>3. t \in Statuses /\ t # "removed"
        BY <4>2 DEF Statuses
      <4> HIDE DEF e, t
      <4>4. index'.slots[s].status = t
        BY <4>2, <4>3, StatusFacts
      <4>. QED BY <1>10, <3>1, <4>3, <4>4 DEF IsLive
    <3>2. CASE s \notin Replaced(batch)
      BY <1>3, <3>2
    <3>. QED BY <3>1, <3>2
  <2>2. \A s \in 1 .. n + m : s \in 1 .. n \/ s \in (n + 1) .. (n + m)
    BY <1>2, <1>6
  <2>3. \A s \in 1 .. n : s \in 1 .. n + m
    BY <1>2, <1>6
  <2>. QED BY <1>2, <1>3, <1>9, <2>1, <2>2, <2>3 DEF LiveSlots, IsLive
<1>13. PICK q : IsView(index, q)
  BY <1>2, ViewExists
<1>14. /\ c = [k \in 1 .. Len(q) |-> index.slots[q[k]]]
       /\ \A k \in 1 .. Len(q) : q[k] \in LiveSlots(index)
  BY <1>13 DEF IsView, IsInTurn
<1> DEFINE i == index'
<1> HIDE DEF i
<1>15. LiveCandidates(i) = [k \in 1 .. Len(q) |-> i.slots[q[k]]] \o [l \in 1 .. m |-> i.slots[n + l]]
  <2>1. IsIndex(i) /\ Slots(i) = 1 .. n + m /\ LiveSlots(i) = LiveSlots(index) \cup ((n + 1) .. (n + m))
    BY <1>2, <1>3, <1>12 DEF i
  <2>2. LiveCandidates(i) = Extended(i, q, n, m)
    BY <1>2, <1>6, <1>13, <2>1, ViewExtended
  <2>. QED BY <2>2 DEF Extended
<1> DEFINE changed(e) ==
             IF update(e) = {} THEN e
             ELSE [Ref!FromSeed(CHOOSE seed \in update(e) : TRUE, d) EXCEPT !.status =
                     IF Ref!IsExcluded(e) THEN "excluded_pending_refresh" ELSE @]
<1>16. ASSUME NEW s \in LiveSlots(index)
       PROVE  index'.slots[s] = changed(index.slots[s])
  <2>1. CASE s \in Replaced(batch)
    <3> DEFINE e == index.slots[s]
    <3>1. PICK seed \in Seed : update(e) = {seed} /\ index'.slots[s] = Overwritten(e, seed, d)
      BY <1>10, <2>1
    <3> HIDE DEF e, update
    <3>2. (CHOOSE z \in update(e) : TRUE) = seed /\ update(e) # {}
      BY <3>1
    <3>3. Ref!FromSeed(seed, d) = FromSeed(seed, d) /\ Ref!IsExcluded(e) = IsExcluded(e)
      BY RefOperators
    <3>4. changed(e) = Overwritten(e, seed, d)
      BY <3>2, <3>3 DEF Overwritten
    <3>. QED BY <3>1, <3>4 DEF e
  <2>2. CASE s \notin Replaced(batch)
    BY <1>11, <2>2
  <2>. QED BY <2>1, <2>2
<1> HIDE DEF changed
<1>17. [k \in 1 .. Len(q) |-> i.slots[q[k]]] = [k \in DOMAIN c |-> changed(c[k])]
  <2>1. DOMAIN c = 1 .. Len(q) /\ \A k \in 1 .. Len(q) : c[k] = index.slots[q[k]]
    BY <1>14
  <2> HIDE DEF c
  <2>. QED BY <1>14, <1>16, <2>1 DEF i
<1>18. [l \in 1 .. m |-> i.slots[n + l]] = [k \in DOMAIN x |-> Ref!FromSeed(x[k], d)]
  <2>1. \A l \in 1 .. m : i.slots[n + l] = Ref!FromSeed(x[l], d)
    BY <1>7, RefOperators DEF i
  <2>. QED BY <1>6, <2>1
<1>19. LiveCandidates(index') = [k \in DOMAIN c |-> changed(c[k])] \o [k \in DOMAIN x |-> Ref!FromSeed(x[k], d)]
  BY <1>15, <1>17, <1>18 DEF i
<1>20. x = Ref!Chosen(batch, {seed \in Ref!Range(batch) : Ref!PositionOf(seed.card) = {}})
  BY RefSequences, RefOnSequences DEF x, A
<1>21. \A e : update(e) = {seed \in Ref!Range(batch) : seed.card = e.card}
  BY RefOnSequences
<1> HIDE DEF update
<1>22. index'.retention = index.retention /\ index'.day = index.day
  BY <1>3 DEF d
<1>. QED BY <1>1, <1>19, <1>20, <1>21, <1>22
     DEF Ref!Upsert, Ref!Advance, Ref!Positions, changed, d

\* Every step of the index is the same step of the reference session, and a
\* stutter of the one is a stutter of the other.
LEMMA NextRefined ==
  ASSUME IInv, OrderIsExactAndSorted, ~RevisitsRetention, [Next]_vars
  PROVE  [Ref!Next]_(Ref!vars)
<1>. SUFFICES Ref!Next \/ UNCHANGED Ref!vars
  OBVIOUS
<1>0. IInv'
  BY NextInv
<1>1. ASSUME NEW c \in Cards, NEW d \in Days, NEW requeue \in BOOLEAN, Answer(c, d, requeue)
      PROVE  Ref!Next
  <2>1. Ref!Answer(c, d, requeue)
    BY <1>0, <1>1, AnswerRefined
  <2>. QED BY <2>1 DEF Ref!Next
<1>2. ASSUME Undo
      PROVE  Ref!Next
  <2>1. Ref!Undo
    BY <1>0, <1>2, UndoRefined
  <2>. QED BY <2>1 DEF Ref!Next
<1>3. ASSUME NEW d \in Days, NEW r \in Extras, NEW excluded \in SUBSET Cards,
             Refresh(d, r, excluded)
      PROVE  Ref!Next
  <2>1. Ref!Refresh(d, r, excluded)
    BY <1>0, <1>3, RefreshRefined
  <2>. QED BY <2>1 DEF Ref!Next
<1>4. ASSUME NEW c \in Cards, ExcludeCard(c)
      PROVE  Ref!Next
  <2>1. Ref!ExcludeCard(c)
    BY <1>0, <1>4, ExcludeRefined
  <2>. QED BY <2>1 DEF Ref!Next
<1>5. ASSUME NEW c \in Cards, IncludeCard(c)
      PROVE  Ref!Next
  <2>1. Ref!IncludeCard(c)
    BY <1>0, <1>5, IncludeRefined
  <2>. QED BY <2>1 DEF Ref!Next
<1>6. ASSUME NEW c \in Cards, RemoveCard(c)
      PROVE  Ref!Next
  <2>1. Ref!RemoveCandidate(c)
    BY <1>0, <1>6, RemoveRefined
  <2>. QED BY <2>1 DEF Ref!Next
<1>7. ASSUME NEW batch \in UpsertBatches, Upsert(batch)
      PROVE  Ref!Next
  <2>1. Ref!Upsert(batch)
    BY <1>0, <1>7, UpsertRefined
  <2>. QED BY <2>1 DEF Ref!Next
<1>8. ASSUME NEW r \in Extras, SetRetention(r)
      PROVE  Ref!Next
  <2>1. Ref!SetRetention(r)
    BY <1>0, <1>8, RetentionRefined
  <2>. QED BY <2>1 DEF Ref!Next
<1>9. ASSUME NEW cards \in Universes, NEW changed \in SUBSET ChangedSeeds,
             NEW d \in Days, NEW r \in Extras, Reconcile(cards, changed, d, r)
      PROVE  Ref!Next
  <2>1. Ref!Reconcile(cards, changed, d, r)
    BY <1>0, <1>9, ReconcileRefined
  <2>. QED BY <2>1 DEF Ref!Next
<1>10. ASSUME NEW seeds \in UpsertBatches, Replace(seeds)
       PROVE  Ref!Next
  <2>1. Ref!Replace(seeds)
    BY <1>0, <1>10, ReplaceRefined
  <2>. QED BY <2>1 DEF Ref!Next
<1>11. ASSUME SetMode
       PROVE  Ref!Next
  <2>1. Ref!SetMode
    BY <1>11, ModeRefined
  <2>. QED BY <2>1 DEF Ref!Next
<1>12. ASSUME UNCHANGED vars
       PROVE  UNCHANGED Ref!vars
  <2>1. index' = index /\ generation' = generation /\ history' = history
    BY <1>12 DEF vars
  <2>2. LiveCandidates(index)' = LiveCandidates(index) /\ Copies(history)' = Copies(history)
    BY <2>1
  <2>. QED BY <2>1, <2>2 DEF Ref!vars
<1>. QED BY <1>1, <1>2, <1>3, <1>4, <1>5, <1>6, <1>7, <1>8, <1>9, <1>10, <1>11, <1>12 DEF Next

\* Step for step, undo included, the native index with its tombstones, caches
\* and deltas behaves as the reference session, which holds one plain list of
\* candidates and saves a copy of it on every answer.
THEOREM IndexImplementsReference ==
  ASSUME ~RevisitsRetention
  PROVE  Spec => ImplementsReference
<1>1. Init => Ref!Init
  BY InitRefined
<1>2. IInv /\ OrderIsExactAndSorted /\ [Next]_vars => [Ref!Next]_(Ref!vars)
  BY NextRefined
<1>. QED BY <1>1, <1>2, InvariantHolds, OrdersStayExact, PTL DEF Spec, ImplementsReference, Ref!Spec
===============================================================================
