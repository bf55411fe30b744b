------------------------------ MODULE LiveIndex ------------------------------
(***************************************************************************)
(* The native live prediction session: a slot-indexed candidate universe   *)
(* with a card-to-slot map, cached eligibility flags and a cached rank     *)
(* order that refreshes and answers repair by merging, and the undo frames *)
(* that record, per answer, only what the index mutated since.             *)
(*                                                                         *)
(* Slots are never reused: a removed candidate leaves a tombstone, and a   *)
(* card that returns gets a new slot.  A prediction call that fails leaves *)
(* the index as it was, which is a stuttering step here.                   *)
(***************************************************************************)
EXTENDS LiveRank, FiniteSets

CONSTANTS
  InitialSeeds,      \* the sequence of seeds the session is created with
  UpsertBatches,     \* the sequences of seeds a client may upsert
  Universes,         \* the sequences of cards a client may reconcile to
  ChangedSeeds,      \* the seeds a client may pass as changed candidates
  Days,              \* target and answer day offsets
  Extras,            \* the retention extras a client may ask for
  Predictions,       \* what the predictor may return, NaN included or not
  RefreshLimit,      \* most candidates one refresh predicts
  UndoLimit,         \* most answer frames kept
  RevisitsRetention, \* may a client return to the retention extra of an
                     \* answer that can still be undone, having left it?
  MaxSlots,          \* bound: slots ever allocated in one universe
  MaxGeneration      \* bound: session mutations

DistinctCards(seeds) == IsInjective([i \in DOMAIN seeds |-> seeds[i].card])

ASSUME IndexAssumption ==
  /\ InitialSeeds \in Seq(Seed) /\ DistinctCards(InitialSeeds)
  /\ \A b \in UpsertBatches : b \in Seq(Seed)
  /\ \A u \in Universes : u \in Seq(Cards)
  /\ ChangedSeeds \subseteq Seed
  /\ Days \subseteq Nat
  /\ Extras \subseteq Int
  /\ Predictions \subseteq Values
  /\ RefreshLimit \in Nat \ {0}
  /\ UndoLimit \in Nat \ {0}
  /\ RevisitsRetention \in BOOLEAN
  /\ MaxSlots \in Nat
  /\ MaxGeneration \in Nat

VARIABLES
  index,        \* slots, slotOf, eligible, ordered, retention, day
  generation,   \* advanced by every mutation
  undo,         \* the answer frames, oldest first
  history       \* ghost: the index each frame must be able to bring back

vars == <<index, generation, undo, history>>

Absent == 0                        \* slotOf of a card that has no live slot
Slots(i) == DOMAIN i.slots
SlotsInTurn(i) == [s \in Slots(i) |-> s]
IsLive(i, s) == s \in Slots(i) /\ i.slots[s].status # "removed"
LiveSlots(i) == {s \in Slots(i) : IsLive(i, s)}

-------------------------------------------------------------------------------
(* The rank order.                                                         *)

RanksBefore(i, s, t) == Before(i.slots[s], i.eligible[s], i.slots[t], i.eligible[t])

Precedence(i) == {p \in Slots(i) \X Slots(i) : RanksBefore(i, p[1], p[2])}

\* The slots of S ranked into the order seq, and seq without the slots of S.
Ranked(i, S, seq) == RankInto(Precedence(i), Chosen(SlotsInTurn(i), S), seq)
Without(seq, S) == Chosen(seq, Range(seq) \ S)

\* rebuild_order: every live slot, sorted.
Rebuilt(i) == [i EXCEPT !.ordered = Ranked(i, LiveSlots(i), <<>>)]

\* Mutants of Merged: tombstones are merged back in; the slots being merged
\* are not taken out first.
MergedWithTombstones(i, updated) ==
  [i EXCEPT !.ordered = Ranked(i, updated, Without(@, updated))]
MergedTwice(i, updated) ==
  [i EXCEPT !.ordered = Ranked(i, updated \cap LiveSlots(i), @)]

\* merge_updated_order: the other slots keep their relative order and the
\* live updated ones are merged into them.
Merged(i, updated) ==
  [i EXCEPT !.ordered = Ranked(i, updated \cap LiveSlots(i), Without(@, updated))]

\* update_order_after_refresh: merging pays off below 19/20 of the order.
Reordered(i, updated, force) ==
  IF force \/ i.ordered = <<>> \/ Cardinality(updated) * 20 >= Len(i.ordered) * 19
  THEN Rebuilt(i)
  ELSE Merged(i, updated)

Recomputed(i) ==
  [i EXCEPT !.eligible = [s \in Slots(i) |-> EligibleAt(i.slots[s], i.retention)]]

-------------------------------------------------------------------------------
(* Undo frames.  full holds what record_slot and record_new_slot saved (New *)
(* for a slot that did not exist), refresh what record_refresh_slot saved   *)
(* of the other slots, before the universe the first later reconciliation   *)
(* replaced.                                                                *)

New == [new |-> TRUE]
Saved(i, s) == [cand |-> i.slots[s], eligible |-> i.eligible[s]]
SavedQuery(i, s) ==
  [elapsed |-> i.slots[s].elapsed, pred |-> i.slots[s].pred,
   status |-> i.slots[s].status, eligible |-> i.eligible[s]]

WithQuery(c, q) == [c EXCEPT !.elapsed = q.elapsed, !.pred = q.pred, !.status = q.status]

\* f where it is defined, g elsewhere.
OrElse(f, g) ==
  [x \in DOMAIN f \cup DOMAIN g |-> IF x \in DOMAIN f THEN f[x] ELSE g[x]]

Capture(i, s) ==
  [retention |-> i.retention, day |-> i.day, full |-> [t \in {s} |-> Saved(i, t)],
   refresh |-> <<>>, before |-> <<>>]

\* Mutant of RecordSlots: a slot refreshed before is saved as it is now.
RecordSlotsAsIs(f, i, S) ==
  IF f.before # <<>> THEN f
  ELSE [f EXCEPT !.full = OrElse(@, [s \in S |-> Saved(i, s)])]

\* The value slot s had when the frame was captured: what a refresh delta saved
\* of the slot goes back into its present value.
FullValue(f, i, s) ==
  IF s \in DOMAIN f.refresh
  THEN [cand |-> WithQuery(i.slots[s], f.refresh[s]), eligible |-> f.refresh[s].eligible]
  ELSE Saved(i, s)

\* record_slot of every slot of S.
RecordSlots(f, i, S) ==
  IF f.before # <<>> THEN f
  ELSE [f EXCEPT !.full = OrElse(@, [s \in S |-> FullValue(f, i, s)])]

RecordRefresh(f, i, S) ==
  IF f.before # <<>> THEN f
  ELSE [f EXCEPT !.refresh =
          OrElse(@, [s \in S \ DOMAIN f.full |-> SavedQuery(i, s)])]

RecordNew(f, S) ==
  IF f.before # <<>> THEN f
  ELSE [f EXCEPT !.full = OrElse(@, [s \in S |-> New])]

RecordReconciliation(f, i) ==
  IF f.before # <<>> THEN f ELSE [f EXCEPT !.before = <<i>>]

\* Mutations are recorded in the newest frame only, and in none when no
\* answer can be undone.
Newest == undo[Len(undo)]
WithNewest(f) == IF undo = <<>> THEN undo ELSE [undo EXCEPT ![Len(undo)] = f]

\* Mutant of RestoredSlots: a slot created since the frame survives.
RestoredSlotsKeepingNew(i, f) ==
  [s \in Slots(i) |->
     CASE s \in DOMAIN f.full -> IF f.full[s] = New THEN i.slots[s] ELSE f.full[s].cand
       [] s \in DOMAIN f.refresh \ DOMAIN f.full -> WithQuery(i.slots[s], f.refresh[s])
       [] OTHER -> i.slots[s]]

\* The slots after a frame's deltas were applied to i: a full delta wins over
\* a refresh delta, a slot the frame saw created becomes a tombstone.
RestoredSlots(i, f) ==
  [s \in Slots(i) |->
     CASE s \in DOMAIN f.full -> IF f.full[s] = New
                                 THEN [i.slots[s] EXCEPT !.status = "removed"]
                                 ELSE f.full[s].cand
       [] s \in DOMAIN f.refresh \ DOMAIN f.full -> WithQuery(i.slots[s], f.refresh[s])
       [] OTHER -> i.slots[s]]

RestoredEligible(i, f) ==
  [s \in Slots(i) |->
     CASE s \in DOMAIN f.full -> IF f.full[s] = New THEN FALSE ELSE f.full[s].eligible
       [] s \in DOMAIN f.refresh \ DOMAIN f.full -> f.refresh[s].eligible
       [] OTHER -> i.eligible[s]]

\* Mutant of RestoredSlotOf: a slot created since the frame stays mapped.
RestoredSlotOfKeepingNew(i, f) ==
  [c \in Cards |->
     LET saved == {s \in DOMAIN f.full : f.full[s] # New /\ f.full[s].cand.card = c}
     IN  IF saved # {} THEN CHOOSE t \in saved : TRUE ELSE i.slotOf[c]]

\* A frame saves at most one value per card, always a live one, so replaying
\* its deltas leaves the card on that slot; otherwise a card that sat on a
\* slot created since loses it.
RestoredSlotOf(i, f) ==
  [c \in Cards |->
     LET saved == {s \in DOMAIN f.full : f.full[s] # New /\ f.full[s].cand.card = c}
         s == i.slotOf[c]
     IN  IF saved # {} THEN CHOOSE t \in saved : TRUE
         ELSE IF s \in DOMAIN f.full /\ f.full[s] = New THEN Absent
         ELSE s]

\* The index a frame is applied to: the universe it saw replaced, if any.
AppliedTo(f, cur) == IF f.before # <<>> THEN f.before[1] ELSE cur

\* Mutant of Restored: the flags of the other slots are not recomputed.
RestoredWithoutRecompute(cur, f) ==
  LET i == AppliedTo(f, cur)
      j == [i EXCEPT !.slots = RestoredSlots(i, f), !.eligible = RestoredEligible(i, f),
                     !.slotOf = RestoredSlotOf(i, f),
                     !.retention = f.retention, !.day = f.day]
  IN  Reordered(j, DOMAIN f.full \cup DOMAIN f.refresh, FALSE)

\* restore_undo.
Restored(cur, f) ==
  LET i == AppliedTo(f, cur)
      j == [i EXCEPT !.slots = RestoredSlots(i, f), !.eligible = RestoredEligible(i, f),
                     !.slotOf = RestoredSlotOf(i, f),
                     !.retention = f.retention, !.day = f.day]
  IN  IF i.retention # f.retention
      THEN Rebuilt(Recomputed(j))
      ELSE Reordered(j, DOMAIN f.full \cup DOMAIN f.refresh, FALSE)

-------------------------------------------------------------------------------
(* Building a complete universe.                                           *)

\* The candidates of a universe, already predicted: reused ones keep their
\* anchors, changed ones come from their seed.  All of them are active.
Member(c, changed, d, p) ==
  LET fresh == {seed \in changed : seed.card = c}
      cand == IF fresh # {} THEN FromSeed(CHOOSE seed \in fresh : TRUE, d)
              ELSE index.slots[index.slotOf[c]]
  IN  [cand EXCEPT !.elapsed = IF fresh # {} THEN @ ELSE QueriedElapsed(cand, d),
                   !.pred = p, !.status = "active"]

Universe(slots, d, r) ==
  Rebuilt(Recomputed(
    [slots |-> slots, eligible |-> <<>>, ordered |-> <<>>, retention |-> r, day |-> d,
     slotOf |-> [c \in Cards |->
       IF \E s \in DOMAIN slots : slots[s].card = c
       THEN CHOOSE s \in DOMAIN slots : slots[s].card = c ELSE Absent]]))

\* Every changed seed names a card of the universe, once, and every other
\* card of it is live.
IsReconcilable(cards, changed) ==
  /\ \A s, t \in changed : s.card = t.card => s = t
  /\ \A seed \in changed : seed.card \in Range(cards)
  /\ \A c \in Range(cards) :
       index.slotOf[c] # Absent \/ \E seed \in changed : seed.card = c

-------------------------------------------------------------------------------
(* Actions.                                                                *)

Init ==
  /\ \E d \in Days, p \in [DOMAIN InitialSeeds -> Predictions] :
       index = Universe([s \in DOMAIN InitialSeeds |->
         [FromSeed(InitialSeeds[s], d) EXCEPT !.pred = p[s], !.status = "active"]], d, 0)
  /\ generation = 1
  /\ undo = <<>>
  /\ history = <<>>

Advance ==
  /\ generation < MaxGeneration
  /\ generation' = generation + 1

\* The client's choice of a retention extra.
MayUse(r) ==
  RevisitsRetention \/ r = index.retention \/ \A k \in DOMAIN undo : undo[k].retention # r

Trimmed(frames) ==
  IF Len(frames) > UndoLimit THEN Tail(frames) ELSE frames

Answer(c, d, requeue) ==
  LET s == index.slotOf[c]
      j == [index EXCEPT !.slots[s] = Answered(@, d, requeue),
                         !.eligible[s] = FALSE,
                         !.slotOf[c] = IF requeue THEN @ ELSE Absent]
  IN  /\ s # Absent
      /\ Advance
      /\ index' = Reordered(j, {s}, FALSE)
      /\ undo' = Trimmed(Append(undo, Capture(index, s)))
      /\ history' = Trimmed(Append(history, index))

Undo ==
  /\ undo # <<>>
  /\ Advance
  /\ index' = Restored(index, Last(undo))
  /\ undo' = Front(undo)
  /\ history' = Front(history)

\* select_refresh_membership: included pending cards in slot order, then the
\* included rest by rank, up to the refresh limit.
RefreshQueue(excluded) ==
  LET shown == {s \in Slots(index) : index.slots[s].card \notin excluded}
  IN  Chosen(SlotsInTurn(index), {s \in shown : index.slots[s].status = "pending_refresh"})
        \o Chosen(index.ordered, {s \in shown : index.slots[s].status = "active"})

Membership(excluded) ==
  LET queue == RefreshQueue(excluded)
  IN  {s \in LiveSlots(index) : \E k \in DOMAIN queue : k <= RefreshLimit /\ queue[k] = s}

Refresh(d, r, excluded) ==
  LET updated == Membership(excluded)
      changed == r # index.retention
  IN  /\ MayUse(r)
      /\ Advance
      /\ \E p \in [updated -> Predictions] :
           LET i == [index EXCEPT !.retention = r, !.day = d,
                       !.slots = [s \in Slots(index) |->
                          IF s \in updated THEN Predicted(@[s], d, p[s]) ELSE @[s]]]
               j == IF changed THEN Recomputed(i)
                    ELSE [i EXCEPT !.eligible = [s \in Slots(i) |->
                            IF s \in updated THEN EligibleAt(i.slots[s], r) ELSE @[s]]]
           IN  index' = Reordered(j, updated, changed)
      /\ undo' = WithNewest(RecordRefresh(Newest, index, updated))
      /\ UNCHANGED history

\* exclude_card and include_card: the flag and the rank do not depend on it.
StatusOf(c) == index.slots[index.slotOf[c]].status

SetStatus(c, status) ==
  LET s == index.slotOf[c]
  IN  /\ s # Absent
      /\ Advance
      /\ index' = [index EXCEPT !.slots[s].status = status]
      /\ undo' = WithNewest(RecordSlots(Newest, index, {s}))
      /\ UNCHANGED history

ExcludeCard(c) == SetStatus(c, Excluded(StatusOf(c)))
IncludeCard(c) == SetStatus(c, Included(StatusOf(c)))

RemoveCard(c) ==
  LET s == index.slotOf[c]
      j == [index EXCEPT !.slots[s].status = "removed", !.eligible[s] = FALSE,
                         !.slotOf[c] = Absent]
  IN  /\ s # Absent
      /\ Advance
      /\ index' = Reordered(j, {s}, FALSE)
      /\ undo' = WithNewest(RecordSlots(Newest, index, {s}))
      /\ UNCHANGED history

\* upsert_candidates: a live card's slot is overwritten and stays excluded if
\* it was; the other seeds take the next slots in the order of the batch.
IsNew(seed) == index.slotOf[seed.card] = Absent

NewSlot(batch, k) == Len(index.slots) + Cardinality({j \in 1..k : IsNew(batch[j])})

Upsert(batch) ==
  LET n == Len(index.slots)
      added == {k \in DOMAIN batch : IsNew(batch[k])}
      slots == 1 .. n + Cardinality(added)
      of(s) == CHOOSE k \in DOMAIN batch :
                 s = IF k \in added THEN NewSlot(batch, k) ELSE index.slotOf[batch[k].card]
      replaced == {index.slotOf[batch[k].card] : k \in DOMAIN batch \ added}
      j == [index EXCEPT
              !.slots = [s \in slots |->
                 IF s > n THEN FromSeed(batch[of(s)], index.day)
                 ELSE IF s \notin replaced THEN @[s]
                 ELSE [FromSeed(batch[of(s)], index.day) EXCEPT !.status =
                   IF IsExcluded(index.slots[s]) THEN "excluded_pending_refresh" ELSE @]],
              !.eligible = [s \in slots |-> s <= n /\ s \notin replaced /\ @[s]],
              !.slotOf = [c \in Cards |->
                 IF \E k \in added : batch[k].card = c
                 THEN NewSlot(batch, CHOOSE k \in added : batch[k].card = c) ELSE @[c]]]
  IN  /\ DistinctCards(batch)
      /\ n + Cardinality(added) <= MaxSlots
      /\ Advance
      /\ index' = Rebuilt(j)
      /\ undo' = WithNewest(RecordNew(RecordSlots(Newest, index, replaced), slots \ (1..n)))
      /\ UNCHANGED history

SetRetention(r) ==
  /\ MayUse(r)
  /\ Advance
  /\ index' = Rebuilt(Recomputed([index EXCEPT !.retention = r]))
  /\ UNCHANGED <<undo, history>>

\* reconcile_live_session_candidates and reconcile_live_session_membership:
\* the replacement is complete before it is swapped in.
Reconcile(cards, changed, d, r) ==
  /\ MayUse(r)
  /\ IsInjective(cards) /\ IsReconcilable(cards, changed)
  /\ Advance
  /\ \E p \in [DOMAIN cards -> Predictions] :
       index' = Universe([k \in DOMAIN cards |-> Member(cards[k], changed, d, p[k])], d, r)
  /\ undo' = WithNewest(RecordReconciliation(Newest, index))
  /\ UNCHANGED history

\* replace_live_session_candidates: seeds only, at the current target; the
\* binding then drops every frame.
Replace(seeds) ==
  /\ DistinctCards(seeds)
  /\ Advance
  /\ \E p \in [DOMAIN seeds -> Predictions] :
       index' = Universe([k \in DOMAIN seeds |->
         [FromSeed(seeds[k], index.day) EXCEPT !.pred = p[k], !.status = "active"]],
         index.day, index.retention)
  /\ undo' = <<>>
  /\ history' = <<>>

\* set_mode: the executor of later predictions; any of them may return any
\* prediction, so only the generation shows.
SetMode ==
  /\ Advance
  /\ UNCHANGED <<index, undo, history>>

Next ==
  \/ \E c \in Cards, d \in Days, requeue \in BOOLEAN : Answer(c, d, requeue)
  \/ Undo
  \/ \E d \in Days, r \in Extras, excluded \in SUBSET Cards : Refresh(d, r, excluded)
  \/ \E c \in Cards : ExcludeCard(c)
  \/ \E c \in Cards : IncludeCard(c)
  \/ \E c \in Cards : RemoveCard(c)
  \/ \E batch \in UpsertBatches : Upsert(batch)
  \/ \E r \in Extras : SetRetention(r)
  \/ \E cards \in Universes, changed \in SUBSET ChangedSeeds, d \in Days, r \in Extras :
       Reconcile(cards, changed, d, r)
  \/ \E seeds \in UpsertBatches : Replace(seeds)
  \/ SetMode

Spec == Init /\ [][Next]_vars

-------------------------------------------------------------------------------
(* What a call that selects returns: final_selection_by scans the cached    *)
(* order and the cached flags.                                              *)

FinalSelection(limit, excluded) ==
  LET cand(s) == index.slots[s]
      active == Chosen(index.ordered,
                  {s \in Slots(index) : IsIncluded(cand(s)) /\ cand(s).card \notin excluded})
      eligible == Chosen(active, {s \in Slots(index) : index.eligible[s]})
      boundaries == UNION {NextBoundary(cand(s), index.retention) : s \in
                             {s \in Range(active) : ~index.eligible[s]}}
  IN  [active_count |-> Len(active), eligible_count |-> Len(eligible),
       selected |-> SubSeq([k \in DOMAIN eligible |-> cand(eligible[k]).card], 1,
                           IF limit < Len(eligible) THEN limit ELSE Len(eligible)),
       next |-> {b \in boundaries : \A x \in boundaries : b <= x}]

-------------------------------------------------------------------------------
(* Properties.                                                             *)

IsIndex(i) ==
  /\ i = [slots |-> i.slots, slotOf |-> i.slotOf, eligible |-> i.eligible,
          ordered |-> i.ordered, retention |-> i.retention, day |-> i.day]
  /\ i.slots \in Seq(Candidate)
  /\ i.slotOf \in [Cards -> {Absent} \cup DOMAIN i.slots]
  /\ i.eligible \in [DOMAIN i.slots -> BOOLEAN]
  /\ i.retention \in Int
  /\ i.day \in Nat

IsQuery(q) ==
  /\ q = [elapsed |-> q.elapsed, pred |-> q.pred, status |-> q.status, eligible |-> q.eligible]
  /\ q.elapsed \in Int /\ q.pred \in Values /\ q.status \in Statuses /\ q.eligible \in BOOLEAN

IsFrame(f) ==
  /\ f = [retention |-> f.retention, day |-> f.day, full |-> f.full,
          refresh |-> f.refresh, before |-> f.before]
  /\ f.retention \in Int /\ f.day \in Nat
  /\ DOMAIN f.full \cup DOMAIN f.refresh \subseteq Nat
  /\ \A s \in DOMAIN f.full : \/ f.full[s] = New
                              \/ f.full[s] \in [cand: Candidate, eligible: BOOLEAN]
  /\ \A s \in DOMAIN f.refresh : IsQuery(f.refresh[s])
  /\ f.before = <<>> \/ (f.before = <<f.before[1]>> /\ IsIndex(f.before[1]))

IsSequence(s) == s \in Seq(Range(s))

\* The type of the state: parallel slot vectors in the index and in every
\* snapshot, well-formed deltas, at most UndoLimit frames, one ghost per frame.
TypeOK ==
  /\ IsIndex(index)
  /\ generation \in Nat
  /\ IsSequence(undo) /\ IsSequence(history)
  /\ Len(undo) = Len(history) /\ Len(undo) <= UndoLimit
  /\ \A k \in DOMAIN undo : IsFrame(undo[k])
  /\ \A k \in DOMAIN history : IsIndex(history[k])

MapMatches(i) ==
  \A c \in Cards : LET live == {s \in LiveSlots(i) : i.slots[s].card = c}
                   IN  live = IF i.slotOf[c] = Absent THEN {} ELSE {i.slotOf[c]}

\* slot_by_card_id names exactly the live slots: a live card is found on its
\* one live slot, and a card without one is not found.  Removal, re-insertion
\* into a new slot and undo of both must keep the map and the statuses in step.
SlotMapMatchesLiveSlots == MapMatches(index)

OrderIsExact(i) ==
  LET o == i.ordered
  IN  /\ o \in Seq(Slots(i))
      /\ Range(o) = LiveSlots(i) /\ IsInjective(o)
      /\ \A k, l \in DOMAIN o : k < l => RanksBefore(i, o[k], o[l])

FlagsAreCurrent(i) ==
  \A s \in Slots(i) : i.eligible[s] = EligibleAt(i.slots[s], i.retention)

\* Every cached eligibility flag is what the rule says now, under the current
\* retention extra: no path leaves a flag computed under another one.
EligibilityIsCurrent == FlagsAreCurrent(index)

\* restore_undo replays a frame's deltas one after the other.  It may do so in
\* any order because a frame never saves two values of one card, and what it
\* saves was live.
FramesSaveEachCardOnce ==
  \A k \in DOMAIN undo : LET f == undo[k].full IN
    \A s, t \in {s \in DOMAIN f : f[s] # New} :
      /\ f[s].cand.status # "removed"
      /\ f[s].cand.card = f[t].cand.card => s = t

\* Whatever changes in the session or in its undo stack, the generation a
\* client compares has moved forward: undo never brings an old one back.
GenerationAdvances == [][generation' > generation]_vars

\* i has the candidates of h on the slots they had, the same map, and only
\* tombstones on the slots allocated since.
SameUniverse(i, h) ==
  /\ Slots(h) \subseteq Slots(i)
  /\ \A s \in Slots(i) :
       IF s \in Slots(h) THEN i.slots[s] = h.slots[s] ELSE i.slots[s].status = "removed"
  /\ i.slotOf = h.slotOf

\* Undoing an answer, across whatever refreshes, insertions, removals and
\* reconciliations followed it, puts back every candidate that existed before
\* the answer, predictions and statuses included, with the map, the retention
\* extra and the target of that moment.
UndoRestoresUniverse ==
  [][Undo => LET before == Last(history)
             IN  /\ SameUniverse(index', before)
                 /\ index'.retention = before.retention
                 /\ index'.day = before.day]_vars

\* The candidates in rank order with their eligibility flags.
RankedView(i) == [k \in DOMAIN i.ordered |-> Saved(i, i.ordered[k])]

\* Undoing an answer restores the exact rank that existed before it: the same
\* candidates in the same order with the same eligibility flags.
UndoRestoresRank ==
  [][Undo => RankedView(index)' = RankedView(Last(history))]_vars
===============================================================================
