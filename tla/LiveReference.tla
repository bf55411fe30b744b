---------------------------- MODULE LiveReference ----------------------------
(***************************************************************************)
(* What a live prediction session promises: the scan-and-sort reference    *)
(* session of live.py, with the answers and the LIFO undo that only the    *)
(* Rust facade offers.  There are no slots, caches or deltas: candidates   *)
(* are a sequence in stable transport order, eligibility and rank are      *)
(* evaluated on every call, and an answer keeps a copy of everything it    *)
(* must be able to bring back.                                             *)
(***************************************************************************)
EXTENDS LiveRank, FiniteSets

CONSTANTS
  UpsertBatches, Universes, ChangedSeeds, Days, Extras, Predictions,
  RefreshLimit, UndoLimit

VARIABLES
  cands,        \* the live candidates in transport order
  retention,    \* retention_extra
  day,          \* the target day of the last query
  generation,
  saved         \* one [cands, retention, day] per answer that can be undone

vars == <<cands, retention, day, generation, saved>>

CardOf(k) == cands[k].card
Positions == DOMAIN cands
PositionOf(c) == {k \in Positions : CardOf(k) = c}

Eligible(c) == EligibleAt(c, retention)

\* _ordered: the candidates by rank.
Precedence ==
  {p \in Range(cands) \X Range(cands) : Before(p[1], Eligible(p[1]), p[2], Eligible(p[2]))}
Ranked == RankInto(Precedence, cands, <<>>)

\* The candidates of seq that are not excluded and have a status of those.
Shown(seq, statuses, excluded) ==
  Chosen(seq, {c \in Range(seq) : c.status \in statuses /\ c.card \notin excluded})

\* _selection_result: what a call that selects limit candidates returns.
SelectionResult(limit, excluded) ==
  LET active == Shown(Ranked, {"active", "pending_refresh"}, excluded)
      eligible == Chosen(active, {c \in Range(active) : Eligible(c)})
      boundaries == UNION {NextBoundary(c, retention) : c \in Range(active)}
  IN  [active_count |-> Len(active), eligible_count |-> Len(eligible),
       selected |-> SubSeq([k \in DOMAIN eligible |-> eligible[k].card], 1,
                           IF limit < Len(eligible) THEN limit ELSE Len(eligible)),
       next |-> {b \in boundaries : \A x \in boundaries : b <= x}]

-------------------------------------------------------------------------------
Init ==
  /\ cands \in Seq(Candidate)
  /\ \A k \in Positions : cands[k].status = "active"
  /\ retention = 0
  /\ day \in Days
  /\ generation = 1
  /\ saved = <<>>

Advance == generation' = generation + 1

Trimmed(s) == IF Len(s) > UndoLimit THEN Tail(s) ELSE s

Answer(c, d, requeue) ==
  /\ \E k \in PositionOf(c) :
       cands' = IF requeue THEN [cands EXCEPT ![k] = Answered(@, d, TRUE)]
                ELSE RemoveAt(cands, k)
  /\ saved' = Trimmed(Append(saved, [cands |-> cands, retention |-> retention, day |-> day]))
  /\ UNCHANGED <<retention, day>>
  /\ Advance

\* Undoing the latest answer brings back everything it saved.
Undo ==
  /\ saved # <<>>
  /\ cands' = Last(saved).cands
  /\ retention' = Last(saved).retention
  /\ day' = Last(saved).day
  /\ saved' = Front(saved)
  /\ Advance

\* The cards one refresh predicts: pending ones first, then by rank.
Membership(excluded) ==
  LET queue == Shown(cands, {"pending_refresh"}, excluded)
                 \o Shown(Ranked, {"active"}, excluded)
  IN  {queue[k].card : k \in {k \in DOMAIN queue : k <= RefreshLimit}}

Refresh(d, r, excluded) ==
  LET cards == Membership(excluded)
  IN  /\ \E p \in [cards -> Predictions] :
           cands' = [k \in Positions |->
                       IF CardOf(k) \in cards THEN Predicted(cands[k], d, p[CardOf(k)])
                       ELSE cands[k]]
      /\ retention' = r
      /\ day' = d
      /\ UNCHANGED saved
      /\ Advance

SetStatus(c, Change(_)) ==
  /\ \E k \in PositionOf(c) : cands' = [cands EXCEPT ![k].status = Change(@)]
  /\ UNCHANGED <<retention, day, saved>>
  /\ Advance

ExcludeCard(c) == SetStatus(c, Excluded)
IncludeCard(c) == SetStatus(c, Included)

RemoveCandidate(c) ==
  /\ \E k \in PositionOf(c) : cands' = RemoveAt(cands, k)
  /\ UNCHANGED <<retention, day, saved>>
  /\ Advance

Upsert(batch) ==
  LET added == Chosen(batch, {seed \in Range(batch) : PositionOf(seed.card) = {}})
      update(c) == {seed \in Range(batch) : seed.card = c.card}
  IN  /\ cands' =
           [k \in Positions |->
              IF update(cands[k]) = {} THEN cands[k]
              ELSE [FromSeed(CHOOSE seed \in update(cands[k]) : TRUE, day) EXCEPT !.status =
                      IF IsExcluded(cands[k]) THEN "excluded_pending_refresh" ELSE @]]
           \o [k \in DOMAIN added |-> FromSeed(added[k], day)]
      /\ UNCHANGED <<retention, day, saved>>
      /\ Advance

SetRetention(r) ==
  /\ retention' = r
  /\ UNCHANGED <<cands, day, saved>>
  /\ Advance

\* Every card of the new universe comes from its changed seed or from the
\* candidate the session has, and is predicted at the new target.
Reconcile(cards, changed, d, r) ==
  LET seeds(c) == {seed \in changed : seed.card = c}
      member(c, p) ==
        IF seeds(c) # {}
        THEN [FromSeed(CHOOSE seed \in seeds(c) : TRUE, d) EXCEPT
                !.pred = p, !.status = "active"]
        ELSE LET k == CHOOSE k \in PositionOf(c) : TRUE
             IN  [Predicted(cands[k], d, p) EXCEPT !.status = "active"]
  IN  /\ \A seed \in changed : seed.card \in Range(cards)
      /\ \A c \in Range(cards) : seeds(c) # {} \/ PositionOf(c) # {}
      /\ \E p \in [DOMAIN cards -> Predictions] :
           cands' = [k \in DOMAIN cards |-> member(cards[k], p[k])]
      /\ retention' = r
      /\ day' = d
      /\ UNCHANGED saved
      /\ Advance

Replace(seeds) ==
  /\ \E p \in [DOMAIN seeds -> Predictions] :
       cands' = [k \in DOMAIN seeds |->
                   [FromSeed(seeds[k], day) EXCEPT !.pred = p[k], !.status = "active"]]
  /\ saved' = <<>>
  /\ UNCHANGED <<retention, day>>
  /\ Advance

SetMode == UNCHANGED <<cands, retention, day, saved>> /\ Advance

Next ==
  \/ \E c \in Cards, d \in Days, requeue \in BOOLEAN : Answer(c, d, requeue)
  \/ Undo
  \/ \E d \in Days, r \in Extras, excluded \in SUBSET Cards : Refresh(d, r, excluded)
  \/ \E c \in Cards : ExcludeCard(c) \/ IncludeCard(c) \/ RemoveCandidate(c)
  \/ \E batch \in UpsertBatches : Upsert(batch) \/ Replace(batch)
  \/ \E r \in Extras : SetRetention(r)
  \/ \E cards \in Universes, changed \in SUBSET ChangedSeeds, d \in Days, r \in Extras :
       Reconcile(cards, changed, d, r)
  \/ SetMode

Spec == Init /\ [][Next]_vars
===============================================================================
