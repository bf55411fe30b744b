------------------------------- MODULE LiveRank -------------------------------
(***************************************************************************)
(* The ranking rules of a live prediction session: what a candidate is,    *)
(* when it is eligible, and how two candidates compare.  The native index  *)
(* (LiveIndex) caches the outcome of these rules; the reference session    *)
(* (LiveReference) evaluates them again on every call.                     *)
(*                                                                         *)
(* Retrievabilities, targets and retention extras are points of the scale  *)
(* 0..One (1.0 is One), so the next representable float above a point is   *)
(* the next integer.  Time is the day offset; the timestamp moves with it. *)
(* card stands for the pair (tie_breaker, card_id) that breaks every tie.  *)
(***************************************************************************)
EXTENDS Integers, Sequences, SequencesExt, Subsequences

CONSTANTS
  Cards,        \* card ids
  One,          \* the scale point of retrievability 1.0
  Order         \* the session's LiveOrder

Orders == {"retrievability_ascending", "retrievability_descending",
           "relative_overdueness", "random"}

ASSUME RankAssumption ==
  /\ Cards \subseteq Nat \ {0}
  /\ One \in Nat \ {0}
  /\ Order \in Orders

NaN == -1           \* "no usable prediction"
Values == {NaN} \cup 0 .. One
NewCard == -1       \* the elapsed sentinel of a card never reviewed

Statuses == {"active", "excluded", "pending_refresh",
             "excluded_pending_refresh", "removed"}

\* prior is has_prior_review, anchor the day of the last review when prior,
\* elapsed the elapsed days at the time of the last query.
Candidate == [card: Cards, normal: Int, intraday: Int, random: Int,
              prior: BOOLEAN, anchor: Int, elapsed: Int, pred: Values,
              status: Statuses]

\* A LiveCandidateSeed: the row's card and elapsed days, the two targets and
\* the random key.
Seed == [card: Cards, normal: Int, intraday: Int, random: Int, elapsed: Int]

IsIncluded(c) == c.status \in {"active", "pending_refresh"}
IsExcluded(c) == c.status \in {"excluded", "excluded_pending_refresh"}
IsUsable(c) == c.status \in {"active", "excluded"}

Excluded(status) ==
  CASE status = "active" -> "excluded"
    [] status = "pending_refresh" -> "excluded_pending_refresh"
    [] OTHER -> status

Included(status) ==
  CASE status = "excluded" -> "active"
    [] status = "excluded_pending_refresh" -> "pending_refresh"
    [] OTHER -> status

Refreshed(status) ==
  CASE status = "pending_refresh" -> "active"
    [] status = "excluded_pending_refresh" -> "excluded"
    [] OTHER -> status

\* A candidate built from a seed at target day d, not predicted yet.
FromSeed(seed, d) ==
  [card |-> seed.card, normal |-> seed.normal, intraday |-> seed.intraday,
   random |-> seed.random, prior |-> seed.elapsed # NewCard,
   anchor |-> IF seed.elapsed = NewCard THEN 0 ELSE d - seed.elapsed,
   elapsed |-> seed.elapsed, pred |-> NaN, status |-> "pending_refresh"]

\* The elapsed days of a prediction query at day d.  A card never reviewed
\* keeps its sentinel; an answered card is measured from its last review.
QueriedElapsed(c, d) == IF c.prior THEN d - c.anchor ELSE NewCard

\* c predicted to be p at day d.
Predicted(c, d, p) ==
  [c EXCEPT !.elapsed = QueriedElapsed(c, d), !.pred = p,
            !.status = Refreshed(c.status)]

\* c after its answer on day d; requeue keeps it in the session.
Answered(c, d, requeue) ==
  [c EXCEPT !.prior = TRUE, !.anchor = d, !.pred = NaN,
            !.status = IF ~requeue THEN "removed"
                       ELSE IF IsExcluded(c) THEN "excluded_pending_refresh"
                       ELSE "pending_refresh"]

ApplicableTarget(c) == IF c.elapsed = 0 THEN c.intraday ELSE c.normal

Clamp(x) == IF x < 0 THEN 0 ELSE IF x > One THEN One ELSE x

\* The strict eligibility rule under retention extra r.
EligibleAt(c, r) ==
  /\ IsUsable(c)
  /\ c.pred # NaN
  /\ c.pred < Clamp(ApplicableTarget(c) + r)

\* max(x, 0.0001): a floor below the smallest nonzero point of the scale.
Floored(x) == IF x <= 0 THEN 1 ELSE 1000 * x

\* The order's value of c is strictly before that of d.
ValueBefore(c, d) ==
  CASE Order = "retrievability_ascending" -> c.pred < d.pred
    [] Order = "retrievability_descending" -> c.pred > d.pred
    [] Order = "relative_overdueness" ->
         Floored(c.pred) * Floored(ApplicableTarget(d))
           < Floored(d.pred) * Floored(ApplicableTarget(c))
    [] OTHER -> c.random < d.random

\* The order has a finite value for c (a random key always is one).
HasValue(c) == Order = "random" \/ c.pred # NaN

\* c ranks before d when ec and ed are their eligibility flags: eligible
\* first, then candidates with a usable value, then by value, then by card.
Before(c, ec, d, ed) ==
  IF ec # ed THEN ec
  ELSE IF HasValue(c) # HasValue(d) THEN HasValue(c)
  ELSE IF HasValue(c) /\ (ValueBefore(c, d) \/ ValueBefore(d, c))
  THEN ValueBefore(c, d)
  ELSE c.card < d.card

\* Mutant of NextBoundary: the cutoff is taken to be inclusive.
NextBoundaryInclusive(c, r) ==
  { x \in {c.pred - ApplicableTarget(c)} :
      IsUsable(c) /\ c.pred # NaN /\ c.pred < One /\ x > r }

\* The smallest retention extra above r that makes c eligible, as a set of at
\* most one element.  pred + 1 - target is the least extra that lifts the
\* clamped cutoff strictly above pred.
NextBoundary(c, r) ==
  { x \in {c.pred + 1 - ApplicableTarget(c)} :
      IsUsable(c) /\ c.pred # NaN /\ c.pred < One /\ x > r }
===============================================================================
