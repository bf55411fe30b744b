------------------------- MODULE LiveIndexRefinement -------------------------
(***************************************************************************)
(* The native index implements the reference session: forget the           *)
(* tombstones, the caches and the deltas, and take the ghost history for   *)
(* the copies an answer saves.                                             *)
(***************************************************************************)
EXTENDS LiveIndex

\* The live candidates in slot order.
LiveCandidates(i) ==
  LET live == Chosen(SlotsInTurn(i), LiveSlots(i))
  IN  [k \in DOMAIN live |-> i.slots[live[k]]]

\* What the reference session saves of an index, and of each index of h.
Copy(i) == [cands |-> LiveCandidates(i), retention |-> i.retention, day |-> i.day]
Copies(h) == [k \in DOMAIN h |-> Copy(h[k])]

Ref == INSTANCE LiveReference WITH
  cands <- LiveCandidates(index), retention <- index.retention, day <- index.day,
  saved <- Copies(history)

\* Every step of the native index is the same step of the reference session
\* (live.py), the undo of an answer included.
ImplementsReference == Ref!Spec

\* Whatever limit and exclusions a client passes, the native selection, counts
\* and next boundary, read from the caches, are those the reference computes
\* from scratch.
SelectionMatchesReference ==
  \A limit \in 0..Cardinality(Cards), excluded \in SUBSET Cards :
    FinalSelection(limit, excluded) = Ref!SelectionResult(limit, excluded)

\* next_retention_extra is the exact point at which the next card becomes
\* eligible: no smaller extra above the current one admits a card, and it does.
\* When it is absent no extra admits another card.
NextBoundaryIsTight ==
  LET shown == {s \in LiveSlots(index) : IsIncluded(index.slots[s])}
      admitted(r) == {s \in shown : EligibleAt(index.slots[s], r)}
      next == FinalSelection(0, {}).next
  IN  \A r \in index.retention + 1 .. index.retention + 2 * One :
        admitted(r) = admitted(index.retention) <=> \A b \in next : r < b
===============================================================================
