-------------------------- MODULE MCReviewPipeline --------------------------
(* A small instance of ReviewPipeline, and cases of the layered executor.   *)
EXTENDS ReviewPipeline, BulkLayers

CONSTANTS r1, r2, k1, k2

\* Two cards of one note; the last stage has a single state.
ThreeModules ==
  [s \in 1..3 |-> [r \in {r1, r2} |-> IF s = 1 /\ r = r2 THEN k2 ELSE k1]]

LongBatches == {<<r1>>, <<r2, r1, r2>>}

-------------------------------------------------------------------------------
(* The layered executor, on chosen batches.                                *)

Answered(card, note, deck, answer) ==
  [card |-> card, note |-> note, deck |-> deck, preset |-> deck, answer |-> answer]

\* Three cards of two notes in two decks.
A(answer) == Answered(1, 1, 1, answer)
B(answer) == Answered(2, 1, 1, answer)
C(answer) == Answered(3, 2, 2, answer)

\* Nothing, or every card has a state before the batch.
Histories == {<<>>, <<C(1), A(2), B(3)>>}

\* Streams of one row; three that end one by one, the first before the last;
\* two that end together in the middle of a third.
Singles == <<A(1), B(2), C(3)>>
Staggered == <<A(1), B(2), C(1), B(3), A(2), C(2), C(3), B(1), C(4)>>
Together == <<C(1), A(1), B(1), A(3), B(2), C(2), B(3)>>

\* Each profile, on every batch; and the fast one without one of its switches.
Profiles == {{}, Oracle, Fast}
Cases ==
  [env : Profiles, history : Histories, limit : {2, 512},
   batch : {<<>>, Singles, Staggered, Together}]
  \cup [env : {Fast \ {flag} : flag \in Fast}, history : Histories, limit : {2},
        batch : {Staggered}]

EveryCaseAgrees ==
  \A c \in Cases : Agrees(c.env, c.limit, c.history, c.batch)

\* However the switches are set, the layered executor computes what an oracle
\* computes that reviews one row after the other: the predictions, the curves,
\* the states it leaves and the deterministic state (bulk.rs).  It is a claim
\* about a pure function, made of every batch whose features have been recorded.
LayeredMatchesReference == [][Launch => EveryCaseAgrees]_vars
===============================================================================
