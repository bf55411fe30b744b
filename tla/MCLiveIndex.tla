----------------------------- MODULE MCLiveIndex -----------------------------
(* Small instances of LiveIndex for TLC.                                    *)
EXTENDS LiveIndexRefinement, LiveIndexInvariant

Reviewed(c, target) ==
  [card |-> c, normal |-> target, intraday |-> target - 1, random |-> 9 - c, elapsed |-> 1]
Unseen(c, target) == [Reviewed(c, target) EXCEPT !.elapsed = NewCard]

\* Two candidates, one of them new; a third may be inserted.
PairSeeds == <<Unseen(1, 2), Reviewed(2, 3)>>
TripleSeeds == <<Unseen(1, 2), Reviewed(2, 3), Reviewed(3, 2)>>
ReinsertOrInsert == {<<Reviewed(2, 2), Unseen(1, 3)>>}
ReinsertFirst == {<<Reviewed(1, 3)>>}
WithNaN == {NaN, 2, 3}
PairUniverses == {<<2, 1>>, <<1>>}
NoUniverses == {}
ChangeFirst == {Reviewed(1, 3)}
===============================================================================
