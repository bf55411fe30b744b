---------------------------- MODULE Subsequences ----------------------------
(* Parts of sequences, and sequences kept in an order.  Chosen is what      *)
(* SelectSeq selects, by a set instead of a test and as a recursive         *)
(* function instead of a recursive operator: something can be proved of it. *)
EXTENDS Naturals, Sequences

\* The elements of x that are in C, in their order.
Chosen(x, C) ==
  LET chosen[n \in 0..Len(x)] ==
        IF n = 0 THEN <<>>
        ELSE IF x[n] \in C THEN Append(chosen[n - 1], x[n]) ELSE chosen[n - 1]
  IN  chosen[Len(x)]

-------------------------------------------------------------------------------
(* Sequences kept in an order.  prec is the order: the set of the pairs    *)
(* whose first element comes before the second.                            *)

\* x put into seq before the first element it precedes.
Inserted(prec, x, seq) ==
  LET after == {k \in DOMAIN seq : <<x, seq[k]>> \in prec}
      at == IF after = {} THEN Len(seq) + 1
            ELSE CHOOSE k \in after : \A l \in after : k <= l
  IN  SubSeq(seq, 1, at - 1) \o <<x>> \o SubSeq(seq, at, Len(seq))

\* The elements of xs put into seq one by one, each at its rank.
RankInto(prec, xs, seq) ==
  LET ranked[n \in 0 .. Len(xs)] ==
        IF n = 0 THEN seq ELSE Inserted(prec, xs[n], ranked[n - 1])
  IN  ranked[Len(xs)]
===============================================================================
