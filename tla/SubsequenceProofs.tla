-------------------------- MODULE SubsequenceProofs --------------------------
(***************************************************************************)
(* Induction over naturals and sequences, in a form a first-order prover   *)
(* can use, and with it what Chosen chooses from every sequence.           *)
(***************************************************************************)
EXTENDS Subsequences, SequenceTheorems, WellFoundedInduction, TLAPS

-------------------------------------------------------------------------------
(* Induction over the naturals, of sets instead of predicates: the library's *)
(* own theorem takes a predicate, and no prover here can give it one.        *)

\* A set of naturals that is not empty has a least element.
LEMMA LeastNatural ==
  ASSUME NEW T \in SUBSET Nat, T # {}
  PROVE  \E n \in T : \A m \in T : n <= m
<1>1. IsWellFoundedOn(OpToRel(<,Nat), Nat)
  BY NatLessThanWellFounded
<1>2. OpToRel(<,Nat) = {ss \in Nat \X Nat : ss[1] < ss[2]}
  BY DEF OpToRel
<1>3. \A m, n \in Nat : m < n => <<m, n>> \in OpToRel(<,Nat)
  BY <1>2
<1>4. PICK n \in T : \A m \in T : ~ (<<m, n>> \in OpToRel(<,Nat))
  BY <1>1, WFMin
<1>5. \A m \in T : ~(m < n)
  BY <1>3, <1>4
<1>6. \A m \in T : n <= m
  BY <1>5
<1>. QED BY <1>6

\* A set with 0 and the successors of its naturals has every natural.
LEMMA Induct ==
  ASSUME NEW T, 0 \in T, \A n \in Nat : n \in T => n + 1 \in T
  PROVE  \A n \in Nat : n \in T
<1> SUFFICES ASSUME NEW U, U = Nat \ T, U # {} PROVE FALSE
  OBVIOUS
<1>1. PICK n \in U : \A m \in U : n <= m
  BY LeastNatural
<1>. QED BY <1>1

-------------------------------------------------------------------------------
(* The reviews of a sequence that are in a set.                              *)

\* The recursion of Chosen, as a condition on the function it defines.
Body(f, x, C) ==
  [n \in 0..Len(x) |->
     IF n = 0 THEN <<>>
     ELSE IF x[n] \in C THEN Append(f[n - 1], x[n]) ELSE f[n - 1]]

LEMMA ChosenIsBody == \A x, C : Chosen(x, C) = (CHOOSE f : f = Body(f, x, C))[Len(x)]
BY DEF Chosen, Body

\* The same up to m, so that it can be extended one element at a time.
Steps(f, x, C, m) ==
  /\ f = [n \in 0..m |-> f[n]]
  /\ f[0] = <<>>
  /\ \A n \in 1..m : f[n] = IF x[n] \in C THEN Append(f[n - 1], x[n]) ELSE f[n - 1]

LEMMA StepsAreBody ==
  ASSUME NEW f, NEW C, NEW S, NEW x \in Seq(S)
  PROVE  f = Body(f, x, C) <=> Steps(f, x, C, Len(x))
<1>. Len(x) \in Nat
  OBVIOUS
<1>1. ASSUME f = Body(f, x, C) PROVE Steps(f, x, C, Len(x))
  <2>1. \A n \in 0..Len(x) : f[n] =
          IF n = 0 THEN <<>>
          ELSE IF x[n] \in C THEN Append(f[n - 1], x[n]) ELSE f[n - 1]
    BY <1>1 DEF Body
  <2>2. f = [n \in 0..Len(x) |-> f[n]]
    BY <1>1 DEF Body
  <2>. QED BY <2>1, <2>2 DEF Steps
<1>2. ASSUME Steps(f, x, C, Len(x)) PROVE f = Body(f, x, C)
  <2>1. ASSUME NEW n \in 0..Len(x)
        PROVE  f[n] = IF n = 0 THEN <<>>
                      ELSE IF x[n] \in C THEN Append(f[n - 1], x[n]) ELSE f[n - 1]
    <3>1. n = 0 \/ n \in 1..Len(x)
      OBVIOUS
    <3>2. 0 \notin 1..Len(x)
      OBVIOUS
    <3>. QED BY <1>2, <3>1, <3>2 DEF Steps
  <2>2. f = [n \in 0..Len(x) |-> f[n]]
    BY <1>2 DEF Steps
  <2>. QED BY <2>1, <2>2 DEF Body
<1>. QED BY <1>1, <1>2

LEMMA StepsExist ==
  ASSUME NEW C, NEW x
  PROVE  \A m \in Nat : \E f : Steps(f, x, C, m)
<1> DEFINE T == {m \in Nat : \E f : Steps(f, x, C, m)}
<1>1. 0 \in T
  <2> DEFINE g == [n \in 0..0 |-> <<>>]
  <2>1. g = [n \in 0..0 |-> g[n]] /\ g[0] = <<>>
    OBVIOUS
  <2> HIDE DEF g
  <2>2. Steps(g, x, C, 0)
    BY <2>1 DEF Steps
  <2>. QED BY <2>2
<1>2. ASSUME NEW m \in Nat, m \in T PROVE m + 1 \in T
  <2>1. PICK f : Steps(f, x, C, m)
    BY <1>2
  <2> DEFINE next == IF x[m + 1] \in C THEN Append(f[m], x[m + 1]) ELSE f[m]
             g == [n \in 0..(m + 1) |-> IF n = m + 1 THEN next ELSE f[n]]
  <2> HIDE DEF next
  <2>2. \A n \in 0..m : g[n] = f[n]
    OBVIOUS
  <2>3. g[m + 1] = next
    OBVIOUS
  <2>4. g = [n \in 0..(m + 1) |-> g[n]]
    OBVIOUS
  <2> HIDE DEF g
  <2>5. ASSUME NEW n \in 1..(m + 1)
        PROVE  g[n] = IF x[n] \in C THEN Append(g[n - 1], x[n]) ELSE g[n - 1]
    <3>1. CASE n = m + 1
      BY <3>1, <2>2, <2>3 DEF next
    <3>2. CASE n \in 1..m
      <4>1. g[n] = f[n] /\ g[n - 1] = f[n - 1]
        BY <3>2, <2>2
      <4>. QED BY <3>2, <4>1, <2>1 DEF Steps
    <3>. QED BY <3>1, <3>2
  <2>6. g[0] = <<>>
    BY <2>1, <2>2 DEF Steps
  <2>7. Steps(g, x, C, m + 1)
    BY <2>4, <2>5, <2>6 DEF Steps
  <2>. QED BY <2>7
<1> HIDE DEF T
<1>3. \A m \in Nat : m \in T
  BY <1>1, <1>2, Induct
<1>. QED BY <1>3 DEF T

LEMMA StepsAgree ==
  ASSUME NEW C, NEW x, NEW y, NEW f, NEW g, NEW m \in Nat, NEW l \in Nat, m <= l,
         Steps(f, x, C, m), Steps(g, y, C, l),
         \A n \in 1..m : x[n] = y[n]
  PROVE  \A n \in 0..m : f[n] = g[n]
<1> DEFINE T == {n \in Nat : n <= m => f[n] = g[n]}
<1>1. 0 \in T
  BY DEF Steps
<1>2. ASSUME NEW n \in Nat, n \in T PROVE n + 1 \in T
  <2> SUFFICES ASSUME n + 1 <= m PROVE f[n + 1] = g[n + 1]
    OBVIOUS
  <2>1. n + 1 \in 1..m /\ n + 1 \in 1..l /\ (n + 1) - 1 = n
    OBVIOUS
  <2>2. f[n] = g[n] /\ x[n + 1] = y[n + 1]
    BY <1>2, <2>1
  <2>3. f[n + 1] = IF x[n + 1] \in C THEN Append(f[n], x[n + 1]) ELSE f[n]
    BY <2>1 DEF Steps
  <2>4. g[n + 1] = IF y[n + 1] \in C THEN Append(g[n], y[n + 1]) ELSE g[n]
    BY <2>1 DEF Steps
  <2>. QED BY <2>2, <2>3, <2>4
<1> HIDE DEF T
<1>3. \A n \in Nat : n \in T
  BY <1>1, <1>2, Induct
<1>. QED BY <1>3 DEF T

LEMMA ChosenByChosen ==
  ASSUME NEW C, NEW S, NEW x \in Seq(S)
  PROVE  \E f : Steps(f, x, C, Len(x)) /\ Chosen(x, C) = f[Len(x)]
<1>1. \E f : Steps(f, x, C, Len(x))
  <2>1. Len(x) \in Nat
    OBVIOUS
  <2>. QED BY <2>1, StepsExist
<1>2. \E f : f = Body(f, x, C)
  BY <1>1, StepsAreBody
<1> DEFINE F == CHOOSE f : f = Body(f, x, C)
<1>3. F = Body(F, x, C)
  BY <1>2
<1>4. Chosen(x, C) = F[Len(x)]
  BY ChosenIsBody
<1> HIDE DEF F
<1>5. Steps(F, x, C, Len(x))
  BY <1>3, StepsAreBody
<1>. QED BY <1>4, <1>5

\* Nothing is chosen from nothing.
LEMMA ChosenEmpty == ASSUME NEW C PROVE Chosen(<<>>, C) = <<>>
<1>1. <<>> \in Seq({}) /\ Len(<<>>) = 0
  OBVIOUS
<1>2. PICK f : Steps(f, <<>>, C, Len(<<>>)) /\ Chosen(<<>>, C) = f[Len(<<>>)]
  BY <1>1, ChosenByChosen
<1>. QED BY <1>1, <1>2 DEF Steps

\* One more element is chosen or not.
LEMMA ChosenAppend ==
  ASSUME NEW C, NEW S, NEW x \in Seq(S), NEW r \in S
  PROVE  Chosen(Append(x, r), C) =
           IF r \in C THEN Append(Chosen(x, C), r) ELSE Chosen(x, C)
<1> DEFINE y == Append(x, r)
<1>1. /\ y \in Seq(S) /\ Len(x) \in Nat /\ Len(y) = Len(x) + 1
      /\ y[Len(x) + 1] = r /\ \A n \in 1..Len(x) : x[n] = y[n]
  OBVIOUS
<1> HIDE DEF y
<1>2. PICK f : Steps(f, x, C, Len(x)) /\ Chosen(x, C) = f[Len(x)]
  BY ChosenByChosen
<1>3. PICK g : Steps(g, y, C, Len(y)) /\ Chosen(y, C) = g[Len(y)]
  BY <1>1, ChosenByChosen
<1>4. \A n \in 0..Len(x) : f[n] = g[n]
  <2>1. Len(y) \in Nat /\ Len(x) <= Len(y)
    BY <1>1
  <2>. QED BY <2>1, <1>1, <1>2, <1>3, StepsAgree
<1>5. g[Len(y)] = IF y[Len(y)] \in C THEN Append(g[Len(y) - 1], y[Len(y)]) ELSE g[Len(y) - 1]
  <2>1. Len(y) \in 1..Len(y)
    BY <1>1
  <2>. QED BY <2>1, <1>3 DEF Steps
<1>6. g[Len(y) - 1] = Chosen(x, C)
  BY <1>1, <1>2, <1>4
<1>. QED BY <1>1, <1>3, <1>5, <1>6 DEF y

\* A set with the empty sequence and all it can be extended to by elements of S
\* has every sequence over S.
LEMMA SeqInduct ==
  ASSUME NEW S, NEW T, <<>> \in T, \A x \in Seq(S), r \in S : x \in T => Append(x, r) \in T
  PROVE  \A x \in Seq(S) : x \in T
<1> DEFINE N == {n \in Nat : \A x \in Seq(S) : Len(x) = n => x \in T}
<1>1. 0 \in N
  OBVIOUS
<1>2. ASSUME NEW n \in Nat, n \in N PROVE n + 1 \in N
  <2> SUFFICES ASSUME NEW x \in Seq(S), Len(x) = n + 1 PROVE x \in T
    OBVIOUS
  <2> DEFINE y == SubSeq(x, 1, n)
  <2>1. y \in Seq(S) /\ Len(y) = n /\ x[n + 1] \in S
    OBVIOUS
  <2>2. x = Append(y, x[n + 1])
    OBVIOUS
  <2> HIDE DEF y
  <2>3. y \in T
    BY <1>2, <2>1
  <2>. QED BY <2>1, <2>2, <2>3
<1> HIDE DEF N
<1>3. \A n \in Nat : n \in N
  BY <1>1, <1>2, Induct
<1>4. \A x \in Seq(S) : Len(x) \in Nat
  OBVIOUS
<1>. QED BY <1>3, <1>4 DEF N

\* What is chosen consists of chosen elements.
LEMMA ChosenType ==
  ASSUME NEW C, NEW S
  PROVE  \A x \in Seq(S) : Chosen(x, C) \in Seq(S)
<1> DEFINE T == {x \in Seq(S) : Chosen(x, C) \in Seq(S)}
<1>1. <<>> \in T
  BY ChosenEmpty, EmptySeq
<1>2. ASSUME NEW x \in Seq(S), NEW r \in S, x \in T PROVE Append(x, r) \in T
  <2>1. Append(x, r) \in Seq(S) /\ Chosen(x, C) \in Seq(S)
    BY <1>2
  <2>2. Append(Chosen(x, C), r) \in Seq(S)
    BY <2>1
  <2>3. Chosen(Append(x, r), C) =
          IF r \in C THEN Append(Chosen(x, C), r) ELSE Chosen(x, C)
    BY ChosenAppend
  <2>. QED BY <2>1, <2>2, <2>3
<1> HIDE DEF T
<1>3. \A x \in Seq(S) : x \in T
  BY <1>1, <1>2, SeqInduct
<1>. QED BY <1>3 DEF T

LEMMA ConcatAppend ==
  ASSUME NEW S
  PROVE  \A x, y \in Seq(S), r \in S : x \o Append(y, r) = Append(x \o y, r)
<1>. TAKE x, y \in Seq(S), r \in S
<1>1. /\ x \o Append(y, r) \in Seq(S) /\ Append(x \o y, r) \in Seq(S)
      /\ Len(x \o Append(y, r)) = Len(x) + Len(y) + 1
      /\ Len(Append(x \o y, r)) = Len(x) + Len(y) + 1
  OBVIOUS
<1>2. \A i \in 1..(Len(x) + Len(y) + 1) : (x \o Append(y, r))[i] = Append(x \o y, r)[i]
  OBVIOUS
<1>. QED BY <1>1, <1>2, SeqEqual

\* Choosing from two sequences, one after the other.
LEMMA ChosenConcat ==
  ASSUME NEW C, NEW S, NEW x \in Seq(S)
  PROVE  \A y \in Seq(S) : Chosen(x \o y, C) = Chosen(x, C) \o Chosen(y, C)
<1>0. Chosen(x, C) \in Seq(S)
  BY ChosenType
<1> DEFINE T == {y \in Seq(S) : Chosen(x \o y, C) = Chosen(x, C) \o Chosen(y, C)}
<1>1. <<>> \in T
  <2>1. x \o <<>> = x /\ Chosen(x, C) \o <<>> = Chosen(x, C)
    BY <1>0, ConcatEmptySeq
  <2>2. <<>> \in Seq(S)
    BY EmptySeq
  <2>3. Chosen(<<>>, C) = <<>>
    BY ChosenEmpty
  <2>. QED BY <2>1, <2>2, <2>3
<1>2. ASSUME NEW y \in Seq(S), NEW r \in S, y \in T PROVE Append(y, r) \in T
  <2>1. x \o Append(y, r) = Append(x \o y, r) /\ x \o y \in Seq(S) /\ Append(y, r) \in Seq(S)
    BY ConcatAppend
  <2>2. Chosen(y, C) \in Seq(S)
    BY ChosenType
  <2>3. Chosen(x \o y, C) = Chosen(x, C) \o Chosen(y, C)
    BY <1>2
  <2>4. Chosen(Append(y, r), C) = IF r \in C THEN Append(Chosen(y, C), r) ELSE Chosen(y, C)
    BY ChosenAppend
  <2>5. Chosen(Append(x \o y, r), C) =
          IF r \in C THEN Append(Chosen(x \o y, C), r) ELSE Chosen(x \o y, C)
    BY <2>1, ChosenAppend
  <2>6. Chosen(x, C) \o Append(Chosen(y, C), r) = Append(Chosen(x, C) \o Chosen(y, C), r)
    BY <1>0, <2>2, ConcatAppend
  <2>7. Chosen(x \o Append(y, r), C) = Chosen(x, C) \o Chosen(Append(y, r), C)
    <3>1. Chosen(x \o Append(y, r), C) = Chosen(Append(x \o y, r), C)
      BY <2>1
    <3>2. CASE r \in C
      BY <3>1, <3>2, <2>3, <2>4, <2>5, <2>6
    <3>3. CASE r \notin C
      BY <3>1, <3>3, <2>3, <2>4, <2>5
    <3>. QED BY <3>2, <3>3
  <2>. QED BY <2>1, <2>7
<1> HIDE DEF T
<1>3. \A y \in Seq(S) : y \in T
  BY <1>1, <1>2, SeqInduct
<1>. QED BY <1>3 DEF T

\* All of a sequence over C is chosen,
LEMMA ChosenAll ==
  ASSUME NEW C, NEW S, S \subseteq C
  PROVE  \A x \in Seq(S) : Chosen(x, C) = x
<1> DEFINE T == {x \in Seq(S) : Chosen(x, C) = x}
<1>1. <<>> \in T
  BY ChosenEmpty
<1>2. ASSUME NEW x \in Seq(S), NEW r \in S, x \in T PROVE Append(x, r) \in T
  <2>1. Append(x, r) \in Seq(S)
    OBVIOUS
  <2>. QED BY <1>2, <2>1, ChosenAppend
<1> HIDE DEF T
<1>3. \A x \in Seq(S) : x \in T
  BY <1>1, <1>2, SeqInduct
<1>. QED BY <1>3 DEF T

\* and nothing of one that has no element of C.
LEMMA ChosenNone ==
  ASSUME NEW C, NEW S, S \cap C = {}
  PROVE  \A x \in Seq(S) : Chosen(x, C) = <<>>
<1> DEFINE T == {x \in Seq(S) : Chosen(x, C) = <<>>}
<1>1. <<>> \in T
  BY ChosenEmpty
<1>2. ASSUME NEW x \in Seq(S), NEW r \in S, x \in T PROVE Append(x, r) \in T
  <2>1. Append(x, r) \in Seq(S) /\ r \notin C
    OBVIOUS
  <2>. QED BY <1>2, <2>1, ChosenAppend
<1> HIDE DEF T
<1>3. \A x \in Seq(S) : x \in T
  BY <1>1, <1>2, SeqInduct
<1>. QED BY <1>3 DEF T
-------------------------------------------------------------------------------
(* Ranked sequences.                                                        *)

StrictlyOrders(prec, S) ==
  /\ \A x \in S : <<x, x>> \notin prec
  /\ \A x, y, z \in S : <<x, y>> \in prec /\ <<y, z>> \in prec => <<x, z>> \in prec
  /\ \A x, y \in S : x # y => <<x, y>> \in prec \/ <<y, x>> \in prec

Sorted(prec, seq) ==
  \A k, l \in 1 .. Len(seq) : k < l => <<seq[k], seq[l]>> \in prec

Has(seq, x) == \E k \in 1 .. Len(seq) : seq[k] = x

Spliced(seq, at, x) == SubSeq(seq, 1, at - 1) \o <<x>> \o SubSeq(seq, at, Len(seq))

\* Where an element is put: behind those it does not precede.
LEMMA InsertedAt ==
  ASSUME NEW S, NEW prec, NEW x \in S, NEW seq \in Seq(S)
  PROVE  \E at \in 1 .. Len(seq) + 1 :
           /\ Inserted(prec, x, seq) = Spliced(seq, at, x)
           /\ at <= Len(seq) => <<x, seq[at]>> \in prec
           /\ \A k \in 1 .. Len(seq) : k < at => <<x, seq[k]>> \notin prec
<1> DEFINE after == {k \in DOMAIN seq : <<x, seq[k]>> \in prec}
           at == IF after = {} THEN Len(seq) + 1
                 ELSE CHOOSE k \in after : \A l \in after : k <= l
<1>1. Inserted(prec, x, seq) = Spliced(seq, at, x)
  BY DEF Inserted, Spliced
<1>2. Len(seq) \in Nat /\ DOMAIN seq = 1 .. Len(seq)
  OBVIOUS
<1>3. CASE after = {}
  <2>1. at = Len(seq) + 1
    BY <1>3
  <2>2. \A k \in 1 .. Len(seq) : <<x, seq[k]>> \notin prec
    BY <1>2, <1>3
  <2>3. /\ at \in 1 .. Len(seq) + 1 /\ (at <= Len(seq) => <<x, seq[at]>> \in prec)
        /\ \A k \in 1 .. Len(seq) : k < at => <<x, seq[k]>> \notin prec
    BY <1>2, <2>1, <2>2
  <2> HIDE DEF at
  <2>. QED BY <1>1, <2>3
<1>4. CASE after # {}
  <2>1. after \in SUBSET Nat
    BY <1>2
  <2>2. \E k \in after : \A l \in after : k <= l
    BY <1>4, <2>1, LeastNatural
  <2>3. at \in after /\ \A l \in after : at <= l
    BY <1>4, <2>2
  <2>4. at \in 1 .. Len(seq) /\ <<x, seq[at]>> \in prec
    BY <1>2, <2>3
  <2> HIDE DEF at
  <2>5. ASSUME NEW k \in 1 .. Len(seq), k < at PROVE <<x, seq[k]>> \notin prec
    <3>1. k \in after => at <= k
      BY <2>3
    <3>2. k \notin after
      BY <2>4, <2>5, <3>1
    <3>. QED BY <1>2, <3>2
  <2>6. at \in 1 .. Len(seq) + 1
    BY <2>4
  <2>. QED BY <1>1, <2>4, <2>5, <2>6
<1>. QED BY <1>3, <1>4

\* y is seq with x spliced in, element by element.
IsSpliced(y, seq, at, x) ==
  /\ Len(y) = Len(seq) + 1 /\ y[at] = x
  /\ \A k \in 1 .. Len(seq) : k < at => y[k] = seq[k]
  /\ \A k \in 1 .. Len(seq) : k >= at => y[k + 1] = seq[k]
  /\ \A k \in 1 .. Len(seq) + 1 : k > at => y[k] = seq[k - 1]

LEMMA SplicedAt ==
  ASSUME NEW S, NEW x \in S, NEW seq \in Seq(S), NEW at \in 1 .. Len(seq) + 1
  PROVE  Spliced(seq, at, x) \in Seq(S) /\ IsSpliced(Spliced(seq, at, x), seq, at, x)
<1> DEFINE before == SubSeq(seq, 1, at - 1)
           behind == SubSeq(seq, at, Len(seq))
<1>1. Len(seq) \in Nat /\ at \in Nat /\ at >= 1 /\ at <= Len(seq) + 1
  OBVIOUS
<1>2. /\ before \in Seq(S) /\ Len(before) = at - 1
      /\ \A k \in 1 .. at - 1 : before[k] = seq[k]
  BY <1>1
<1>3. /\ behind \in Seq(S) /\ Len(behind) = Len(seq) + 1 - at
      /\ \A k \in 1 .. Len(seq) + 1 - at : behind[k] = seq[at + k - 1]
  BY <1>1
<1> HIDE DEF before, behind
<1> DEFINE z == before \o <<x>>
<1>4. /\ z \in Seq(S) /\ Len(z) = at /\ z[at] = x
      /\ \A k \in 1 .. at - 1 : z[k] = before[k]
  BY <1>1, <1>2
<1> HIDE DEF z
<1>5. /\ z \o behind \in Seq(S) /\ Len(z \o behind) = Len(seq) + 1
      /\ \A k \in 1 .. at : (z \o behind)[k] = z[k]
      /\ \A k \in at + 1 .. Len(seq) + 1 : (z \o behind)[k] = behind[k - at]
  BY <1>1, <1>3, <1>4
<1>6. (z \o behind)[at] = x
  BY <1>1, <1>4, <1>5
<1>7. \A k \in 1 .. Len(seq) : k < at => (z \o behind)[k] = seq[k]
  BY <1>1, <1>2, <1>4, <1>5
<1>8. ASSUME NEW k \in 1 .. Len(seq) + 1, k > at PROVE (z \o behind)[k] = seq[k - 1]
  <2>1. k \in at + 1 .. Len(seq) + 1 /\ k - at \in 1 .. Len(seq) + 1 - at
    BY <1>1, <1>8
  <2>2. at + (k - at) - 1 = k - 1
    BY <1>1
  <2>. QED BY <1>3, <1>5, <2>1, <2>2
<1>9. ASSUME NEW k \in 1 .. Len(seq), k >= at PROVE (z \o behind)[k + 1] = seq[k]
  <2>1. k + 1 \in 1 .. Len(seq) + 1 /\ k + 1 > at /\ k + 1 - 1 = k
    BY <1>1, <1>9
  <2>2. \A l \in 1 .. Len(seq) + 1 : l > at => (z \o behind)[l] = seq[l - 1]
    BY <1>8
  <2> DEFINE l == k + 1
  <2>3. l \in 1 .. Len(seq) + 1 /\ l > at /\ l - 1 = k
    BY <2>1
  <2> HIDE DEF l
  <2>4. (z \o behind)[l] = seq[l - 1]
    BY <2>2, <2>3
  <2>. QED BY <2>3, <2>4 DEF l
<1>10. IsSpliced(z \o behind, seq, at, x)
  BY <1>5, <1>6, <1>7, <1>8, <1>9 DEF IsSpliced
<1>. QED BY <1>5, <1>10 DEF Spliced, z, before, behind
\* It stays sorted, and has the new element.
LEMMA InsertedSorted ==
  ASSUME NEW S, NEW prec, NEW x \in S, NEW seq \in Seq(S),
         StrictlyOrders(prec, S), Sorted(prec, seq), ~Has(seq, x)
  PROVE  /\ Inserted(prec, x, seq) \in Seq(S)
         /\ Sorted(prec, Inserted(prec, x, seq))
         /\ \A z : Has(Inserted(prec, x, seq), z) <=> Has(seq, z) \/ z = x
<1>1. PICK at \in 1 .. Len(seq) + 1 :
        /\ Inserted(prec, x, seq) = Spliced(seq, at, x)
        /\ at <= Len(seq) => <<x, seq[at]>> \in prec
        /\ \A k \in 1 .. Len(seq) : k < at => <<x, seq[k]>> \notin prec
  BY InsertedAt
<1> DEFINE y == Spliced(seq, at, x)
<1>2. /\ y \in Seq(S) /\ Len(y) = Len(seq) + 1 /\ y[at] = x
      /\ \A k \in 1 .. Len(seq) : k < at => y[k] = seq[k]
      /\ \A k \in 1 .. Len(seq) : k >= at => y[k + 1] = seq[k]
      /\ \A k \in 1 .. Len(seq) + 1 : k > at => y[k] = seq[k - 1]
  <2>1. y \in Seq(S) /\ IsSpliced(y, seq, at, x)
    BY SplicedAt
  <2>. QED BY <2>1 DEF IsSpliced
<1>3. Inserted(prec, x, seq) = y
  BY <1>1
<1> HIDE DEF y
<1>4. /\ Len(seq) \in Nat /\ at \in Nat
      /\ \A k \in 1 .. Len(seq) : seq[k] \in S /\ seq[k] # x
  BY DEF Has
<1>5. ASSUME NEW k \in 1 .. Len(seq), k < at PROVE <<seq[k], x>> \in prec
  BY <1>1, <1>4, <1>5 DEF StrictlyOrders
<1>6. ASSUME NEW k \in 1 .. Len(seq), k >= at PROVE <<x, seq[k]>> \in prec
  <2>1. at \in 1 .. Len(seq) /\ <<x, seq[at]>> \in prec
    BY <1>1, <1>4, <1>6
  <2>2. CASE k = at
    BY <2>1, <2>2
  <2>3. CASE k # at
    <3>1. at < k
      BY <1>4, <1>6, <2>3
    <3>2. <<seq[at], seq[k]>> \in prec
      BY <2>1, <3>1 DEF Sorted
    <3>3. seq[at] \in S /\ seq[k] \in S
      BY <1>4, <2>1
    <3>. QED BY <2>1, <3>2, <3>3 DEF StrictlyOrders
  <2>. QED BY <2>2, <2>3
<1>7. ASSUME NEW k \in 1 .. Len(y), NEW l \in 1 .. Len(y), k < l PROVE <<y[k], y[l]>> \in prec
  <2>1. k \in 1 .. Len(seq) + 1 /\ l \in 1 .. Len(seq) + 1 /\ k \in Nat /\ l \in Nat
    BY <1>2, <1>4
  <2>2. CASE l < at
    <3>1. k \in 1 .. Len(seq) /\ l \in 1 .. Len(seq) /\ k < at
      BY <1>4, <1>7, <2>1, <2>2
    <3>2. y[k] = seq[k] /\ y[l] = seq[l]
      BY <1>2, <2>2, <3>1
    <3>. QED BY <1>7, <3>1, <3>2 DEF Sorted
  <2>3. CASE l = at
    <3>1. k \in 1 .. Len(seq) /\ k < at
      BY <1>4, <1>7, <2>1, <2>3
    <3>. QED BY <1>2, <1>5, <2>3, <3>1
  <2>4. CASE l > at
    <3>1. l - 1 \in 1 .. Len(seq) /\ l - 1 >= at /\ y[l] = seq[l - 1]
      BY <1>2, <1>4, <2>1, <2>4
    <3>2. CASE k < at
      <4>1. k \in 1 .. Len(seq) /\ k < l - 1
        BY <1>4, <2>1, <2>4, <3>2
      <4>2. y[k] = seq[k]
        BY <1>2, <3>2, <4>1
      <4>. QED BY <3>1, <4>1, <4>2 DEF Sorted
    <3>3. CASE k = at
      BY <1>2, <1>6, <3>1, <3>3
    <3>4. CASE k > at
      <4>1. k - 1 \in 1 .. Len(seq) /\ k - 1 < l - 1 /\ y[k] = seq[k - 1]
        BY <1>2, <1>4, <1>7, <2>1, <3>4
      <4>. QED BY <3>1, <4>1 DEF Sorted
    <3>. QED BY <1>4, <2>1, <3>2, <3>3, <3>4
  <2>. QED BY <1>4, <2>1, <2>2, <2>3, <2>4
<1>8. ASSUME NEW z PROVE Has(y, z) <=> Has(seq, z) \/ z = x
  <2>1. ASSUME NEW k \in 1 .. Len(y), y[k] = z PROVE Has(seq, z) \/ z = x
    <3>0. k \in 1 .. Len(seq) + 1 /\ k \in Nat
      BY <1>2, <1>4
    <3>1. CASE k < at
      <4>1. k \in 1 .. Len(seq) /\ y[k] = seq[k]
        BY <1>2, <1>4, <3>0, <3>1
      <4>. QED BY <2>1, <4>1 DEF Has
    <3>2. CASE k = at
      BY <1>2, <2>1, <3>2
    <3>3. CASE k > at
      <4>1. k - 1 \in 1 .. Len(seq) /\ y[k] = seq[k - 1]
        BY <1>2, <1>4, <3>0, <3>3
      <4>. QED BY <2>1, <4>1 DEF Has
    <3>. QED BY <1>4, <3>0, <3>1, <3>2, <3>3
  <2>2. ASSUME NEW k \in 1 .. Len(seq), seq[k] = z PROVE Has(y, z)
    <3>1. k \in 1 .. Len(y) /\ k + 1 \in 1 .. Len(y)
      BY <1>2, <1>4
    <3>2. y[k] = seq[k] \/ y[k + 1] = seq[k]
      BY <1>2, <1>4
    <3>. QED BY <2>2, <3>1, <3>2 DEF Has
  <2>3. Has(y, x)
    <3>1. at \in 1 .. Len(y)
      BY <1>2
    <3>. QED BY <1>2, <3>1 DEF Has
  <2>4. Has(y, z) => Has(seq, z) \/ z = x
    BY <2>1 DEF Has
  <2>5. Has(seq, z) => Has(y, z)
    BY <2>2 DEF Has
  <2>. QED BY <2>3, <2>4, <2>5
<1>9. Sorted(prec, y)
  BY <1>7 DEF Sorted
<1>. QED BY <1>2, <1>3, <1>8, <1>9

\* The recursion of RankInto, up to m.
RankBody(f, prec, xs, seq) ==
  [n \in 0 .. Len(xs) |-> IF n = 0 THEN seq ELSE Inserted(prec, xs[n], f[n - 1])]
RankSteps(f, prec, xs, seq, m) ==
  /\ f = [n \in 0 .. m |-> f[n]]
  /\ f[0] = seq
  /\ \A n \in 1 .. m : f[n] = Inserted(prec, xs[n], f[n - 1])

LEMMA RankIntoIsBody ==
  \A prec, xs, seq : RankInto(prec, xs, seq) = (CHOOSE f : f = RankBody(f, prec, xs, seq))[Len(xs)]
BY DEF RankInto, RankBody

LEMMA RankStepsAreBody ==
  ASSUME NEW f, NEW prec, NEW S, NEW xs \in Seq(S), NEW seq
  PROVE  f = RankBody(f, prec, xs, seq) <=> RankSteps(f, prec, xs, seq, Len(xs))
<1>. Len(xs) \in Nat
  OBVIOUS
<1>1. ASSUME f = RankBody(f, prec, xs, seq) PROVE RankSteps(f, prec, xs, seq, Len(xs))
  <2>1. \A n \in 0 .. Len(xs) :
          f[n] = IF n = 0 THEN seq ELSE Inserted(prec, xs[n], f[n - 1])
    BY <1>1 DEF RankBody
  <2>2. f = [n \in 0 .. Len(xs) |-> f[n]]
    BY <1>1 DEF RankBody
  <2>. QED BY <2>1, <2>2 DEF RankSteps
<1>2. ASSUME RankSteps(f, prec, xs, seq, Len(xs)) PROVE f = RankBody(f, prec, xs, seq)
  <2>1. \A n \in 0 .. Len(xs) :
          f[n] = IF n = 0 THEN seq ELSE Inserted(prec, xs[n], f[n - 1])
    BY <1>2 DEF RankSteps
  <2>2. f = [n \in 0 .. Len(xs) |-> f[n]]
    BY <1>2 DEF RankSteps
  <2>. QED BY <2>1, <2>2 DEF RankBody
<1>. QED BY <1>1, <1>2

LEMMA RankStepsExist ==
  ASSUME NEW prec, NEW xs, NEW seq
  PROVE  \A m \in Nat : \E f : RankSteps(f, prec, xs, seq, m)
<1> DEFINE T == {m \in Nat : \E f : RankSteps(f, prec, xs, seq, m)}
<1>1. 0 \in T
  <2> DEFINE g == [n \in 0 .. 0 |-> seq]
  <2>1. g = [n \in 0 .. 0 |-> g[n]] /\ g[0] = seq
    OBVIOUS
  <2> HIDE DEF g
  <2>2. RankSteps(g, prec, xs, seq, 0)
    BY <2>1 DEF RankSteps
  <2>. QED BY <2>2
<1>2. ASSUME NEW m \in Nat, m \in T PROVE m + 1 \in T
  <2>1. PICK f : RankSteps(f, prec, xs, seq, m)
    BY <1>2
  <2> DEFINE g == [n \in 0 .. m + 1 |-> IF n <= m THEN f[n] ELSE Inserted(prec, xs[m + 1], f[m])]
  <2>2. /\ \A n \in 0 .. m : g[n] = f[n]
        /\ g[m + 1] = Inserted(prec, xs[m + 1], f[m])
        /\ g = [n \in 0 .. m + 1 |-> g[n]]
    OBVIOUS
  <2> HIDE DEF g
  <2>3. g[0] = seq
    BY <2>1, <2>2 DEF RankSteps
  <2>4. ASSUME NEW n \in 1 .. m + 1 PROVE g[n] = Inserted(prec, xs[n], g[n - 1])
    <3>1. CASE n = m + 1
      <4>1. n - 1 = m /\ m \in 0 .. m
        BY <3>1
      <4>. QED BY <2>2, <3>1, <4>1
    <3>2. CASE n # m + 1
      <4>1. n \in 1 .. m /\ n \in 0 .. m /\ n - 1 \in 0 .. m
        BY <3>2
      <4>2. f[n] = Inserted(prec, xs[n], f[n - 1])
        BY <2>1, <4>1 DEF RankSteps
      <4>. QED BY <2>2, <4>1, <4>2
    <3>. QED BY <3>1, <3>2
  <2>5. RankSteps(g, prec, xs, seq, m + 1)
    BY <2>2, <2>3, <2>4 DEF RankSteps
  <2>. QED BY <2>5
<1> HIDE DEF T
<1>3. \A m \in Nat : m \in T
  BY <1>1, <1>2, Induct
<1>. QED BY <1>3 DEF T

LEMMA RankIntoByRanking ==
  ASSUME NEW prec, NEW S, NEW xs \in Seq(S), NEW seq
  PROVE  \E f : RankSteps(f, prec, xs, seq, Len(xs)) /\ RankInto(prec, xs, seq) = f[Len(xs)]
<1>1. \E f : RankSteps(f, prec, xs, seq, Len(xs))
  <2>1. Len(xs) \in Nat
    OBVIOUS
  <2>. QED BY <2>1, RankStepsExist
<1>2. \E f : f = RankBody(f, prec, xs, seq)
  <2>1. PICK f : RankSteps(f, prec, xs, seq, Len(xs))
    BY <1>1
  <2>2. f = RankBody(f, prec, xs, seq)
    BY <2>1, RankStepsAreBody
  <2>. QED BY <2>2
<1> DEFINE g == CHOOSE f : f = RankBody(f, prec, xs, seq)
<1>3. g = RankBody(g, prec, xs, seq)
  BY <1>2
<1>4. RankInto(prec, xs, seq) = g[Len(xs)]
  BY RankIntoIsBody
<1> HIDE DEF g
<1>5. RankSteps(g, prec, xs, seq, Len(xs))
  BY <1>3, RankStepsAreBody
<1>. QED BY <1>4, <1>5

\* What is ranked into a sorted sequence comes out sorted, and all there.
LEMMA RankIntoSorted ==
  ASSUME NEW S, NEW prec, NEW xs \in Seq(S), NEW seq \in Seq(S),
         StrictlyOrders(prec, S), Sorted(prec, seq),
         \A k, l \in 1 .. Len(xs) : k # l => xs[k] # xs[l],
         \A k \in 1 .. Len(xs) : ~Has(seq, xs[k])
  PROVE  /\ RankInto(prec, xs, seq) \in Seq(S)
         /\ Sorted(prec, RankInto(prec, xs, seq))
         /\ \A z : Has(RankInto(prec, xs, seq), z) <=> Has(seq, z) \/ Has(xs, z)
<1>1. PICK f : /\ RankSteps(f, prec, xs, seq, Len(xs))
               /\ RankInto(prec, xs, seq) = f[Len(xs)]
  BY RankIntoByRanking
<1>2. Len(xs) \in Nat /\ \A k \in 1 .. Len(xs) : xs[k] \in S
  OBVIOUS
<1> DEFINE T == {n \in Nat : n <= Len(xs) =>
                   /\ f[n] \in Seq(S) /\ Sorted(prec, f[n])
                   /\ \A z : Has(f[n], z) <=> Has(seq, z) \/ \E k \in 1 .. n : xs[k] = z}
<1>3. 0 \in T
  BY <1>1 DEF RankSteps
<1>4. ASSUME NEW n \in Nat, n \in T PROVE n + 1 \in T
  <2> SUFFICES ASSUME n + 1 <= Len(xs)
               PROVE  /\ f[n + 1] \in Seq(S) /\ Sorted(prec, f[n + 1])
                      /\ \A z : Has(f[n + 1], z) <=>
                                  Has(seq, z) \/ \E k \in 1 .. n + 1 : xs[k] = z
    OBVIOUS
  <2>1. n + 1 \in 1 .. Len(xs) /\ n <= Len(xs) /\ n + 1 - 1 = n /\ xs[n + 1] \in S
    BY <1>2
  <2>2. /\ f[n] \in Seq(S) /\ Sorted(prec, f[n])
        /\ \A z : Has(f[n], z) <=> Has(seq, z) \/ \E k \in 1 .. n : xs[k] = z
    BY <1>4, <2>1
  <2>3. f[n + 1] = Inserted(prec, xs[n + 1], f[n])
    <3> DEFINE l == n + 1
    <3>1. l \in 1 .. Len(xs) /\ l - 1 = n
      BY <2>1
    <3> HIDE DEF l
    <3>2. f[l] = Inserted(prec, xs[l], f[l - 1])
      BY <1>1, <3>1 DEF RankSteps
    <3>. QED BY <3>1, <3>2 DEF l
  <2>4. \A k \in 1 .. n : xs[k] # xs[n + 1]
    BY <1>2, <2>1
  <2>5. ~Has(f[n], xs[n + 1])
    BY <2>1, <2>2, <2>4
  <2>6. /\ f[n + 1] \in Seq(S) /\ Sorted(prec, f[n + 1])
        /\ \A z : Has(f[n + 1], z) <=> Has(f[n], z) \/ z = xs[n + 1]
    BY <2>1, <2>2, <2>3, <2>5, InsertedSorted
  <2>7. \A z : (\E k \in 1 .. n + 1 : xs[k] = z) <=> (\E k \in 1 .. n : xs[k] = z) \/ z = xs[n + 1]
    <3>1. \A k : k \in 1 .. n + 1 <=> k \in 1 .. n \/ k = n + 1
      OBVIOUS
    <3>. QED BY <3>1
  <2>. QED BY <2>2, <2>6, <2>7
<1> HIDE DEF T
<1>5. \A n \in Nat : n \in T
  BY <1>3, <1>4, Induct
<1>6. Len(xs) \in T
  BY <1>2, <1>5
<1>. QED BY <1>1, <1>2, <1>6 DEF T, Has

\* A strict order has one sorted sequence of given elements.
LEMMA SortedUnique ==
  ASSUME NEW S, NEW prec, NEW x \in Seq(S), NEW y \in Seq(S),
         StrictlyOrders(prec, S), Sorted(prec, x), Sorted(prec, y),
         \A z : Has(x, z) <=> Has(y, z)
  PROVE  x = y
<1>0. /\ Len(x) \in Nat /\ Len(y) \in Nat
      /\ \A k \in 1 .. Len(x) : x[k] \in S
      /\ \A k \in 1 .. Len(y) : y[k] \in S
  OBVIOUS
<1> DEFINE T == {n \in Nat : n <= Len(x) => n <= Len(y) /\ \A k \in 1 .. n : x[k] = y[k]}
<1>1. 0 \in T
  BY <1>0
<1>2. ASSUME NEW n \in Nat, n \in T PROVE n + 1 \in T
  <2> SUFFICES ASSUME n + 1 <= Len(x)
               PROVE  n + 1 <= Len(y) /\ \A k \in 1 .. n + 1 : x[k] = y[k]
    OBVIOUS
  <2>1. /\ n <= Len(x) /\ n <= Len(y) /\ n + 1 \in 1 .. Len(x)
        /\ \A k \in 1 .. n : x[k] = y[k]
    BY <1>0, <1>2
  <2>2. PICK j \in 1 .. Len(y) : y[j] = x[n + 1]
    BY <2>1 DEF Has
  <2>3. ~(j <= n)
    <3> SUFFICES ASSUME j <= n PROVE FALSE
      OBVIOUS
    <3>1. j \in 1 .. n /\ j \in 1 .. Len(x) /\ j < n + 1
      BY <1>0, <2>1
    <3>2. x[j] = x[n + 1] /\ <<x[j], x[n + 1]>> \in prec
      BY <2>1, <2>2, <3>1 DEF Sorted
    <3>. QED BY <1>0, <2>1, <3>2 DEF StrictlyOrders
  <2>4. j \in Nat /\ j >= n + 1 /\ n + 1 \in 1 .. Len(y)
    BY <1>0, <2>3
  <2>5. x[n + 1] = y[n + 1]
    <3> SUFFICES ASSUME x[n + 1] # y[n + 1] PROVE FALSE
      OBVIOUS
    <3>1. n + 1 < j
      <4>1. n + 1 # j
        BY <2>2
      <4>. QED BY <2>4, <4>1
    <3>2. <<y[n + 1], x[n + 1]>> \in prec
      BY <2>2, <2>4, <3>1 DEF Sorted
    <3>3. PICK m \in 1 .. Len(x) : x[m] = y[n + 1]
      BY <2>4 DEF Has
    <3>4. ~(m <= n)
      <4> SUFFICES ASSUME m <= n PROVE FALSE
        OBVIOUS
      <4>1. m \in 1 .. n /\ m \in 1 .. Len(y) /\ m < n + 1
        BY <1>0, <2>1
      <4>2. y[m] = y[n + 1] /\ <<y[m], y[n + 1]>> \in prec
        BY <2>1, <2>4, <3>3, <4>1 DEF Sorted
      <4>. QED BY <1>0, <2>4, <4>2 DEF StrictlyOrders
    <3>5. n + 1 < m
      <4>1. n + 1 # m
        BY <3>3
      <4>. QED BY <1>0, <3>4, <4>1
    <3>6. <<x[n + 1], y[n + 1]>> \in prec
      BY <2>1, <3>3, <3>5 DEF Sorted
    <3>7. x[n + 1] \in S /\ y[n + 1] \in S
      BY <1>0, <2>1, <2>4
    <3>8. <<x[n + 1], x[n + 1]>> \in prec
      BY <3>2, <3>6, <3>7 DEF StrictlyOrders
    <3>. QED BY <3>7, <3>8 DEF StrictlyOrders
  <2>6. \A k \in 1 .. n + 1 : k \in 1 .. n \/ k = n + 1
    OBVIOUS
  <2>. QED BY <1>0, <2>1, <2>4, <2>5, <2>6
<1> HIDE DEF T
<1>3. \A n \in Nat : n \in T
  BY <1>1, <1>2, Induct
<1>4. Len(x) <= Len(y) /\ \A k \in 1 .. Len(x) : x[k] = y[k]
  BY <1>0, <1>3 DEF T
<1>5. Len(y) <= Len(x)
  <2> SUFFICES ASSUME Len(x) < Len(y) PROVE FALSE
    BY <1>0
  <2>1. Len(y) \in 1 .. Len(y)
    BY <1>0
  <2>2. PICK m \in 1 .. Len(x) : x[m] = y[Len(y)]
    BY <2>1 DEF Has
  <2>3. m \in 1 .. Len(y) /\ m < Len(y) /\ y[m] = y[Len(y)]
    BY <1>0, <1>4, <2>2
  <2>4. <<y[m], y[Len(y)]>> \in prec /\ y[m] \in S
    BY <1>0, <2>1, <2>3 DEF Sorted
  <2>. QED BY <2>3, <2>4 DEF StrictlyOrders
<1>6. Len(x) = Len(y)
  BY <1>0, <1>4, <1>5
<1>. QED BY <1>0, <1>4, <1>6, SeqEqual

\* What is chosen from a sequence, and that it stays sorted.
LEMMA ChosenSorted ==
  ASSUME NEW S, NEW C, NEW prec
  PROVE  \A x \in Seq(S) :
           /\ \A z : Has(Chosen(x, C), z) <=> Has(x, z) /\ z \in C
           /\ Sorted(prec, x) => Sorted(prec, Chosen(x, C))
<1> DEFINE T == {x \in Seq(S) :
                   /\ \A z : Has(Chosen(x, C), z) <=> Has(x, z) /\ z \in C
                   /\ Sorted(prec, x) => Sorted(prec, Chosen(x, C))}
<1>1. <<>> \in T
  <2>1. <<>> \in Seq(S) /\ Len(<<>>) = 0
    OBVIOUS
  <2>2. \A z : ~Has(<<>>, z)
    BY <2>1 DEF Has
  <2>3. Sorted(prec, <<>>)
    BY <2>1 DEF Sorted
  <2>. QED BY <2>1, <2>2, <2>3, ChosenEmpty
<1>2. ASSUME NEW x \in Seq(S), NEW r \in S, x \in T PROVE Append(x, r) \in T
  <2> DEFINE y == Append(x, r)
             w == Chosen(x, C)
  <2>1. /\ y \in Seq(S) /\ Len(y) = Len(x) + 1 /\ Len(x) \in Nat /\ y[Len(x) + 1] = r
        /\ \A k \in 1 .. Len(x) : y[k] = x[k]
    OBVIOUS
  <2>2. w \in Seq(S) /\ Chosen(y, C) = IF r \in C THEN Append(w, r) ELSE w
    BY ChosenType, ChosenAppend
  <2>3. /\ \A z : Has(w, z) <=> Has(x, z) /\ z \in C
        /\ Sorted(prec, x) => Sorted(prec, w)
    BY <1>2
  <2> HIDE DEF y, w
  <2>4. \A z : Has(y, z) <=> Has(x, z) \/ z = r
    <3>1. \A k : k \in 1 .. Len(y) <=> k \in 1 .. Len(x) \/ k = Len(x) + 1
      BY <2>1
    <3>. QED BY <2>1, <3>1 DEF Has
  <2>5. Sorted(prec, y) => Sorted(prec, x) /\ \A z : Has(x, z) => <<z, r>> \in prec
    <3> SUFFICES ASSUME Sorted(prec, y)
                 PROVE  Sorted(prec, x) /\ \A z : Has(x, z) => <<z, r>> \in prec
      OBVIOUS
    <3>1. \A k \in 1 .. Len(x) : k \in 1 .. Len(y) /\ k < Len(x) + 1
      BY <2>1
    <3>2. Len(x) + 1 \in 1 .. Len(y)
      BY <2>1
    <3>3. \A k, l \in 1 .. Len(x) : k < l => <<x[k], x[l]>> \in prec
      BY <2>1, <3>1 DEF Sorted
    <3>4. \A k \in 1 .. Len(x) : <<x[k], r>> \in prec
      BY <2>1, <3>1, <3>2 DEF Sorted
    <3>. QED BY <3>3, <3>4 DEF Sorted, Has
  <2>6. CASE r \in C
    <3> DEFINE v == Append(w, r)
    <3>1. /\ v \in Seq(S) /\ Len(v) = Len(w) + 1 /\ Len(w) \in Nat /\ v[Len(w) + 1] = r
          /\ \A k \in 1 .. Len(w) : v[k] = w[k]
      BY <2>2
    <3>2. Chosen(y, C) = v
      BY <2>2, <2>6
    <3> HIDE DEF v
    <3>3. \A k : k \in 1 .. Len(v) <=> k \in 1 .. Len(w) \/ k = Len(w) + 1
      BY <3>1
    <3>4. \A z : Has(v, z) <=> Has(w, z) \/ z = r
      BY <3>1, <3>3 DEF Has
    <3>5. ASSUME Sorted(prec, y) PROVE Sorted(prec, v)
      <4>1. Sorted(prec, w) /\ \A z : Has(w, z) => <<z, r>> \in prec
        BY <2>3, <2>5, <3>5
      <4>2. ASSUME NEW k \in 1 .. Len(v), NEW l \in 1 .. Len(v), k < l
            PROVE  <<v[k], v[l]>> \in prec
        <5>1. k \in 1 .. Len(w)
          BY <3>1, <4>2
        <5>2. CASE l = Len(w) + 1
          BY <3>1, <4>1, <5>1, <5>2 DEF Has
        <5>3. CASE l # Len(w) + 1
          <6>1. l \in 1 .. Len(w)
            BY <3>3, <5>3
          <6>. QED BY <3>1, <4>1, <4>2, <5>1, <6>1 DEF Sorted
        <5>. QED BY <5>2, <5>3
      <4>. QED BY <4>2 DEF Sorted
    <3>6. \A z : Has(v, z) <=> Has(y, z) /\ z \in C
      BY <2>3, <2>4, <2>6, <3>4
    <3>7. y \in T
      BY <2>1, <3>2, <3>5, <3>6
    <3>. QED BY <3>7 DEF y
  <2>7. CASE r \notin C
    <3>1. Chosen(y, C) = w
      BY <2>2, <2>7
    <3>2. \A z : Has(w, z) <=> Has(y, z) /\ z \in C
      BY <2>3, <2>4, <2>7
    <3>3. y \in T
      BY <2>1, <2>3, <2>5, <3>1, <3>2
    <3>. QED BY <3>3 DEF y
  <2>. QED BY <2>6, <2>7 DEF y
<1> HIDE DEF T
<1>3. \A x \in Seq(S) : x \in T
  BY <1>1, <1>2, SeqInduct
<1>. QED BY <1>3 DEF T

\* g of each element.
Mapped(g, x) == [k \in 1 .. Len(x) |-> g[x[k]]]

IsMapped(m, g, x) == Len(m) = Len(x) /\ \A k \in 1 .. Len(x) : m[k] = g[x[k]]
IsBetween(g, S, D) == \A s \in S : g[s] \in D

LEMMA MappedFacts ==
  ASSUME NEW S, NEW D, NEW g, IsBetween(g, S, D), NEW x \in Seq(S)
  PROVE  Mapped(g, x) \in Seq(D) /\ IsMapped(Mapped(g, x), g, x)
<1>1. Len(x) \in Nat /\ \A k \in 1 .. Len(x) : x[k] \in S
  OBVIOUS
<1>2. Mapped(g, x) \in [1 .. Len(x) -> D]
  BY <1>1 DEF Mapped, IsBetween
<1>3. Mapped(g, x) \in Seq(D) /\ Len(Mapped(g, x)) = Len(x)
  BY <1>1, <1>2
<1>. QED BY <1>3 DEF Mapped, IsMapped

LEMMA MappedAppend ==
  ASSUME NEW S, NEW D, NEW g, IsBetween(g, S, D), NEW x \in Seq(S), NEW r \in S
  PROVE  Mapped(g, Append(x, r)) = Append(Mapped(g, x), g[r])
<1> DEFINE y == Append(x, r)
           m == Mapped(g, x)
<1>1. /\ y \in Seq(S) /\ Len(y) = Len(x) + 1 /\ Len(x) \in Nat /\ y[Len(x) + 1] = r
      /\ \A k \in 1 .. Len(x) : y[k] = x[k]
  OBVIOUS
<1>2. m \in Seq(D) /\ Len(m) = Len(x) /\ \A k \in 1 .. Len(x) : m[k] = g[x[k]]
  <2>1. m \in Seq(D) /\ IsMapped(m, g, x)
    BY MappedFacts
  <2>. QED BY <2>1 DEF IsMapped
<1> HIDE DEF y, m
<1>3. /\ Mapped(g, y) \in Seq(D) /\ Len(Mapped(g, y)) = Len(x) + 1
      /\ \A k \in 1 .. Len(x) + 1 : Mapped(g, y)[k] = g[y[k]]
  <2>1. Mapped(g, y) \in Seq(D) /\ IsMapped(Mapped(g, y), g, y)
    BY <1>1, MappedFacts
  <2>. QED BY <1>1, <2>1 DEF IsMapped
<1>. g[r] \in D
  BY DEF IsBetween
<1> DEFINE v == Append(m, g[r])
<1>4. /\ v \in Seq(D) /\ Len(v) = Len(x) + 1 /\ v[Len(x) + 1] = g[r]
      /\ \A k \in 1 .. Len(x) : v[k] = m[k]
  BY <1>1, <1>2
<1> HIDE DEF v
<1>5. ASSUME NEW k \in 1 .. Len(x) + 1 PROVE Mapped(g, y)[k] = v[k]
  <2>1. CASE k = Len(x) + 1
    BY <1>1, <1>3, <1>4, <2>1
  <2>2. CASE k # Len(x) + 1
    <3>1. k \in 1 .. Len(x)
      BY <1>1, <2>2
    <3>2. Mapped(g, y)[k] = g[y[k]] /\ y[k] = x[k]
      BY <1>1, <1>3, <3>1
    <3>3. v[k] = m[k] /\ m[k] = g[x[k]]
      BY <1>2, <1>4, <3>1
    <3>. QED BY <3>2, <3>3
  <2>. QED BY <2>1, <2>2
<1>6. Mapped(g, y) = v
  BY <1>3, <1>4, <1>5, SeqEqual
<1>. QED BY <1>6 DEF y, v, m

\* Choosing by the images is choosing by the elements.
LEMMA ChosenMapped ==
  ASSUME NEW S, NEW D, NEW g, IsBetween(g, S, D), NEW B, NEW C,
         \A s \in S : s \in B <=> g[s] \in C
  PROVE  \A x \in Seq(S) : Chosen(Mapped(g, x), C) = Mapped(g, Chosen(x, B))
<1> DEFINE T == {x \in Seq(S) : Chosen(Mapped(g, x), C) = Mapped(g, Chosen(x, B))}
<1>1. <<>> \in T
  <2>1. <<>> \in Seq(S) /\ Len(<<>>) = 0
    OBVIOUS
  <2>2. Mapped(g, <<>>) = <<>>
    BY <2>1 DEF Mapped
  <2>. QED BY <2>1, <2>2, ChosenEmpty
<1>2. ASSUME NEW x \in Seq(S), NEW r \in S, x \in T PROVE Append(x, r) \in T
  <2>1. Append(x, r) \in Seq(S) /\ Mapped(g, x) \in Seq(D) /\ Chosen(x, B) \in Seq(S)
    BY MappedFacts, ChosenType
  <2>. g[r] \in D
    BY DEF IsBetween
  <2>2. Mapped(g, Append(x, r)) = Append(Mapped(g, x), g[r])
    BY MappedAppend
  <2> DEFINE m == Mapped(g, x)
             e == g[r]
  <2>3. /\ m \in Seq(D) /\ e \in D
    BY <2>1
  <2> HIDE DEF m, e
  <2>4. Chosen(Append(m, e), C) = IF e \in C THEN Append(Chosen(m, C), e) ELSE Chosen(m, C)
    BY <2>3, ChosenAppend
  <2> USE DEF m, e
  <2>5. Chosen(Append(x, r), B) = IF r \in B THEN Append(Chosen(x, B), r) ELSE Chosen(x, B)
    BY ChosenAppend
  <2>6. Mapped(g, Append(Chosen(x, B), r)) = Append(Mapped(g, Chosen(x, B)), g[r])
    BY <2>1, MappedAppend
  <2>7. Chosen(Mapped(g, x), C) = Mapped(g, Chosen(x, B))
    BY <1>2
  <2>8. Chosen(Mapped(g, Append(x, r)), C) = Mapped(g, Chosen(Append(x, r), B))
    <3>1. CASE r \in B
      <4>1. g[r] \in C
        BY <3>1
      <4>. QED BY <2>2, <2>4, <2>5, <2>6, <2>7, <3>1, <4>1
    <3>2. CASE r \notin B
      <4>1. g[r] \notin C
        BY <3>2
      <4>. QED BY <2>2, <2>4, <2>5, <2>7, <3>2, <4>1
    <3>. QED BY <3>1, <3>2
  <2>. QED BY <2>1, <2>8
<1> HIDE DEF T
<1>3. \A x \in Seq(S) : x \in T
  BY <1>1, <1>2, SeqInduct
<1>. QED BY <1>3 DEF T

\* Choosing of what was chosen.
LEMMA ChosenChosen ==
  ASSUME NEW S, NEW A, NEW B, B \subseteq A
  PROVE  \A x \in Seq(S) : Chosen(Chosen(x, A), B) = Chosen(x, B)
<1> DEFINE T == {x \in Seq(S) : Chosen(Chosen(x, A), B) = Chosen(x, B)}
<1>1. <<>> \in T
  BY ChosenEmpty
<1>2. ASSUME NEW x \in Seq(S), NEW r \in S, x \in T PROVE Append(x, r) \in T
  <2>1. Append(x, r) \in Seq(S) /\ Chosen(x, A) \in Seq(S)
    BY ChosenType
  <2>2. Chosen(Append(x, r), A) = IF r \in A THEN Append(Chosen(x, A), r) ELSE Chosen(x, A)
    BY ChosenAppend
  <2>3. Chosen(Append(x, r), B) = IF r \in B THEN Append(Chosen(x, B), r) ELSE Chosen(x, B)
    BY ChosenAppend
  <2> DEFINE y == Chosen(x, A)
  <2> HIDE DEF y
  <2>4. Chosen(Append(y, r), B) = IF r \in B THEN Append(Chosen(y, B), r) ELSE Chosen(y, B)
    BY <2>1, ChosenAppend DEF y
  <2>5. Chosen(y, B) = Chosen(x, B)
    BY <1>2 DEF y
  <2>6. CASE r \in A
    <3>1. Chosen(Append(x, r), A) = Append(y, r)
      BY <2>2, <2>6 DEF y
    <3>2. Chosen(Append(y, r), B) = Chosen(Append(x, r), B)
      BY <2>3, <2>4, <2>5
    <3>. QED BY <2>1, <3>1, <3>2
  <2>7. CASE r \notin A
    <3>1. Chosen(Append(x, r), A) = y /\ Chosen(Append(x, r), B) = Chosen(x, B)
      BY <2>2, <2>3, <2>7 DEF y
    <3>. QED BY <2>1, <2>5, <3>1
  <2>. QED BY <2>6, <2>7
<1> HIDE DEF T
<1>3. \A x \in Seq(S) : x \in T
  BY <1>1, <1>2, SeqInduct
<1>. QED BY <1>3 DEF T

\* Mapping two sequences, one after the other.
LEMMA MappedConcat ==
  ASSUME NEW S, NEW D, NEW g, IsBetween(g, S, D), NEW x \in Seq(S), NEW y \in Seq(S)
  PROVE  Mapped(g, x) \o Mapped(g, y) = Mapped(g, x \o y)
<1> DEFINE u == Mapped(g, x)
           v == Mapped(g, y)
           z == x \o y
           m == Mapped(g, z)
           n == Len(x) + Len(y)
<1>1. /\ z \in Seq(S) /\ Len(z) = n /\ Len(x) \in Nat /\ Len(y) \in Nat
      /\ \A k \in 1 .. n : z[k] = IF k <= Len(x) THEN x[k] ELSE y[k - Len(x)]
  BY ConcatProperties
<1>2. u \in Seq(D) /\ Len(u) = Len(x) /\ \A k \in 1 .. Len(x) : u[k] = g[x[k]]
  BY MappedFacts DEF IsMapped
<1>3. v \in Seq(D) /\ Len(v) = Len(y) /\ \A k \in 1 .. Len(y) : v[k] = g[y[k]]
  BY MappedFacts DEF IsMapped
<1> HIDE DEF u, v, z
<1>4. m \in Seq(D) /\ Len(m) = n /\ \A k \in 1 .. n : m[k] = g[z[k]]
  <2>1. m \in Seq(D) /\ Len(m) = Len(z) /\ \A k \in 1 .. Len(z) : m[k] = g[z[k]]
    BY <1>1, MappedFacts DEF IsMapped
  <2>. QED BY <1>1, <2>1
<1> HIDE DEF m
<1>5. u \o v \in Seq(D) /\ Len(u \o v) = n
      /\ \A k \in 1 .. n : (u \o v)[k] = IF k <= Len(x) THEN u[k] ELSE v[k - Len(x)]
  <2>1. u \o v \in Seq(D) /\ Len(u \o v) = Len(u) + Len(v)
        /\ \A k \in 1 .. Len(u) + Len(v) :
             (u \o v)[k] = IF k <= Len(u) THEN u[k] ELSE v[k - Len(u)]
    BY <1>2, <1>3, ConcatProperties
  <2>2. Len(u) = Len(x) /\ Len(u) + Len(v) = n
    BY <1>2, <1>3
  <2>. QED BY <2>1, <2>2
<1>6. ASSUME NEW k \in 1 .. n PROVE (u \o v)[k] = m[k]
  <2>1. CASE k <= Len(x)
    <3>1. k \in 1 .. Len(x)
      BY <1>1, <2>1
    <3>2. (u \o v)[k] = u[k] /\ u[k] = g[x[k]]
      BY <1>2, <1>5, <2>1, <3>1
    <3>3. m[k] = g[z[k]] /\ z[k] = x[k]
      BY <1>1, <1>4, <2>1
    <3>. QED BY <3>2, <3>3
  <2>2. CASE ~(k <= Len(x))
    <3>1. k - Len(x) \in 1 .. Len(y)
      BY <1>1, <2>2
    <3>2. (u \o v)[k] = v[k - Len(x)] /\ v[k - Len(x)] = g[y[k - Len(x)]]
      BY <1>3, <1>5, <2>2, <3>1
    <3>3. m[k] = g[z[k]] /\ z[k] = y[k - Len(x)]
      BY <1>1, <1>4, <2>2
    <3>. QED BY <3>2, <3>3
  <2>. QED BY <2>1, <2>2
<1> HIDE DEF n
<1>7. u \o v = m
  BY <1>4, <1>5, <1>6, SeqEqual
<1>. QED BY <1>7 DEF u, v, m, z
===============================================================================
