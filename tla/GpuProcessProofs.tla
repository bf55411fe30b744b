---------------------------- MODULE GpuProcessProofs ----------------------------
(***************************************************************************)
(* StatesSurvive, ReportIsExact and the safety part of the refinement of   *)
(* CommittedPrefix, proved for every input, every size of the native       *)
(* batches, every device and every number of modules.                      *)
(***************************************************************************)
EXTENDS GpuProcessInvariant, SequenceTheorems, TLAPS

-------------------------------------------------------------------------------
(* Where states are, as values.                                             *)

IsHeld(h) == h = [x \in Homes |-> [k \in Keys |-> h[x][k]]]

\* Every copy is the expected state, and every expected state has a copy.
Consistent(h, e) ==
  \A k \in Keys :
    /\ \A x \in Homes : h[x][k] # None => h[x][k] = e[k]
    /\ e[k] # None => \E x \in Homes : h[x][k] # None

After(e, rows) ==
  [k \in Keys |-> IF k \in KeysOf(rows) THEN Folded(e[k], k, rows) ELSE e[k]]

LEMMA SourceIsExpected ==
  ASSUME NEW h, NEW e, Consistent(h, e)
  PROVE  \A k \in Keys : Source(h, k) = e[k]
<1>. SUFFICES ASSUME NEW k \in Keys PROVE Source(h, k) = e[k]
  OBVIOUS
<1>1. \A x \in Homes : h[x][k] # None => h[x][k] = e[k]
  BY DEF Consistent
<1>2. CASE e[k] = None
  <2>1. \A x \in Homes : h[x][k] = None
    BY <1>1, <1>2
  <2>. QED BY <1>2, <2>1 DEF Source, Homes
<1>3. CASE e[k] # None
  <2>1. \E x \in Homes : h[x][k] # None
    BY <1>3 DEF Consistent
  <2>. QED BY <1>1, <2>1 DEF Source, Homes
<1>. QED BY <1>2, <1>3

LEMMA FoldedIsAState ==
  ASSUME NEW state, NEW k, NEW rows
  PROVE  Folded(state, k, rows) # None
BY DEF Folded, State, None

LEMMA NextIsExpected ==
  ASSUME NEW h, NEW e, NEW rows, Consistent(h, e)
  PROVE  \A k \in Keys : NextStates(h, rows)[k] = After(e, rows)[k]
BY SourceIsExpected DEF NextStates, After

LEMMA MovedAt ==
  ASSUME NEW h, NEW keys, NEW home, NEW value, NEW left
  PROVE  /\ IsHeld(Moved(h, keys, home, value, left))
         /\ \A x \in Homes, k \in Keys :
              Moved(h, keys, home, value, left)[x][k] =
                IF k \notin keys THEN h[x][k]
                ELSE IF x = home THEN value[k]
                ELSE IF x \in left THEN None
                ELSE h[x][k]
BY DEF Moved, IsHeld

\* The states of some keys are copied from one home to another, or stay where
\* they are, while other copies go.
LEMMA MovedIsConsistent ==
  ASSUME NEW h, NEW e, Consistent(h, e),
         NEW keys, NEW home \in Homes, NEW value, NEW left,
         \A k \in Keys : k \in keys => value[k] = e[k] /\ value[k] # None
  PROVE  Consistent(Moved(h, keys, home, value, left), e)
<1> DEFINE m == Moved(h, keys, home, value, left)
<1>1. \A x \in Homes, k \in Keys :
        m[x][k] = IF k \notin keys THEN h[x][k]
                  ELSE IF x = home THEN value[k]
                  ELSE IF x \in left THEN None
                  ELSE h[x][k]
  BY MovedAt
<1>. HIDE DEF m
<1>. SUFFICES ASSUME NEW k \in Keys
     PROVE  /\ \A x \in Homes : m[x][k] # None => m[x][k] = e[k]
            /\ e[k] # None => \E x \in Homes : m[x][k] # None
  BY DEF Consistent, m
<1>2. CASE k \in keys
  <2>1. m[home][k] = value[k] /\ value[k] = e[k] /\ value[k] # None
    BY <1>1, <1>2
  <2>2. \A x \in Homes : m[x][k] \in {value[k], None, h[x][k]}
    BY <1>1, <1>2
  <2>. QED BY <2>1, <2>2 DEF Consistent
<1>3. CASE k \notin keys
  <2>1. \A x \in Homes : m[x][k] = h[x][k]
    BY <1>1, <1>3
  <2>. QED BY <2>1 DEF Consistent
<1>. QED BY <1>2, <1>3

\* Some copies go; another is left of each state.
LEMMA RemovedIsConsistent ==
  ASSUME NEW h, NEW e, Consistent(h, e), NEW keys, NEW home, NEW value, NEW left,
         home \notin Homes,
         \A k \in Keys : k \in keys =>
           \E x \in Homes : x \notin left /\ h[x][k] # None
  PROVE  Consistent(Moved(h, keys, home, value, left), e)
<1> DEFINE m == Moved(h, keys, home, value, left)
<1>1. \A x \in Homes, k \in Keys :
        m[x][k] = IF k \notin keys THEN h[x][k]
                  ELSE IF x \in left THEN None
                  ELSE h[x][k]
  BY MovedAt
<1>. HIDE DEF m
<1>. SUFFICES ASSUME NEW k \in Keys
     PROVE  /\ \A x \in Homes : m[x][k] # None => m[x][k] = e[k]
            /\ e[k] # None => \E x \in Homes : m[x][k] # None
  BY DEF Consistent, m
<1>2. \A x \in Homes : h[x][k] # None => h[x][k] = e[k]
  BY DEF Consistent
<1>3. \A x \in Homes : m[x][k] # None => m[x][k] = e[k]
  BY <1>1, <1>2
<1>4. CASE k \in keys
  <2>1. \E x \in Homes : x \notin left /\ h[x][k] # None
    BY <1>4
  <2>. QED BY <1>1, <1>3, <2>1
<1>5. CASE k \notin keys
  <2>1. e[k] # None => \E x \in Homes : h[x][k] # None
    BY DEF Consistent
  <2>. QED BY <1>1, <1>3, <1>5, <2>1
<1>. QED BY <1>4, <1>5

Empty(h, x) == \A k \in Keys : h[x][k] = None

LEMMA EmptyMeansNone ==
  ASSUME NEW h, NEW x
  PROVE  IsEmpty(h, x) <=> Empty(h, x)
BY DEF IsEmpty, KeysIn, Empty

\* A batch in the arena.
LEMMA ArenaCommitIsConsistent ==
  ASSUME NEW h, NEW e, NEW rows, Consistent(h, e), Empty(h, "resident")
  PROVE  /\ IsHeld(ArenaCommit(h, rows))
         /\ Consistent(ArenaCommit(h, rows), After(e, rows))
<1> DEFINE K == KeysOf(rows)
           N == NextStates(h, rows)
           s == ArenaScatter(h, K, N)
           c == ArenaCommit(h, rows)
<1>1. \A k \in Keys : N[k] = After(e, rows)[k]
  BY NextIsExpected
<1>2. \A x \in Homes, k \in Keys :
        s[x][k] = IF k \notin K THEN h[x][k] ELSE IF x = "arena" THEN N[k] ELSE h[x][k]
  BY MovedAt DEF ArenaScatter
<1>3. IsHeld(c) /\ \A x \in Homes, k \in Keys :
        c[x][k] = IF k \notin K THEN s[x][k]
                  ELSE IF x = "none" THEN s["deferred"][k]
                  ELSE IF x \in Host \cup {"deferred"} THEN None
                  ELSE s[x][k]
  BY MovedAt DEF ArenaCommit, DeferredRemove
<1>. SUFFICES ASSUME NEW k \in Keys
     PROVE  /\ \A x \in Homes : c[x][k] # None => c[x][k] = After(e, rows)[k]
            /\ After(e, rows)[k] # None => \E x \in Homes : c[x][k] # None
  BY <1>3 DEF Consistent
<1>4. CASE k \in K
  <2>1. After(e, rows)[k] = Folded(e[k], k, rows)
    BY <1>4 DEF After
  <2>2. After(e, rows)[k] # None
    BY <2>1, FoldedIsAState
  <2>3. s["arena"][k] = After(e, rows)[k] /\ s["resident"][k] = None
    BY <1>1, <1>2, <1>4 DEF Homes, Empty
  <2>4. /\ c["arena"][k] = After(e, rows)[k] /\ c["resident"][k] = None
        /\ c["canonical"][k] = None /\ c["flat"][k] = None /\ c["deferred"][k] = None
    BY <1>3, <1>4, <2>3 DEF Homes, Host
  <2>. QED BY <2>2, <2>4 DEF Homes
<1>5. CASE k \notin K
  <2>1. After(e, rows)[k] = e[k]
    BY <1>5 DEF After
  <2>2. \A x \in Homes : c[x][k] = h[x][k]
    BY <1>2, <1>3, <1>5
  <2>. QED BY <2>1, <2>2 DEF Consistent
<1>. QED BY <1>4, <1>5

\* A batch in the working set.
LEMMA DecodedAt ==
  ASSUME NEW h, NEW rows
  PROVE  /\ IsHeld(DecodeResident(h, rows))
         /\ \A x \in Homes, k \in Keys :
              DecodeResident(h, rows)[x][k] =
                IF k \in KeysOf(rows)
                THEN IF x \in Host \cup {"deferred"} THEN None ELSE h[x][k]
                ELSE IF h["resident"][k] # None
                     THEN IF x = "deferred" THEN h["resident"][k]
                          ELSE IF x \in Host THEN None ELSE h[x][k]
                     ELSE h[x][k]
<1> DEFINE K == KeysOf(rows)
           E == Evicted(h, rows)
           i == DeferredInsert(h, E, h["resident"])
           d == DecodeResident(h, rows)
<1>1. \A x \in Homes, k \in Keys :
        i[x][k] = IF k \notin E THEN h[x][k]
                  ELSE IF x = "deferred" THEN h["resident"][k]
                  ELSE IF x \in Host THEN None
                  ELSE h[x][k]
  BY MovedAt DEF DeferredInsert
<1>2. IsHeld(d) /\ \A x \in Homes, k \in Keys :
        d[x][k] = IF k \notin K THEN i[x][k]
                  ELSE IF x = "none" THEN i["deferred"][k]
                  ELSE IF x \in Host \cup {"deferred"} THEN None
                  ELSE i[x][k]
  BY MovedAt DEF DecodeResident, DeferredRemove
<1>3. \A k \in Keys : k \in E <=> h["resident"][k] # None /\ k \notin K
  BY DEF Evicted, KeysIn
<1>. HIDE DEF i, d, E, K
<1>4. \A x \in Homes, k \in Keys : k \in K =>
        d[x][k] = IF x \in Host \cup {"deferred"} THEN None ELSE h[x][k]
  BY <1>1, <1>2, <1>3 DEF Homes
<1>5. \A x \in Homes, k \in Keys : k \notin K =>
        d[x][k] = IF h["resident"][k] # None
                  THEN IF x = "deferred" THEN h["resident"][k]
                       ELSE IF x \in Host THEN None ELSE h[x][k]
                  ELSE h[x][k]
  BY <1>1, <1>2, <1>3
<1>. QED BY <1>2, <1>4, <1>5 DEF d, K

LEMMA ResidentIsHeld ==
  ASSUME NEW h, NEW rows, Empty(h, "arena")
  PROVE  IsHeld(ResidentCommit(h, rows)) /\ Empty(ResidentCommit(h, rows), "arena")
<1> DEFINE d == DecodeResident(h, rows)
           c == ResidentCommit(h, rows)
           w == [k \in Keys |-> IF k \in KeysOf(rows) THEN NextStates(h, rows)[k]
                                ELSE None]
<1>1. IsHeld(d) /\ \A k \in Keys : d["arena"][k] = None
  BY DecodedAt DEF Empty, Homes, Host
<1>2. c = [d EXCEPT !["resident"] = w]
  BY DEF ResidentCommit
<1>. HIDE DEF d, c
<1>3. IsHeld(c) /\ c["arena"] = d["arena"]
  BY <1>1, <1>2 DEF IsHeld, Homes
<1>. QED BY <1>1, <1>3 DEF Empty, c

LEMMA ResidentCommitIsConsistent ==
  ASSUME NEW h, NEW e, NEW rows, Consistent(h, e), Empty(h, "arena")
  PROVE  /\ IsHeld(ResidentCommit(h, rows))
         /\ Consistent(ResidentCommit(h, rows), After(e, rows))
         /\ Empty(ResidentCommit(h, rows), "arena")
<1> DEFINE K == KeysOf(rows)
           N == NextStates(h, rows)
           d == DecodeResident(h, rows)
           c == ResidentCommit(h, rows)
           w == [k \in Keys |-> IF k \in K THEN N[k] ELSE None]
<1>1. \A k \in Keys : N[k] = After(e, rows)[k]
  BY NextIsExpected
<1>2. IsHeld(d) /\ \A x \in Homes, k \in Keys :
        d[x][k] = IF k \in K
                  THEN IF x \in Host \cup {"deferred"} THEN None ELSE h[x][k]
                  ELSE IF h["resident"][k] # None
                       THEN IF x = "deferred" THEN h["resident"][k]
                            ELSE IF x \in Host THEN None ELSE h[x][k]
                       ELSE h[x][k]
  BY DecodedAt
<1>3. c = [d EXCEPT !["resident"] = w]
  BY DEF ResidentCommit
<1>. HIDE DEF N, d, c
<1>4. IsHeld(c) /\ c["resident"] = w
      /\ \A x \in Homes : x # "resident" => c[x] = d[x]
  BY <1>2, <1>3 DEF IsHeld, Homes
<1>. HIDE DEF w
<1>5. \A k \in Keys : w[k] = IF k \in K THEN N[k] ELSE None
  BY DEF w
<1>6. Empty(c, "arena")
  BY <1>2, <1>4 DEF Empty, Homes, Host
<1>. SUFFICES ASSUME NEW k \in Keys
     PROVE  /\ \A x \in Homes : c[x][k] # None => c[x][k] = After(e, rows)[k]
            /\ After(e, rows)[k] # None => \E x \in Homes : c[x][k] # None
  BY <1>4, <1>6 DEF Consistent, c
<1>7. CASE k \in K
  <2>1. After(e, rows)[k] = Folded(e[k], k, rows)
    BY <1>7 DEF After
  <2>2. After(e, rows)[k] # None
    BY <2>1, FoldedIsAState
  <2>3. c["resident"][k] = After(e, rows)[k]
    BY <1>1, <1>4, <1>5, <1>7
  <2>4. \A x \in Homes : x # "resident" => c[x][k] = None
    BY <1>2, <1>4, <1>7 DEF Homes, Host, Empty
  <2>. QED BY <2>2, <2>3, <2>4 DEF Homes
<1>8. CASE k \notin K
  <2>1. After(e, rows)[k] = e[k]
    BY <1>8 DEF After
  <2>2. c["resident"][k] = None
    BY <1>4, <1>5, <1>8
  <2>3. CASE h["resident"][k] # None
    <3>1. \A x \in Homes : x # "resident" =>
            c[x][k] = IF x = "deferred" THEN h["resident"][k] ELSE None
      BY <1>2, <1>4, <1>8, <2>3 DEF Homes, Host, Empty
    <3>2. h["resident"][k] = e[k]
      BY <2>3 DEF Consistent, Homes
    <3>. QED BY <2>1, <2>2, <2>3, <3>1, <3>2 DEF Homes
  <2>4. CASE h["resident"][k] = None
    <3>1. \A x \in Homes : c[x][k] = h[x][k]
      BY <1>2, <1>4, <1>8, <2>2, <2>4
    <3>. QED BY <2>1, <3>1 DEF Consistent
  <2>. QED BY <2>3, <2>4
<1>. QED BY <1>7, <1>8

\* A batch on the CPU.
LEMMA CpuCommitIsConsistent ==
  ASSUME NEW h, NEW e, NEW rows, Consistent(h, e),
         Empty(h, "resident"), Empty(h, "arena"), Empty(h, "deferred")
  PROVE  /\ IsHeld(CpuCommit(h, rows))
         /\ Consistent(CpuCommit(h, rows), After(e, rows))
         /\ Empty(CpuCommit(h, rows), "resident")
         /\ Empty(CpuCommit(h, rows), "arena")
         /\ Empty(CpuCommit(h, rows), "deferred")
<1> DEFINE K == KeysOf(rows)
           N == NextStates(h, rows)
           f == MaterializeFlat(h)
           c == CpuCommit(h, rows)
<1>1. \A k \in Keys : N[k] = After(e, rows)[k]
  BY NextIsExpected
<1>2. \A x \in Homes, k \in Keys :
        f[x][k] = IF k \notin KeysIn(h, "flat") THEN h[x][k]
                  ELSE IF x = "canonical" THEN h["flat"][k]
                  ELSE IF x \in {"flat"} THEN None
                  ELSE h[x][k]
  BY MovedAt DEF MaterializeFlat
<1>3. IsHeld(c) /\ \A x \in Homes, k \in Keys :
        c[x][k] = IF k \notin K THEN f[x][k]
                  ELSE IF x = "canonical" THEN N[k]
                  ELSE IF x \in {"flat"} THEN None
                  ELSE f[x][k]
  BY MovedAt DEF CpuCommit
<1>4. \A k \in Keys : k \in KeysIn(h, "flat") => h["flat"][k] = e[k] /\ h["flat"][k] # None
  BY DEF KeysIn, Consistent, Homes
<1>5. Consistent(f, e)
  BY <1>4, MovedIsConsistent DEF MaterializeFlat, Homes
<1>. HIDE DEF N, f, c, K
<1>6. Empty(f, "resident") /\ Empty(f, "arena") /\ Empty(f, "deferred")
  BY <1>2 DEF Empty, Homes
<1>7. Empty(c, "resident") /\ Empty(c, "arena") /\ Empty(c, "deferred")
  BY <1>3, <1>6 DEF Empty, Homes
<1>. SUFFICES ASSUME NEW k \in Keys
     PROVE  /\ \A x \in Homes : c[x][k] # None => c[x][k] = After(e, rows)[k]
            /\ After(e, rows)[k] # None => \E x \in Homes : c[x][k] # None
  BY <1>3, <1>7 DEF Consistent, c
<1>8. CASE k \in K
  <2>1. After(e, rows)[k] = Folded(e[k], k, rows)
    BY <1>8 DEF After, K
  <2>2. After(e, rows)[k] # None
    BY <2>1, FoldedIsAState
  <2>3. c["canonical"][k] = After(e, rows)[k] /\ c["flat"][k] = None
    BY <1>1, <1>3, <1>8 DEF Homes
  <2>. QED BY <1>7, <2>2, <2>3 DEF Homes, Empty
<1>9. CASE k \notin K
  <2>1. After(e, rows)[k] = e[k]
    BY <1>9 DEF After, K
  <2>2. \A x \in Homes : c[x][k] = f[x][k]
    BY <1>3, <1>9
  <2>. QED BY <1>5, <2>1, <2>2 DEF Consistent
<1>. QED BY <1>8, <1>9

\* The working set of a module goes to the deferred states.
SavedResident(h, keys) ==
  Moved(DeferredInsert(h, keys, h["resident"]), keys, "none", h["deferred"], {"resident"})

LEMMA SavedResidentIsHeld ==
  ASSUME NEW h, NEW keys
  PROVE  /\ IsHeld(SavedResident(h, keys))
         /\ \A k \in Keys : SavedResident(h, keys)["arena"][k] = h["arena"][k]
<1> DEFINE i == DeferredInsert(h, keys, h["resident"])
           s == SavedResident(h, keys)
<1>1. \A x \in Homes, k \in Keys :
        i[x][k] = IF k \notin keys THEN h[x][k]
                  ELSE IF x = "deferred" THEN h["resident"][k]
                  ELSE IF x \in Host THEN None
                  ELSE h[x][k]
  BY MovedAt DEF DeferredInsert
<1>2. IsHeld(s) /\ \A x \in Homes, k \in Keys :
        s[x][k] = IF k \notin keys THEN i[x][k]
                  ELSE IF x = "none" THEN h["deferred"][k]
                  ELSE IF x \in {"resident"} THEN None
                  ELSE i[x][k]
  BY MovedAt DEF SavedResident
<1>. QED BY <1>1, <1>2 DEF Homes, Host

LEMMA SavedResidentIsConsistent ==
  ASSUME NEW h, NEW e, Consistent(h, e), NEW keys,
         keys \subseteq KeysIn(h, "resident")
  PROVE  /\ IsHeld(SavedResident(h, keys))
         /\ Consistent(SavedResident(h, keys), e)
         /\ \A k \in Keys : SavedResident(h, keys)["arena"][k] = h["arena"][k]
<1> DEFINE i == DeferredInsert(h, keys, h["resident"])
           s == SavedResident(h, keys)
<1>1. \A x \in Homes, k \in Keys :
        i[x][k] = IF k \notin keys THEN h[x][k]
                  ELSE IF x = "deferred" THEN h["resident"][k]
                  ELSE IF x \in Host THEN None
                  ELSE h[x][k]
  BY MovedAt DEF DeferredInsert
<1>2. IsHeld(s) /\ \A x \in Homes, k \in Keys :
        s[x][k] = IF k \notin keys THEN i[x][k]
                  ELSE IF x = "none" THEN h["deferred"][k]
                  ELSE IF x \in {"resident"} THEN None
                  ELSE i[x][k]
  BY MovedAt DEF SavedResident
<1>3. \A k \in Keys : k \in keys =>
        h["resident"][k] = e[k] /\ h["resident"][k] # None
  BY DEF KeysIn, Consistent, Homes
<1>4. Consistent(i, e)
  BY <1>3, MovedIsConsistent DEF DeferredInsert, Homes
<1>5. \A k \in Keys : k \in keys => i["deferred"][k] # None
  BY <1>1, <1>3 DEF Homes
<1>6. "none" \notin Homes /\ "deferred" \in Homes /\ "deferred" \notin {"resident"}
  BY DEF Homes
<1>. HIDE DEF i
<1>7. \A k \in Keys : k \in keys =>
        \E x \in Homes : x \notin {"resident"} /\ i[x][k] # None
  BY <1>5, <1>6
<1>8. Consistent(Moved(i, keys, "none", h["deferred"], {"resident"}), e)
  BY <1>4, <1>6, <1>7, RemovedIsConsistent
<1>9. \A k \in Keys : s["arena"][k] = h["arena"][k]
  BY <1>1, <1>2 DEF Homes, Host
<1>. QED BY <1>2, <1>8, <1>9 DEF SavedResident, i

\* A chunk of the arena is read to the canonical maps.
LEMMA ReadChunkIsConsistent ==
  ASSUME NEW h, NEW e, Consistent(h, e), NEW keys, keys \subseteq KeysIn(h, "arena")
  PROVE  /\ IsHeld(InsertModuleStates(h, keys, h["arena"]))
         /\ Consistent(InsertModuleStates(h, keys, h["arena"]), e)
         /\ \A x \in Homes, k \in Keys :
              InsertModuleStates(h, keys, h["arena"])[x][k] =
                IF k \notin keys THEN h[x][k]
                ELSE IF x = "canonical" THEN h["arena"][k]
                ELSE IF x \in {"flat"} THEN None
                ELSE h[x][k]
<1>1. \A k \in Keys : k \in keys => h["arena"][k] = e[k] /\ h["arena"][k] # None
  BY DEF KeysIn, Consistent, Homes
<1>2. "canonical" \in Homes
  BY DEF Homes
<1>3. Consistent(Moved(h, keys, "canonical", h["arena"], {"flat"}), e)
  BY <1>1, <1>2, MovedIsConsistent
<1>. QED BY <1>3, MovedAt DEF InsertModuleStates

\* The end of a synchronization, once the arena was read.
DrainedFrom(h, flat, read) ==
  Cleared(IF flat THEN CommitFlatCpuState(DeferredSynchronize(h), read)
          ELSE DeferredSynchronize(h), "arena")

LEMMA DeferredSynchronizeIsConsistent ==
  ASSUME NEW h, NEW e, Consistent(h, e)
  PROVE  /\ IsHeld(DeferredSynchronize(h))
         /\ Consistent(DeferredSynchronize(h), e)
         /\ Empty(DeferredSynchronize(h), "deferred")
         /\ \A k \in Keys : /\ DeferredSynchronize(h)["arena"][k] = h["arena"][k]
                            /\ DeferredSynchronize(h)["resident"][k] = h["resident"][k]
                            /\ h["canonical"][k] # None =>
                                 DeferredSynchronize(h)["canonical"][k] # None
<1> DEFINE D == KeysIn(h, "deferred")
           d == DeferredSynchronize(h)
<1>1. IsHeld(d) /\ \A x \in Homes, k \in Keys :
        d[x][k] = IF k \notin D THEN h[x][k]
                  ELSE IF x = "canonical" THEN h["deferred"][k]
                  ELSE IF x \in {"deferred"} THEN None
                  ELSE h[x][k]
  BY MovedAt DEF DeferredSynchronize
<1>2. \A k \in Keys : k \in D <=> h["deferred"][k] # None
  BY DEF KeysIn
<1>3. \A k \in Keys : k \in D => h["deferred"][k] = e[k] /\ h["deferred"][k] # None
  BY <1>2 DEF Consistent, Homes
<1>4. "canonical" \in Homes
  BY DEF Homes
<1>5. Consistent(Moved(h, D, "canonical", h["deferred"], {"deferred"}), e)
  BY <1>3, <1>4, MovedIsConsistent
<1>. HIDE DEF D
<1>6. Consistent(d, e)
  BY <1>5 DEF DeferredSynchronize, D
<1>. HIDE DEF d
<1>7. Empty(d, "deferred")
  BY <1>1, <1>2 DEF Empty, Homes
<1>8. \A k \in Keys : /\ d["arena"][k] = h["arena"][k]
                      /\ d["resident"][k] = h["resident"][k]
                      /\ h["canonical"][k] # None => d["canonical"][k] # None
  BY <1>1, <1>2 DEF Homes
<1>. QED BY <1>1, <1>6, <1>7, <1>8 DEF d

LEMMA DrainedIsHeld ==
  ASSUME NEW h, NEW flat, NEW read, Empty(h, "resident")
  PROVE  /\ IsHeld(DrainedFrom(h, flat, read))
         /\ Empty(DrainedFrom(h, flat, read), "resident")
         /\ Empty(DrainedFrom(h, flat, read), "arena")
         /\ Empty(DrainedFrom(h, flat, read), "deferred")
<1> DEFINE d == DeferredSynchronize(h)
           f == IF flat THEN CommitFlatCpuState(d, read) ELSE d
           c == DrainedFrom(h, flat, read)
<1>1. IsHeld(d) /\ \A k \in Keys : d["deferred"][k] = None /\ d["resident"][k] = None
  BY MovedAt DEF DeferredSynchronize, KeysIn, Empty, Homes
<1>. HIDE DEF d
<1>2. IsHeld(CommitFlatCpuState(d, read)) /\ \A x \in Homes, k \in Keys :
        CommitFlatCpuState(d, read)[x][k] =
                  IF k \notin read THEN d[x][k]
                  ELSE IF x = "flat" THEN d["arena"][k]
                  ELSE IF x \in {"canonical"} THEN None
                  ELSE d[x][k]
  BY MovedAt DEF CommitFlatCpuState
<1>3. IsHeld(f) /\ \A k \in Keys : f["deferred"][k] = None /\ f["resident"][k] = None
  <2>1. CASE flat
    BY <1>1, <1>2, <2>1 DEF Homes
  <2>2. CASE ~flat
    BY <1>1, <2>2
  <2>. QED BY <2>1, <2>2
<1>4. c = [f EXCEPT !["arena"] = Nowhere["arena"]]
  BY DEF DrainedFrom, Cleared, d
<1>. HIDE DEF f, c
<1>5. /\ IsHeld(c) /\ \A k \in Keys : c["arena"][k] = None
      /\ c["resident"] = f["resident"] /\ c["deferred"] = f["deferred"]
  BY <1>3, <1>4 DEF IsHeld, Homes, Nowhere
<1>. QED BY <1>3, <1>5 DEF Empty, c

LEMMA DrainedIsConsistent ==
  ASSUME NEW h, NEW e, Consistent(h, e), NEW flat, NEW read,
         Empty(h, "resident"),
         \A k \in Keys : k \in read <=> h["arena"][k] # None,
         ~flat => \A k \in Keys : k \in read => h["canonical"][k] # None
  PROVE  /\ IsHeld(DrainedFrom(h, flat, read))
         /\ Consistent(DrainedFrom(h, flat, read), e)
         /\ Empty(DrainedFrom(h, flat, read), "resident")
         /\ Empty(DrainedFrom(h, flat, read), "arena")
         /\ Empty(DrainedFrom(h, flat, read), "deferred")
<1> DEFINE d == DeferredSynchronize(h)
           f == IF flat THEN CommitFlatCpuState(d, read) ELSE d
           c == DrainedFrom(h, flat, read)
<1>1. /\ IsHeld(d) /\ Consistent(d, e) /\ Empty(d, "deferred")
      /\ \A k \in Keys : /\ d["arena"][k] = h["arena"][k]
                         /\ d["resident"][k] = h["resident"][k]
                         /\ h["canonical"][k] # None => d["canonical"][k] # None
  BY DeferredSynchronizeIsConsistent
<1>. HIDE DEF d
<1>2. \A x \in Homes, k \in Keys :
        CommitFlatCpuState(d, read)[x][k] =
                  IF k \notin read THEN d[x][k]
                  ELSE IF x = "flat" THEN d["arena"][k]
                  ELSE IF x \in {"canonical"} THEN None
                  ELSE d[x][k]
  BY MovedAt DEF CommitFlatCpuState
<1>3. IsHeld(CommitFlatCpuState(d, read))
  BY MovedAt DEF CommitFlatCpuState
<1>4. \A k \in Keys : k \in read => d["arena"][k] = e[k] /\ d["arena"][k] # None
  BY <1>1 DEF Consistent, Homes
<1>5. "flat" \in Homes
  BY DEF Homes
<1>6. Consistent(Moved(d, read, "flat", d["arena"], {"canonical"}), e)
  BY <1>1, <1>4, <1>5, MovedIsConsistent
<1>7. IsHeld(f) /\ Consistent(f, e)
  BY <1>1, <1>3, <1>6 DEF CommitFlatCpuState
<1>8. \A k \in Keys : /\ f["resident"][k] = None /\ f["deferred"][k] = None
                      /\ f["arena"][k] = h["arena"][k]
  <2>1. CASE flat
    BY <1>1, <1>2, <2>1 DEF Homes, Empty
  <2>2. CASE ~flat
    BY <1>1, <2>2 DEF Empty
  <2>. QED BY <2>1, <2>2
<1>9. \A k \in Keys : k \in read => f["canonical"][k] # None \/ f["flat"][k] # None
  <2>1. CASE flat
    BY <1>2, <1>4, <2>1 DEF Homes
  <2>2. CASE ~flat
    BY <1>1, <2>2
  <2>. QED BY <2>1, <2>2
<1>10. c = [f EXCEPT !["arena"] = Nowhere["arena"]]
  BY DEF DrainedFrom, Cleared, d
<1>. HIDE DEF f, c
<1>11. /\ IsHeld(c)
       /\ \A k \in Keys : c["arena"][k] = None
       /\ \A x \in Homes : x # "arena" => c[x] = f[x]
  BY <1>7, <1>10 DEF IsHeld, Homes, Nowhere
<1>12. Empty(c, "resident") /\ Empty(c, "arena") /\ Empty(c, "deferred")
  BY <1>8, <1>11 DEF Empty, Homes
<1>13. ASSUME NEW k \in Keys
       PROVE  /\ \A x \in Homes : c[x][k] # None => c[x][k] = e[k]
              /\ e[k] # None => \E x \in Homes : c[x][k] # None
  <2>1. \A x \in Homes : f[x][k] # None => f[x][k] = e[k]
    BY <1>7 DEF Consistent
  <2>2. \A x \in Homes : c[x][k] # None => c[x][k] = e[k]
    BY <1>11, <2>1
  <2>3. ASSUME e[k] # None PROVE \E x \in Homes : c[x][k] # None
    <3>1. CASE k \in read
      BY <1>9, <1>11, <3>1 DEF Homes
    <3>2. CASE k \notin read
      <4>1. f["arena"][k] = None
        BY <1>8, <3>2
      <4>2. PICK x \in Homes : f[x][k] # None
        BY <1>7, <2>3 DEF Consistent
      <4>3. x # "arena"
        BY <4>1, <4>2
      <4>. QED BY <1>11, <4>2, <4>3
    <3>. QED BY <3>1, <3>2
  <2>. QED BY <2>2, <2>3
<1>. QED BY <1>11, <1>12, <1>13 DEF c, Consistent

-------------------------------------------------------------------------------
(* The native call.                                                         *)

LEMMA JobIsRunning ==
  ASSUME Types
  PROVE  job # NoJob <=> job \in Jobs
BY DEF Types, Jobs, NoJob

LEMMA ClientIsRunning ==
  ASSUME Types
  PROVE  client # NoClient <=> client \in Clients
BY DEF Types, Clients, NoClient

\* What a native step leaves alone.
NativeFrame == UNCHANGED <<client, report, described, interrupted, device>>

\* What it may do to the job, given where the job was and where it goes.
JobAdvances ==
  /\ job \in Jobs /\ job' \in Jobs
  /\ job'.rows = job.rows
  /\ job'.offset + job'.attempt <= Len(job.rows)
  /\ job'.phase # "returned" => job'.result = "none"
  /\ job'.phase = "prefix" => job'.attempt = 0
  /\ job'.result = "ok" /\ job.then # "return" => job'.offset = Len(job.rows)
  /\ job'.result = "ok" /\ job.phase # "sync" => job'.offset = Len(job.rows)
  /\ job'.phase = "sync" /\ job'.then = "return" => job.phase = "sync" /\ job.then = "return"
  /\ job.phase = "sync" /\ job.then = "return" =>
       job'.phase \in {"sync", "returned"} /\ job'.then = "return"
  /\ job'.phase # "sync" => job'.read = {}
  /\ job.phase # "returned"

LEMMA RowsThatAreLeft ==
  ASSUME NEW rows \in Seq(Reviews), NEW o \in Nat, o <= Len(rows)
  PROVE  /\ SubSeq(rows, o + 1, Len(rows)) \in Seq(Reviews)
         /\ Len(SubSeq(rows, o + 1, Len(rows))) = Len(rows) - o
<1>1. Len(rows) \in Nat
  OBVIOUS
<1>2. \A i \in o + 1 .. Len(rows) : rows[i] \in Reviews
  BY <1>1
<1>. QED BY <1>1, <1>2, SubSeqProperties

\* The job of a step, field by field.
Becomes(o, a, f, c, p, t, d, r) ==
  /\ job' \in Jobs
  /\ job'.rows = job.rows /\ job'.offset = o /\ job'.attempt = a
  /\ job'.full = f /\ job'.cleaned = c
  /\ job'.phase = p /\ job'.then = t /\ job'.read = d /\ job'.result = r

LEMMA ReturnsJob ==
  ASSUME job \in Jobs, NEW result \in Results, Returns(result)
  PROVE  Becomes(job.offset, 0, job.full, FALSE, "returned", "return", {}, result)
BY DEF Returns, Becomes, Jobs

LEMMA ChoosePrefixJob ==
  ASSUME Types, WithinBatch, ChoosePrefix
  PROVE  JobAdvances /\ job'.offset = job.offset /\ job'.phase \in {"attempt", "returned"}
         /\ job'.result # "ok"
<1>1. job \in Jobs /\ job.phase = "prefix"
  BY JobIsRunning DEF ChoosePrefix, In, NoJob
<1>2. job.rows \in Seq(Reviews) /\ job.offset \in Nat /\ job.offset <= Len(job.rows)
  BY <1>1 DEF Jobs, WithinBatch, NoJob
<1>3. Len(Rest) = Len(job.rows) - job.offset
  BY <1>2, RowsThatAreLeft DEF Rest
<1>4. PICK n \in 0 .. Len(Rest) :
        IF n = 0 THEN Returns("unavailable")
        ELSE job' = [job EXCEPT !.attempt = n, !.cleaned = FALSE, !.phase = "attempt"]
  BY DEF ChoosePrefix
<1>5. Len(job.rows) \in Nat
  BY <1>2
<1>6. job.result = "none" /\ job.read = {}
  BY <1>1 DEF WithinBatch, Jobs, NoJob
<1>7. n \in Nat /\ n <= Len(job.rows) - job.offset
  BY <1>2, <1>3, <1>5
<1>8. CASE n = 0
  <2>1. Becomes(job.offset, 0, job.full, FALSE, "returned", "return", {}, "unavailable")
    BY <1>1, <1>4, <1>8, ReturnsJob DEF Results
  <2>. QED BY <1>1, <1>2, <1>5, <2>1 DEF JobAdvances, Becomes
<1>9. CASE n # 0
  <2>1. job' = [job EXCEPT !.attempt = n, !.cleaned = FALSE, !.phase = "attempt"]
    BY <1>4, <1>9
  <2>2. job' \in Jobs
    BY <1>1, <1>7, <2>1 DEF Jobs
  <2>3. Becomes(job.offset, n, job.full, FALSE, "attempt", job.then, job.read, "none")
    <3>1. DOMAIN job = {"rows", "offset", "attempt", "full", "cleaned", "phase",
                        "then", "read", "result"}
      BY <1>1 DEF Jobs
    <3>. QED BY <1>6, <2>1, <2>2, <3>1 DEF Becomes
  <2>. QED BY <1>1, <1>2, <1>5, <1>6, <1>7, <2>3 DEF JobAdvances, Becomes
<1>. QED BY <1>8, <1>9

LEMMA JobFacts ==
  ASSUME Types, WithinBatch, NEW phase, phase # "idle", In(phase)
  PROVE  /\ job \in Jobs /\ job.phase = phase
         /\ job.rows \in Seq(Reviews) /\ Len(job.rows) \in Nat
         /\ job.offset \in Nat /\ job.attempt \in Nat
         /\ job.offset + job.attempt <= Len(job.rows)
         /\ phase \in {"attempt", "recover", "prefix", "sync"} => job.result = "none"
         /\ phase # "sync" => job.read = {}
<1>1. job \in Jobs /\ job.phase = phase /\ job # NoJob
  BY JobIsRunning DEF In, NoJob
<1>2. job.rows \in Seq(Reviews) /\ job.offset \in Nat /\ job.attempt \in Nat
  BY <1>1 DEF Jobs
<1>3. Len(job.rows) \in Nat
  BY <1>2
<1>. QED BY <1>1, <1>2, <1>3 DEF WithinBatch

\* The call returns without having committed more.
LEMMA ReturningJob ==
  ASSUME Types, WithinBatch, NEW phase,
         phase \in {"prefix", "attempt", "recover", "sync"}, In(phase),
         NEW result \in Results \ {"ok", "none"}, Returns(result)
  PROVE  /\ JobAdvances /\ job'.offset = job.offset
         /\ job'.phase = "returned" /\ job'.result = result
<1>1. /\ job \in Jobs /\ job.phase = phase
      /\ Len(job.rows) \in Nat /\ job.offset \in Nat /\ job.attempt \in Nat
      /\ job.offset + job.attempt <= Len(job.rows)
  BY JobFacts
<1>2. Becomes(job.offset, 0, job.full, FALSE, "returned", "return", {}, result)
  BY <1>1, ReturnsJob
<1>. QED BY <1>1, <1>2 DEF JobAdvances, Becomes

LEMMA JobEndsJob ==
  ASSUME Types, WithinBatch, JobEnds
  PROVE  JobAdvances /\ job'.offset = job.offset /\ job'.phase = "returned"
<1>1. /\ job \in Jobs /\ job.phase = "prefix"
      /\ job.rows \in Seq(Reviews) /\ Len(job.rows) \in Nat /\ job.offset \in Nat
      /\ job.attempt \in Nat /\ job.offset + job.attempt <= Len(job.rows)
  BY JobFacts DEF JobEnds
<1>2. Len(Rest) = Len(job.rows) - job.offset
  BY <1>1, RowsThatAreLeft DEF Rest
<1>3. Len(Rest) = 0
  BY DEF JobEnds
<1>4. job.offset = Len(job.rows)
  BY <1>1, <1>2, <1>3
<1>5. Becomes(job.offset, 0, job.full, FALSE, "returned", "return", {}, "ok")
  BY <1>1, ReturnsJob DEF JobEnds, Results
<1>. QED BY <1>1, <1>4, <1>5 DEF JobAdvances, Becomes

LEMMA BeginSyncJob ==
  ASSUME Types, WithinBatch, NEW phase, phase \in {"attempt", "recover"}, In(phase),
         NEW then \in {"attempt", "abandoned"}, BeginSync(then)
  PROVE  JobAdvances /\ job'.offset = job.offset /\ job'.phase = "sync" /\ job'.read = {}
<1>1. /\ job \in Jobs /\ job.phase = phase /\ job.result = "none" /\ job.read = {}
      /\ Len(job.rows) \in Nat /\ job.offset \in Nat /\ job.attempt \in Nat
      /\ job.offset + job.attempt <= Len(job.rows)
  BY JobFacts
<1>2. Becomes(job.offset, job.attempt, job.full, job.cleaned, "sync", then,
              job.read, "none")
  BY <1>1 DEF BeginSync, Becomes, Jobs
<1>3. job.phase # "sync" /\ job.phase # "returned" /\ then # "return"
  BY <1>1
<1>4. /\ job' \in Jobs /\ job'.rows = job.rows /\ job'.offset = job.offset
      /\ job'.attempt = job.attempt /\ job'.phase = "sync" /\ job'.then = then
      /\ job'.read = job.read /\ job'.result = "none"
  BY <1>2 DEF Becomes
<1>. QED BY ONLY <1>1, <1>3, <1>4 DEF JobAdvances

LEMMA ProcessSucceedsJob ==
  ASSUME Types, WithinBatch, ProcessSucceeds
  PROVE  JobAdvances /\ job'.offset = job.offset + job.attempt /\ job'.phase = "prefix"
<1>1. /\ job \in Jobs /\ job.phase = "attempt" /\ job.result = "none" /\ job.read = {}
      /\ Len(job.rows) \in Nat /\ job.offset \in Nat /\ job.attempt \in Nat
      /\ job.offset + job.attempt <= Len(job.rows)
  BY JobFacts DEF ProcessSucceeds, Ready
<1>2. job.offset + job.attempt \in Nat
  BY <1>1
<1>3. job' = [job EXCEPT !.offset = job.offset + job.attempt,
                         !.attempt = 0, !.phase = "prefix"]
  BY DEF ProcessSucceeds
<1>4. Becomes(job.offset + job.attempt, 0, job.full, job.cleaned, "prefix", job.then,
              job.read, "none")
  BY <1>1, <1>2, <1>3 DEF Becomes, Jobs
<1>. QED BY <1>1, <1>2, <1>4 DEF JobAdvances, Becomes

LEMMA ProcessOutOfMemoryJob ==
  ASSUME Types, WithinBatch, ProcessOutOfMemory
  PROVE  JobAdvances /\ job'.offset = job.offset /\ job'.phase = "recover"
<1>1. /\ job \in Jobs /\ job.phase = "attempt" /\ job.result = "none" /\ job.read = {}
      /\ Len(job.rows) \in Nat /\ job.offset \in Nat /\ job.attempt \in Nat
      /\ job.offset + job.attempt <= Len(job.rows)
  BY JobFacts DEF ProcessOutOfMemory, Ready
<1>2. Becomes(job.offset, job.attempt, job.full, job.cleaned, "recover", job.then,
              job.read, "none")
  BY <1>1 DEF ProcessOutOfMemory, Go, Becomes, Jobs
<1>. QED BY <1>1, <1>2 DEF JobAdvances, Becomes

LEMMA HalveAttemptJob ==
  ASSUME Types, WithinBatch, HalveAttempt
  PROVE  JobAdvances /\ job'.offset = job.offset /\ job'.phase = "attempt"
<1>1. /\ job \in Jobs /\ job.phase = "recover" /\ job.result = "none" /\ job.read = {}
      /\ Len(job.rows) \in Nat /\ job.offset \in Nat /\ job.attempt \in Nat
      /\ job.offset + job.attempt <= Len(job.rows)
  BY JobFacts DEF HalveAttempt, Recovering
<1>2. job.attempt \div 2 \in Nat /\ job.attempt \div 2 <= job.attempt
  BY <1>1
<1>3. Becomes(job.offset, job.attempt \div 2, job.full, job.cleaned, "attempt", job.then,
              job.read, "none")
  BY <1>1, <1>2 DEF HalveAttempt, Becomes, Jobs
<1>. QED BY <1>1, <1>2, <1>3 DEF JobAdvances, Becomes

LEMMA LastCleanupJob ==
  ASSUME Types, WithinBatch, LastCleanup
  PROVE  /\ JobAdvances /\ job'.offset = job.offset /\ job'.read = {}
         /\ job'.phase \in {"attempt", "sync"}
<1>1. /\ job \in Jobs /\ job.phase = "recover" /\ job.result = "none" /\ job.read = {}
      /\ Len(job.rows) \in Nat /\ job.offset \in Nat /\ job.attempt \in Nat
      /\ job.offset + job.attempt <= Len(job.rows)
  BY JobFacts DEF LastCleanup, Recovering
<1>2. \/ Becomes(job.offset, job.attempt, job.full, TRUE, "attempt", job.then,
                 job.read, "none")
      \/ Becomes(job.offset, job.attempt, job.full, TRUE, "sync", "retry",
                 job.read, "none")
  BY <1>1 DEF LastCleanup, CleanedUp, Becomes, Jobs
<1>. QED BY <1>1, <1>2 DEF JobAdvances, Becomes

LEMMA SyncChunkJob ==
  ASSUME Types, WithinBatch, NEW m, SyncArenaChunk(m)
  PROVE  /\ JobAdvances /\ job'.offset = job.offset /\ job'.phase = "sync"
         /\ job'.read = job.read \cup InModule(m, KeysIn(held, "arena") \ job.read)
<1>1. /\ job \in Jobs /\ job.phase = "sync" /\ job.result = "none"
      /\ Len(job.rows) \in Nat /\ job.offset \in Nat /\ job.attempt \in Nat
      /\ job.offset + job.attempt <= Len(job.rows)
  BY JobFacts DEF SyncArenaChunk
<1>2. PICK keys : /\ keys = InModule(m, KeysIn(held, "arena") \ job.read)
                  /\ job' = [job EXCEPT !.read = @ \cup keys]
  BY DEF SyncArenaChunk
<1>3. keys \subseteq Keys
  BY <1>2 DEF InModule, KeysIn
<1>4. Becomes(job.offset, job.attempt, job.full, job.cleaned, "sync", job.then,
              job.read \cup keys, "none")
  BY <1>1, <1>2, <1>3 DEF Becomes, Jobs
<1>. QED BY <1>1, <1>2, <1>4 DEF JobAdvances, Becomes

LEMMA SyncEndsJob ==
  ASSUME Types, WithinBatch, SyncEnds
  PROVE  /\ JobAdvances /\ job'.offset = job.offset
         /\ job'.phase \in {"returned", "attempt"}
<1>1. /\ job \in Jobs /\ job.phase = "sync" /\ job.result = "none"
      /\ Len(job.rows) \in Nat /\ job.offset \in Nat /\ job.attempt \in Nat
      /\ job.offset + job.attempt <= Len(job.rows)
  BY JobFacts DEF SyncEnds
<1>2. job.full \in BOOLEAN
  BY <1>1 DEF Jobs
<1>3. \/ /\ job.then = "return"
         /\ Becomes(job.offset, job.attempt, job.full /\ job.then # "abandoned",
                    job.cleaned, "returned", "return", {}, "ok")
      \/ /\ job.then # "return"
         /\ Becomes(job.offset, job.attempt, job.full /\ job.then # "abandoned",
                    job.cleaned, "attempt", "return", {}, "none")
  BY <1>1, <1>2 DEF SyncEnds, Becomes, Jobs, Results
<1>. QED BY <1>1, <1>3 DEF JobAdvances, Becomes

LEMMA SyncFailsJob ==
  ASSUME Types, WithinBatch, SyncFails
  PROVE  /\ JobAdvances /\ job'.offset = job.offset
         /\ job'.phase \in {"returned", "recover"} /\ job'.result # "ok"
<1>1. /\ job \in Jobs /\ job.phase = "sync" /\ job.result = "none"
      /\ Len(job.rows) \in Nat /\ job.offset \in Nat /\ job.attempt \in Nat
      /\ job.offset + job.attempt <= Len(job.rows)
  BY JobFacts DEF SyncFails
<1>2. PICK error \in {"oom", "execution"} :
        IF job.then = "attempt" /\ error = "oom"
        THEN job' = [job EXCEPT !.phase = "recover", !.then = "return", !.read = {}]
        ELSE Returns(error)
  BY DEF SyncFails
<1>3. \/ /\ job.then = "attempt"
         /\ Becomes(job.offset, job.attempt, job.full, job.cleaned, "recover", "return",
                    {}, "none")
      \/ Becomes(job.offset, 0, job.full, FALSE, "returned", "return", {}, error)
  <2>1. CASE job.then = "attempt" /\ error = "oom"
    BY <1>1, <1>2, <2>1 DEF Becomes, Jobs
  <2>2. CASE ~(job.then = "attempt" /\ error = "oom")
    BY <1>1, <1>2, <2>2, ReturnsJob DEF Results
  <2>. QED BY <2>1, <2>2
<1>. QED BY <1>1, <1>3 DEF JobAdvances, Becomes

LEMMA NativeCallsMatch ==
  ASSUME Types, CallsMatch, WithinBatch, NativeFrame, JobAdvances
  PROVE  CallsMatch' /\ WithinBatch'
<1>1. job # NoJob /\ job' # NoJob
  BY DEF JobAdvances, Jobs, NoJob
<1>2. client' = client /\ report' = report
  BY DEF NativeFrame
<1>3. Waiting /\ Waiting'
  BY <1>1, <1>2 DEF CallsMatch, Waiting
<1>4. At("native") => job'.rows = client.batch /\ ~client.cpu
  BY DEF CallsMatch, JobAdvances
<1>5. client.phase \in {"release", "synchronize"} =>
        job'.phase \in {"sync", "returned"} /\ job'.then = "return"
  BY DEF CallsMatch, JobAdvances
<1>6. CallsMatch'
  BY <1>1, <1>2, <1>3, <1>4, <1>5 DEF CallsMatch, At
<1>7. ASSUME job'.result = "ok", At("native") PROVE job'.offset = Len(job.rows)
  <2>1. ~(job.phase = "sync" /\ job.then = "return")
    BY <1>1, <1>7 DEF WithinBatch
  <2>. QED BY <1>7, <2>1 DEF JobAdvances
<1>8. job'.phase = "sync" /\ job'.then = "return" => ~At("native")
  BY <1>1 DEF WithinBatch, JobAdvances
<1>9. At("native")' <=> At("native")
  BY <1>2 DEF At
<1>10. WithinBatch'
  <2>1. /\ job'.offset + job'.attempt <= Len(job'.rows)
        /\ job'.phase # "returned" => job'.result = "none"
        /\ job'.phase = "prefix" => job'.attempt = 0
        /\ job'.phase # "sync" => job'.read = {}
        /\ job'.rows = job.rows
    BY DEF JobAdvances
  <2>2. /\ job'.result = "ok" /\ At("native")' => job'.offset = Len(job'.rows)
        /\ job'.phase = "sync" /\ job'.then = "return" => ~At("native")'
    BY <1>7, <1>8, <1>9, <2>1
  <2>. QED BY <2>1, <2>2 DEF WithinBatch
<1>. QED BY <1>6, <1>10

\* Rows put one after another, and regrouped.
IsAssociative(a, b, c) == (a \o b) \o c = a \o (b \o c)
IsRegrouped(a, b, c, d) == (a \o b) \o (c \o d) = a \o ((b \o c) \o d)

LEMMA Associative ==
  ASSUME NEW a \in Seq(Reviews), NEW b \in Seq(Reviews), NEW c \in Seq(Reviews)
  PROVE  IsAssociative(a, b, c)
BY DEF IsAssociative

LEMMA Regroup ==
  ASSUME NEW a \in Seq(Reviews), NEW b \in Seq(Reviews), NEW c \in Seq(Reviews),
         NEW d \in Seq(Reviews)
  PROVE  IsRegrouped(a, b, c, d)
<1>1. PICK x \in Seq(Reviews) : x = c \o d
  <2>1. c \o d \in Seq(Reviews)
    BY ConcatProperties
  <2>. QED BY <2>1
<1>2. IsAssociative(a, b, x) /\ IsAssociative(b, c, d)
  BY Associative
<1>3. (a \o b) \o x = a \o (b \o x) /\ b \o (c \o d) = (b \o c) \o d
  BY <1>2 DEF IsAssociative
<1>. QED BY <1>1, <1>2, <1>3 DEF IsRegrouped

LEMMA PrefixType ==
  ASSUME job \in Jobs, job.offset + job.attempt <= Len(job.rows)
  PROVE  Prefix \in Seq(Reviews) /\ Rows \in Seq(Reviews)
<1>1. /\ job.rows \in Seq(Reviews) /\ job.offset \in Nat /\ job.attempt \in Nat
  BY DEF Jobs
<1>2. Len(job.rows) \in Nat
  BY <1>1
<1>3. \A i \in 1 .. job.offset : job.rows[i] \in Reviews
  BY <1>1, <1>2
<1>4. \A i \in job.offset + 1 .. job.offset + job.attempt : job.rows[i] \in Reviews
  BY <1>1, <1>2
<1>5. SubSeq(job.rows, 1, job.offset) \in Seq(Reviews)
  BY <1>1, <1>3, SubSeqProperties
<1>6. SubSeq(job.rows, job.offset + 1, job.offset + job.attempt) \in Seq(Reviews)
  BY <1>1, <1>4, SubSeqProperties
<1>. QED BY <1>5, <1>6 DEF Prefix, Rows

Accounts == CallIsAccounted /\ HistoryIsAccounted /\ ReportIsExact

LEMMA NativeAccounts ==
  ASSUME Types, Accounts, NativeFrame, JobAdvances, log' = log,
         job'.offset = job.offset
  PROVE  Accounts'
<1>1. /\ client' = client /\ report' = report /\ described' = described
      /\ interrupted' = interrupted
  BY DEF NativeFrame
<1>2. job'.rows = job.rows
  BY DEF JobAdvances
<1>3. Untold' = Untold
  BY <1>1, <1>2 DEF Untold, Prefix, At
<1>. QED BY <1>1, <1>3 DEF Accounts, CallIsAccounted, HistoryIsAccounted, ReportIsExact

LEMMA ProcessAccounts ==
  ASSUME Types, Accounts, CallsMatch, WithinBatch, NativeFrame, ProcessSucceeds
  PROVE  Accounts'
<1>1. /\ JobAdvances /\ job'.offset = job.offset + job.attempt
      /\ job.phase = "attempt" /\ job'.rows = job.rows
  BY ProcessSucceedsJob DEF ProcessSucceeds, Ready, In, JobAdvances
<1>2. /\ client' = client /\ report' = report /\ described' = described
      /\ interrupted' = interrupted
  BY DEF NativeFrame
<1>3. job \in Jobs /\ job # NoJob /\ job.offset + job.attempt <= Len(job.rows)
  BY <1>1 DEF JobAdvances, WithinBatch, Jobs, NoJob
<1>4. At("native")
  BY <1>1, <1>3 DEF CallsMatch, Waiting, At
<1>5. client # NoClient /\ client \in Clients
  BY <1>4, ClientIsRunning DEF At, NoClient
<1>6. /\ job.rows \in Seq(Reviews) /\ job.offset \in Nat /\ job.attempt \in Nat
      /\ Len(job.rows) \in Nat
  BY <1>3 DEF Jobs
<1>7. /\ 1 \in 1 .. Len(job.rows) + 1
      /\ job.offset \in 1 - 1 .. Len(job.rows)
      /\ job.offset + job.attempt \in job.offset .. Len(job.rows)
  BY <1>3, <1>6
<1>8. SubSeq(job.rows, 1, job.offset)
        \o SubSeq(job.rows, job.offset + 1, job.offset + job.attempt)
      = SubSeq(job.rows, 1, job.offset + job.attempt)
  BY <1>6, <1>7, ConcatAdjacentSubSeq
<1>9. Untold' = Prefix \o Rows /\ Untold = Prefix
  BY <1>1, <1>2, <1>4, <1>8 DEF Untold, Prefix, Rows, At
<1>10. Prefix \in Seq(Reviews) /\ Rows \in Seq(Reviews)
  BY <1>3, PrefixType
<1>11. log' = log \o Rows /\ described \in Seq(Reviews) /\ client.results \in Seq(Reviews)
  BY <1>5 DEF ProcessSucceeds, Types, Clients
<1>12. CallIsAccounted'
  <2>1. PICK before \in Seq(Reviews) :
          /\ Len(before) = client.start
          /\ log = before \o (client.results \o Prefix)
    BY <1>5, <1>9 DEF Accounts, CallIsAccounted
  <2>2. PICK results : results = client.results
    OBVIOUS
  <2>3. PICK first : first = Prefix
    OBVIOUS
  <2>4. PICK rows : rows = Rows
    OBVIOUS
  <2>5. /\ before \in Seq(Reviews) /\ results \in Seq(Reviews)
        /\ first \in Seq(Reviews) /\ rows \in Seq(Reviews)
    BY <1>10, <1>11, <2>1, <2>2, <2>3, <2>4
  <2>6. (before \o (results \o first)) \o rows = before \o (results \o (first \o rows))
    <3>1. PICK x \in Seq(Reviews) : x = results \o first
      <4>1. results \o first \in Seq(Reviews)
        BY <2>5, ConcatProperties
      <4>. QED BY <4>1
    <3>2. (before \o x) \o rows = before \o (x \o rows)
      <4>1. IsAssociative(before, x, rows)
        BY <2>5, Associative
      <4>. QED BY <4>1 DEF IsAssociative
    <3>3. (results \o first) \o rows = results \o (first \o rows)
      <4>1. IsAssociative(results, first, rows)
        BY <2>5, Associative
      <4>. QED BY <4>1 DEF IsAssociative
    <3>. QED BY <3>1, <3>2, <3>3
  <2>7. log' = before \o (client'.results \o Untold')
    BY <1>2, <1>9, <1>11, <2>1, <2>2, <2>3, <2>4, <2>6
  <2>. QED BY <1>2, <2>1, <2>7 DEF CallIsAccounted
<1>13. HistoryIsAccounted'
  <2>1. ~interrupted => log = described \o Prefix
    BY <1>9 DEF Accounts, HistoryIsAccounted
  <2>2. PICK first : first = Prefix
    OBVIOUS
  <2>3. PICK rows : rows = Rows
    OBVIOUS
  <2>4. described \in Seq(Reviews) /\ first \in Seq(Reviews) /\ rows \in Seq(Reviews)
    BY <1>10, <1>11, <2>2, <2>3
  <2>5. (described \o first) \o rows = described \o (first \o rows)
    BY ONLY <2>4
  <2>. QED BY <1>2, <1>9, <1>11, <2>1, <2>2, <2>3, <2>5 DEF HistoryIsAccounted
<1>14. ReportIsExact'
  BY <1>2, <1>5 DEF ReportIsExact
<1>. QED BY <1>12, <1>13, <1>14 DEF Accounts

-------------------------------------------------------------------------------
(* Where states are, in native steps.                                       *)

HomesInv ==
  /\ IsHeld(held) /\ expected = [k \in Keys |-> expected[k]]
  /\ arenaOpen \in BOOLEAN
  /\ ArenaIsOpen
  /\ CpuFindsStatesOnHost
  /\ ReadIsSound
  /\ StatesSurvive

LEMMA SurviveMeans ==
  StatesSurvive <=> (Trusted => Consistent(held, expected))
BY DEF StatesSurvive, EveryCopyIsCurrent, NoStateIsLost, Consistent

LEMMA SurviveAfter ==
  ASSUME Trusted' => Consistent(held', expected')
  PROVE  StatesSurvive'
BY DEF StatesSurvive, EveryCopyIsCurrent, NoStateIsLost, Consistent

LEMMA NativeTrusted ==
  ASSUME NativeFrame, JobAdvances, Trusted'
  PROVE  Trusted
BY DEF NativeFrame, JobAdvances, Trusted, Damaged, Answered

\* A native step does not end where rows are processed on the CPU, unless it ends
\* a synchronization.
LEMMA NativeOnHost ==
  ASSUME Types, CallsMatch, NativeFrame, JobAdvances,
         client.phase \in {"release", "synchronize"} /\ job'.phase = "returned"
           /\ job'.result = "ok" => OnHost'
  PROVE  CpuFindsStatesOnHost'
<1>1. job # NoJob
  BY DEF JobAdvances, Jobs, NoJob
<1>2. Waiting
  BY <1>1 DEF CallsMatch
<1>3. ~At("cpu") /\ ~At("next")
  BY <1>2 DEF Waiting, At
<1>4. client' = client
  BY DEF NativeFrame
<1>. QED BY <1>3, <1>4 DEF CpuFindsStatesOnHost, At, Answered

\* A step that moves no state.
LEMMA NothingMoves ==
  ASSUME Types, CallsMatch, HomesInv, NativeFrame, JobAdvances,
         UNCHANGED <<held, expected>>, arenaOpen' \in BOOLEAN, arenaOpen => arenaOpen',
         job'.phase = "sync" => job'.read = {},
         job'.result # "ok" \/ job.phase # "sync"
  PROVE  HomesInv'
<1>1. job # NoJob
  BY DEF JobAdvances, Jobs, NoJob
<1>2. client.phase \in {"release", "synchronize"} => job.phase \in {"sync", "returned"}
  BY DEF CallsMatch
<1>3. client.phase \in {"release", "synchronize"} => job'.result # "ok"
  BY <1>2 DEF JobAdvances
<1>4. CpuFindsStatesOnHost'
  BY <1>3, NativeOnHost
<1>5. StatesSurvive'
  BY NativeTrusted, SurviveMeans, SurviveAfter DEF HomesInv
<1>6. ReadIsSound'
  BY DEF ReadIsSound, In
<1>7. ArenaIsOpen'
  BY DEF HomesInv, ArenaIsOpen, IsEmpty, KeysIn
<1>. QED BY <1>4, <1>5, <1>6, <1>7 DEF HomesInv

LEMMA ProcessSucceedsHomes ==
  ASSUME Types, CallsMatch, WithinBatch, HomesInv, NativeFrame, ProcessSucceeds
  PROVE  HomesInv'
<1>1. JobAdvances /\ job'.phase = "prefix"
  BY ProcessSucceedsJob
<1>2. /\ job.phase = "attempt" /\ job.full \in BOOLEAN /\ job # NoJob
      /\ job.full => Empty(held, "resident")
      /\ ~job.full => ~arenaOpen
  BY <1>1, EmptyMeansNone
     DEF ProcessSucceeds, Ready, In, MustSynchronize, JobAdvances, Jobs, NoJob
<1>3. expected' = After(expected, Rows)
  BY DEF ProcessSucceeds, ExpectedAfter, After
<1>4. arenaOpen' = (arenaOpen \/ job.full) /\ held' = Committed(Rows)
  BY DEF ProcessSucceeds
<1>5. CpuFindsStatesOnHost'
  BY <1>1, NativeOnHost
<1>6. ReadIsSound'
  BY <1>1 DEF ReadIsSound, In
<1>7. expected' = [k \in Keys |-> expected'[k]] /\ arenaOpen' \in BOOLEAN
  BY <1>2, <1>3, <1>4 DEF After, HomesInv
<1>8. Trusted' => Consistent(held, expected)
  BY <1>1, NativeTrusted, SurviveMeans DEF HomesInv
<1>9. CASE job.full
  <2>1. held' = ArenaCommit(held, Rows)
    BY <1>4, <1>9 DEF Committed
  <2>2. IsHeld(held')
    BY <2>1, MovedAt DEF ArenaCommit, DeferredRemove
  <2>3. StatesSurvive'
    BY <1>2, <1>3, <1>8, <1>9, <2>1, ArenaCommitIsConsistent, SurviveAfter
  <2>4. ArenaIsOpen'
    BY <1>4, <1>9 DEF ArenaIsOpen
  <2>. QED BY <1>5, <1>6, <1>7, <2>2, <2>3, <2>4 DEF HomesInv
<1>10. CASE ~job.full
  <2>1. held' = ResidentCommit(held, Rows)
    BY <1>4, <1>10 DEF Committed
  <2>2. Empty(held, "arena")
    BY <1>2, <1>10, EmptyMeansNone DEF HomesInv, ArenaIsOpen
  <2>3. /\ IsHeld(ResidentCommit(held, Rows))
        /\ Empty(ResidentCommit(held, Rows), "arena")
    BY <2>2, ResidentIsHeld
  <2>4. StatesSurvive'
    BY <1>3, <1>8, <2>1, <2>2, ResidentCommitIsConsistent, SurviveAfter
  <2>5. ArenaIsOpen'
    BY <2>1, <2>3, EmptyMeansNone DEF ArenaIsOpen
  <2>. QED BY <1>5, <1>6, <1>7, <2>1, <2>3, <2>4, <2>5 DEF HomesInv
<1>. QED BY <1>2, <1>9, <1>10

LEMMA ProcessFailsLateHomes ==
  ASSUME Types, CallsMatch, WithinBatch, HomesInv, NativeFrame, ProcessFailsLate
  PROVE  HomesInv'
<1>1. In("attempt") /\ Returns("execution")
  BY DEF ProcessFailsLate, Ready
<1>2. JobAdvances /\ job'.phase = "returned" /\ job'.result = "execution"
  BY <1>1, ReturningJob DEF Results
<1>3. ~Trusted'
  BY <1>2 DEF Trusted, Damaged, Answered
<1>4. StatesSurvive'
  BY <1>3, SurviveAfter
<1>5. CpuFindsStatesOnHost' /\ ReadIsSound'
  BY <1>2, NativeOnHost DEF ReadIsSound, In
<1>6. /\ held' = HalfMoved(Rows) /\ arenaOpen' = (arenaOpen \/ job.full)
      /\ expected' = expected /\ job.full \in BOOLEAN
  BY <1>2 DEF ProcessFailsLate, JobAdvances, Jobs
<1>7. CASE job.full
  <2>1. held' = ArenaScatter(held, KeysOf(Rows) \cap KeysIn(held, "arena"),
                             NextStates(held, Rows))
    BY <1>6, <1>7 DEF HalfMoved
  <2>2. IsHeld(held')
    BY <2>1, MovedAt DEF ArenaScatter
  <2>3. arenaOpen' = TRUE
    BY <1>6, <1>7
  <2>4. ArenaIsOpen'
    BY <2>3 DEF ArenaIsOpen
  <2>5. expected' = [k \in Keys |-> expected'[k]]
    BY <1>6 DEF HomesInv
  <2>. QED BY <1>4, <1>5, <2>2, <2>3, <2>4, <2>5 DEF HomesInv
<1>8. CASE ~job.full
  <2>1. ~arenaOpen
    BY <1>8 DEF ProcessFailsLate, Ready, MustSynchronize
  <2>2. Empty(held, "arena")
    BY <2>1, EmptyMeansNone DEF HomesInv, ArenaIsOpen
  <2>3. held' = DecodeResident(held, Rows)
    BY <1>6, <1>8 DEF HalfMoved
  <2>4. IsHeld(held') /\ Empty(held', "arena")
    BY <2>2, <2>3, DecodedAt DEF Empty, Homes, Host
  <2>5. ArenaIsOpen'
    BY <2>4, EmptyMeansNone DEF ArenaIsOpen
  <2>. QED BY <1>4, <1>5, <1>6, <2>4, <2>5 DEF HomesInv
<1>. QED BY <1>6, <1>7, <1>8

LEMMA SyncResidentHomes ==
  ASSUME Types, CallsMatch, WithinBatch, HomesInv, NEW m \in Modules, SyncResident(m)
  PROVE  HomesInv'
<1> DEFINE keys == InModule(m, KeysIn(held, "resident"))
<1>1. /\ In("sync") /\ keys # {} /\ held' = SavedResident(held, keys)
      /\ UNCHANGED <<device, expected, arenaOpen, job, client, report>>
  BY DEF SyncResident, SavedResident
<1>2. keys \subseteq KeysIn(held, "resident")
  BY DEF InModule
<1>3. ~IsEmpty(held, "resident")
  BY <1>1, <1>2 DEF IsEmpty
<1>. HIDE DEF keys
<1>4. Trusted' => Trusted
  BY <1>1 DEF Trusted, Damaged, Answered
<1>5. /\ Trusted => Consistent(held', expected)
      /\ IsHeld(held')
      /\ \A k \in Keys : held'["arena"][k] = held["arena"][k]
  <2>1. Trusted => Consistent(held, expected)
    BY SurviveMeans DEF HomesInv
  <2>2. CASE Trusted
    BY <1>1, <1>2, <2>1, <2>2, SavedResidentIsConsistent
  <2>3. CASE ~Trusted
    BY <1>1, <1>2, <2>3, SavedResidentIsHeld
  <2>. QED BY <2>2, <2>3
<1>6. StatesSurvive'
  BY <1>1, <1>4, <1>5, SurviveAfter
<1>7. job.read = {}
  BY <1>1, <1>3 DEF HomesInv, ReadIsSound
<1>8. ReadIsSound'
  BY <1>1, <1>7 DEF ReadIsSound
<1>9. ArenaIsOpen'
  BY <1>1, <1>5 DEF HomesInv, ArenaIsOpen, IsEmpty, KeysIn
<1>10. CpuFindsStatesOnHost'
  <2>1. ~OnHost /\ ~Answered
    BY <1>1, <1>3 DEF OnHost, Answered, In
  <2>2. ~At("cpu") /\ ~(At("next") /\ client.cpu)
    BY <2>1 DEF HomesInv, CpuFindsStatesOnHost
  <2>. QED BY <1>1, <2>1, <2>2 DEF CpuFindsStatesOnHost, At, Answered
<1>. QED BY <1>1, <1>5, <1>6, <1>8, <1>9, <1>10 DEF HomesInv

LEMMA SyncArenaChunkHomes ==
  ASSUME Types, CallsMatch, WithinBatch, HomesInv, NativeFrame,
         NEW m \in Modules, SyncArenaChunk(m)
  PROVE  HomesInv'
<1> DEFINE keys == InModule(m, KeysIn(held, "arena") \ job.read)
<1>1. /\ In("sync") /\ IsEmpty(held, "resident")
      /\ held' = IF device.flat THEN held ELSE InsertModuleStates(held, keys, held["arena"])
      /\ UNCHANGED <<device, expected, arenaOpen, client, report>>
  BY DEF SyncArenaChunk
<1>2. JobAdvances /\ job'.phase = "sync" /\ job'.read = job.read \cup keys
  BY SyncChunkJob
<1>3. keys \subseteq KeysIn(held, "arena")
  BY DEF InModule
<1>4. \A k \in Keys : k \in keys => held["arena"][k] # None
  BY <1>3 DEF KeysIn
<1>. HIDE DEF keys
<1>5. /\ IsHeld(held')
      /\ \A x \in Homes, k \in Keys :
           held'[x][k] = IF device.flat \/ k \notin keys THEN held[x][k]
                         ELSE IF x = "canonical" THEN held["arena"][k]
                         ELSE IF x \in {"flat"} THEN None
                         ELSE held[x][k]
  <2>1. CASE device.flat
    BY <1>1, <2>1 DEF HomesInv
  <2>2. CASE ~device.flat
    BY <1>1, <2>2, MovedAt DEF InsertModuleStates
  <2>. QED BY <2>1, <2>2
<1>6. Trusted' => Consistent(held', expected)
  <2>1. Trusted' => Consistent(held, expected)
    BY <1>2, NativeTrusted, SurviveMeans DEF HomesInv
  <2>. QED BY <1>1, <1>3, <2>1, ReadChunkIsConsistent
<1>7. StatesSurvive'
  BY <1>1, <1>6, SurviveAfter
<1>8. \A k \in Keys : /\ held'["arena"][k] = held["arena"][k]
                      /\ held'["resident"][k] = held["resident"][k]
  BY <1>5 DEF Homes
<1>9. KeysIn(held', "arena") = KeysIn(held, "arena") /\ IsEmpty(held', "resident")
  BY <1>1, <1>8 DEF KeysIn, IsEmpty
<1>10. ~device.flat => job'.read \subseteq KeysIn(held', "canonical")
  <2>1. SUFFICES ASSUME ~device.flat, NEW k \in job'.read
                 PROVE  k \in KeysIn(held', "canonical")
    OBVIOUS
  <2>2. k \in Keys
    BY <1>2, <1>3 DEF JobAdvances, Jobs
  <2>3. CASE k \in keys
    <3>1. held'["canonical"][k] # None
      BY <1>4, <1>5, <2>1, <2>2, <2>3 DEF Homes
    <3>. QED BY <2>2, <3>1 DEF KeysIn
  <2>4. CASE k \notin keys
    <3>1. k \in KeysIn(held, "canonical")
      BY <1>1, <1>2, <2>1, <2>4 DEF HomesInv, ReadIsSound
    <3>2. held'["canonical"][k] # None
      BY <1>5, <2>2, <2>4, <3>1 DEF KeysIn, Homes
    <3>. QED BY <2>2, <3>2 DEF KeysIn
  <2>. QED BY <2>3, <2>4
<1>11. ReadIsSound'
  <2>1. job.read \subseteq KeysIn(held, "arena")
    BY <1>1 DEF HomesInv, ReadIsSound
  <2>. QED BY <1>1, <1>2, <1>3, <1>9, <1>10, <2>1 DEF ReadIsSound
<1>12. ArenaIsOpen'
  BY <1>1, <1>9 DEF HomesInv, ArenaIsOpen, IsEmpty
<1>13. CpuFindsStatesOnHost'
  BY <1>2, NativeOnHost
<1>. QED BY <1>1, <1>5, <1>7, <1>11, <1>12, <1>13 DEF HomesInv

LEMMA SyncEndsHomes ==
  ASSUME Types, CallsMatch, WithinBatch, HomesInv, NativeFrame, SyncEnds
  PROVE  HomesInv'
<1>1. /\ In("sync") /\ IsEmpty(held, "resident")
      /\ KeysIn(held, "arena") \subseteq job.read
      /\ held' = DrainedFrom(held, device.flat, job.read)
      /\ arenaOpen' = FALSE
      /\ UNCHANGED <<device, expected, client, report>>
  BY DEF SyncEnds, Drained, DrainedFrom
<1>2. JobAdvances /\ job'.phase # "sync"
  BY SyncEndsJob
<1>3. /\ job.read = KeysIn(held, "arena")
      /\ ~device.flat => job.read \subseteq KeysIn(held, "canonical")
  BY <1>1 DEF HomesInv, ReadIsSound
<1>4. /\ Empty(held, "resident")
      /\ \A k \in Keys : k \in job.read <=> held["arena"][k] # None
      /\ ~device.flat => \A k \in Keys : k \in job.read => held["canonical"][k] # None
  BY <1>1, <1>3, EmptyMeansNone DEF KeysIn
<1>5. IsHeld(held') /\ Empty(held', "resident") /\ Empty(held', "arena")
      /\ Empty(held', "deferred")
  BY <1>1, <1>4, DrainedIsHeld
<1>6. Trusted' => Consistent(held', expected)
  <2>1. Trusted' => Consistent(held, expected)
    BY <1>2, NativeTrusted, SurviveMeans DEF HomesInv
  <2>. QED BY <1>1, <1>4, <2>1, DrainedIsConsistent
<1>7. StatesSurvive'
  BY <1>1, <1>6, SurviveAfter
<1>8. OnHost'
  BY <1>5, EmptyMeansNone DEF OnHost
<1>9. ArenaIsOpen' /\ ReadIsSound' /\ CpuFindsStatesOnHost'
  BY <1>2, <1>8, NativeOnHost DEF ArenaIsOpen, OnHost, ReadIsSound, In
<1>. QED BY <1>1, <1>5, <1>7, <1>9 DEF HomesInv

-------------------------------------------------------------------------------
(* The native steps keep the invariant.                                     *)

LEMMA InvariantParts ==
  ASSUME Types
  PROVE  /\ IInv <=> CallsMatch /\ WithinBatch /\ Accounts /\ HomesInv
         /\ IsHeld(held)
BY DEF IInv, Types, Accounts, HomesInv, IsHeld

LEMMA InvariantPartsAfter ==
  ASSUME Types', CallsMatch', WithinBatch', Accounts', HomesInv'
  PROVE  IInv'
BY DEF IInv, Accounts, HomesInv

\* The types that a native step could change.
LEMMA NativeTypes ==
  ASSUME Types, NativeFrame, job' \in Jobs, HomesInv', noArena' \in BOOLEAN,
         log' \in Seq(Reviews)
  PROVE  Types'
BY DEF Types, NativeFrame, HomesInv, IsHeld

\* A step that moves no state and commits nothing.
LEMMA QuietStep ==
  ASSUME IInv, NativeFrame, JobAdvances, job'.offset = job.offset,
         UNCHANGED <<held, expected, noArena, log>>,
         arenaOpen' \in BOOLEAN, arenaOpen => arenaOpen',
         job'.phase = "sync" => job'.read = {},
         job'.result # "ok" \/ job.phase # "sync"
  PROVE  IInv'
<1>1. Types /\ CallsMatch /\ WithinBatch /\ Accounts /\ HomesInv
  BY InvariantParts DEF IInv
<1>2. HomesInv'
  BY <1>1, NothingMoves
<1>3. CallsMatch' /\ WithinBatch' /\ Accounts'
  BY <1>1, NativeCallsMatch, NativeAccounts
<1>4. Types'
  BY <1>1, <1>2, NativeTypes DEF Types, JobAdvances
<1>. QED BY <1>2, <1>3, <1>4, InvariantPartsAfter

\* A step that moves states.
LEMMA MovingStep ==
  ASSUME IInv, NativeFrame, JobAdvances, HomesInv', Accounts',
         noArena' \in BOOLEAN, log' \in Seq(Reviews)
  PROVE  IInv'
<1>1. Types /\ CallsMatch /\ WithinBatch
  BY DEF IInv
<1>2. CallsMatch' /\ WithinBatch'
  BY <1>1, NativeCallsMatch
<1>3. Types'
  BY <1>1, NativeTypes DEF JobAdvances
<1>. QED BY <1>2, <1>3, InvariantPartsAfter

LEMMA NativeKeeps ==
  ASSUME IInv, NativeStep
  PROVE  IInv'
<1>1. Types /\ CallsMatch /\ WithinBatch /\ Accounts /\ HomesInv
  BY InvariantParts DEF IInv
<1>2. arenaOpen \in BOOLEAN /\ noArena \in BOOLEAN /\ log \in Seq(Reviews)
  BY <1>1 DEF Types
<1>3. CASE ChoosePrefix
  <2>1. NativeFrame /\ UNCHANGED <<held, expected, noArena, log, arenaOpen>>
    BY <1>3 DEF ChoosePrefix, states, NativeFrame
  <2>2. /\ JobAdvances /\ job'.offset = job.offset /\ job'.phase # "sync"
        /\ job'.result # "ok"
    BY <1>1, <1>3, ChoosePrefixJob
  <2>. QED BY <1>2, <2>1, <2>2, QuietStep
<1>4. CASE JobEnds
  <2>1. NativeFrame /\ UNCHANGED <<held, expected, noArena, log, arenaOpen>>
    BY <1>4 DEF JobEnds, states, NativeFrame
  <2>2. /\ JobAdvances /\ job'.offset = job.offset /\ job'.phase # "sync"
        /\ job.phase # "sync"
    BY <1>1, <1>4, JobEndsJob DEF JobEnds, In
  <2>. QED BY <1>2, <2>1, <2>2, QuietStep
<1>5. CASE RowsRejected
  <2>1. NativeFrame /\ UNCHANGED <<held, expected, noArena, log, arenaOpen>>
    BY <1>5 DEF RowsRejected, states, NativeFrame
  <2>2. /\ JobAdvances /\ job'.offset = job.offset /\ job'.phase # "sync"
        /\ job'.result # "ok"
    BY <1>1, <1>5, ReturningJob DEF RowsRejected, Results
  <2>. QED BY <1>2, <2>1, <2>2, QuietStep
<1>6. CASE SwitchStorage \/ ReadbackOverflows
  <2>1. NativeFrame /\ UNCHANGED <<held, expected, noArena, log, arenaOpen>>
    BY <1>6 DEF SwitchStorage, ReadbackOverflows, states, NativeFrame
  <2>2. /\ JobAdvances /\ job'.offset = job.offset /\ job'.read = {}
        /\ job.phase # "sync"
    BY <1>1, <1>6, BeginSyncJob DEF SwitchStorage, ReadbackOverflows, Ready, In
  <2>. QED BY <1>2, <2>1, <2>2, QuietStep
<1>7. CASE ProcessSucceeds
  <2>1. NativeFrame /\ noArena' = noArena /\ log' = log \o Rows
    BY <1>7 DEF ProcessSucceeds, NativeFrame
  <2>2. JobAdvances
    BY <1>1, <1>7, ProcessSucceedsJob
  <2>3. HomesInv' /\ Accounts'
    BY <1>1, <1>7, <2>1, ProcessSucceedsHomes, ProcessAccounts
  <2>4. Rows \in Seq(Reviews)
    BY <1>1, <2>2, PrefixType DEF WithinBatch, JobAdvances, Jobs, NoJob
  <2>5. log' \in Seq(Reviews)
    BY <1>2, <2>1, <2>4
  <2>. QED BY <1>2, <2>1, <2>2, <2>3, <2>5, MovingStep
<1>8. CASE ProcessOutOfMemory
  <2>1. /\ NativeFrame /\ UNCHANGED <<held, expected, noArena, log>>
        /\ arenaOpen' = (arenaOpen \/ job.full)
    BY <1>8 DEF ProcessOutOfMemory, NativeFrame
  <2>2. /\ JobAdvances /\ job'.offset = job.offset /\ job'.phase # "sync"
        /\ job.phase # "sync"
    BY <1>1, <1>8, ProcessOutOfMemoryJob DEF ProcessOutOfMemory, Ready, In
  <2>3. arenaOpen' \in BOOLEAN /\ (arenaOpen => arenaOpen')
    BY <1>2, <2>1, <2>2 DEF JobAdvances, Jobs
  <2>. QED BY <2>1, <2>2, <2>3, QuietStep
<1>9. CASE ProcessFails
  <2>1. /\ NativeFrame /\ UNCHANGED <<held, expected, noArena, log>>
        /\ arenaOpen' \in {arenaOpen, arenaOpen \/ job.full}
    BY <1>9 DEF ProcessFails, NativeFrame
  <2>2. /\ JobAdvances /\ job'.offset = job.offset /\ job'.phase # "sync"
        /\ job'.result # "ok"
    BY <1>1, <1>9, ReturningJob DEF ProcessFails, Ready, Results
  <2>3. arenaOpen' \in BOOLEAN /\ (arenaOpen => arenaOpen')
    BY <1>2, <2>1, <2>2 DEF JobAdvances, Jobs
  <2>. QED BY <2>1, <2>2, <2>3, QuietStep
<1>10. CASE ProcessFailsLate
  <2>1. NativeFrame /\ noArena' = noArena /\ log' = log
    BY <1>10 DEF ProcessFailsLate, NativeFrame
  <2>2. JobAdvances /\ job'.offset = job.offset
    BY <1>1, <1>10, ReturningJob DEF ProcessFailsLate, Ready, Results
  <2>3. HomesInv' /\ Accounts'
    BY <1>1, <1>10, <2>1, <2>2, ProcessFailsLateHomes, NativeAccounts
  <2>. QED BY <1>2, <2>1, <2>2, <2>3, MovingStep
<1>11. CASE AbandonArena
  <2>1. NativeFrame /\ UNCHANGED <<held, expected, noArena, log, arenaOpen>>
    BY <1>11 DEF AbandonArena, states, NativeFrame
  <2>2. /\ JobAdvances /\ job'.offset = job.offset /\ job'.read = {}
        /\ job.phase # "sync"
    BY <1>1, <1>11, BeginSyncJob DEF AbandonArena, Recovering, In
  <2>. QED BY <1>2, <2>1, <2>2, QuietStep
<1>12. CASE HalveAttempt
  <2>1. NativeFrame /\ UNCHANGED <<held, expected, noArena, log, arenaOpen>>
    BY <1>12 DEF HalveAttempt, states, NativeFrame
  <2>2. /\ JobAdvances /\ job'.offset = job.offset /\ job'.phase # "sync"
        /\ job.phase # "sync"
    BY <1>1, <1>12, HalveAttemptJob DEF HalveAttempt, Recovering, In
  <2>. QED BY <1>2, <2>1, <2>2, QuietStep
<1>13. CASE LastCleanup
  <2>1. NativeFrame /\ UNCHANGED <<held, expected, noArena, log, arenaOpen>>
    BY <1>13 DEF LastCleanup, states, NativeFrame
  <2>2. /\ JobAdvances /\ job'.offset = job.offset /\ job'.read = {}
        /\ job.phase # "sync"
    BY <1>1, <1>13, LastCleanupJob DEF LastCleanup, Recovering, In
  <2>. QED BY <1>2, <2>1, <2>2, QuietStep
<1>14. CASE GiveUp \/ RecoveryFails
  <2>1. NativeFrame /\ UNCHANGED <<held, expected, noArena, log, arenaOpen>>
    BY <1>14 DEF GiveUp, RecoveryFails, states, NativeFrame
  <2>2. In("recover") /\ (Returns("oom") \/ Returns("execution"))
    BY <1>14 DEF GiveUp, RecoveryFails, Recovering
  <2>3. /\ JobAdvances /\ job'.offset = job.offset /\ job'.phase # "sync"
        /\ job'.result # "ok"
    BY <1>1, <2>2, ReturningJob DEF Results
  <2>. QED BY <1>2, <2>1, <2>3, QuietStep
<1>15. ASSUME NEW m \in Modules, SyncResident(m)
       PROVE  IInv'
  <2>1. /\ UNCHANGED <<device, arenaOpen, noArena, job, log, described, client, report,
                       interrupted, expected>>
    BY <1>15 DEF SyncResident
  <2>2. HomesInv'
    BY <1>1, <1>15, SyncResidentHomes
  <2>3. CallsMatch' /\ WithinBatch'
    BY <1>1, <2>1 DEF CallsMatch, WithinBatch, Waiting, At
  <2>4. Accounts'
    BY <1>1, <2>1
       DEF Accounts, CallIsAccounted, HistoryIsAccounted, ReportIsExact, Untold, Prefix, At
  <2>5. Types'
    BY <1>1, <2>1, <2>2 DEF Types, HomesInv, IsHeld
  <2>. QED BY <2>2, <2>3, <2>4, <2>5, InvariantPartsAfter
<1>16. ASSUME NEW m \in Modules, SyncArenaChunk(m)
       PROVE  IInv'
  <2>1. NativeFrame /\ noArena' = noArena /\ log' = log
    BY <1>16 DEF SyncArenaChunk, NativeFrame
  <2>2. JobAdvances /\ job'.offset = job.offset
    BY <1>1, <1>16, SyncChunkJob
  <2>3. HomesInv' /\ Accounts'
    BY <1>1, <1>16, <2>1, <2>2, SyncArenaChunkHomes, NativeAccounts
  <2>. QED BY <1>2, <2>1, <2>2, <2>3, MovingStep
<1>17. CASE SyncEnds
  <2>1. /\ NativeFrame /\ log' = log
        /\ noArena' = (noArena \/ job.then = "abandoned")
    BY <1>17 DEF SyncEnds, NativeFrame
  <2>2. JobAdvances /\ job'.offset = job.offset
    BY <1>1, <1>17, SyncEndsJob
  <2>3. HomesInv' /\ Accounts'
    BY <1>1, <1>17, <2>1, <2>2, SyncEndsHomes, NativeAccounts
  <2>4. noArena' \in BOOLEAN
    BY <1>2, <2>1
  <2>. QED BY <1>2, <2>1, <2>2, <2>3, <2>4, MovingStep
<1>18. CASE SyncFails
  <2>1. NativeFrame /\ UNCHANGED <<held, expected, noArena, log, arenaOpen>>
    BY <1>18 DEF SyncFails, states, NativeFrame
  <2>2. /\ JobAdvances /\ job'.offset = job.offset /\ job'.phase # "sync"
        /\ job'.result # "ok"
    BY <1>1, <1>18, SyncFailsJob
  <2>. QED BY <1>2, <2>1, <2>2, QuietStep
<1>. QED
  BY <1>3, <1>4, <1>5, <1>6, <1>7, <1>8, <1>9, <1>10, <1>11, <1>12, <1>13, <1>14,
     <1>15, <1>16, <1>17, <1>18 DEF NativeStep

-------------------------------------------------------------------------------
(* The steps of the public call.                                            *)

LEMMA WholeBatch ==
  ASSUME IInv, At("native"), Answered, job.result = "ok"
  PROVE  Prefix = client.batch /\ client.batch \in Seq(Reviews)
<1>1. client \in Clients /\ job # NoJob
  BY ClientIsRunning DEF IInv, At, NoClient, Answered, NoJob
<1>2. job.rows = client.batch /\ client.batch \in Seq(Reviews)
  BY <1>1 DEF IInv, CallsMatch, Clients
<1>3. job.offset = Len(job.rows)
  BY <1>1 DEF IInv, WithinBatch
<1>. QED BY <1>2, <1>3, SubSeqFull DEF Prefix

LEMMA UntoldType ==
  ASSUME IInv
  PROVE  Untold \in Seq(Reviews)
<1>1. CASE At("native")
  <2>1. job # NoJob
    BY <1>1 DEF IInv, CallsMatch, Waiting, At
  <2>2. job \in Jobs
    BY <2>1, JobIsRunning DEF IInv
  <2>3. Prefix \in Seq(Reviews)
    BY <2>1, <2>2, PrefixType DEF IInv, WithinBatch
  <2>. QED BY <1>1, <2>3 DEF Untold
<1>2. CASE ~At("native")
  BY <1>2 DEF Untold
<1>. QED BY <1>1, <1>2

LEMMA LastPart ==
  ASSUME NEW before \in Seq(Reviews), NEW s \in Seq(Reviews)
  PROVE  SubSeq(before \o s, Len(before) + 1, Len(before \o s)) = s
<1>1. Len(before) \in Nat /\ Len(s) \in Nat /\ Len(before \o s) = Len(before) + Len(s)
  OBVIOUS
<1>2. CASE s = <<>>
  BY <1>1, <1>2, SubSeqEmpty
<1>3. CASE s # <<>>
  <2>1. Len(s) # 0
    BY <1>3
  <2>2. SubSeq(before \o s, Len(before) + 1, Len(before) + Len(s)) = SubSeq(s, 1, Len(s))
    <3>1. /\ Len(before) + 1 \in Len(before) + 1 .. Len(before) + Len(s)
          /\ Len(before) + Len(s) \in Len(before) + 1 .. Len(before) + Len(s)
      BY <1>1, <2>1
    <3>2. SubSeq(before \o s, Len(before) + 1, Len(before) + Len(s))
            = SubSeq(s, (Len(before) + 1) - Len(before), (Len(before) + Len(s)) - Len(before))
      BY <3>1, SubSeqOfConcat2
    <3>3. /\ (Len(before) + 1) - Len(before) = 1
          /\ (Len(before) + Len(s)) - Len(before) = Len(s)
      BY <1>1
    <3>. QED BY <3>2, <3>3
  <2>. QED BY <1>1, <2>2, SubSeqFull
<1>. QED BY <1>2, <1>3

\* A step of a call that goes on: what it commits is collected or is told later,
\* and is described.
LEMMA AccountsGrow ==
  ASSUME IInv, client # NoClient, client' # NoClient, client'.start = client.start,
         NEW new \in Seq(Reviews), log' = log \o new,
         client'.results \o Untold' = (client.results \o Untold) \o new,
         described' \o Untold' = (described \o Untold) \o new,
         interrupted' = interrupted
  PROVE  Accounts'
<1>1. client \in Clients
  BY ClientIsRunning DEF IInv
<1>2. PICK before \in Seq(Reviews) :
        Len(before) = client.start /\ log = before \o (client.results \o Untold)
  BY DEF IInv, CallIsAccounted
<1>3. PICK told : told = client.results \o Untold
  OBVIOUS
<1>4. told \in Seq(Reviews)
  BY <1>1, <1>3, UntoldType DEF Clients
<1>5. (before \o told) \o new = before \o (told \o new)
  BY ONLY <1>4, before \in Seq(Reviews), new \in Seq(Reviews)
<1>6. log' = before \o (client'.results \o Untold')
  BY <1>2, <1>3, <1>5
<1>7. CallIsAccounted'
  BY <1>2, <1>6 DEF CallIsAccounted
<1>8. HistoryIsAccounted'
  BY DEF IInv, HistoryIsAccounted
<1>9. ReportIsExact'
  BY DEF ReportIsExact
<1>. QED BY <1>7, <1>8, <1>9 DEF Accounts

\* A step that ends a call: what is told is what it committed.
LEMMA AccountsEnd ==
  ASSUME IInv, client # NoClient, client' = NoClient, log' = log,
         report'.start = client.start,
         report'.told \in {"ok", "error", "lost"} =>
           report'.results = client.results \o Untold,
         interrupted' \in BOOLEAN,
         ~interrupted' => ~interrupted /\ described' = described \o Untold,
         described' \in Seq(Reviews)
  PROVE  Accounts'
<1>1. client \in Clients
  BY ClientIsRunning DEF IInv
<1>2. PICK before \in Seq(Reviews) :
        Len(before) = client.start /\ log = before \o (client.results \o Untold)
  BY DEF IInv, CallIsAccounted
<1>3. PICK told : told = client.results \o Untold
  OBVIOUS
<1>4. told \in Seq(Reviews)
  BY <1>1, <1>3, UntoldType DEF Clients
<1>5. SubSeq(log, client.start + 1, Len(log)) = told
  <2>1. SubSeq(before \o told, Len(before) + 1, Len(before \o told)) = told
    BY <1>2, <1>4, LastPart
  <2>. QED BY <1>2, <1>3, <2>1
<1>6. ~interrupted' => described' = log'
  BY DEF IInv, HistoryIsAccounted
<1>7. ReportIsExact'
  BY <1>3, <1>5, <1>6 DEF ReportIsExact
<1>8. Untold' = <<>>
  BY DEF Untold, At, NoClient
<1>9. described' \o <<>> = described'
  BY ConcatEmptySeq
<1>10. HistoryIsAccounted'
  BY <1>6, <1>8, <1>9 DEF HistoryIsAccounted
<1>11. CallIsAccounted'
  BY DEF CallIsAccounted
<1>. QED BY <1>7, <1>10, <1>11 DEF Accounts

\* The types that a step of the public call could change.
LEMMA ClientTypes ==
  ASSUME Types, HomesInv', device' = device, noArena' \in BOOLEAN,
         interrupted' \in BOOLEAN, log' \in Seq(Reviews), described' \in Seq(Reviews),
         job' \in Jobs \cup {NoJob}, client' \in Clients \cup {NoClient},
         report' \in Reports
  PROVE  Types'
BY DEF Types, HomesInv, IsHeld

\* A step that moves no state, and does not go on from one that was damaged.
LEMMA HomesStay ==
  ASSUME IInv, UNCHANGED <<held, expected, arenaOpen, device>>,
         Trusted' => Trusted, CpuFindsStatesOnHost',
         job' = NoJob \/ job'.read = {}
  PROVE  HomesInv'
<1>1. HomesInv
  BY InvariantParts DEF IInv
<1>2. StatesSurvive'
  BY <1>1, SurviveMeans, SurviveAfter DEF HomesInv
<1>3. ReadIsSound'
  BY DEF ReadIsSound, In, NoJob
<1>4. ArenaIsOpen'
  BY <1>1 DEF HomesInv, ArenaIsOpen, IsEmpty, KeysIn
<1>. QED BY <1>1, <1>2, <1>3, <1>4 DEF HomesInv

\* A call that ends leaves no native call behind.
LEMMA CallOver ==
  ASSUME IInv, client # NoClient, client' = NoClient, job' = NoJob,
         UNCHANGED <<held, expected, arenaOpen, device, noArena, log>>, Accounts',
         Damaged => report'.told = "lost", interrupted' \in BOOLEAN,
         described' \in Seq(Reviews), report' \in Reports
  PROVE  IInv'
<1>1. CallsMatch' /\ WithinBatch'
  BY DEF CallsMatch, WithinBatch, Waiting, At, NoClient
<1>2. CpuFindsStatesOnHost'
  BY DEF CpuFindsStatesOnHost, At, NoClient
<1>3. Trusted' => Trusted
  BY DEF IInv, CallsMatch, Trusted, Silence
<1>4. HomesInv'
  BY <1>2, <1>3, HomesStay
<1>5. Types'
  BY <1>4, ClientTypes DEF IInv, Types
<1>. QED BY <1>1, <1>4, <1>5, InvariantPartsAfter

LEMMA ToldType ==
  ASSUME IInv, client # NoClient, NEW told, NEW results \in Seq(Reviews),
         told \in {"nothing", "ok", "raised", "error", "lost", "interrupted"},
         Tell(told, results)
  PROVE  /\ client' = NoClient /\ report' \in Reports
         /\ report'.told = told /\ report'.start = client.start
         /\ report'.results = results
<1>1. client.start \in Nat
  BY ClientIsRunning DEF IInv, Clients
<1>. QED BY <1>1 DEF Tell, Reports

LEMMA BatchType ==
  ASSUME IInv, client # NoClient
  PROVE  /\ client \in Clients /\ client.results \in Seq(Reviews)
         /\ client.batch \in Seq(Reviews) /\ client.left \in Seq(Reviews)
         /\ client.start \in Nat /\ client.cpu \in BOOLEAN /\ log \in Seq(Reviews)
         /\ described \in Seq(Reviews) /\ noArena \in BOOLEAN
         /\ interrupted \in BOOLEAN
BY ClientIsRunning DEF IInv, Types, Clients

LEMMA NoCallNoJob ==
  ASSUME IInv, At("idle")
  PROVE  client = NoClient /\ job = NoJob
<1>1. client = NoClient
  BY ClientIsRunning DEF IInv, At, Clients
<1>. QED BY <1>1 DEF IInv, CallsMatch, Waiting, At

LEMMA SyncJobType ==
  SyncJob \in Jobs /\ SyncJob # NoJob /\ SyncJob.phase = "sync"
    /\ SyncJob.then = "return" /\ SyncJob.offset + SyncJob.attempt <= Len(SyncJob.rows)
    /\ SyncJob.read = {} /\ SyncJob.result = "none"
BY DEF SyncJob, NewJob, Jobs, Results, NoJob

LEMMA CallType ==
  ASSUME IInv, NEW kind \in {"process", "state_only", "cpu"}, NEW input \in Inputs,
         NEW full \in BOOLEAN, NEW fallback \in BOOLEAN
  PROVE  /\ Call(kind, input, full, fallback) \in Clients
         /\ Call(kind, input, full, fallback).results = <<>>
         /\ Call(kind, input, full, fallback).start = Len(log)
         /\ Call(kind, input, full, fallback).cpu = (kind = "cpu")
         /\ Call(kind, input, full, fallback).phase =
              IF kind = "cpu" THEN "synchronize" ELSE "next"
<1>1. input \in Seq(Reviews)
  BY ProcessAssumption
<1>2. Len(log) \in Nat
  BY DEF IInv, Types
<1>. QED BY <1>1, <1>2 DEF Call, Clients

\* A call begins: it has committed nothing.
LEMMA CallBegins ==
  ASSUME IInv, At("idle"), report.told # "lost", client' \in Clients,
         client'.results = <<>>, client'.start = Len(log),
         report' = Silence, ~At("native")', ~At("cpu")', At("next")' => ~client'.cpu,
         job' = (IF client'.phase = "synchronize" THEN SyncJob ELSE NoJob),
         client'.phase \in {"synchronize", "next"},
         UNCHANGED <<states, log, described, interrupted>>
  PROVE  IInv'
<1>1. client = NoClient /\ job = NoJob
  BY NoCallNoJob
<1>2. UNCHANGED <<held, expected, arenaOpen, device, noArena>>
  BY DEF states
<1>3. CallsMatch' /\ WithinBatch'
  <2>1. CASE client'.phase = "synchronize"
    <3>1. job' = SyncJob
      BY <2>1
    <3>. QED BY <2>1, <3>1, SyncJobType DEF CallsMatch, WithinBatch, Waiting, At
  <2>2. CASE client'.phase = "next"
    BY <2>2 DEF CallsMatch, WithinBatch, Waiting, At
  <2>. QED BY <2>1, <2>2
<1>4. Trusted
  BY <1>1 DEF Trusted, Damaged, Answered, NoJob
<1>5. CpuFindsStatesOnHost'
  BY SyncJobType DEF CpuFindsStatesOnHost, At, Answered
<1>6. job' = NoJob \/ job'.read = {}
  BY SyncJobType
<1>7. HomesInv'
  BY <1>2, <1>4, <1>5, <1>6, HomesStay
<1>8. log \in Seq(Reviews) /\ described \in Seq(Reviews) /\ Types
  BY DEF IInv, Types
<1>9. Untold' = <<>> /\ Untold = <<>>
  BY <1>1 DEF Untold, At, NoClient
<1>10. Accounts'
  <2>1. log' = log \o (client'.results \o Untold')
    BY <1>8, <1>9
  <2>2. CallIsAccounted'
    BY <1>8, <2>1 DEF CallIsAccounted
  <2>3. HistoryIsAccounted'
    BY <1>9 DEF IInv, HistoryIsAccounted
  <2>4. client' # NoClient
    BY DEF Clients, NoClient
  <2>5. ReportIsExact'
    BY <2>4 DEF ReportIsExact
  <2>. QED BY <2>2, <2>3, <2>5 DEF Accounts
<1>11. Silence \in Reports
  BY DEF Silence, Reports
<1>12. job' \in Jobs \cup {NoJob}
  BY SyncJobType
<1>13. Types'
  BY <1>2, <1>7, <1>8, <1>11, <1>12, ClientTypes DEF Types
<1>. QED BY <1>3, <1>7, <1>10, <1>13, InvariantPartsAfter

LEMMA BeginKeeps ==
  ASSUME IInv, BeginOnGpu \/ BeginOnCpu
  PROVE  IInv'
<1>1. ASSUME NEW kind \in {"process", "state_only"}, NEW input \in Inputs,
             NEW full \in BOOLEAN, NEW fallback \in BOOLEAN, MayCall(input),
             client' = Call(kind, input, full, fallback), report' = Silence,
             UNCHANGED <<states, log, described, job, interrupted>>
      PROVE  IInv'
  <2>1. kind # "cpu" /\ kind \in {"process", "state_only", "cpu"}
    BY <1>1
  <2>2. /\ client' \in Clients /\ client'.results = <<>> /\ client'.start = Len(log)
        /\ client'.phase = "next" /\ ~client'.cpu
    <3>1. client' = Call(kind, input, full, fallback)
      BY <1>1
    <3>2. /\ client' \in Clients /\ client'.results = <<>> /\ client'.start = Len(log)
          /\ client'.phase = IF kind = "cpu" THEN "synchronize" ELSE "next"
          /\ client'.cpu = (kind = "cpu")
      BY <2>1, <3>1, CallType
    <3>3. client'.cpu = FALSE
      BY ONLY <2>1, <3>2
    <3>4. client'.phase = "next"
      BY <2>1, <3>2
    <3>. QED BY <3>2, <3>3, <3>4
  <2>3. At("idle") /\ report.told # "lost"
    BY <1>1 DEF MayCall
  <2>4. job' = NoJob
    BY <1>1, <2>3, NoCallNoJob
  <2>. QED BY <1>1, <2>2, <2>3, <2>4, CallBegins DEF At
<1>2. ASSUME NEW input \in Inputs, MayCall(input),
             client' = Call("cpu", input, FALSE, FALSE), report' = Silence,
             job' = SyncJob, UNCHANGED <<states, log, described, interrupted>>
      PROVE  IInv'
  <2>1. /\ client' \in Clients /\ client'.results = <<>> /\ client'.start = Len(log)
        /\ client'.phase = "synchronize"
    BY <1>2, CallType
  <2>2. At("idle") /\ report.told # "lost"
    BY <1>2 DEF MayCall
  <2>. QED BY <1>2, <2>1, <2>2, CallBegins DEF At
<1>. QED BY <1>1, <1>2 DEF BeginOnGpu, BeginOnCpu

\* A step of a call that goes on without moving states.
LEMMA CallGoesOn ==
  ASSUME IInv, client # NoClient, client' \in Clients,
         UNCHANGED <<held, expected, arenaOpen, device, log, report, interrupted>>,
         noArena' \in BOOLEAN, described' \in Seq(Reviews),
         client'.start = client.start,
         client'.results \o Untold' = client.results \o Untold,
         described' \o Untold' = described \o Untold,
         ~Damaged, CpuFindsStatesOnHost',
         job' = NoJob \/ job'.read = {}, job' \in Jobs \cup {NoJob},
         CallsMatch', WithinBatch'
  PROVE  IInv'
<1>1. report = Silence
  BY DEF IInv, CallsMatch
<1>2. Trusted
  BY <1>1 DEF Trusted, Silence
<1>3. HomesInv'
  BY <1>2, HomesStay
<1>4. Types'
  BY <1>3, ClientTypes DEF IInv, Types
<1>5. client' # NoClient
  BY DEF Clients, NoClient
<1>6. /\ log \in Seq(Reviews) /\ described \in Seq(Reviews)
      /\ client.results \in Seq(Reviews) /\ Untold \in Seq(Reviews)
  BY BatchType, UntoldType
<1>7. PICK r : r = client.results
  OBVIOUS
<1>8. PICK u : u = Untold
  OBVIOUS
<1>9. log \o <<>> = log /\ (r \o u) \o <<>> = r \o u
        /\ (described \o u) \o <<>> = described \o u
  BY <1>6, <1>7, <1>8
<1>10. <<>> \in Seq(Reviews)
  OBVIOUS
<1>11. Accounts'
  BY <1>5, <1>7, <1>8, <1>9, <1>10, AccountsGrow
<1>. QED BY <1>3, <1>4, <1>11, InvariantPartsAfter

LEMMA PartTypes ==
  ASSUME NEW s \in Seq(Reviews), NEW n \in Nat, n <= Len(s)
  PROVE  /\ SubSeq(s, 1, n) \in Seq(Reviews)
         /\ SubSeq(s, n + 1, Len(s)) \in Seq(Reviews)
         /\ s = SubSeq(s, 1, n) \o SubSeq(s, n + 1, Len(s))
<1>1. Len(s) \in Nat
  OBVIOUS
<1>2. /\ 1 \in 1 .. Len(s) + 1 /\ n \in 1 - 1 .. Len(s) /\ Len(s) \in n .. Len(s)
  BY <1>1
<1>3. SubSeq(s, 1, n) \o SubSeq(s, n + 1, Len(s)) = SubSeq(s, 1, Len(s))
  BY <1>2, ConcatAdjacentSubSeq
<1>4. \A i \in 1 .. n : s[i] \in Reviews
  BY <1>1
<1>5. SubSeq(s, 1, n) \in Seq(Reviews)
  BY <1>4, SubSeqProperties
<1>. QED BY <1>3, <1>5, SubSeqFull, RowsThatAreLeft

LEMMA ProcessJobType ==
  ASSUME NEW rows \in Seq(Reviews), NEW full \in BOOLEAN
  PROVE  /\ ProcessJob(rows, full) \in Jobs /\ ProcessJob(rows, full) # NoJob
         /\ ProcessJob(rows, full).rows = rows /\ ProcessJob(rows, full).offset = 0
         /\ ProcessJob(rows, full).attempt = 0 /\ ProcessJob(rows, full).read = {}
         /\ ProcessJob(rows, full).phase = "prefix"
         /\ ProcessJob(rows, full).result = "none"
BY DEF ProcessJob, NewJob, Jobs, Results, NoJob

LEMMA NextBatchKeeps ==
  ASSUME IInv, NextBatch
  PROVE  IInv'
<1>1. At("next") /\ client # NoClient
  BY DEF NextBatch, At, NoClient
<1>2. /\ client \in Clients /\ client.left \in Seq(Reviews)
      /\ client.results \in Seq(Reviews) /\ client.cpu \in BOOLEAN
      /\ noArena \in BOOLEAN /\ client.full \in BOOLEAN
  BY <1>1, BatchType DEF Clients
<1>3. job = NoJob
  BY <1>1 DEF IInv, CallsMatch, Waiting, At
<1>4. PICK n, rows : /\ n = Shorter(BatchSize, Len(client.left))
                     /\ rows = SubSeq(client.left, 1, n)
  OBVIOUS
<1>5. n \in Nat /\ n <= Len(client.left)
  <2>1. Len(client.left) \in Nat
    BY <1>2
  <2>. QED BY <1>4, <2>1, ProcessAssumption DEF Shorter
<1>6. rows \in Seq(Reviews) /\ SubSeq(client.left, n + 1, Len(client.left)) \in Seq(Reviews)
  BY <1>2, <1>4, <1>5, PartTypes
<1>7. /\ client' = [client EXCEPT !.batch = rows,
                       !.left = SubSeq(client.left, n + 1, Len(client.left)),
                       !.phase = IF client.cpu THEN "cpu" ELSE "native"]
      /\ job' = (IF client.cpu THEN NoJob ELSE ProcessJob(rows, client.full /\ ~noArena))
      /\ UNCHANGED <<states, log, described, report, interrupted>>
  BY <1>4 DEF NextBatch
<1>8. /\ client' \in Clients /\ client'.start = client.start
      /\ client'.results = client.results /\ client'.batch = rows
      /\ client'.cpu = client.cpu
      /\ client'.phase = IF client.cpu THEN "cpu" ELSE "native"
  BY <1>2, <1>6, <1>7 DEF Clients
<1>9. UNCHANGED <<held, expected, arenaOpen, device, noArena>>
  BY <1>7 DEF states
<1>10. ~Damaged
  BY <1>3 DEF Damaged, Answered, NoJob
<1>11. Untold = <<>>
  BY <1>1 DEF Untold, At
<1>12. report = Silence
  BY <1>1 DEF IInv, CallsMatch
<1>13. CASE client.cpu
  <2>1. job' = NoJob /\ client'.phase = "cpu"
    BY <1>7, <1>8, <1>13
  <2>2. Untold' = <<>>
    BY <2>1 DEF Untold, At
  <2>3. CallsMatch' /\ WithinBatch'
    BY <1>7, <1>12, <2>1 DEF CallsMatch, WithinBatch, Waiting, At
  <2>4. OnHost
    BY <1>1, <1>13 DEF IInv, CpuFindsStatesOnHost
  <2>5. CpuFindsStatesOnHost'
    BY <1>9, <2>4 DEF CpuFindsStatesOnHost, OnHost, IsEmpty, KeysIn
  <2>. QED
    BY <1>1, <1>2, <1>7, <1>8, <1>9, <1>10, <1>11, <2>1, <2>2, <2>3, <2>5, BatchType,
       CallGoesOn
<1>14. CASE ~client.cpu
  <2>1. job' = ProcessJob(rows, client.full /\ ~noArena) /\ client'.phase = "native"
    BY <1>7, <1>8, <1>14
  <2>2. (client.full /\ ~noArena) \in BOOLEAN
    BY <1>2
  <2>3. /\ job' \in Jobs /\ job' # NoJob /\ job'.rows = rows /\ job'.offset = 0
        /\ job'.attempt = 0 /\ job'.read = {} /\ job'.phase = "prefix"
        /\ job'.result = "none"
    BY <1>6, <2>1, <2>2, ProcessJobType
  <2>4. Untold' = <<>>
    <3>1. Prefix' = <<>>
      BY <2>3, SubSeqEmpty DEF Prefix
    <3>. QED BY <3>1 DEF Untold
  <2>5. CallsMatch'
    BY <1>7, <1>8, <1>12, <1>14, <2>1, <2>3 DEF CallsMatch, Waiting, At
  <2>6. Len(rows) \in Nat
    BY <1>6
  <2>7. WithinBatch'
    BY <2>3, <2>6 DEF WithinBatch
  <2>8. CpuFindsStatesOnHost'
    BY <2>1 DEF CpuFindsStatesOnHost, At
  <2>. QED
    BY <1>1, <1>2, <1>7, <1>8, <1>9, <1>10, <1>11, <2>3, <2>4, <2>5, <2>7, <2>8, BatchType,
       CallGoesOn
<1>. QED BY <1>2, <1>13, <1>14

\* A call that ends before its next batch, or on the CPU.
LEMMA EndWithoutJob ==
  ASSUME IInv, client # NoClient, ~Waiting, ~At("native"),
         NEW told \in {"nothing", "ok", "raised", "error", "lost", "interrupted"},
         Tell(told, client.results),
         UNCHANGED <<states, log, described, job, interrupted>>
  PROVE  IInv'
<1>1. job = NoJob
  BY DEF IInv, CallsMatch
<1>2. /\ client.results \in Seq(Reviews) /\ described \in Seq(Reviews)
      /\ interrupted \in BOOLEAN
  BY BatchType
<1>3. /\ client' = NoClient /\ report' \in Reports
      /\ report'.told = told /\ report'.start = client.start
      /\ report'.results = client.results
  BY <1>2, ToldType
<1>4. Untold = <<>>
  BY DEF Untold
<1>5. /\ client.results = client.results \o Untold
      /\ described = described \o Untold
  BY <1>2, <1>4
<1>6. Accounts'
  BY <1>2, <1>3, <1>5, AccountsEnd
<1>7. ~Damaged
  BY <1>1 DEF Damaged, Answered, NoJob
<1>. QED BY <1>1, <1>2, <1>3, <1>6, <1>7, CallOver DEF states

LEMMA EndsKeep ==
  ASSUME IInv, InputFails \/ CallEnds \/ CpuFails
  PROVE  IInv'
<1>1. CASE InputFails
  <2>1. PICK told \in {"raised", "error"} : Tell(told, client.results)
    BY <1>1 DEF InputFails
  <2>2. client # NoClient /\ ~Waiting /\ ~At("native")
    BY <1>1 DEF InputFails, At, NoClient, Waiting
  <2>. QED BY <1>1, <2>1, <2>2, EndWithoutJob DEF InputFails
<1>2. CASE CallEnds
  <2>1. client # NoClient /\ ~Waiting /\ ~At("native")
    BY <1>2 DEF CallEnds, At, NoClient, Waiting
  <2>. QED BY <1>2, <2>1, EndWithoutJob DEF CallEnds
<1>3. CASE CpuFails
  <2>1. PICK told \in {"raised", "error"} : Tell(told, client.results)
    BY <1>3 DEF CpuFails
  <2>2. client # NoClient /\ ~Waiting /\ ~At("native")
    BY <1>3 DEF CpuFails, At, NoClient, Waiting
  <2>. QED BY <1>3, <2>1, <2>2, EndWithoutJob DEF CpuFails
<1>. QED BY <1>1, <1>2, <1>3

LEMMA ReceiveKeeps ==
  ASSUME IInv, ReceiveRows
  PROVE  IInv'
<1>1. At("native") /\ Answered /\ job.result = "ok" /\ client # NoClient
  BY DEF ReceiveRows, At, NoClient
<1>2. /\ client \in Clients /\ client.results \in Seq(Reviews)
      /\ described \in Seq(Reviews) /\ noArena \in BOOLEAN
  BY <1>1, BatchType
<1>3. Prefix = client.batch /\ client.batch \in Seq(Reviews)
  BY <1>1, WholeBatch
<1>4. /\ client' = [client EXCEPT !.results = client.results \o client.batch,
                                  !.phase = "next"]
      /\ described' = described \o client.batch /\ job' = NoJob
      /\ UNCHANGED <<held, expected, arenaOpen, device, noArena, log, report, interrupted>>
  BY DEF ReceiveRows, states
<1>5. client.results \o client.batch \in Seq(Reviews)
  BY <1>2, <1>3
<1>6. /\ client' \in Clients /\ client'.start = client.start
      /\ client'.results = client.results \o client.batch
      /\ client'.phase = "next" /\ client'.cpu = client.cpu
  BY <1>2, <1>4, <1>5 DEF Clients
<1>7. ~client.cpu
  BY <1>1 DEF IInv, CallsMatch
<1>8. Untold = client.batch /\ Untold' = <<>>
  BY <1>1, <1>3, <1>6 DEF Untold, At
<1>9. described' \in Seq(Reviews)
  BY <1>2, <1>3, <1>4
<1>10. /\ client'.results \o Untold' = client.results \o Untold
       /\ described' \o Untold' = described \o Untold
  BY <1>4, <1>5, <1>6, <1>8, <1>9, ConcatEmptySeq
<1>11. ~Damaged
  BY <1>1 DEF Damaged
<1>12. report = Silence
  BY <1>1 DEF IInv, CallsMatch
<1>13. CallsMatch' /\ WithinBatch' /\ CpuFindsStatesOnHost'
  BY <1>4, <1>6, <1>7, <1>12 DEF CallsMatch, WithinBatch, CpuFindsStatesOnHost, Waiting, At
<1>. QED BY <1>1, <1>2, <1>4, <1>6, <1>9, <1>10, <1>11, <1>13, CallGoesOn

LEMMA InterruptKeeps ==
  ASSUME IInv, Interrupt
  PROVE  IInv'
<1>1. At("native") /\ Answered /\ job.result = "ok" /\ client # NoClient
  BY DEF Interrupt, At, NoClient
<1>2. /\ client.results \in Seq(Reviews) /\ described \in Seq(Reviews)
      /\ interrupted \in BOOLEAN
  BY <1>1, BatchType
<1>3. Prefix = client.batch /\ client.batch \in Seq(Reviews)
  BY <1>1, WholeBatch
<1>4. Untold = client.batch
  BY <1>1, <1>3 DEF Untold
<1>5. job' = NoJob /\ UNCHANGED <<held, expected, arenaOpen, device, noArena, log>>
  BY DEF Interrupt, states
<1>6. ~Damaged
  BY <1>1 DEF Damaged
<1>7. CASE client.kind = "state_only"
  <2>1. /\ described' = described \o client.batch /\ interrupted' = interrupted
        /\ Tell("error", client.results \o client.batch)
    BY <1>7 DEF Interrupt
  <2>2. client.results \o client.batch \in Seq(Reviews)
    BY <1>2, <1>3
  <2>3. /\ client' = NoClient /\ report' \in Reports /\ report'.told = "error"
        /\ report'.start = client.start /\ report'.results = client.results \o client.batch
    BY <1>1, <2>1, <2>2, ToldType
  <2>4. described' \in Seq(Reviews)
    BY <1>2, <1>3, <2>1
  <2>5. Accounts'
    BY <1>1, <1>2, <1>4, <1>5, <2>1, <2>3, <2>4, AccountsEnd
  <2>. QED BY <1>1, <1>2, <1>5, <1>6, <2>1, <2>3, <2>4, <2>5, CallOver
<1>8. CASE client.kind # "state_only"
  <2>1. /\ described' = described /\ interrupted' = TRUE
        /\ Tell("interrupted", client.results)
    BY <1>8 DEF Interrupt
  <2>2. /\ client' = NoClient /\ report' \in Reports /\ report'.told = "interrupted"
        /\ report'.start = client.start
    BY <1>1, <1>2, <2>1, ToldType
  <2>3. Accounts'
    BY <1>1, <1>2, <1>5, <2>1, <2>2, AccountsEnd
  <2>. QED BY <1>1, <1>2, <1>5, <1>6, <2>1, <2>2, <2>3, CallOver
<1>. QED BY <1>7, <1>8

\* What a native call that failed leaves.
LEMMA FailedBatch ==
  ASSUME IInv, Failed
  PROVE  /\ client # NoClient /\ client \in Clients /\ job \in Jobs
         /\ Prefix \in Seq(Reviews) /\ Rest \in Seq(Reviews)
         /\ client.results \o Prefix \in Seq(Reviews)
         /\ described \o Prefix \in Seq(Reviews)
         /\ Untold = Prefix
<1>1. client # NoClient /\ job # NoJob /\ At("native")
  BY DEF Failed, At, Answered, NoClient, NoJob
<1>2. client \in Clients /\ client.results \in Seq(Reviews) /\ described \in Seq(Reviews)
  BY <1>1, BatchType
<1>3. job \in Jobs /\ job.offset + job.attempt <= Len(job.rows)
  BY <1>1, JobIsRunning DEF IInv, WithinBatch
<1>4. Prefix \in Seq(Reviews)
  BY <1>3, PrefixType
<1>5. job.rows \in Seq(Reviews) /\ job.offset \in Nat /\ job.attempt \in Nat
  BY <1>3 DEF Jobs
<1>6. Len(job.rows) \in Nat
  BY <1>5
<1>7. job.offset <= Len(job.rows)
  BY <1>3, <1>5, <1>6
<1>8. Rest \in Seq(Reviews)
  BY <1>5, <1>7, RowsThatAreLeft DEF Rest
<1>9. Untold = Prefix
  BY <1>1 DEF Untold
<1>. QED BY <1>1, <1>2, <1>3, <1>4, <1>8, <1>9, ConcatProperties

LEMMA FallBackKeeps ==
  ASSUME IInv, FallBack
  PROVE  IInv'
<1>1. Failed /\ At("native")
  BY DEF FallBack, Failed
<1>2. /\ client # NoClient /\ client \in Clients
      /\ Prefix \in Seq(Reviews) /\ Rest \in Seq(Reviews)
      /\ client.results \o Prefix \in Seq(Reviews)
      /\ described \o Prefix \in Seq(Reviews) /\ Untold = Prefix
  BY <1>1, FailedBatch
<1>3. noArena \in BOOLEAN
  BY <1>2, BatchType
<1>4. /\ client' = [client EXCEPT !.results = client.results \o Prefix, !.batch = Rest,
                                  !.cpu = TRUE, !.phase = "release"]
      /\ described' = described \o Prefix /\ job' = SyncJob
      /\ UNCHANGED <<held, expected, arenaOpen, device, noArena, log, report, interrupted>>
  BY DEF FallBack, RecordedRows, states
<1>5. /\ client' \in Clients /\ client'.start = client.start
      /\ client'.results = client.results \o Prefix
      /\ client'.phase = "release"
  BY <1>2, <1>4 DEF Clients
<1>6. Untold' = <<>>
  BY <1>5 DEF Untold, At
<1>7. /\ client'.results \o Untold' = client.results \o Untold
      /\ described' \o Untold' = described \o Untold
  BY <1>2, <1>4, <1>5, <1>6, ConcatEmptySeq
<1>8. ~Damaged
  BY DEF FallBack, Retryable, Damaged
<1>9. report = Silence
  BY <1>2 DEF IInv, CallsMatch
<1>10. CallsMatch' /\ WithinBatch' /\ CpuFindsStatesOnHost'
  BY <1>4, <1>5, <1>9, SyncJobType
     DEF CallsMatch, WithinBatch, CpuFindsStatesOnHost, Waiting, At, Answered
<1>11. job' \in Jobs /\ job'.read = {}
  BY <1>4, SyncJobType
<1>12. described' \in Seq(Reviews)
  BY <1>2, <1>4
<1>. QED BY <1>2, <1>3, <1>4, <1>5, <1>7, <1>8, <1>10, <1>11, <1>12, CallGoesOn

LEMMA CallFailsKeeps ==
  ASSUME IInv, CallFails
  PROVE  IInv'
<1>1. Failed
  BY DEF CallFails
<1>2. /\ client # NoClient /\ Prefix \in Seq(Reviews)
      /\ client.results \o Prefix \in Seq(Reviews)
      /\ described \o Prefix \in Seq(Reviews) /\ Untold = Prefix
  BY <1>1, FailedBatch
<1>3. PICK told : told = Told(job.result)
  OBVIOUS
<1>4. told \in {"lost", "raised", "error"} /\ (Damaged => told = "lost")
  BY <1>3 DEF Told, Damaged
<1>5. /\ Tell(told, client.results \o Prefix)
      /\ described' = described \o Prefix /\ job' = NoJob
      /\ UNCHANGED <<held, expected, arenaOpen, device, noArena, log, interrupted>>
  BY <1>3 DEF CallFails, RecordedRows, states
<1>6. /\ client' = NoClient /\ report' \in Reports
      /\ report'.told = told /\ report'.start = client.start
      /\ report'.results = client.results \o Prefix
  BY <1>2, <1>4, <1>5, ToldType
<1>7. interrupted \in BOOLEAN
  BY <1>2, BatchType
<1>8. described' \in Seq(Reviews)
  BY <1>2, <1>5
<1>9. Accounts'
  BY <1>2, <1>5, <1>6, <1>7, <1>8, AccountsEnd
<1>. QED BY <1>2, <1>4, <1>5, <1>6, <1>7, <1>8, <1>9, CallOver

LEMMA SynchronizedKeeps ==
  ASSUME IInv, Synchronized \/ SynchronizeFails
  PROVE  IInv'
<1>1. /\ client.phase \in {"release", "synchronize"} /\ client # NoClient
      /\ ~At("native") /\ Answered
  BY DEF Synchronized, SynchronizeFails, At, NoClient
<1>2. /\ client \in Clients /\ client.results \in Seq(Reviews)
      /\ described \in Seq(Reviews) /\ noArena \in BOOLEAN /\ interrupted \in BOOLEAN
  BY <1>1, BatchType
<1>3. Untold = <<>>
  BY <1>1 DEF Untold
<1>4. CASE Synchronized
  <2>1. OnHost /\ ~Damaged
    BY <1>1, <1>4 DEF Synchronized, IInv, CpuFindsStatesOnHost, Damaged
  <2>2. /\ client' = [client EXCEPT
                        !.phase = IF client.batch = <<>> THEN "next" ELSE "cpu"]
        /\ noArena' = (noArena /\ ~At("release")) /\ job' = NoJob
        /\ UNCHANGED <<held, expected, arenaOpen, device, log, described, report,
                       interrupted>>
    BY <1>4 DEF Synchronized
  <2>3. /\ client' \in Clients /\ client'.start = client.start
        /\ client'.results = client.results /\ client'.phase \in {"next", "cpu"}
    BY <1>2, <2>2 DEF Clients
  <2>4. Untold' = <<>>
    BY <2>3 DEF Untold, At
  <2>5. report = Silence
    BY <1>1 DEF IInv, CallsMatch
  <2>6. CallsMatch' /\ WithinBatch'
    BY <2>2, <2>3, <2>5 DEF CallsMatch, WithinBatch, Waiting, At
  <2>7. CpuFindsStatesOnHost'
    BY <2>1, <2>2 DEF CpuFindsStatesOnHost, OnHost, IsEmpty, KeysIn
  <2>8. noArena' \in BOOLEAN
    BY <1>2, <2>2
  <2>. QED BY <1>1, <1>2, <1>3, <2>1, <2>2, <2>3, <2>4, <2>6, <2>7, <2>8, CallGoesOn
<1>5. CASE SynchronizeFails
  <2>1. /\ Tell("lost", client.results) /\ job' = NoJob
        /\ UNCHANGED <<held, expected, arenaOpen, device, noArena, log, described,
                       interrupted>>
    BY <1>5 DEF SynchronizeFails, states
  <2>2. /\ client' = NoClient /\ report' \in Reports /\ report'.told = "lost"
        /\ report'.start = client.start /\ report'.results = client.results
    BY <1>1, <1>2, <2>1, ToldType
  <2>3. client.results \o Untold = client.results /\ described \o Untold = described
    BY <1>2, <1>3
  <2>4. Accounts'
    BY <1>1, <1>2, <2>1, <2>2, <2>3, AccountsEnd
  <2>. QED BY <1>1, <1>2, <2>1, <2>2, <2>4, CallOver
<1>. QED BY <1>4, <1>5

LEMMA CpuRowsKeeps ==
  ASSUME IInv, CpuRows
  PROVE  IInv'
<1>1. At("cpu") /\ client # NoClient /\ ~Waiting /\ ~At("native")
  BY DEF CpuRows, At, NoClient, Waiting
<1>2. /\ client \in Clients /\ client.results \in Seq(Reviews)
      /\ client.batch \in Seq(Reviews) /\ log \in Seq(Reviews)
      /\ described \in Seq(Reviews) /\ noArena \in BOOLEAN /\ interrupted \in BOOLEAN
  BY <1>1, BatchType
<1>3. job = NoJob /\ report = Silence
  BY <1>1 DEF IInv, CallsMatch
<1>4. PICK n \in 1 .. Len(client.batch) :
        /\ held' = CpuCommit(held, SubSeq(client.batch, 1, n))
        /\ log' = log \o SubSeq(client.batch, 1, n)
        /\ described' = described \o SubSeq(client.batch, 1, n)
        /\ expected' = ExpectedAfter(SubSeq(client.batch, 1, n))
        /\ client' = [client EXCEPT
              !.results = client.results \o SubSeq(client.batch, 1, n),
              !.batch = SubSeq(client.batch, n + 1, Len(client.batch)),
              !.phase = IF SubSeq(client.batch, n + 1, Len(client.batch)) = <<>>
                        THEN "next" ELSE "cpu"]
  BY DEF CpuRows
<1>5. PICK rows, rest : /\ rows = SubSeq(client.batch, 1, n)
                        /\ rest = SubSeq(client.batch, n + 1, Len(client.batch))
  OBVIOUS
<1>6. rows \in Seq(Reviews) /\ rest \in Seq(Reviews)
  <2>1. Len(client.batch) \in Nat
    BY <1>2
  <2>2. n \in Nat /\ n <= Len(client.batch)
    BY <1>4, <2>1
  <2>. QED BY <1>2, <1>5, <2>2, PartTypes
<1>7. UNCHANGED <<device, arenaOpen, noArena, job, report, interrupted>>
  BY DEF CpuRows
<1>8. OnHost
  BY <1>1 DEF IInv, CpuFindsStatesOnHost
<1>9. Trusted
  BY <1>3 DEF Trusted, Silence, Damaged, Answered, NoJob
<1>10. Consistent(held, expected)
  BY <1>9, SurviveMeans DEF IInv
<1>11. Empty(held, "resident") /\ Empty(held, "arena") /\ Empty(held, "deferred")
  BY <1>8, EmptyMeansNone DEF OnHost
<1>12. /\ IsHeld(held') /\ Consistent(held', After(expected, rows))
       /\ Empty(held', "resident") /\ Empty(held', "arena") /\ Empty(held', "deferred")
  BY <1>4, <1>5, <1>10, <1>11, CpuCommitIsConsistent
<1>13. expected' = After(expected, rows)
  BY <1>4, <1>5 DEF ExpectedAfter, After
<1>14. StatesSurvive'
  BY <1>12, <1>13, SurviveAfter
<1>15. OnHost'
  BY <1>12, EmptyMeansNone DEF OnHost
<1>16. HomesInv'
  <2>1. expected' = [k \in Keys |-> expected'[k]]
    BY <1>13 DEF After
  <2>2. arenaOpen' \in BOOLEAN
    BY <1>7 DEF IInv, Types
  <2>3. ArenaIsOpen' /\ CpuFindsStatesOnHost'
    BY <1>15 DEF OnHost, ArenaIsOpen, CpuFindsStatesOnHost
  <2>4. ReadIsSound'
    BY <1>3, <1>7 DEF ReadIsSound, In, NoJob
  <2>. QED BY <1>12, <1>14, <2>1, <2>2, <2>3, <2>4 DEF HomesInv
<1>17. client.results \o rows \in Seq(Reviews)
  BY <1>2, <1>6
<1>18. /\ client' \in Clients /\ client'.start = client.start
       /\ client'.results = client.results \o rows /\ client'.phase \in {"next", "cpu"}
  BY <1>2, <1>4, <1>5, <1>6, <1>17 DEF Clients
<1>19. Untold = <<>> /\ Untold' = <<>>
  BY <1>1, <1>18 DEF Untold, At
<1>20. /\ log' = log \o rows /\ log' \in Seq(Reviews)
       /\ described' = described \o rows /\ described' \in Seq(Reviews)
  BY <1>2, <1>4, <1>5, <1>6
<1>21. /\ client'.results \o Untold' = (client.results \o Untold) \o rows
       /\ described' \o Untold' = (described \o Untold) \o rows
  BY <1>2, <1>17, <1>18, <1>19, <1>20, ConcatEmptySeq
<1>22. client' # NoClient
  BY <1>18 DEF Clients, NoClient
<1>23. Accounts'
  BY <1>1, <1>6, <1>7, <1>18, <1>20, <1>21, <1>22, AccountsGrow
<1>24. CallsMatch' /\ WithinBatch'
  BY <1>3, <1>7, <1>18 DEF CallsMatch, WithinBatch, Waiting, At
<1>25. Types'
  BY <1>2, <1>3, <1>7, <1>16, <1>18, <1>20, ClientTypes DEF IInv, Types
<1>. QED BY <1>16, <1>23, <1>24, <1>25, InvariantPartsAfter

-------------------------------------------------------------------------------
(* The theorems.                                                            *)

LEMMA InvariantStarts ==
  Init => IInv
<1>. SUFFICES ASSUME Init PROVE IInv
  OBVIOUS
<1>1. /\ device \in Devices /\ held = Nowhere /\ expected = Nowhere["canonical"]
      /\ arenaOpen = FALSE /\ noArena = FALSE /\ log = <<>> /\ described = <<>>
      /\ job = NoJob /\ client = NoClient /\ report = Silence /\ interrupted = FALSE
  BY DEF Init
<1>2. \A h \in Homes, k \in Keys : held[h][k] = None
  BY <1>1 DEF Nowhere
<1>3. \A k \in Keys : expected[k] = None
  BY <1>1 DEF Nowhere, Homes
<1>4. Types
  <2>1. held = [h \in Homes |-> [k \in Keys |-> held[h][k]]]
    BY <1>1 DEF Nowhere
  <2>2. expected = [k \in Keys |-> expected[k]]
    BY <1>1 DEF Nowhere, Homes
  <2>3. Silence \in Reports
    BY DEF Silence, Reports
  <2>4. arenaOpen \in BOOLEAN /\ noArena \in BOOLEAN /\ interrupted \in BOOLEAN
    BY <1>1
  <2>5. log \in Seq(Reviews) /\ described \in Seq(Reviews)
    BY <1>1
  <2>. QED BY <1>1, <2>1, <2>2, <2>3, <2>4, <2>5 DEF Types
<1>5. CallsMatch /\ WithinBatch /\ ReadIsSound
  BY <1>1 DEF CallsMatch, WithinBatch, ReadIsSound, Waiting, At, In, NoClient, NoJob
<1>6. Untold = <<>>
  BY <1>1 DEF Untold, At, NoClient
<1>7. CallIsAccounted /\ HistoryIsAccounted /\ ReportIsExact
  BY <1>1, <1>6 DEF CallIsAccounted, HistoryIsAccounted, ReportIsExact, Silence
<1>8. ArenaIsOpen /\ CpuFindsStatesOnHost
  BY <1>1, <1>2 DEF ArenaIsOpen, CpuFindsStatesOnHost, IsEmpty, KeysIn, Homes, At, NoClient
<1>9. StatesSurvive
  BY <1>2, <1>3 DEF StatesSurvive, EveryCopyIsCurrent, NoStateIsLost
<1>. QED BY <1>4, <1>5, <1>7, <1>8, <1>9 DEF IInv

LEMMA InvariantStays ==
  ASSUME IInv, [Next]_vars
  PROVE  IInv'
<1>1. CASE BeginOnGpu \/ BeginOnCpu
  BY <1>1, BeginKeeps
<1>2. CASE NativeStep
  BY <1>2, NativeKeeps
<1>3. CASE ClientStep
  BY <1>3, NextBatchKeeps, EndsKeep, ReceiveKeeps, InterruptKeeps, FallBackKeeps,
     CallFailsKeeps, SynchronizedKeeps, CpuRowsKeeps DEF ClientStep
<1>4. CASE UNCHANGED vars
  <2>1. UNCHANGED <<device, held, arenaOpen, noArena, expected, log, described, job, client,
                    report, interrupted>>
    BY <1>4 DEF vars, states
  <2>2. Types'
    BY <2>1 DEF IInv, Types
  <2>3. CallsMatch' /\ WithinBatch'
    BY <2>1 DEF IInv, CallsMatch, WithinBatch, Waiting, At
  <2>4. Accounts'
    BY <2>1
       DEF IInv, Accounts, CallIsAccounted, HistoryIsAccounted, ReportIsExact, Untold,
           Prefix, At
  <2>5. StatesSurvive'
    BY <2>1 DEF IInv, StatesSurvive, EveryCopyIsCurrent, NoStateIsLost, Trusted, Damaged,
                Answered
  <2>6. ArenaIsOpen' /\ ReadIsSound' /\ CpuFindsStatesOnHost'
    BY <2>1 DEF IInv, ArenaIsOpen, ReadIsSound, CpuFindsStatesOnHost, OnHost, IsEmpty,
                KeysIn, In, At, Answered
  <2>. QED BY <2>2, <2>3, <2>4, <2>5, <2>6 DEF IInv, Accounts
<1>. QED BY <1>1, <1>2, <1>3, <1>4 DEF Next

\* Every part of the invariant holds of every execution.
THEOREM ProcessInvariant ==
  Spec => []IInv
<1>1. Spec => Init /\ [][Next]_vars
  BY PTL DEF Spec
<1>. QED BY <1>1, InvariantStarts, InvariantStays, PTL

\* However attempts on the device are halved, repeated, moved to another storage
\* mode, synchronized or interrupted, the recurrent states of the committed rows
\* are where they can be found, and every copy of one is up to date, unless the
\* caller was told that the state may be unusable.
THEOREM StatesAreNeverLost ==
  Spec => []StatesSurvive
<1>1. IInv => StatesSurvive
  BY DEF IInv
<1>. QED BY <1>1, ProcessInvariant, PTL

\* What a call says it committed is what was committed, and Python's history is
\* that of the committed rows unless an interrupt took a result away.
THEOREM ReportsAreExact ==
  Spec => []ReportIsExact
<1>1. IInv => ReportIsExact
  BY DEF IInv
<1>. QED BY <1>1, ProcessInvariant, PTL

-------------------------------------------------------------------------------
(* The promise of CommittedPrefix.                                          *)

\* What CommittedPrefix sees of the call and of the report.
SeenCall ==
  IF client = NoClient THEN [input |-> <<>>, start |-> 0]
  ELSE [input |-> client.input, start |-> client.start]
SeenReport == [told |-> report.told, committed |-> Len(report.results)]

PInv == IInv /\ InputIsSplit

\* The input of a call that runs, and how it is split.
LEMMA SplitFacts ==
  ASSUME PInv, client # NoClient
  PROVE  /\ client.input # <<>> /\ client.input = client.results \o Pending
         /\ client.results \in Seq(Reviews) /\ client.batch \in Seq(Reviews)
         /\ client.left \in Seq(Reviews) /\ Pending \in Seq(Reviews)
<1>1. /\ client.results \in Seq(Reviews) /\ client.batch \in Seq(Reviews)
      /\ client.left \in Seq(Reviews)
  BY BatchType DEF PInv
<1>2. client.batch \o client.left \in Seq(Reviews)
  BY <1>1
<1>. QED BY <1>1, <1>2 DEF PInv, InputIsSplit, Pending

\* What a step on the CPU takes of its batch.
LEMMA CpuParts ==
  ASSUME IInv, CpuRows
  PROVE  \E rows \in Seq(Reviews), rest \in Seq(Reviews) :
           /\ client.batch = rows \o rest
           /\ log' = log \o rows
           /\ client' = [client EXCEPT !.results = client.results \o rows, !.batch = rest,
                                       !.phase = IF rest = <<>> THEN "next" ELSE "cpu"]
<1>1. client.batch \in Seq(Reviews)
  BY BatchType DEF CpuRows, At, NoClient
<1>2. PICK n \in 1 .. Len(client.batch) :
        \E rows, rest :
          /\ rows = SubSeq(client.batch, 1, n)
          /\ rest = SubSeq(client.batch, n + 1, Len(client.batch))
          /\ log' = log \o rows
          /\ client' = [client EXCEPT !.results = client.results \o rows, !.batch = rest,
                                      !.phase = IF rest = <<>> THEN "next" ELSE "cpu"]
  BY DEF CpuRows
<1>3. n \in Nat /\ n <= Len(client.batch)
  <2>1. Len(client.batch) \in Nat
    BY <1>1
  <2>. QED BY <2>1
<1>4. PICK rows, rest :
        /\ rows = SubSeq(client.batch, 1, n)
        /\ rest = SubSeq(client.batch, n + 1, Len(client.batch))
        /\ log' = log \o rows
        /\ client' = [client EXCEPT !.results = client.results \o rows, !.batch = rest,
                                    !.phase = IF rest = <<>> THEN "next" ELSE "cpu"]
  BY <1>2
<1>5. rows \in Seq(Reviews) /\ rest \in Seq(Reviews) /\ client.batch = rows \o rest
  BY <1>1, <1>3, <1>4, PartTypes
<1>. QED BY <1>4, <1>5

\* A native step is nothing to the public call, and only success commits.
LEMMA NativeLeavesClient ==
  ASSUME NativeStep
  PROVE  UNCHANGED <<client, report>> /\ (ProcessSucceeds \/ log' = log)
BY DEF NativeStep, ChoosePrefix, JobEnds, RowsRejected, SwitchStorage, ReadbackOverflows,
       ProcessSucceeds, ProcessOutOfMemory, ProcessFails, ProcessFailsLate, AbandonArena,
       HalveAttempt, LastCleanup, GiveUp, RecoveryFails, SyncResident, SyncArenaChunk,
       SyncEnds, SyncFails

\* A piece in the middle of a sequence.
LEMMA MiddlePart ==
  ASSUME NEW a \in Seq(Reviews), NEW b \in Seq(Reviews), NEW c \in Seq(Reviews), b # <<>>
  PROVE  SubSeq(a \o (b \o c), Len(a) + 1, Len(a) + Len(b)) = b
<1>1. /\ b \o c \in Seq(Reviews) /\ Len(b \o c) = Len(b) + Len(c)
      /\ Len(a) \in Nat /\ Len(b) \in Nat \ {0} /\ Len(c) \in Nat
  OBVIOUS
<1>2. /\ Len(a) + 1 \in Len(a) + 1 .. Len(a) + Len(b \o c)
      /\ Len(a) + Len(b) \in Len(a) + 1 .. Len(a) + Len(b \o c)
      /\ (Len(a) + 1) - Len(a) = 1 /\ (Len(a) + Len(b)) - Len(a) = Len(b)
      /\ 1 \in 1 .. Len(b) /\ Len(b) \in 1 .. Len(b)
  BY <1>1
<1>3. SubSeq(a \o (b \o c), Len(a) + 1, Len(a) + Len(b)) = SubSeq(b \o c, 1, Len(b))
  BY <1>1, <1>2, SubSeqOfConcat2
<1>4. SubSeq(b \o c, 1, Len(b)) = SubSeq(b, 1, Len(b))
  BY <1>2, SubSeqOfConcat1
<1>. QED BY <1>3, <1>4, SubSeqFull

\* A call begins with everything left to do.
LEMMA BeginSplits ==
  ASSUME NEW kind \in {"process", "state_only", "cpu"}, NEW input \in Inputs,
         NEW full \in BOOLEAN, NEW fallback \in BOOLEAN,
         client' = Call(kind, input, full, fallback)
  PROVE  InputIsSplit'
<1>1. input \in Seq(Reviews) /\ input # <<>>
  BY ProcessAssumption
<1>2. /\ client'.input = input /\ client'.results = <<>> /\ client'.batch = <<>>
      /\ client'.left = input
  BY DEF Call
<1>3. <<>> \o input = input
  BY <1>1
<1>4. Pending' = input
  BY <1>2, <1>3 DEF Pending
<1>. QED BY <1>1, <1>2, <1>3, <1>4 DEF InputIsSplit

LEMMA SomeCallBegins ==
  ASSUME BeginOnGpu \/ BeginOnCpu
  PROVE  \E kind \in {"process", "state_only", "cpu"}, input \in Inputs,
            full \in BOOLEAN, fallback \in BOOLEAN :
           client' = Call(kind, input, full, fallback)
<1>1. CASE BeginOnGpu
  <2>1. PICK kind \in {"process", "state_only"}, input \in Inputs, full \in BOOLEAN,
             fallback \in BOOLEAN : client' = Call(kind, input, full, fallback)
    BY <1>1 DEF BeginOnGpu
  <2>. QED BY <2>1
<1>2. CASE BeginOnCpu
  <2>1. PICK input \in Inputs : client' = Call("cpu", input, FALSE, FALSE)
    BY <1>2 DEF BeginOnCpu
  <2>. QED BY <2>1
<1>. QED BY <1>1, <1>2

\* A step that moves rows from what is left to what is collected, or to the batch.
LEMMA SplitMoves ==
  ASSUME PInv, client # NoClient, client'.input = client.input,
         client'.results \o Pending' = client.results \o Pending
  PROVE  InputIsSplit'
<1>1. client.input # <<>> /\ client.input = client.results \o Pending
  BY SplitFacts
<1>. QED BY <1>1 DEF InputIsSplit

LEMMA SplitStays ==
  ASSUME PInv, [Next]_vars
  PROVE  InputIsSplit'
<1>1. CASE BeginOnGpu \/ BeginOnCpu
  <2>1. PICK kind \in {"process", "state_only", "cpu"}, input \in Inputs,
             full \in BOOLEAN, fallback \in BOOLEAN :
          client' = Call(kind, input, full, fallback)
    BY <1>1, SomeCallBegins
  <2>. QED BY <2>1, BeginSplits
<1>2. CASE UNCHANGED client
  <2>1. Pending' = Pending
    BY <1>2 DEF Pending, At
  <2>. QED BY <1>2, <2>1 DEF PInv, InputIsSplit
<1>3. CASE client' = NoClient
  BY <1>3 DEF InputIsSplit
<1>4. CASE NextBatch
  <2>1. At("next") /\ client # NoClient
    BY <1>4 DEF NextBatch, At, NoClient
  <2>2. client \in Clients /\ client.left \in Seq(Reviews)
    BY <2>1, BatchType DEF PInv
  <2>3. PICK n, rows : /\ n = Shorter(BatchSize, Len(client.left))
                       /\ rows = SubSeq(client.left, 1, n)
    OBVIOUS
  <2>4. n \in Nat /\ n <= Len(client.left)
    <3>1. Len(client.left) \in Nat
      BY <2>2
    <3>. QED BY <2>3, <3>1, ProcessAssumption DEF Shorter
  <2>5. PICK left : left = SubSeq(client.left, n + 1, Len(client.left))
    OBVIOUS
  <2>6. client' = [client EXCEPT !.batch = rows, !.left = left,
                     !.phase = IF client.cpu THEN "cpu" ELSE "native"]
    BY <1>4, <2>3, <2>5 DEF NextBatch
  <2>7. /\ client'.batch = rows /\ client'.left = left /\ client'.input = client.input
        /\ client'.results = client.results /\ client'.phase \in {"cpu", "native"}
    BY <2>2, <2>6 DEF Clients
  <2>8. client.left = rows \o left
    BY <2>2, <2>3, <2>4, <2>5, PartTypes
  <2>9. Pending' = Pending
    BY <2>1, <2>7, <2>8 DEF Pending, At
  <2>. QED BY <2>1, <2>7, <2>9, SplitMoves
<1>5. CASE ReceiveRows
  <2>1. At("native") /\ client # NoClient
    BY <1>5 DEF ReceiveRows, At, NoClient
  <2>2. /\ client \in Clients /\ client.results \in Seq(Reviews)
        /\ client.batch \in Seq(Reviews) /\ client.left \in Seq(Reviews)
    BY <2>1, BatchType DEF PInv
  <2>3. client' = [client EXCEPT !.results = client.results \o client.batch,
                                 !.phase = "next"]
    BY <1>5 DEF ReceiveRows
  <2>4. /\ client'.results = client.results \o client.batch /\ client'.left = client.left
        /\ client'.input = client.input /\ client'.phase = "next"
    BY <2>2, <2>3 DEF Clients
  <2>5. Pending = client.batch \o client.left /\ Pending' = client.left
    BY <2>1, <2>4 DEF Pending, At
  <2>6. client'.results \o Pending' = client.results \o Pending
    <3>1. PICK r, p, l : r = client.results /\ p = client.batch /\ l = client.left
      OBVIOUS
    <3>2. (r \o p) \o l = r \o (p \o l)
      <4>1. IsAssociative(r, p, l)
        BY <2>2, <3>1, Associative
      <4>. QED BY <4>1 DEF IsAssociative
    <3>. QED BY <2>4, <2>5, <3>1, <3>2
  <2>. QED BY <2>1, <2>4, <2>6, SplitMoves
<1>6. CASE FallBack
  <2>1. Failed /\ At("native")
    BY <1>6 DEF FallBack, Failed
  <2>2. /\ client # NoClient /\ client \in Clients /\ job \in Jobs
        /\ Prefix \in Seq(Reviews) /\ Rest \in Seq(Reviews)
    BY <2>1, FailedBatch DEF PInv
  <2>3. client.results \in Seq(Reviews) /\ client.left \in Seq(Reviews)
    BY <2>2, BatchType DEF PInv
  <2>4. client.batch = Prefix \o Rest
    <3>1. job.rows = client.batch
      BY <2>1 DEF PInv, IInv, CallsMatch
    <3>2. job # NoJob
      BY <2>2 DEF Jobs, NoJob
    <3>3. /\ job.rows \in Seq(Reviews) /\ job.offset \in Nat /\ job.attempt \in Nat
          /\ job.offset + job.attempt <= Len(job.rows)
      BY <2>2, <3>2 DEF PInv, IInv, WithinBatch, Jobs
    <3>4. Len(job.rows) \in Nat
      BY <3>3
    <3>5. job.offset <= Len(job.rows)
      BY <3>3, <3>4
    <3>. QED BY <3>1, <3>3, <3>5, PartTypes DEF Prefix, Rest
  <2>5. client' = [client EXCEPT !.results = client.results \o Prefix, !.batch = Rest,
                                 !.cpu = TRUE, !.phase = "release"]
    BY <1>6 DEF FallBack
  <2>6. /\ client'.results = client.results \o Prefix /\ client'.batch = Rest
        /\ client'.left = client.left /\ client'.input = client.input
        /\ client'.phase = "release"
    BY <2>2, <2>5 DEF Clients
  <2>7. Pending = (Prefix \o Rest) \o client.left /\ Pending' = Rest \o client.left
    BY <2>1, <2>4, <2>6 DEF Pending, At
  <2>8. PICK r, p, t, l : r = client.results /\ p = Prefix /\ t = Rest /\ l = client.left
    OBVIOUS
  <2>9. (r \o p) \o (t \o l) = r \o ((p \o t) \o l)
    <3>1. /\ r \in Seq(Reviews) /\ p \in Seq(Reviews) /\ t \in Seq(Reviews)
          /\ l \in Seq(Reviews)
      BY <2>2, <2>3, <2>8
    <3>2. IsRegrouped(r, p, t, l)
      BY <3>1, Regroup
    <3>. QED BY <3>2 DEF IsRegrouped
  <2>10. client'.results \o Pending' = client.results \o Pending
    BY <2>6, <2>7, <2>8, <2>9
  <2>. QED BY <2>2, <2>6, <2>10, SplitMoves
<1>7. CASE Synchronized
  <2>1. client.phase \in {"release", "synchronize"} /\ client # NoClient
    BY <1>7 DEF Synchronized, NoClient
  <2>2. /\ client \in Clients /\ client.batch \in Seq(Reviews)
        /\ client.left \in Seq(Reviews)
    BY <2>1, BatchType DEF PInv
  <2>3. client' = [client EXCEPT !.phase = IF client.batch = <<>> THEN "next" ELSE "cpu"]
    BY <1>7 DEF Synchronized
  <2>4. /\ client'.results = client.results /\ client'.left = client.left
        /\ client'.input = client.input /\ client'.batch = client.batch
        /\ client'.phase = IF client.batch = <<>> THEN "next" ELSE "cpu"
    BY <2>2, <2>3 DEF Clients
  <2>5. <<>> \o client.left = client.left
    BY <2>2
  <2>6. Pending' = Pending
    BY <2>1, <2>4, <2>5 DEF Pending, At
  <2>. QED BY <2>1, <2>4, <2>6, SplitMoves
<1>8. CASE CpuRows
  <2>1. At("cpu") /\ client # NoClient
    BY <1>8 DEF CpuRows, At, NoClient
  <2>2. /\ client \in Clients /\ client.results \in Seq(Reviews)
        /\ client.batch \in Seq(Reviews) /\ client.left \in Seq(Reviews)
    BY <2>1, BatchType DEF PInv
  <2>3. PICK rows \in Seq(Reviews), rest \in Seq(Reviews) :
          /\ client.batch = rows \o rest
          /\ client' = [client EXCEPT !.results = client.results \o rows, !.batch = rest,
                                      !.phase = IF rest = <<>> THEN "next" ELSE "cpu"]
    BY <1>8, CpuParts DEF PInv
  <2>4. /\ client'.results = client.results \o rows /\ client'.left = client.left
        /\ client'.input = client.input /\ client'.batch = rest
        /\ client'.phase = IF rest = <<>> THEN "next" ELSE "cpu"
    BY <2>2, <2>3 DEF Clients
  <2>5. Pending' = rest \o client.left
    <3>1. <<>> \o client.left = client.left
      BY <2>2
    <3>. QED BY <2>4, <3>1 DEF Pending, At
  <2>6. Pending = (rows \o rest) \o client.left
    BY <2>1, <2>3 DEF Pending, At
  <2>7. PICK r, l : r = client.results /\ l = client.left
    OBVIOUS
  <2>8. (r \o rows) \o (rest \o l) = r \o ((rows \o rest) \o l)
    <3>1. r \in Seq(Reviews) /\ l \in Seq(Reviews)
      BY <2>2, <2>7
    <3>2. IsRegrouped(r, rows, rest, l)
      BY <3>1, Regroup
    <3>. QED BY <3>2 DEF IsRegrouped
  <2>9. client'.results \o Pending' = client.results \o Pending
    BY <2>4, <2>5, <2>6, <2>7, <2>8
  <2>. QED BY <2>1, <2>4, <2>9, SplitMoves
<1>9. NativeStep => UNCHANGED client
  BY NativeLeavesClient
<1>10. InputFails \/ CallEnds \/ Interrupt \/ CallFails \/ SynchronizeFails \/ CpuFails
         => client' = NoClient
  BY DEF InputFails, CallEnds, Interrupt, CallFails, SynchronizeFails, CpuFails, Tell
<1>11. UNCHANGED vars => UNCHANGED client
  BY DEF vars
<1>. QED BY <1>1, <1>2, <1>3, <1>4, <1>5, <1>6, <1>7, <1>8, <1>9, <1>10, <1>11
     DEF Next, ClientStep

\* The call has committed what it has collected and what it will be told.
LEMMA DoneIs ==
  ASSUME IInv, client # NoClient
  PROVE  /\ Len(log) - client.start = Len(client.results \o Untold)
         /\ client.results \o Untold \in Seq(Reviews)
<1>1. PICK before \in Seq(Reviews) :
        Len(before) = client.start /\ log = before \o (client.results \o Untold)
  BY DEF IInv, CallIsAccounted
<1>2. client.results \o Untold \in Seq(Reviews)
  BY UntoldType, BatchType
<1>3. PICK told : told = client.results \o Untold
  OBVIOUS
<1>4. Len(before \o told) - Len(before) = Len(told)
  <2>1. before \in Seq(Reviews) /\ told \in Seq(Reviews)
    BY <1>1, <1>2, <1>3
  <2>2. Len(before \o told) = Len(before) + Len(told) /\ Len(before) \in Nat /\ Len(told) \in Nat
    BY ONLY <2>1
  <2>. QED BY <2>2
<1>. QED BY <1>1, <1>2, <1>3, <1>4

\* Rows committed from what is left of the input are a Commit of the promise.
LEMMA PromiseCommits ==
  ASSUME PInv, client # NoClient,
         NEW rows \in Seq(Reviews), NEW after \in Seq(Reviews),
         client.input = (client.results \o Untold) \o (rows \o after),
         log' = log \o rows, SeenCall' = SeenCall, report' = report
  PROVE  Promise!Commit \/ UNCHANGED Promise!vars
<1>1. PICK told : told = client.results \o Untold
  OBVIOUS
<1>2. told \in Seq(Reviews) /\ Len(log) - client.start = Len(told) /\ log \in Seq(Reviews)
  BY <1>1, DoneIs DEF PInv, IInv, Types
<1>3. SeenCall' = SeenCall /\ SeenReport' = SeenReport
  BY DEF SeenReport
<1>4. CASE rows = <<>>
  <2>1. log' = log
    BY <1>2, <1>4
  <2>. QED BY <1>3, <2>1 DEF Promise!vars, SeenCall, SeenReport
<1>5. CASE rows # <<>>
  <2> DEFINE input == client.input
  <2>1. input = told \o (rows \o after) /\ input # <<>>
    BY <1>1, SplitFacts
  <2>2. /\ Len(told) \in Nat /\ Len(rows) \in Nat \ {0} /\ Len(after) \in Nat
        /\ Len(input) = Len(told) + (Len(rows) + Len(after))
    <3>1. Len(told) \in Nat /\ Len(rows) \in Nat /\ Len(after) \in Nat /\ Len(rows) # 0
      BY <1>2, <1>5
    <3>2. Len(told \o (rows \o after)) = Len(told) + (Len(rows) + Len(after))
      BY <1>2
    <3>. QED BY <2>1, <3>1, <3>2
  <2> HIDE DEF input
  <2>3. SubSeq(input, Len(told) + 1, Len(told) + Len(rows)) = rows
    BY <1>2, <2>1, <2>2, MiddlePart
  <2>4. Len(rows) \in 1 .. Len(input) - Len(told)
    BY <2>2
  <2>5. SeenCall = [input |-> input, start |-> client.start]
    BY DEF SeenCall, input
  <2>6. SeenCall # [input |-> <<>>, start |-> 0]
    BY <2>1, <2>5
  <2>7. SeenCall.input = input /\ SeenCall.start = client.start
    BY <2>5
  <2>8. \E n \in 1 .. Len(SeenCall.input) - (Len(log) - SeenCall.start) :
          log' = log \o SubSeq(SeenCall.input, (Len(log) - SeenCall.start) + 1,
                               (Len(log) - SeenCall.start) + n)
    BY <1>2, <2>3, <2>4, <2>7
  <2>. QED BY <1>3, <2>6, <2>8
       DEF Promise!Commit, Promise!InCall, Promise!NoCall, Promise!Done, SeenCall, SeenReport
<1>. QED BY <1>4, <1>5

\* A call that ends as the promise allows.
LEMMA PromiseReturns ==
  ASSUME PInv, client # NoClient, client' = NoClient, log' = log,
         \/ /\ report'.told \in {"ok", "error", "lost"}
            /\ report'.results = client.results \o Untold
            /\ report'.told = "ok" => client.input = client.results \o Untold
         \/ /\ report'.told \in {"raised", "interrupted"}
            /\ \E s \in Seq(Reviews) :
                 client.results \o Untold = report'.results \o s
            /\ report'.results \in Seq(Reviews)
  PROVE  Promise!Return
<1>1. PICK told : told = client.results \o Untold
  OBVIOUS
<1>2. told \in Seq(Reviews) /\ Len(log) - client.start = Len(told)
  BY <1>1, DoneIs DEF PInv
<1>3. /\ SeenCall # [input |-> <<>>, start |-> 0]
      /\ SeenCall.input = client.input /\ SeenCall.start = client.start
  <2>1. client.input # <<>>
    BY SplitFacts
  <2>. QED BY <2>1 DEF SeenCall
<1>4. SeenCall' = [input |-> <<>>, start |-> 0]
  BY DEF SeenCall
<1>5. \/ \E word \in {"ok", "error", "lost"} :
           /\ word = "ok" => Len(log) - SeenCall.start = Len(SeenCall.input)
           /\ SeenReport' = [told |-> word, committed |-> Len(log) - SeenCall.start]
      \/ \E word \in {"raised", "interrupted"}, said \in 0 .. Len(log) - SeenCall.start :
           SeenReport' = [told |-> word, committed |-> said]
  <2>1. CASE /\ report'.told \in {"ok", "error", "lost"}
             /\ report'.results = client.results \o Untold
             /\ report'.told = "ok" => client.input = client.results \o Untold
    BY <1>1, <1>2, <1>3, <2>1 DEF SeenReport
  <2>2. CASE /\ report'.told \in {"raised", "interrupted"}
             /\ \E s \in Seq(Reviews) :
                  client.results \o Untold = report'.results \o s
             /\ report'.results \in Seq(Reviews)
    <3>1. PICK s \in Seq(Reviews) : told = report'.results \o s
      BY <1>1, <2>2
    <3>2. PICK r \in Seq(Reviews) : r = report'.results
      BY <2>2
    <3>3. Len(r \o s) = Len(r) + Len(s) /\ Len(r) \in Nat /\ Len(s) \in Nat
      OBVIOUS
    <3>4. Len(r) \in 0 .. Len(told)
      BY <3>1, <3>2, <3>3
    <3>5. SeenReport' = [told |-> report'.told, committed |-> Len(r)]
      BY <3>2 DEF SeenReport
    <3>. QED BY <1>2, <1>3, <2>2, <3>4, <3>5
  <2>. QED BY <2>1, <2>2
<1>. QED BY <1>3, <1>4, <1>5
     DEF Promise!Return, Promise!InCall, Promise!NoCall, Promise!Done, Promise!Naming,
         Promise!Silent, SeenCall, SeenReport

\* A native attempt commits the next rows of the batch.
LEMMA AttemptCommits ==
  ASSUME PInv, ProcessSucceeds
  PROVE  Promise!Commit \/ UNCHANGED Promise!vars
<1>1. job.phase = "attempt" /\ job # NoJob
  BY DEF ProcessSucceeds, Ready, In, NoJob
<1>2. At("native") /\ client # NoClient
  BY <1>1 DEF PInv, IInv, CallsMatch, Waiting, At, NoClient
<1>3. /\ job \in Jobs /\ job.rows \in Seq(Reviews) /\ Len(job.rows) \in Nat
      /\ job.offset \in Nat /\ job.attempt \in Nat
      /\ job.offset + job.attempt <= Len(job.rows)
  BY <1>1, JobFacts DEF PInv, IInv, In
<1>4. PICK s, o, t : s = job.rows /\ o = job.offset /\ t = o + job.attempt
  OBVIOUS
<1>5. s \in Seq(Reviews) /\ o \in Nat /\ t \in Nat /\ o <= t /\ t <= Len(s)
  BY <1>3, <1>4
<1>6. Prefix = SubSeq(s, 1, o) /\ Rows = SubSeq(s, o + 1, t)
  BY <1>4 DEF Prefix, Rows
<1>7. PICK rest : rest = SubSeq(s, t + 1, Len(s))
  OBVIOUS
<1>8. Prefix \in Seq(Reviews) /\ Rows \in Seq(Reviews) /\ rest \in Seq(Reviews)
  BY <1>3, <1>5, <1>7, PrefixType, PartTypes
<1>9. s = (Prefix \o Rows) \o rest
  <2>1. Len(s) \in Nat
    BY <1>5
  <2>2. /\ 1 \in 1 .. Len(s) + 1 /\ o \in 1 - 1 .. Len(s) /\ t \in o .. Len(s)
    BY <1>5, <2>1
  <2>3. SubSeq(s, 1, o) \o SubSeq(s, o + 1, t) = SubSeq(s, 1, t)
    BY <1>5, <2>2, ConcatAdjacentSubSeq
  <2>4. s = SubSeq(s, 1, t) \o SubSeq(s, t + 1, Len(s))
    BY <1>5, PartTypes
  <2>. QED BY <1>6, <1>7, <2>3, <2>4
<1>10. PICK r, p, q, l : r = client.results /\ p = Prefix /\ q = Rows /\ l = client.left
  OBVIOUS
<1>11. r \in Seq(Reviews) /\ l \in Seq(Reviews) /\ p \in Seq(Reviews) /\ q \in Seq(Reviews)
  BY <1>2, <1>8, <1>10, SplitFacts
<1>12. client.input = r \o (((p \o q) \o rest) \o l)
  <2>1. s = client.batch
    BY <1>2, <1>4 DEF PInv, IInv, CallsMatch
  <2>2. Pending = client.batch \o client.left
    BY <1>2 DEF Pending, At
  <2>. QED BY <1>2, <1>9, <1>10, <2>1, <2>2, SplitFacts
<1>13. r \o (((p \o q) \o rest) \o l) = (r \o p) \o (q \o (rest \o l))
  <2>1. p \o q \in Seq(Reviews) /\ rest \o l \in Seq(Reviews)
    BY <1>8, <1>11
  <2>2. PICK x \in Seq(Reviews), y \in Seq(Reviews) : x = p \o q /\ y = rest \o l
    BY <2>1
  <2>3. (x \o rest) \o l = x \o (rest \o l)
    <3>1. IsAssociative(x, rest, l)
      BY <1>8, <1>11, Associative
    <3>. QED BY <3>1 DEF IsAssociative
  <2>4. (r \o p) \o (q \o y) = r \o ((p \o q) \o y)
    <3>1. IsRegrouped(r, p, q, y)
      BY <1>11, Regroup
    <3>. QED BY <3>1 DEF IsRegrouped
  <2>. QED BY <2>2, <2>3, <2>4
<1>14. rest \o l \in Seq(Reviews)
  BY <1>8, <1>11
<1>15. Untold = p
  BY <1>2, <1>10 DEF Untold
<1>16. log' = log \o q /\ UNCHANGED <<client, report>>
  BY <1>10 DEF ProcessSucceeds
<1>17. SeenCall' = SeenCall
  BY <1>16 DEF SeenCall
<1>. QED BY <1>2, <1>10, <1>11, <1>12, <1>13, <1>14, <1>15, <1>16, <1>17, PromiseCommits

\* So does a step on the CPU.
LEMMA CpuCommits ==
  ASSUME PInv, CpuRows
  PROVE  Promise!Commit \/ UNCHANGED Promise!vars
<1>1. At("cpu") /\ client # NoClient
  BY DEF CpuRows, At, NoClient
<1>2. PICK rows \in Seq(Reviews), rest \in Seq(Reviews) :
        /\ client.batch = rows \o rest
        /\ log' = log \o rows
        /\ client' = [client EXCEPT !.results = client.results \o rows, !.batch = rest,
                                    !.phase = IF rest = <<>> THEN "next" ELSE "cpu"]
  BY CpuParts DEF PInv
<1>3. PICK r, l : r = client.results /\ l = client.left
  OBVIOUS
<1>4. r \in Seq(Reviews) /\ l \in Seq(Reviews) /\ client \in Clients
  BY <1>1, <1>3, BatchType DEF PInv
<1>5. client.input = r \o ((rows \o rest) \o l)
  <2>1. Pending = client.batch \o client.left
    BY <1>1 DEF Pending, At
  <2>. QED BY <1>1, <1>2, <1>3, <2>1, SplitFacts
<1>6. Untold = <<>> /\ r \o <<>> = r
  BY <1>1, <1>4 DEF Untold, At
<1>7. r \o ((rows \o rest) \o l) = r \o (rows \o (rest \o l)) /\ rest \o l \in Seq(Reviews)
  <2>1. rows \in Seq(Reviews) /\ rest \in Seq(Reviews) /\ l \in Seq(Reviews)
    BY <1>2, <1>4
  <2>2. (rows \o rest) \o l = rows \o (rest \o l) /\ rest \o l \in Seq(Reviews)
    BY ONLY <2>1
  <2>. QED BY <2>2
<1>8. client.input = (client.results \o Untold) \o (rows \o (rest \o l))
  BY <1>3, <1>5, <1>6, <1>7
<1>9. SeenCall' = SeenCall /\ report' = report
  <2>1. client'.input = client.input /\ client'.start = client.start /\ client' # NoClient
    BY <1>2, <1>4 DEF Clients, NoClient
  <2>. QED BY <1>1, <2>1 DEF SeenCall, CpuRows
<1>. QED BY <1>1, <1>2, <1>7, <1>8, <1>9, PromiseCommits

\* A step of the public call that neither commits nor ends it.
LEMMA Unseen ==
  ASSUME client # NoClient, client \in Clients, client' \in Clients,
         client'.input = client.input, client'.start = client.start,
         log' = log, report' = report
  PROVE  UNCHANGED Promise!vars
<1>1. client' # NoClient
  BY DEF Clients, NoClient
<1>2. SeenCall' = SeenCall /\ SeenReport' = SeenReport
  BY <1>1 DEF SeenCall, SeenReport
<1>. QED BY <1>2 DEF Promise!vars, SeenCall, SeenReport

LEMMA NextKeepsPromise ==
  ASSUME PInv, [Next]_vars
  PROVE  [Promise!Next]_(Promise!vars)
<1>. SUFFICES Promise!Next \/ UNCHANGED Promise!vars
  OBVIOUS
<1>1. CASE BeginOnGpu \/ BeginOnCpu
  <2>1. PICK kind \in {"process", "state_only", "cpu"}, input \in Inputs,
             full \in BOOLEAN, fallback \in BOOLEAN :
          client' = Call(kind, input, full, fallback)
    BY <1>1, SomeCallBegins
  <2>2. client = NoClient /\ report' = Silence /\ log' = log
    <3>1. At("idle")
      BY <1>1 DEF BeginOnGpu, BeginOnCpu, MayCall
    <3>. QED BY <1>1, <3>1, NoCallNoJob DEF PInv, BeginOnGpu, BeginOnCpu, states
  <2>3. client'.input = input /\ client'.start = Len(log) /\ client' # NoClient
    BY <2>1 DEF Call, NoClient
  <2>4. /\ SeenCall = [input |-> <<>>, start |-> 0]
        /\ SeenCall' = [input |-> input, start |-> Len(log)]
    BY <2>2, <2>3 DEF SeenCall
  <2>5. SeenReport' = [told |-> "nothing", committed |-> 0]
    BY <2>2 DEF SeenReport, Silence
  <2>6. Promise!Begin
    BY <2>2, <2>4, <2>5
       DEF Promise!Begin, Promise!InCall, Promise!NoCall, Promise!Silence, SeenCall, SeenReport
  <2>. QED BY <2>6 DEF Promise!Next
<1>2. CASE NativeStep
  <2>1. UNCHANGED <<client, report>> /\ (ProcessSucceeds \/ log' = log)
    BY <1>2, NativeLeavesClient
  <2>2. CASE ProcessSucceeds
    BY <2>2, AttemptCommits DEF Promise!Next
  <2>3. CASE log' = log
    BY <2>1, <2>3 DEF Promise!vars
  <2>. QED BY <2>1, <2>2, <2>3
<1>3. CASE CpuRows
  BY <1>3, CpuCommits DEF Promise!Next
<1>4. CASE NextBatch \/ ReceiveRows \/ FallBack \/ Synchronized
  <2>1. client # NoClient
    BY <1>4 DEF NextBatch, ReceiveRows, FallBack, Synchronized, Failed, At, NoClient
  <2>2. client \in Clients
    BY <2>1, BatchType DEF PInv
  <2>3. /\ log' = log /\ report' = report
        /\ client'.input = client.input /\ client'.start = client.start
        /\ client' # NoClient
    BY <1>4, <2>2
       DEF NextBatch, ReceiveRows, FallBack, Synchronized, states, Clients, NoClient
  <2>4. client' \in Clients
    <3>1. IInv'
      BY InvariantStays DEF PInv
    <3>. QED BY <2>3, <3>1 DEF IInv, Types
  <2>. QED BY <2>1, <2>2, <2>3, <2>4, Unseen
<1>5. CASE InputFails \/ CallEnds \/ CpuFails
  <2>1. PICK told \in {"ok", "raised", "error"} :
          Tell(told, client.results) /\ (told = "ok" => CallEnds)
    BY <1>5 DEF InputFails, CallEnds, CpuFails
  <2>2. /\ client # NoClient /\ ~At("native") /\ log' = log
        /\ CallEnds => At("next") /\ client.left = <<>>
    BY <1>5 DEF InputFails, CallEnds, CpuFails, At, NoClient
  <2>3. /\ client' = NoClient /\ report'.told = told /\ report'.results = client.results
    BY <2>1 DEF Tell
  <2>4. /\ client.results \o Untold = client.results /\ client.results \in Seq(Reviews)
        /\ client.results \o <<>> = client.results
    BY <2>2, SplitFacts DEF Untold
  <2>5. told = "ok" => client.input = client.results \o Untold
    <3>. SUFFICES ASSUME told = "ok" PROVE client.input = client.results \o Untold
      OBVIOUS
    <3>1. At("next") /\ client.left = <<>>
      BY <2>1, <2>2
    <3>2. Pending = <<>>
      BY <3>1 DEF Pending
    <3>. QED BY <2>2, <2>4, <3>2, SplitFacts
  <2>6. <<>> \in Seq(Reviews)
    OBVIOUS
  <2>7. Promise!Return
    BY <2>2, <2>3, <2>4, <2>5, <2>6, PromiseReturns
  <2>. QED BY <2>7 DEF Promise!Next
<1>6. CASE Interrupt
  <2>1. At("native") /\ Answered /\ job.result = "ok" /\ client # NoClient /\ log' = log
    BY <1>6 DEF Interrupt, At, NoClient, states
  <2>2. Untold = client.batch /\ client.batch \in Seq(Reviews) /\ client.results \in Seq(Reviews)
    BY <2>1, WholeBatch, SplitFacts DEF PInv, Untold
  <2>3. /\ client' = NoClient
        /\ \/ report'.told = "error" /\ report'.results = client.results \o client.batch
           \/ report'.told = "interrupted" /\ report'.results = client.results
    <3>1. \/ Tell("error", client.results \o client.batch)
          \/ Tell("interrupted", client.results)
      BY <1>6 DEF Interrupt
    <3>2. CASE Tell("error", client.results \o client.batch)
      BY <3>2 DEF Tell
    <3>3. CASE Tell("interrupted", client.results)
      BY <3>3 DEF Tell
    <3>. QED BY <3>1, <3>2, <3>3
  <2>4. Promise!Return
    BY <2>1, <2>2, <2>3, PromiseReturns
  <2>. QED BY <2>4 DEF Promise!Next
<1>7. CASE CallFails
  <2>1. /\ client # NoClient /\ Prefix \in Seq(Reviews) /\ Untold = Prefix
        /\ client.results \o Prefix \in Seq(Reviews)
    BY <1>7, FailedBatch DEF PInv, CallFails
  <2>2. /\ log' = log /\ client' = NoClient /\ report'.told = Told(job.result)
        /\ report'.results = client.results \o Prefix
    BY <1>7 DEF CallFails, Tell
  <2>3. Told(job.result) \in {"lost", "raised", "error"}
    BY DEF Told
  <2>4. <<>> \in Seq(Reviews) /\ (client.results \o Prefix) \o <<>> = client.results \o Prefix
    BY <2>1
  <2>5. Promise!Return
    BY <2>1, <2>2, <2>3, <2>4, PromiseReturns
  <2>. QED BY <2>5 DEF Promise!Next
<1>8. CASE SynchronizeFails
  <2>1. client # NoClient /\ ~At("native") /\ log' = log
    BY <1>8 DEF SynchronizeFails, At, NoClient
  <2>2. client' = NoClient /\ report'.told = "lost" /\ report'.results = client.results
    BY <1>8 DEF SynchronizeFails, Tell
  <2>3. client.results \o Untold = client.results
    BY <2>1, SplitFacts DEF Untold
  <2>4. Promise!Return
    BY <2>1, <2>2, <2>3, PromiseReturns
  <2>. QED BY <2>4 DEF Promise!Next
<1>9. CASE UNCHANGED vars
  <2>1. client' = client /\ report' = report /\ log' = log
    BY <1>9 DEF vars
  <2>. QED BY <2>1 DEF Promise!vars
<1>. QED BY <1>1, <1>2, <1>3, <1>4, <1>5, <1>6, <1>7, <1>8, <1>9 DEF Next, ClientStep

\* A call on the GPU, halved, repeated, synchronized, interrupted or continued on
\* the CPU as it may be, commits rows of its input in order, reports success
\* only when it has committed them all, and an error that names rows names as
\* many as were committed.  (That it returns is the liveness part of
\* ImplementsCommittedPrefix.)
THEOREM CallsKeepTheirPromise ==
  Spec => Promise!Safety
<1>1. Init => PInv /\ Promise!Init
  <2> SUFFICES ASSUME Init PROVE PInv /\ Promise!Init
    OBVIOUS
  <2>1. IInv /\ client = NoClient /\ report = Silence /\ log = <<>>
    BY InvariantStarts DEF Init
  <2>. QED BY <2>1
       DEF PInv, InputIsSplit, Promise!Init, Promise!NoCall, Promise!Silence, Silence
<1>2. PInv /\ [Next]_vars => PInv'
  BY InvariantStays, SplitStays DEF PInv
<1>3. PInv /\ [Next]_vars => [Promise!Next]_(Promise!vars)
  BY NextKeepsPromise
<1>4. Spec => Init /\ [][Next]_vars
  BY PTL DEF Spec
<1>. QED BY <1>1, <1>2, <1>3, <1>4, PTL DEF Promise!Safety
===============================================================================
