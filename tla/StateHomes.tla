------------------------------ MODULE StateHomes ------------------------------
(***************************************************************************)
(* Where a recurrent state can be while reviews are processed on the GPU,  *)
(* as a value: the canonical maps and the flat CPU maps of the runtime,    *)
(* and the three stores of the GPU process scan: the states deferred on    *)
(* the host, the states of the last batch resident in the scan's buffers,  *)
(* and the sharded arena that keeps all of them.                           *)
(*                                                                         *)
(* held[h][k] is the state of key k in home h, None if it has none there.  *)
(* A state stands for the sequence of reviews folded into it.              *)
(***************************************************************************)
EXTENDS Naturals, Sequences

CONSTANTS
  Reviews,   \* rows of an input
  Modules,   \* ModuleKind
  KeyOf      \* KeyOf[m][r]: the identity of module m that review r updates

None == <<>>
State(reviews) == <<reviews>>
ReviewsOf(state) == IF state = None THEN <<>> ELSE state[1]

Homes == {"canonical", "flat", "deferred", "resident", "arena"}
Host == {"canonical", "flat"}
Device == {"resident", "arena"}

Keys == {<<m, KeyOf[m][r]>> : m \in Modules, r \in Reviews}
KeysOf(rows) == {<<m, KeyOf[m][rows[i]]>> : m \in Modules, i \in DOMAIN rows}

Nowhere == [h \in Homes |-> [k \in Keys |-> None]]

KeysIn(held, h) == {k \in Keys : held[h][k] # None}
IsEmpty(held, h) == KeysIn(held, h) = {}

\* The order in which a plan looks for the state a key starts from.
Source(held, k) ==
  IF held["resident"][k] # None THEN held["resident"][k]
  ELSE IF held["arena"][k] # None THEN held["arena"][k]
  ELSE IF held["deferred"][k] # None THEN held["deferred"][k]
  ELSE IF held["flat"][k] # None THEN held["flat"][k]
  ELSE held["canonical"][k]

\* A state after some rows: those of its key, in their order.
Folded(state, k, rows) ==
  State(ReviewsOf(state) \o SelectSeq(rows, LAMBDA r : KeyOf[k[1]][r] = k[2]))

NextStates(held, rows) ==
  [k \in Keys |-> IF k \in KeysOf(rows) THEN Folded(Source(held, k), k, rows)
                  ELSE Source(held, k)]

\* Some keys get new values in one home and leave others.
Moved(held, keys, home, value, left) ==
  [h \in Homes |-> [k \in Keys |->
     IF k \notin keys THEN held[h][k]
     ELSE IF h = home THEN value[k]
     ELSE IF h \in left THEN None
     ELSE held[h][k]]]

\* Keys are cached on the host, and leave the runtime's own maps.
DeferredInsert(held, keys, value) == Moved(held, keys, "deferred", value, Host)

\* Mutant of DeferredRemove: a host copy stays beside the device's.
DeferredRemoveOnly(held, keys) == Moved(held, keys, "none", held["deferred"], {"deferred"})

\* Keys whose newest state is on the device are nowhere else.
DeferredRemove(held, keys) ==
  Moved(held, keys, "none", held["deferred"], Host \cup {"deferred"})

DeferredSynchronize(held) ==
  Moved(held, KeysIn(held, "deferred"), "canonical", held["deferred"], {"deferred"})

\* insert_module_state, for some keys.
InsertModuleStates(held, keys, value) ==
  Moved(held, keys, "canonical", value, {"flat"})

CommitFlatCpuState(held, keys) ==
  Moved(held, keys, "flat", held["arena"], {"canonical"})

MaterializeFlat(held) ==
  Moved(held, KeysIn(held, "flat"), "canonical", held["flat"], {"flat"})

Cleared(held, h) == [held EXCEPT ![h] = Nowhere[h]]

\* The states a working set holds that the next batch does not use.
Evicted(held, rows) == KeysIn(held, "resident") \ KeysOf(rows)

\* A batch in the working set: evicted states go to the host, those of the rows
\* are the new working set.
DecodeResident(held, rows) ==
  DeferredRemove(DeferredInsert(held, Evicted(held, rows), held["resident"]),
                 KeysOf(rows))

ResidentCommit(held, rows) ==
  [DecodeResident(held, rows) EXCEPT !["resident"] =
     [k \in Keys |-> IF k \in KeysOf(rows) THEN NextStates(held, rows)[k] ELSE None]]

\* A batch in the arena, which keeps the states of all batches.
ArenaScatter(held, keys, value) == Moved(held, keys, "arena", value, {})

ArenaCommit(held, rows) ==
  DeferredRemove(ArenaScatter(held, KeysOf(rows), NextStates(held, rows)),
                 KeysOf(rows))

\* A batch on the CPU.
CpuCommit(held, rows) ==
  Moved(MaterializeFlat(held), KeysOf(rows), "canonical",
        NextStates(held, rows), {"flat"})
===============================================================================
