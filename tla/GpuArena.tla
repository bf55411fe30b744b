------------------------------- MODULE GpuArena -------------------------------
(***************************************************************************)
(* The GPU prediction cache of a native runtime, as a value: for each kind *)
(* of identity an arena of recurrent states with the slot of every         *)
(* identity it holds, and a cache of the slots of whole review identities. *)
(* The cache is optional: whatever goes wrong with it drops it (None), and *)
(* the next GPU prediction rebuilds it from the CPU states.                *)
(***************************************************************************)
EXTENDS ReviewState

CONSTANT MaxSlots    \* entries a binding of this GPU can hold, per arena

ASSUME SlotAssumption == MaxSlots \in Nat

Slots == 0 .. MaxSlots - 1

Tuples == {NormalizedIds(r) : r \in Reviews}
KeyIn(t, k) == <<k, t[k]>>
Mentions(t, keys) == \E k \in Kinds : KeyIn(t, k) \in keys

\* A built arena numbers the identities of a kind in ascending order.
Held(states, k) == {key \in Keys : key[1] = k /\ states[key] # None}
Rank(states, key) ==
  Cardinality({m \in Held(states, key[1]) : m[2] < key[2]})

Fits(states) == \A k \in Kinds : Cardinality(Held(states, k)) <= MaxSlots

StateArena(states) ==
  [len |-> [k \in Kinds |-> Cardinality(Held(states, k))],
   slots |-> [key \in Keys |->
                IF states[key] = None THEN None ELSE Rank(states, key)],
   buffer |-> [k \in Kinds |-> [s \in Slots |->
                 IF \E key \in Held(states, k) : Rank(states, key) = s
                 THEN states[CHOOSE key \in Held(states, k) :
                               Rank(states, key) = s]
                 ELSE None]],
   slot_cache |-> [t \in Tuples |-> None]]

\* The slot an upload of this identity goes to: its own, or the next free one.
UploadSlot(g, key) ==
  IF g.slots[key] = None THEN g.len[key[1]] ELSE g.slots[key]

HasRoom(g, key) == g.slots[key] # None \/ g.len[key[1]] < MaxSlots

\* Uploads the states of some identities, at most one of each kind.
Uploaded(g, states, keys) ==
  [len |-> [k \in Kinds |->
     IF \E key \in keys : key[1] = k /\ g.slots[key] = None
     THEN g.len[k] + 1 ELSE g.len[k]],
   slots |-> [key \in Keys |->
     IF key \in keys THEN UploadSlot(g, key) ELSE g.slots[key]],
   buffer |-> [k \in Kinds |-> [s \in Slots |->
     IF \E key \in keys : key[1] = k /\ UploadSlot(g, key) = s
     THEN states[CHOOSE key \in keys : key[1] = k]
     ELSE g.buffer[k][s]]],
   slot_cache |-> g.slot_cache]

\* After a processed review: new bytes for its five states, or no predictor.
SyncGpuReviewStates(g, canon, r) ==
  IF g = None THEN {None}
  ELSE {None} \cup {h \in {Uploaded(g, canon, KeysOf(r))} :
                      \A key \in KeysOf(r) : HasRoom(g, key)}

\* Mutant of IsTail: any slot can be given back.
IsAnySlot(g, key) == TRUE

\* Only the last slot of an arena can be given back.
IsTail(g, key) == g.slots[key] = g.len[key[1]] - 1

Retired(g, keys) ==
  [len |-> [k \in Kinds |->
     IF \E key \in keys : key[1] = k THEN g.len[k] - 1 ELSE g.len[k]],
   slots |-> [key \in Keys |-> IF key \in keys THEN None ELSE g.slots[key]],
   buffer |-> g.buffer,
   slot_cache |-> g.slot_cache]

\* Mutant of Forgotten: cached tuples stay.
Remembered(g, keys) == g

Forgotten(g, keys) ==
  [g EXCEPT !.slot_cache = [t \in Tuples |->
     IF Mentions(t, keys) THEN None ELSE @[t]]]

\* After an undo: a restored state is uploaded again, a state that is gone
\* gives its slot back, and cached slots of an identity that came or went are
\* forgotten (every one of them when the global state did: all mention it).
RestoreGpuAfterUndo(g, canon, r) ==
  IF g = None THEN {None}
  ELSE LET kept == {key \in KeysOf(r) : canon[key] # None}
           gone == {key \in KeysOf(r) \ kept : g.slots[key] # None}
           came == {key \in kept : g.slots[key] = None}
           possible == /\ \A key \in gone : IsTail(g, key)
                       /\ \A key \in kept : HasRoom(g, key)
       IN  {None} \cup
           {h \in {Forgotten(Retired(Uploaded(g, canon, kept), gone),
                             gone \cup came)} : possible}

\* A GPU prediction looks its five slots up, through the cache when it can; an
\* identity without a state has no slot, and such a lookup is not cached.
QuerySlots(g, t) ==
  IF g.slot_cache[t] # None THEN g.slot_cache[t]
  ELSE [k \in Kinds |-> g.slots[KeyIn(t, k)]]

Queried(g, t) ==
  IF \A k \in Kinds : QuerySlots(g, t)[k] # None
  THEN [g EXCEPT !.slot_cache[t] = QuerySlots(g, t)]
  ELSE g

-------------------------------------------------------------------------------
Predictors ==
  [len : [Kinds -> 0 .. MaxSlots],
   slots : [Keys -> Slots \cup {None}],
   buffer : [Kinds -> [Slots -> States \cup {None}]],
   slot_cache : [Tuples -> [Kinds -> Slots] \cup {None}]]

\* Every state, and nothing else, has a slot among the first of its arena, that
\* slot is its own, and the bytes there are the state.
Mirrors(g, states) ==
  /\ \A k \in Keys :
       /\ g.slots[k] = None <=> states[k] = None
       /\ g.slots[k] # None =>
            /\ g.slots[k] \in 0 .. g.len[k[1]] - 1
            /\ g.buffer[k[1]][g.slots[k]] = states[k]
  /\ \A k, m \in Keys :
       k[1] = m[1] /\ g.slots[k] = g.slots[m] /\ g.slots[k] # None => k = m

CacheIsCurrent(g) ==
  \A t \in Tuples : g.slot_cache[t] # None =>
    \A k \in Kinds :
      /\ g.slots[KeyIn(t, k)] # None
      /\ g.slot_cache[t][k] = g.slots[KeyIn(t, k)]
===============================================================================
