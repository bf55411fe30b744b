---------------------------- MODULE CheckpointState ----------------------------
(***************************************************************************)
(* What a checkpoint holds, as a value, and what a runtime that was loaded *)
(* from a part of one makes of it.                                         *)
(*                                                                         *)
(* The native state has an entry for each identity (card, note, deck or    *)
(* preset) that was seen: its encoding, drawn when it first appeared, and  *)
(* the reviews folded into its recurrent and per-card state.  Beside the   *)
(* entries it has what all reviews share: the position of the generator    *)
(* encodings are drawn from, and the global counters and recurrent state,  *)
(* for which the reviews folded into them stand.                           *)
(***************************************************************************)
EXTENDS Naturals, Sequences, FiniteSets

CONSTANTS
  Reviews,
  Identities,
  IdentitiesOf,   \* IdentitiesOf[r]: those of the review's row, in module order
  None            \* no entry, no log

ASSUME IdentityAssumption == IdentitiesOf \in [Reviews -> Seq(Identities)]

Entries == [encoding : Nat, reviews : Seq(Reviews)]
ASSUME NoneAssumption == None \notin Entries /\ None \notin Seq(Reviews)

NativeStates ==
  [entries : [Identities -> Entries \cup {None}], draws : Nat, log : Seq(Reviews)]

EmptyState == [entries |-> [k \in Identities |-> None], draws |-> 0, log |-> <<>>]

Touched(r) == {IdentitiesOf[r][i] : i \in DOMAIN IdentitiesOf[r]}

\* An encoding is drawn for each unseen identity of a row, in its order.
UnseenUpTo(state, r, i) ==
  {j \in DOMAIN IdentitiesOf[r] : j <= i /\ state.entries[IdentitiesOf[r][j]] = None}

DrawOf(state, r, k) ==
  LET i == CHOOSE i \in DOMAIN IdentitiesOf[r] : IdentitiesOf[r][i] = k
  IN  state.draws + Cardinality(UnseenUpTo(state, r, i))

Entry(state, r, k) ==
  IF state.entries[k] = None
  THEN [encoding |-> DrawOf(state, r, k), reviews |-> <<r>>]
  ELSE [encoding |-> state.entries[k].encoding,
        reviews |-> Append(state.entries[k].reviews, r)]

\* A review is processed.
Reviewed(state, r) ==
  [entries |-> [k \in Identities |->
                 IF k \in Touched(r) THEN Entry(state, r, k) ELSE state.entries[k]],
   draws |-> state.draws
               + Cardinality(UnseenUpTo(state, r, Len(IdentitiesOf[r]))),
   log |-> Append(state.log, r)]

\* filter_runtime_state, and the selected reads: entries outside the scope are
\* skipped, what all reviews share is read whole.
Selected(state, scope) ==
  [entries |-> [k \in Identities |->
                 IF k \in scope THEN state.entries[k] ELSE None],
   draws |-> state.draws,
   log |-> state.log]

\* Mutant of Merged: an entry the runtime no longer has stays in the file.
MergedKeeping(backing, current, scope) ==
  [entries |-> [k \in Identities |->
                 IF current.entries[k] # None THEN current.entries[k]
                 ELSE backing.entries[k]],
   draws |-> current.draws,
   log |-> current.log]

\* write_merged_runtime_state_bin_v2: the runtime's entries, and those of the
\* backing file that are outside the scope.
Merged(backing, current, scope) ==
  [entries |-> [k \in Identities |->
                 IF current.entries[k] # None THEN current.entries[k]
                 ELSE IF k \in scope THEN None
                 ELSE backing.entries[k]],
   draws |-> current.draws,
   log |-> current.log]
===============================================================================
