---------------------------- MODULE CheckpointStore ----------------------------
(***************************************************************************)
(* What a client may assume of checkpoints.  A runtime has the reviews of  *)
(* one history; a save stores it, all at once or not at all, and a load    *)
(* begins where a save left off.  A runtime may vanish at any time, what   *)
(* is stored stays.                                                        *)
(***************************************************************************)
EXTENDS Naturals, Sequences

CONSTANTS Reviews, Runtimes, Paths, None

VARIABLES
  stored,   \* stored[path]: the history saved there
  open      \* open[p]: the history of p

Init ==
  /\ stored = [path \in Paths |-> None]
  /\ open = [p \in Runtimes |-> None]

Open(p) ==
  /\ open[p] = None
  /\ \E h \in {<<>>} \cup {stored[path] : path \in Paths} :
       open' = [open EXCEPT ![p] = h]
  /\ UNCHANGED stored

Review(p) ==
  /\ open[p] # None
  /\ \E r \in Reviews : open' = [open EXCEPT ![p] = Append(@, r)]
  /\ UNCHANGED stored

Undo(p) ==
  /\ open[p] \notin {None, <<>>}
  /\ open' = [open EXCEPT ![p] = SubSeq(@, 1, Len(@) - 1)]
  /\ UNCHANGED stored

Save(p) ==
  /\ open[p] # None
  /\ \E path \in Paths : stored' = [stored EXCEPT ![path] = open[p]]
  /\ UNCHANGED open

Vanish(p) ==
  /\ open' = [open EXCEPT ![p] = None]
  /\ UNCHANGED stored

Next == \E p \in Runtimes : Open(p) \/ Review(p) \/ Undo(p) \/ Save(p) \/ Vanish(p)

Spec == Init /\ [][Next]_<<stored, open>>
===============================================================================
