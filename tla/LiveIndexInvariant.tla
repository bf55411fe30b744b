-------------------------- MODULE LiveIndexInvariant --------------------------
(***************************************************************************)
(* The inductive invariant of LiveIndex.  An undo frame holds the slots    *)
(* mutated since its answer, so what it is worth depends on the index it   *)
(* will be applied to: every frame of the stack, not only the newest,      *)
(* turns that index into the one its answer found.  The rank order is      *)
(* kept apart: it rests on the rest of the invariant.                      *)
(***************************************************************************)
EXTENDS LiveIndex

\* The index frame k will be applied to: unless it saw its universe replaced,
\* the index as the next answer found it, or the current one.
Base(k) ==
  AppliedTo(undo[k], IF k < Len(undo) THEN history[k + 1] ELSE index)

\* The slots a frame saved exist in b; those of h were live when it saved them,
\* the others were created since; and a slot that only a refresh touched since
\* is still live.
DeltasAreLive(f, b, h) ==
  /\ DOMAIN f.full \cup DOMAIN f.refresh \subseteq Slots(b)
  /\ \A s \in DOMAIN f.full :
       IF s \in Slots(h) THEN f.full[s] # New /\ f.full[s].cand.status # "removed"
                         ELSE f.full[s] = New
  /\ \A s \in DOMAIN f.refresh \ DOMAIN f.full :
       f.refresh[s].status # "removed" /\ b.slots[s].status # "removed"

\* f turns the slots of b back into those of h.
SlotsRestored(f, b, h) ==
  \A s \in Slots(b) :
    IF s \in Slots(h) THEN RestoredSlots(b, f)[s] = h.slots[s]
                      ELSE RestoredSlots(b, f)[s].status = "removed"

\* While the retention extra is the frame's, so are the flags it brings back.
FlagsRestored(f, b) ==
  b.retention = f.retention =>
    \A s \in Slots(b) :
      RestoredEligible(b, f)[s] = EligibleAt(RestoredSlots(b, f)[s], f.retention)

FrameRestores(f, b, h) ==
  /\ f.retention = h.retention /\ f.day = h.day
  /\ Slots(h) \subseteq Slots(b)
  /\ \A s \in Slots(h) : h.slots[s].card = b.slots[s].card
  /\ DeltasAreLive(f, b, h)
  /\ SlotsRestored(f, b, h)
  /\ RevisitsRetention \/ FlagsRestored(f, b)

IndexIsCoherent(i) == MapMatches(i) /\ (RevisitsRetention \/ FlagsAreCurrent(i))

\* Every frame that can still be undone, however deep, restores the index its
\* answer found when it is applied to the one it will be applied to.
EveryFrameRestores ==
  /\ IndexIsCoherent(index)
  /\ \A k \in DOMAIN undo :
       /\ IndexIsCoherent(Base(k)) /\ IndexIsCoherent(history[k])
       /\ FrameRestores(undo[k], Base(k), history[k])

IInv == TypeOK /\ EveryFrameRestores

\* ordered_slots is a permutation of the live slots sorted by the cached rank
\* keys, although answers, refreshes and undos only merge the slots they
\* touched into what they assume is still sorted.  An undo may merge into the
\* order of a universe that a reconciliation replaced, so the snapshots kept
\* for undo have to be as exact as the current index.
OrderIsExactAndSorted ==
  /\ OrderIsExact(index)
  /\ \A k \in DOMAIN undo :
       /\ OrderIsExact(history[k])
       /\ undo[k].before # <<>> => OrderIsExact(undo[k].before[1])
===============================================================================
