----------------------------- MODULE UndoableLog -----------------------------
(***************************************************************************)
(* What the public undo interface of a runtime promises: an append-only    *)
(* log of reviews whose newest entries, and at most UndoLimit of them, can *)
(* be taken back one by one.  A plain process call, closing or replacing a *)
(* live session, or creating one, forgets what could have been undone; it  *)
(* never takes a review back.                                              *)
(***************************************************************************)
EXTENDS Naturals, Sequences

CONSTANTS Reviews, UndoLimit

VARIABLES log, depth

lvars == <<log, depth>>

Init == log = <<>> /\ depth = 0

\* One review that can be undone later; the oldest such one may stop being so.
AnswerUndoably ==
  /\ UndoLimit > 0
  /\ \E r \in Reviews : log' = Append(log, r)
  /\ depth' = IF depth = UndoLimit THEN UndoLimit ELSE depth + 1

\* Reviews that cannot be undone, nor can any before them.
AnswerForGood ==
  /\ log' \in Seq(Reviews)
  /\ Len(log') >= Len(log) /\ SubSeq(log', 1, Len(log)) = log
  /\ depth' = 0

Undo ==
  /\ depth > 0
  /\ log # <<>>
  /\ log' = SubSeq(log, 1, Len(log) - 1)
  /\ depth' = depth - 1

Next == AnswerUndoably \/ AnswerForGood \/ Undo

Spec == Init /\ [][Next]_lvars
===============================================================================
