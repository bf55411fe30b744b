--------------------------- MODULE MCRuntimeSession ---------------------------
(* Small instances of RuntimeSession for TLC.                               *)
EXTENDS RuntimeSession

\* What a plain call commits: nothing, one review, or two.
UpToTwo == {<<>>} \cup {<<r>> : r \in Reviews} \cup {<<q, r>> : q, r \in Reviews}
===============================================================================
