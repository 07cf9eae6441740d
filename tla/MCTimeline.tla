----------------------------- MODULE MCTimeline -----------------------------
(***************************************************************************)
(* A room with a message, two edits of it and, in the larger instances, a  *)
(* row left by an older version.                                           *)
(***************************************************************************)
EXTENDS Timeline

CONSTANTS msg, edit1, edit2, s1

\* The message and its first edit share session s1; the second edit was
\* made from a room not yet encrypted, so it is always readable.
MCKind    == [e \in Events |-> IF e \in {edit1, edit2} THEN "edit" ELSE "text"]
MCSession == [e \in Events |-> IF e = edit2 THEN Clear ELSE s1]
MCIndex   == [e \in Events |-> IF e = edit1 THEN 1 ELSE 0]
MCTarget  == [e \in Events |-> msg]
MCTs      == [e \in Events |-> IF e = edit1 THEN 2 ELSE 1]

BackedUp   == [s \in Sessions |-> 0]
SharedLate == {[session |-> s1, first |-> 1]}
=============================================================================
