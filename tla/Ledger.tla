------------------------------- MODULE Ledger -------------------------------
(***************************************************************************)
(* What the store promises whoever writes to it, with or without a key: a  *)
(* sequence of committed contents, of which a power cut may take the       *)
(* newest but never anything out of the middle.                            *)
(***************************************************************************)
EXTENDS Naturals, Sequences

CONSTANTS Cells, Texts, None

VARIABLE log  \* the contents that are certain, then every later commit

Blank   == [c \in Cells |-> None]
Content == log[Len(log)]

Init == log = <<Blank>>

Put   == \E c \in Cells, t \in Texts : log' = Append(log, [Content EXCEPT ![c] = t])
Touch == log' = Append(log, Content)
Wipe  == log' = Append(log, Blank)
Fold  == log' = <<Content>>
Tear  == \E n \in 1..Len(log) : log' = SubSeq(log, 1, n)
Reset == log' = <<Blank>>

Next == Put \/ Touch \/ Wipe \/ Fold \/ Tear \/ Reset

Spec == Init /\ [][Next]_log
=============================================================================
