---------------------------- MODULE EditRegister ----------------------------
(***************************************************************************)
(* What the store promises a reader about edits: a message is a register   *)
(* whose shown text is decided by the newest edit of it ever recorded, and *)
(* by the last text written only while there is none.  Neither a write nor *)
(* an edit has to come first.                                              *)
(***************************************************************************)
EXTENDS Naturals

CONSTANTS
  Events,   \* event ids
  Ts,       \* origin_server_ts of each event
  Bodies,   \* everything a row can display
  None,     \* no edit recorded
  Text(_)   \* the text an event carries

VARIABLES
  present,  \* the events a reader can see
  shown,    \* what each of them displays
  newest    \* the edit recorded for each event, or None

regs == <<present, shown, newest>>

Init ==
  /\ present \in SUBSET Events
  /\ shown \in [Events -> Bodies]
  /\ newest = [e \in Events |-> None]

(* Texts arrive for the events of S, in either order with their edits.     *)
Write(S) ==
  /\ present' = present \cup S
  /\ shown' \in [Events -> Bodies]
  /\ \A e \in Events \ S : shown'[e] = shown[e]
  /\ \A e \in S : newest[e] # None => shown'[e] = Text(newest[e])
  /\ UNCHANGED newest

(* Edit x of event e takes the register over unless a newer one holds it.  *)
Edit(e, x) ==
  /\ newest[e] # None => Ts[x] >= Ts[newest[e]]
  /\ newest' = [newest EXCEPT ![e] = x]
  /\ shown' = [shown EXCEPT ![e] = IF e \in present THEN Text(x) ELSE @]
  /\ UNCHANGED present

Next ==
  \/ \E S \in SUBSET Events : Write(S)
  \/ \E e, x \in Events : Edit(e, x)

Spec == Init /\ [][Next]_regs
=============================================================================
