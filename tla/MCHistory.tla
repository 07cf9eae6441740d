------------------------------ MODULE MCHistory ------------------------------
(* Instances of History for TLC; the cfg files give the constants their   *)
(* values.  No symmetry of Clients: a liveness property is checked.       *)
EXTENDS History

(* The room as its first sync has left it: the newest Window events are in *)
(* the store, and the edge stands behind them, one event above the start.  *)
SeededInit ==
  /\ head = Window + 1 /\ since = head
  /\ row = TRUE /\ stored = Shown \cap 2 .. head
  /\ token = 1 /\ done = FALSE
  /\ sync = NoBatch
  /\ walk = [c \in Clients |-> NoWalk]
  /\ early = FALSE /\ skipped = {}

SeededSpec == SeededInit /\ [][Next]_vars
=============================================================================
