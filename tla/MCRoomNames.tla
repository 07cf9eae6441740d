----------------------------- MODULE MCRoomNames -----------------------------
(* RoomNames for TLC: the cfg files give the constants their values.       *)
EXTENDS RoomNames
=============================================================================
