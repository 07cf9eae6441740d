------------------------------ MODULE MCScreen ------------------------------
(* Screen for TLC: the cfg files give the constants their values.          *)
EXTENDS Screen
=============================================================================
