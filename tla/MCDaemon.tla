------------------------------ MODULE MCDaemon ------------------------------
(***************************************************************************)
(* A plugin that may launch a daemon or two and connect a few times.       *)
(***************************************************************************)
EXTENDS Daemon
=============================================================================
