------------------------------ MODULE MCAccount ------------------------------
(***************************************************************************)
(* One user interface logging in and out of up to two devices.             *)
(***************************************************************************)
EXTENDS Account
=============================================================================
