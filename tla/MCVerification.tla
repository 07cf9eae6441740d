--------------------------- MODULE MCVerification ---------------------------
(***************************************************************************)
(* One transaction, with and without each of the mishaps.                  *)
(***************************************************************************)
EXTENDS Verification
=============================================================================
