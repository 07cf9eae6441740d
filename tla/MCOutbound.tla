----------------------------- MODULE MCOutbound -----------------------------
(***************************************************************************)
(* A room with two other devices and one or two client threads sending.    *)
(***************************************************************************)
EXTENDS Outbound, TLC

Symmetry == Permutations(Clients)
=============================================================================
