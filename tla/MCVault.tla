------------------------------ MODULE MCVault ------------------------------
(* Vault for TLC: keys, cells and texts are model values of the cfg.       *)
EXTENDS Vault, TLC

Swaps == Permutations(Keys)
=============================================================================
