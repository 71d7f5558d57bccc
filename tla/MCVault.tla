------------------------------ MODULE MCVault -------------------------------
(* Vault on files of up to two chunks, of two units each.                  *)
EXTENDS Vault, TLC

Symmetry == Permutations(Seeds)
=============================================================================
