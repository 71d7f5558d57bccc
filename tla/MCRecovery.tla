----------------------------- MODULE MCRecovery ------------------------------
(* A phone with two wallets and two passphrases, enrolled twice.             *)
EXTENDS Phone, TLC

Symmetry == Permutations(Seeds) \cup Permutations(Passphrases)
=============================================================================
