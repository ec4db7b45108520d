-------------------------- MODULE MCVaultDepositor --------------------------
(* VaultDepositor for TLC: two deposits of different amounts to one address. *)
EXTENDS VaultDepositor

CONSTANT a

Addresses == {a}
TwoAlike == <<a, a>>
TwoValues == <<1, 2>>
=============================================================================
