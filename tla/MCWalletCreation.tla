------------------------- MODULE MCWalletCreation -------------------------
(***************************************************************************)
(* Small instances of WalletCreation for TLC.                              *)
(***************************************************************************)
EXTENDS WalletCreation, TLC

Symmetry ==
  Permutations(Workspaces) \cup Permutations(Keys) \cup Permutations(Calls)
=============================================================================
