------------------------------ MODULE MCWallets ------------------------------
(***************************************************************************)
(* Small instances for TLC of the two parts of the execution wallets.      *)
(* Creation and balance refresh share no state that changes: a behaviour   *)
(* runs one of them, chosen at its start, so that TLC explores the sum of  *)
(* their state spaces and not the product.                                 *)
(***************************************************************************)
EXTENDS WalletCreation, WalletBalances, TLC

VARIABLE part

MCInit == /\ Init
          /\ BalanceInit
          /\ part \in {"creation", "balances"}

MCNext ==
  \/ /\ part = "creation"
     /\ Next
     /\ UNCHANGED <<balanceVars, part>>
  \/ /\ part = "balances"
     /\ BalanceNext
     /\ UNCHANGED <<vars, part>>

MCSpec == MCInit /\ [][MCNext]_<<vars, balanceVars, part>>

Symmetry ==
  Permutations(Workspaces) \cup Permutations(Keys) \cup Permutations(Calls)
=============================================================================
