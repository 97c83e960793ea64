----------------------------- MODULE MCWalletRepo -----------------------------
(***************************************************************************)
(* Small instances of WalletRepo for TLC.                                  *)
(***************************************************************************)
EXTENDS WalletBooks, TLC

CONSTANTS OpeningBalance

OpenWith == [w \in Wallets |-> OpeningBalance]

(* Requests, deposits and wallets that differ only in their identity are   *)
(* interchangeable: all wallets open with the same balance.                *)
RepoSymmetry ==
  Permutations(Transfers) \cup Permutations(Deposits) \cup Permutations(Wallets)
=============================================================================
