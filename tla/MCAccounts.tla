------------------------------ MODULE MCAccounts ------------------------------
(***************************************************************************)
(* Small instances of Accounts for TLC.                                    *)
(***************************************************************************)
EXTENDS Accounts, TLC

CONSTANTS g1, g2, g3

(* Two of the Google accounts have the same address, one after the other.  *)
Addresses == [g \in GoogleAccounts |-> IF g = g3 THEN g2 ELSE g]

(* Goroutines and random identifiers are interchangeable; the ids of the   *)
(* wallets are not, as First goes by their order.                          *)
IdSymmetry ==
  Permutations(Requests) \cup Permutations(UserIDs) \cup Permutations(Numbers)
=============================================================================
