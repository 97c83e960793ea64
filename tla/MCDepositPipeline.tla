-------------------------- MODULE MCDepositPipeline --------------------------
(***************************************************************************)
(* Small instances of DepositPipeline for TLC.                             *)
(***************************************************************************)
EXTENDS DepositPipeline, TLC

CONSTANTS OpeningBalance

OpenWith == [w \in Wallets |-> OpeningBalance]

(* Webhook goroutines are interchangeable.                                 *)
HookSymmetry == Permutations(Hooks)
=============================================================================
