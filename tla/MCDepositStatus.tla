---------------------------- MODULE MCDepositStatus ----------------------------
(***************************************************************************)
(* Small instances of DepositStatus for TLC.                               *)
(***************************************************************************)
EXTENDS DepositStatus

CONSTANTS OpeningBalance

OpenWith == [w \in Wallets |-> OpeningBalance]
=============================================================================
