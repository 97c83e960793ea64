----------------------------- MODULE WalletBooks -----------------------------
(***************************************************************************)
(* The balance equation of WalletRepo, which adds up the rows of the       *)
(* transactions table.                                                     *)
(***************************************************************************)
EXTENDS WalletRepoInv, Functions

(* The amounts of the rows of transfers.                                   *)
EntryAmount == [e \in LedgerEntry |-> e.amount]

PostedRows(w, leg) == {e \in entries : e.wallet = w /\ e.leg = leg}

Posted(w, leg) == SumFunctionOnSet(EntryAmount, PostedRows(w, leg))

(* The amounts of the rows of deposits.                                    *)
DepositAmount == [d \in Deposits |-> deposits[d].amount]

PaidRows(w) ==
  {d \in Deposits : deposits[d].wallet = w /\ deposits[d].status = "SUCCESS"}

Paid(w) == SumFunctionOnSet(DepositAmount, PaidRows(w))

(* The balance column, which TransferFunds and ProcessDeposit maintain     *)
(* with relative updates, always equals what the rows of the transactions  *)
(* table add up to: no update is lost, doubled or half done.               *)
BalanceMatchesLedger ==
  \A w \in Wallets :
    balance[w] = Opening[w] + Paid(w) + Posted(w, "credit") - Posted(w, "debit")
=============================================================================
