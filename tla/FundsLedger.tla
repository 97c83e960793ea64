----------------------------- MODULE FundsLedger -----------------------------
(***************************************************************************)
(* What the money side of the service promises, with every operation one   *)
(* atomic step: a transfer moves an amount between two different wallets   *)
(* and posts its two rows, a pending deposit is settled once and only once *)
(* and pays its wallet at that moment, and nothing else moves money.       *)
(* WalletRepo, the statement-by-statement model of the repository, is      *)
(* checked (MCWalletRepo) and proved (WalletRepoProofs) to implement it.   *)
(***************************************************************************)
EXTENDS Integers

CONSTANTS
  Wallets,      \* rows of the wallets table
  Deposits,     \* deposit references, "dep-<user>-<nanoseconds>"
  References,   \* transfer references, "trf-<nanoseconds>"
  Payable,      \* amounts at or above MIN_TRANSACTION_AMOUNT
  MaxBalance,   \* largest value of the BIGINT balance column
  Opening,      \* balance of each wallet when the model starts
  None          \* no wallet

VARIABLES
  balance,      \* wallet -> its balance
  entries,      \* the transaction rows posted by transfers
  deposits      \* deposit reference -> its transaction row

vars == <<balance, entries, deposits>>

NoDeposit == [status |-> "ABSENT", wallet |-> None, amount |-> 0]

WithStatus(row, status) ==
  [status |-> status, wallet |-> row.wallet, amount |-> row.amount]

Entry(ref, leg, w, a) ==
  [reference |-> ref, leg |-> leg, wallet |-> w, amount |-> a]

Init ==
  /\ balance = Opening
  /\ entries = {}
  /\ deposits = [d \in Deposits |-> NoDeposit]

(* Money moves from one wallet to another, and both rows appear with it. *)
Transfer(from, to, a, ref) ==
  /\ from # to
  /\ balance[from] >= a
  /\ balance[to] + a <= MaxBalance
  /\ \A e \in entries : e.reference # ref
  /\ balance' = [balance EXCEPT ![from] = @ - a, ![to] = @ + a]
  /\ entries' = entries \cup {Entry(ref, "debit", from, a),
                              Entry(ref, "credit", to, a)}
  /\ UNCHANGED deposits

Register(d, w, a) ==
  /\ deposits[d].status = "ABSENT"
  /\ deposits' = [deposits EXCEPT ![d] =
                    [status |-> "PENDING", wallet |-> w, amount |-> a]]
  /\ UNCHANGED <<balance, entries>>

(* The only step that creates money.  A failed deposit may still succeed. *)
Settle(d, a) ==
  /\ deposits[d].status \in {"PENDING", "FAILED"}
  /\ balance[deposits[d].wallet] + a <= MaxBalance
  /\ balance' = [balance EXCEPT ![deposits[d].wallet] = @ + a]
  /\ deposits' = [deposits EXCEPT ![d] = WithStatus(@, "SUCCESS")]
  /\ UNCHANGED entries

Decline(d) ==
  /\ deposits[d].status = "PENDING"
  /\ deposits' = [deposits EXCEPT ![d] = WithStatus(@, "FAILED")]
  /\ UNCHANGED <<balance, entries>>

Next ==
  \/ \E from, to \in Wallets, a \in Payable, ref \in References :
       Transfer(from, to, a, ref)
  \/ \E d \in Deposits, w \in Wallets, a \in Payable : Register(d, w, a)
  \/ \E d \in Deposits, a \in Payable : Settle(d, a)
  \/ \E d \in Deposits : Decline(d)

Spec == Init /\ [][Next]_vars
=============================================================================
