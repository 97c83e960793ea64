---------------------------- MODULE WalletRepoInv ----------------------------
(***************************************************************************)
(* The inductive invariants of WalletRepo: what each statement of a        *)
(* transaction may rely on.  MCWalletRepo checks them, WalletRepoProofs    *)
(* proves them.                                                            *)
(***************************************************************************)
EXTENDS WalletRepo

(* Types: a request that passed the handler's checks names two different   *)
(* wallets and a payable amount; a job names a deposit; a row that exists  *)
(* belongs to a wallet.                                                    *)
Checked(c) ==
  /\ c.from \in Wallets
  /\ c.to \in Wallets
  /\ c.from # c.to
  /\ c.amount \in Payable
  /\ c.ref \in References

CallsChecked == \A t \in Transfers : InTransfer(t) => Checked(call[t])

JobsNamed ==
  \A k \in Workers :
    /\ job[k].pc # "idle" => job[k].deposit \in Deposits /\ job[k].amount \in Payable
    /\ job[k].pc \in {"credit", "mark", "commit"} =>
         deposits[job[k].deposit].status # "ABSENT"

RowsOwned ==
  \A d \in Deposits :
    deposits[d].status # "ABSENT" =>
      deposits[d].wallet \in Wallets /\ deposits[d].amount \in Payable

TypeInv == TypeOK /\ CallsChecked /\ JobsNamed /\ RowsOwned

(* Money: the balances an open transaction has computed are still the      *)
(* committed balance plus or minus its amount, because it holds the row.   *)
DebitCurrent(t) ==
  call[t].pc \in {"credit", "record", "commit"} =>
    /\ call[t].fromAfter = balance[call[t].from] - call[t].amount
    /\ call[t].fromAfter >= 0

CreditCurrent(t) ==
  call[t].pc \in {"record", "commit"} =>
    /\ call[t].toAfter = balance[call[t].to] + call[t].amount
    /\ call[t].toAfter <= MaxBalance

Crediting(k) == job[k].kind = "charge.success" /\ job[k].pc \in {"mark", "commit"}

JobCurrent(k) ==
  Crediting(k) =>
    /\ job[k].after = balance[PaidWallet(k)] + job[k].amount
    /\ job[k].after <= MaxBalance

(* Two database transactions never hold the same row, so what an UPDATE    *)
(* saw of a row is still true when its transaction commits.                *)
LocksExclusive ==
  \A s, u \in Sessions : s # u => Held(s) \cap Held(u) = {}

MoneyInv ==
  /\ TypeInv
  /\ LocksExclusive
  /\ BalancesInRange
  /\ \A t \in Transfers : DebitCurrent(t) /\ CreditCurrent(t)
  /\ \A k \in Workers : JobCurrent(k)

(* References: a transfer that is about to commit is the only one with its *)
(* reference, in the table and among the open transactions.                *)
ReferencesFresh ==
  \A t \in Transfers :
    call[t].pc = "commit" =>
      /\ \A e \in entries : e.reference # call[t].ref
      /\ \A u \in Transfers \ {t} : call[u].pc = "commit" => call[u].ref # call[t].ref

(* One webhook worker, as cmd/server/main.go starts in a process.          *)
OneWorker == \A k, l \in Workers : k = l

(* What several processes would have to guarantee: no two workers are      *)
(* between the SELECT and the COMMIT of the same deposit.                  *)
Settling(k) == job[k].pc \in {"credit", "mark", "commit"}

JobsApart ==
  \A k, l \in Workers :
    k # l /\ Settling(k) /\ Settling(l) => job[k].deposit # job[l].deposit

(* Deposits: when jobs are apart, and so with one worker, the status that  *)
(* a job read is still the status of the row when the job commits.         *)
StatusStillRead ==
  \A k \in Workers :
    Settling(k) =>
      deposits[job[k].deposit].status \notin StopsAt(job[k].kind)

(* Locks: the next statement of session x is an UPDATE of a row that       *)
(* session y holds, or an INSERT of a reference that y has inserted.       *)
Awaits(x, y) ==
  \/ /\ x \in Transfers
     /\ \/ call[x].pc = "debit" /\ call[x].from \in Held(y)
        \/ call[x].pc = "credit" /\ call[x].to \in Held(y)
        \/ /\ call[x].pc = "record" /\ y \in Transfers
           /\ call[y].pc = "commit" /\ call[y].ref = call[x].ref
  \/ /\ x \in Workers
     /\ \/ job[x].pc = "credit" /\ PaidWallet(x) \in Held(y)
        \/ job[x].pc = "mark" /\ job[x].deposit \in Held(y)

Stuck(S) == S # {} /\ \A x \in S : \E y \in S : Awaits(x, y)

(* Whenever sessions only wait for each other, transfers and workers alike,*)
(* some transfer among them is in a cycle that Postgres detects: the chain *)
(* of waits never ends in a worker, nor in a cycle with a worker in it.    *)
StandstillHasVictim ==
  \A S \in SUBSET Sessions : Stuck(S) => \E t \in S \cap Transfers : Deadlocked(t)

RepoInv ==
  /\ MoneyInv
  /\ ReferencesFresh
  /\ StatusStillRead
  /\ CreditedOnce
=============================================================================
