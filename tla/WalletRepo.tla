------------------------------ MODULE WalletRepo ------------------------------
(***************************************************************************)
(* The wallet repository and the callers that change money through it:     *)
(* handler goroutines that run TransferFunds and webhook workers that run  *)
(* ProcessDeposit or ProcessFailedTransaction.  Each call is one database  *)
(* transaction, modelled statement by statement as Postgres runs it at     *)
(* READ COMMITTED: an UPDATE waits for the row lock, its WHERE clause and  *)
(* its arithmetic see the latest committed row, the value it computed is   *)
(* the one that COMMIT publishes, a transaction keeps its locks to its     *)
(* end, and all its writes become visible together.                        *)
(* A statement may fail, the reply to a COMMIT may be lost, Postgres may   *)
(* pick a deadlock victim, and the process may die at any point.           *)
(***************************************************************************)
EXTENDS Integers

CONSTANTS
  Wallets,       \* rows of the wallets table
  Deposits,      \* deposit references, "dep-<user>-<nanoseconds>"
  References,    \* readings of time.Now().UnixNano() used in "trf-%d"
  Transfers,     \* TransferFunds requests, one handler goroutine each
  Workers,       \* webhook workers, one goroutine per server process
  Amounts,       \* amounts a request may carry
  MinTransactionAmount,
  MaxBalance,    \* largest value of the BIGINT balance column
  Opening,       \* balance of each wallet when the model starts
  ExactCharges,  \* the gateway charges exactly the amount initialised
  Faults,        \* which of "db" and "crash" may happen
  None           \* no wallet

ASSUME RepoAssumption ==
  /\ Amounts \subseteq Int
  /\ MinTransactionAmount \in Nat \ {0}
  /\ MaxBalance \in Nat
  /\ Opening \in [Wallets -> 0 .. MaxBalance]
  /\ Wallets \cap Deposits = {}
  /\ Transfers \cap Workers = {}
  /\ None \notin Wallets

VARIABLES
  balance,    \* wallet -> committed balance
  entries,    \* committed transaction rows of transfers
  deposits,   \* deposit reference -> its committed transaction row
  call,       \* transfer request -> the state of its handler
  job,        \* worker -> the state of its database transaction
  credited    \* history: how many times each deposit paid its wallet

repoVars == <<balance, entries, deposits, call, job, credited>>

Payable == {a \in Amounts : a >= MinTransactionAmount}
Sessions == Transfers \cup Workers
Kinds == {"charge.success", "charge.failed"}

TransferPC == {"idle", "debit", "credit", "record", "commit", "reply", "done"}
JobPC == {"idle", "read", "credit", "mark", "commit", "returned"}
Answers == {"none", "completed", "insufficient", "rejected", "failed", "lost"}

NoDeposit == [status |-> "ABSENT", wallet |-> None, amount |-> 0]

(* fromAfter, toAfter and after hold the balance an UPDATE has computed and *)
(* its COMMIT will publish.                                                *)
NoCall == [pc |-> "idle", from |-> None, to |-> None, amount |-> 0,
           ref |-> None, fromAfter |-> 0, toAfter |-> 0, answer |-> "none"]
NoJob == [pc |-> "idle", kind |-> "charge.success", deposit |-> None,
          amount |-> 0, after |-> 0, result |-> "none"]

WithStatus(row, status) ==
  [status |-> status, wallet |-> row.wallet, amount |-> row.amount]

Entry(ref, leg, w, a) ==
  [reference |-> ref, leg |-> leg, wallet |-> w, amount |-> a]

RepoInit ==
  /\ balance = Opening
  /\ entries = {}
  /\ deposits = [d \in Deposits |-> NoDeposit]
  /\ call = [t \in Transfers |-> NoCall]
  /\ job = [k \in Workers |-> NoJob]
  /\ credited = [d \in Deposits |-> 0]

-----------------------------------------------------------------------------
(* Row locks.  A transaction holds the rows it has updated until it ends.  *)

(* Mutant: an error is returned without a rollback, the locks are kept.    *)
HeldByTransferLeaked(t) ==
  {w \in Wallets :
     \/ /\ w = call[t].from
        /\ \/ call[t].pc \in {"credit", "record", "commit"}
           \/ call[t].answer = "failed"
     \/ w = call[t].to /\ call[t].pc \in {"record", "commit"}}

HeldByTransfer(t) ==
  {w \in Wallets :
     \/ w = call[t].from /\ call[t].pc \in {"credit", "record", "commit"}
     \/ w = call[t].to /\ call[t].pc \in {"record", "commit"}}

PaidWallet(k) == deposits[job[k].deposit].wallet

HeldByJob(k) ==
  {r \in Wallets \cup Deposits :
     \/ /\ job[k].pc \in {"mark", "commit"}
        /\ job[k].kind = "charge.success"
        /\ r = PaidWallet(k)
     \/ job[k].pc = "commit" /\ r = job[k].deposit}

Held(s) == IF s \in Transfers THEN HeldByTransfer(s) ELSE HeldByJob(s)

Locked(r) == \E s \in Sessions : r \in Held(s)

(* Transfer t waits for transfer u when its next UPDATE needs a row of u.  *)
(* A worker's transaction is in no cycle: it updates one wallet and then   *)
(* the deposit's row, which no transfer touches.                           *)
WaitsFor(t, u) ==
  \/ call[t].pc = "debit" /\ call[t].from \in HeldByTransfer(u)
  \/ call[t].pc = "credit" /\ call[t].to \in HeldByTransfer(u)

Deadlocked(t) ==
  \E C \in SUBSET Transfers :
    /\ t \in C
    /\ \A x \in C : \E y \in C : WaitsFor(x, y)
    /\ \A y \in C : \E x \in C : WaitsFor(x, y)

-----------------------------------------------------------------------------
(* TransferFunds: the handler's checks, then the repository's transaction. *)

(* The call c at statement pc, with the balances its UPDATEs computed.     *)
At(pc, c, fromAfter, toAfter) ==
  [pc |-> pc, from |-> c.from, to |-> c.to, amount |-> c.amount, ref |-> c.ref,
   fromAfter |-> fromAfter, toAfter |-> toAfter, answer |-> "none"]

Ended(c, a) ==
  [pc |-> "done", from |-> c.from, to |-> c.to, amount |-> c.amount,
   ref |-> c.ref, fromAfter |-> 0, toAfter |-> 0, answer |-> a]

Answer(t, a) == call' = [call EXCEPT ![t] = Ended(@, a)]

(* Mutant: the minimum amount is not checked.                              *)
EligibleAnyAmount(from, to, a, pinOk) ==
  from # None /\ pinOk /\ from # to /\ to # None

(* The checks of the handler, in its order; None stands for a wallet that  *)
(* the lookup does not find.  They read columns that never change.         *)
Eligible(from, to, a, pinOk) ==
  /\ a >= MinTransactionAmount
  /\ from # None
  /\ pinOk
  /\ from # to
  /\ to # None

TransferRequest(t, from, to, a, pinOk, ref) ==
  /\ call[t].pc = "idle"
  /\ \/ /\ Eligible(from, to, a, pinOk)
        /\ call' = [call EXCEPT ![t] =
             At("debit", [from |-> from, to |-> to, amount |-> a, ref |-> ref],
                0, 0)]
     \/ /\ ~Eligible(from, to, a, pinOk)
        /\ Answer(t, "rejected")
  /\ UNCHANGED <<balance, entries, deposits, job, credited>>

(* Mutant: no "AND balance >= ?".                                         *)
DebitSenderUnchecked(t) ==
  /\ call[t].pc = "debit"
  /\ ~Locked(call[t].from)
  /\ call' = [call EXCEPT ![t] = At("credit", @, balance[@.from] - @.amount, 0)]
  /\ UNCHANGED <<balance, entries, deposits, job, credited>>

(* UPDATE wallets SET balance = balance - ? WHERE id = ? AND balance >= ?   *)
DebitSender(t) ==
  /\ call[t].pc = "debit"
  /\ balance[call[t].from] >= call[t].amount
  /\ ~Locked(call[t].from)
  /\ call' = [call EXCEPT ![t] = At("credit", @, balance[@.from] - @.amount, 0)]
  /\ UNCHANGED <<balance, entries, deposits, job, credited>>

(* No row satisfies the WHERE clause: the UPDATE locks nothing, and does   *)
(* not wait for a row whose committed balance is too small.                *)
InsufficientBalance(t) ==
  /\ call[t].pc = "debit"
  /\ balance[call[t].from] < call[t].amount
  /\ Answer(t, "insufficient")
  /\ UNCHANGED <<balance, entries, deposits, job, credited>>

(* Mutant: the recipient's balance is read and written without the lock.   *)
CreditRecipientUnlocked(t) ==
  /\ call[t].pc = "credit"
  /\ balance[call[t].to] + call[t].amount <= MaxBalance
  /\ call' = [call EXCEPT ![t] =
       At("record", @, @.fromAfter, balance[@.to] + @.amount)]
  /\ UNCHANGED <<balance, entries, deposits, job, credited>>

(* Postgres computes the new balance before it waits for the row, and      *)
(* again after the wait: out of range is an error either way.              *)
CreditRecipient(t) ==
  /\ call[t].pc = "credit"
  /\ \/ /\ balance[call[t].to] + call[t].amount <= MaxBalance
        /\ ~Locked(call[t].to)
        /\ call' = [call EXCEPT ![t] =
             At("record", @, @.fromAfter, balance[@.to] + @.amount)]
     \/ /\ balance[call[t].to] + call[t].amount > MaxBalance
        /\ Answer(t, "failed")
  /\ UNCHANGED <<balance, entries, deposits, job, credited>>

(* The two INSERTs.  The unique index on reference makes an INSERT wait    *)
(* for an open transaction that has written the same reference.            *)
InsertRecords(t) ==
  /\ call[t].pc = "record"
  /\ \A u \in Transfers : call[u].pc = "commit" => call[u].ref # call[t].ref
  /\ \/ /\ \A e \in entries : e.reference # call[t].ref
        /\ call' = [call EXCEPT ![t] = At("commit", @, @.fromAfter, @.toAfter)]
     \/ /\ \E e \in entries : e.reference = call[t].ref
        /\ Answer(t, "failed")
  /\ UNCHANGED <<balance, entries, deposits, job, credited>>

(* COMMIT publishes every write and releases the locks.                    *)
CommitTransfer(t) ==
  LET c == call[t] IN
  /\ c.pc = "commit"
  /\ balance' = [balance EXCEPT ![c.from] = c.fromAfter,
                                ![c.to] = c.toAfter]
  /\ entries' = entries \cup {Entry(c.ref, "debit", c.from, c.amount),
                              Entry(c.ref, "credit", c.to, c.amount)}
  /\ call' = [call EXCEPT ![t] = At("reply", @, 0, 0)]
  /\ UNCHANGED <<deposits, job, credited>>

(* The handler answers by the reply to COMMIT, which may be lost on its    *)
(* way back.                                                               *)
AnswerTransfer(t) ==
  /\ call[t].pc = "reply"
  /\ \/ Answer(t, "completed")
     \/ "db" \in Faults /\ Answer(t, "failed")
  /\ UNCHANGED <<balance, entries, deposits, job, credited>>

(* The database transaction of the call is open.                           *)
InTransfer(t) == call[t].pc \in {"debit", "credit", "record", "commit"}

(* Mutant: the statements run outside a database transaction, and the one  *)
(* that fails is the second INSERT.                                        *)
TransferErrorKeepsWrites(t) ==
  /\ "db" \in Faults
  /\ InTransfer(t)
  /\ Answer(t, "failed")
  /\ entries' = IF call[t].pc = "commit"
                  THEN entries \cup {Entry(call[t].ref, "debit", call[t].from,
                                           call[t].amount)}
                  ELSE entries
  /\ UNCHANGED <<balance, deposits, job, credited>>

(* An error from any statement rolls the transaction back: 500.            *)
TransferError(t) ==
  /\ "db" \in Faults
  /\ InTransfer(t)
  /\ Answer(t, "failed")
  /\ UNCHANGED <<balance, entries, deposits, job, credited>>

(* Postgres aborts one transaction of a cycle of lock waits.               *)
DeadlockVictim(t) ==
  /\ Deadlocked(t)
  /\ Answer(t, "failed")
  /\ UNCHANGED <<balance, entries, deposits, job, credited>>

-----------------------------------------------------------------------------
(* CreateTransaction: the row of a deposit that was initialised.           *)

CreateTransaction(d, w, a) ==
  /\ deposits[d].status = "ABSENT"
  /\ deposits' = [deposits EXCEPT ![d] =
                    [status |-> "PENDING", wallet |-> w, amount |-> a]]
  /\ UNCHANGED <<balance, entries, call, job, credited>>

-----------------------------------------------------------------------------
(* ProcessDeposit (kind charge.success) and ProcessFailedTransaction.      *)

JobAt(pc, j, after, result) ==
  [pc |-> pc, kind |-> j.kind, deposit |-> j.deposit, amount |-> j.amount,
   after |-> after, result |-> result]

StartJob(k, kind, d, a) ==
  /\ job[k].pc \in {"idle", "returned"}
  /\ job' = [job EXCEPT ![k] =
       JobAt("read", [kind |-> kind, deposit |-> d, amount |-> a], 0, "none")]
  /\ UNCHANGED <<balance, entries, deposits, call, credited>>

Return(k, result) == job' = [job EXCEPT ![k] = JobAt("returned", @, 0, result)]

(* Mutant: charge.failed only looks for FAILED.                            *)
StopsAtOwnStatus(kind) ==
  IF kind = "charge.success" THEN {"SUCCESS"} ELSE {"FAILED"}

StopsAt(kind) ==
  IF kind = "charge.success" THEN {"SUCCESS"} ELSE {"SUCCESS", "FAILED"}

(* Mutant: ProcessDeposit without its "already SUCCESS" return.            *)
ReadTransactionUnchecked(k) ==
  LET status == deposits[job[k].deposit].status IN
  /\ job[k].pc = "read"
  /\ status # "ABSENT"
  /\ job' = [job EXCEPT ![k] =
       JobAt(IF @.kind = "charge.success" THEN "credit" ELSE "mark", @, 0, "none")]
  /\ UNCHANGED <<balance, entries, deposits, call, credited>>

(* A plain SELECT: it reads the committed row and takes no lock.           *)
ReadTransaction(k) ==
  LET status == deposits[job[k].deposit].status IN
  /\ job[k].pc = "read"
  /\ \/ status = "ABSENT" /\ Return(k, "error")
     \/ status \in StopsAt(job[k].kind) /\ Return(k, "ok")
     \/ /\ status \notin StopsAt(job[k].kind) \cup {"ABSENT"}
        /\ job' = [job EXCEPT ![k] =
             JobAt(IF @.kind = "charge.success" THEN "credit" ELSE "mark",
                   @, 0, "none")]
  /\ UNCHANGED <<balance, entries, deposits, call, credited>>

(* Mutant: arithmetic that does not detect overflow.                       *)
CreditWalletUnchecked(k) ==
  /\ job[k].pc = "credit"
  /\ ~Locked(PaidWallet(k))
  /\ job' = [job EXCEPT ![k] =
       JobAt("mark", @, balance[PaidWallet(k)] + @.amount, "none")]
  /\ UNCHANGED <<balance, entries, deposits, call, credited>>

CreditWallet(k) ==
  /\ job[k].pc = "credit"
  /\ \/ /\ balance[PaidWallet(k)] + job[k].amount <= MaxBalance
        /\ ~Locked(PaidWallet(k))
        /\ job' = [job EXCEPT ![k] =
             JobAt("mark", @, balance[PaidWallet(k)] + @.amount, "none")]
     \/ /\ balance[PaidWallet(k)] + job[k].amount > MaxBalance
        /\ Return(k, "error")
  /\ UNCHANGED <<balance, entries, deposits, call, credited>>

(* UPDATE transactions SET status = ? WHERE reference = ?                  *)
MarkTransaction(k) ==
  /\ job[k].pc = "mark"
  /\ ~Locked(job[k].deposit)
  /\ job' = [job EXCEPT ![k] = JobAt("commit", @, @.after, "none")]
  /\ UNCHANGED <<balance, entries, deposits, call, credited>>

CommitJob(k) ==
  LET j == job[k] IN
  /\ j.pc = "commit"
  /\ \/ /\ j.kind = "charge.success"
        /\ balance' = [balance EXCEPT ![PaidWallet(k)] = j.after]
        /\ deposits' = [deposits EXCEPT ![j.deposit] = WithStatus(@, "SUCCESS")]
        /\ credited' = [credited EXCEPT ![j.deposit] = @ + 1]
     \/ /\ j.kind = "charge.failed"
        /\ deposits' = [deposits EXCEPT ![j.deposit] = WithStatus(@, "FAILED")]
        /\ UNCHANGED <<balance, credited>>
  /\ \/ Return(k, "ok")
     \/ "db" \in Faults /\ Return(k, "error")
  /\ UNCHANGED <<entries, call>>

(* Mutant: the wallet is credited outside the transaction that marks.      *)
JobErrorKeepsCredit(k) ==
  /\ "db" \in Faults
  /\ job[k].pc \in {"read", "credit", "mark", "commit"}
  /\ Return(k, "error")
  /\ balance' = IF job[k].pc = "mark" /\ job[k].kind = "charge.success"
                  THEN [balance EXCEPT ![PaidWallet(k)] = job[k].after]
                  ELSE balance
  /\ UNCHANGED <<entries, deposits, call, credited>>

JobError(k) ==
  /\ "db" \in Faults
  /\ job[k].pc \in {"read", "credit", "mark", "commit"}
  /\ Return(k, "error")
  /\ UNCHANGED <<balance, entries, deposits, call, credited>>

-----------------------------------------------------------------------------
(* The process dies: Postgres rolls back every open transaction, requests  *)
(* in progress are never answered, even when their COMMIT was applied, and *)
(* the worker starts anew.                                                 *)
Unanswered(t) == InTransfer(t) \/ call[t].pc = "reply"

CrashRepo ==
  /\ call' = [t \in Transfers |->
                IF Unanswered(t) THEN Ended(call[t], "lost") ELSE call[t]]
  /\ job' = [k \in Workers |-> NoJob]
  /\ UNCHANGED <<balance, entries, deposits, credited>>

Crash == "crash" \in Faults /\ CrashRepo

TransferStep(t) ==
  \/ DebitSender(t) \/ InsufficientBalance(t) \/ CreditRecipient(t)
  \/ InsertRecords(t) \/ CommitTransfer(t) \/ AnswerTransfer(t)
  \/ TransferError(t) \/ DeadlockVictim(t)

JobStep(k) ==
  \/ ReadTransaction(k) \/ CreditWallet(k) \/ MarkTransaction(k)
  \/ CommitJob(k) \/ JobError(k)

RequestTransfer(t) ==
  \E from, to \in Wallets \cup {None}, a \in Amounts, pinOk \in BOOLEAN,
     ref \in References : TransferRequest(t, from, to, a, pinOk, ref)

RegisterDeposit ==
  \E d \in Deposits, w \in Wallets, a \in Payable : CreateTransaction(d, w, a)

(* Any event, any number of times, in any order: the queue in front of the *)
(* worker is the subject of DepositPipeline.                               *)
TakeEvent(k) ==
  \E kind \in Kinds, d \in Deposits, a \in Payable :
    /\ ExactCharges => a = deposits[d].amount
    /\ StartJob(k, kind, d, a)

RepoNext ==
  \/ \E t \in Transfers : RequestTransfer(t) \/ TransferStep(t)
  \/ \E k \in Workers : TakeEvent(k) \/ JobStep(k)
  \/ RegisterDeposit
  \/ Crash

RepoSpec == RepoInit /\ [][RepoNext]_repoVars

(* Each goroutine and each connection keeps running, Postgres checks for   *)
(* deadlocks, and its lock queues are first come, first served, so a       *)
(* statement that waits for a row gets it (strong fairness).               *)
RepoFairness ==
  \A t \in Transfers :
    /\ SF_repoVars(DebitSender(t) \/ InsufficientBalance(t))
    /\ SF_repoVars(CreditRecipient(t))
    /\ WF_repoVars(InsertRecords(t))
    /\ WF_repoVars(CommitTransfer(t))
    /\ WF_repoVars(AnswerTransfer(t))
    /\ WF_repoVars(DeadlockVictim(t))

FairRepoSpec == RepoSpec /\ RepoFairness
-----------------------------------------------------------------------------
(* Properties.                                                             *)

Statuses == {"ABSENT", "PENDING", "SUCCESS", "FAILED"}
Results == {"none", "ok", "error"}

DepositRow == [status : Statuses, wallet : Wallets \cup {None}, amount : Int]
TransferCall ==
  [pc : TransferPC, from : Wallets \cup {None}, to : Wallets \cup {None},
   amount : Int, ref : References \cup {None}, fromAfter : Int, toAfter : Int,
   answer : Answers]
WorkerJob ==
  [pc : JobPC, kind : Kinds, deposit : Deposits \cup {None}, amount : Int,
   after : Int, result : Results]
LedgerEntry ==
  [reference : References, leg : {"debit", "credit"}, wallet : Wallets,
   amount : Payable]

(* Type invariant of the tables (migrations/000003) and of the callers.    *)
TypeOK ==
  /\ balance \in [Wallets -> Int]
  /\ entries \subseteq LedgerEntry
  /\ deposits \in [Deposits -> DepositRow]
  /\ call \in [Transfers -> TransferCall]
  /\ job \in [Workers -> WorkerJob]
  /\ credited \in [Deposits -> Nat]

(* No interleaving of transfers and deposits overdraws a wallet or takes   *)
(* its balance out of the column's range, although the handler's own read  *)
(* of the wallet is stale and COMMIT comes three statements after the      *)
(* WHERE clause that checked the balance.                                  *)
BalancesInRange == \A w \in Wallets : balance[w] \in 0 .. MaxBalance

Legs(t) ==
  {Entry(call[t].ref, "debit", call[t].from, call[t].amount),
   Entry(call[t].ref, "credit", call[t].to, call[t].amount)}

(* Its COMMIT may have been applied: the handler still waits for the reply,*)
(* has answered that it succeeded or, when the reply was lost, that it     *)
(* failed, or died before it could answer.                                 *)
MayHaveCommitted(t) ==
  call[t].pc = "reply" \/ call[t].answer \in {"completed", "failed", "lost"}

(* The ledger tells of each transfer all or nothing: "Transfer completed"  *)
(* is only answered when both rows are there and are this transfer's own,  *)
(* and every row belongs to a transfer whose other row is there too, and   *)
(* that the handler did not refuse.                                        *)
TransferAnswerTruthful ==
  /\ \A t \in Transfers : call[t].answer = "completed" => Legs(t) \subseteq entries
  /\ \A t, u \in Transfers :
       /\ t # u
       /\ call[t].answer = "completed"
       /\ call[u].answer = "completed"
       => call[t].ref # call[u].ref
  /\ \A e \in entries : \E t \in Transfers :
       /\ e \in Legs(t)
       /\ Legs(t) \subseteq entries
       /\ MayHaveCommitted(t)

(* What docs/swagger.yaml says of the 500 answer, "Transfer Failed".  The  *)
(* code answers so for any error but one, also when it is the reply to     *)
(* COMMIT that was lost.                                                   *)
FailedMeansNothingMoved ==
  \A t \in Transfers :
    call[t].answer = "failed" => Legs(t) \cap entries = {}

(* A deposit pays its wallet exactly when its row turns SUCCESS, however   *)
(* often the worker retries or the event is redelivered, and whatever      *)
(* charge.failed events mix with it.                                       *)
CreditedOnce ==
  \A d \in Deposits :
    credited[d] = IF deposits[d].status = "SUCCESS" THEN 1 ELSE 0

(* A row that says SUCCESS never changes again: a charge.failed that was   *)
(* read before the success committed does not overwrite it.  Whose deposit *)
(* it is and its amount never change either.                               *)
RowKept(d) ==
  /\ deposits[d].status = "SUCCESS" => deposits'[d] = deposits[d]
  /\ deposits[d].status # "ABSENT" =>
       /\ deposits'[d].wallet = deposits[d].wallet
       /\ deposits'[d].amount = deposits[d].amount

SuccessIsFinal == [][\A d \in Deposits : RowKept(d)]_repoVars

(* Seen through its committed tables the repository is the ledger of       *)
(* atomic operations.                                                      *)
Ledger == INSTANCE FundsLedger
            WITH balance <- balance, entries <- entries, deposits <- deposits
ImplementsLedger == Ledger!Spec

(* Every transfer is answered: opposite transfers that wait for each       *)
(* other's rows do not hang, because Postgres aborts one of them.          *)
TransfersAnswered ==
  \A t \in Transfers : call[t].pc = "debit" ~> call[t].pc = "done"
=============================================================================
