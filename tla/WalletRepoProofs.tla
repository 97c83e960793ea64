--------------------------- MODULE WalletRepoProofs ---------------------------
(***************************************************************************)
(* Proofs about WalletRepo, for every set of wallets, deposits, transfers  *)
(* and workers and every bound.                                            *)
(***************************************************************************)
EXTENDS WalletRepoInv, FiniteSetTheorems, WellFoundedInduction, TLAPS

-----------------------------------------------------------------------------
(* Part 1: types.                                                          *)

LEMMA TypeInit == RepoInit => TypeInv
  BY RepoAssumption DEF RepoAssumption, RepoInit, TypeInv, TypeOK, CallsChecked, JobsNamed, RowsOwned,
     InTransfer, NoCall, NoJob, NoDeposit, DepositRow, Statuses, TransferCall,
     TransferPC, Answers, WorkerJob, JobPC, Kinds, Results, LedgerEntry

USE DEF DepositRow, Statuses, TransferCall, TransferPC, Answers, WorkerJob, JobPC, Kinds, Results

LEMMA TypeTransferStep ==
  ASSUME TypeInv, NEW t \in Transfers, RequestTransfer(t) \/ TransferStep(t)
  PROVE  TypeInv'
<1> USE DEF TypeInv, InTransfer, Checked
<1>1. CASE RequestTransfer(t)
  BY <1>1, RepoAssumption DEF RepoAssumption, At, RequestTransfer, TransferRequest, Eligible, Answer, Ended, At, Payable,
    TypeOK, CallsChecked, JobsNamed, RowsOwned
<1>2. CASE DebitSender(t)
  BY <1>2 DEF DebitSender, At, Payable,
    TypeOK, CallsChecked, JobsNamed, RowsOwned
<1>3. CASE InsufficientBalance(t)
  BY <1>3 DEF InsufficientBalance, Answer, Ended, At, 
    TypeOK, CallsChecked, JobsNamed, RowsOwned
<1>4. CASE CreditRecipient(t)
  <2>1. \/ call' = [call EXCEPT ![t] =
                     At("record", @, @.fromAfter, balance[@.to] + @.amount)]
        \/ call' = [call EXCEPT ![t] = Ended(@, "failed")]
    BY <1>4 DEF CreditRecipient, Answer
  <2>2. call[t].pc = "credit" /\ UNCHANGED <<balance, entries, deposits, job, credited>>
    BY <1>4 DEF CreditRecipient
  <2>3. CASE call' = [call EXCEPT ![t] =
                       At("record", @, @.fromAfter, balance[@.to] + @.amount)]
    <3> DEFINE after == balance[call[t].to] + call[t].amount
    <3>1. after \in Int
      BY <2>2, RepoAssumption DEF TypeOK, CallsChecked, Payable, RepoAssumption
    <3>2. call' = [call EXCEPT ![t] = At("record", @, @.fromAfter, after)]
      BY <2>3
    <3> HIDE DEF after
    <3> QED
      BY <2>2, <3>1, <3>2 DEF At, TypeOK, CallsChecked, JobsNamed, RowsOwned
  <2>4. CASE call' = [call EXCEPT ![t] = Ended(@, "failed")]
    BY <2>2, <2>4 DEF Ended, TypeOK, CallsChecked, JobsNamed, RowsOwned
  <2> QED
    BY <2>1, <2>3, <2>4
<1>5. CASE InsertRecords(t)
  <2>1. \/ call' = [call EXCEPT ![t] = At("commit", @, @.fromAfter, @.toAfter)]
        \/ call' = [call EXCEPT ![t] = Ended(@, "failed")]
    BY <1>5 DEF InsertRecords, Answer
  <2>2. call[t].pc = "record" /\ UNCHANGED <<balance, entries, deposits, job, credited>>
    BY <1>5 DEF InsertRecords
  <2>3. CASE call' = [call EXCEPT ![t] = At("commit", @, @.fromAfter, @.toAfter)]
    BY <2>2, <2>3 DEF At, TypeOK, CallsChecked, JobsNamed, RowsOwned
  <2>4. CASE call' = [call EXCEPT ![t] = Ended(@, "failed")]
    BY <2>2, <2>4 DEF Ended, TypeOK, CallsChecked, JobsNamed, RowsOwned
  <2> QED
    BY <2>1, <2>3, <2>4
<1>6. CASE CommitTransfer(t)
  BY <1>6 DEF CommitTransfer, Answer, Ended, At, Entry, LedgerEntry,
    TypeOK, CallsChecked, JobsNamed, RowsOwned
<1>7. CASE TransferError(t)
  BY <1>7 DEF TransferError, Answer, Ended, At, 
    TypeOK, CallsChecked, JobsNamed, RowsOwned
<1>8. CASE DeadlockVictim(t)
  BY <1>8 DEF DeadlockVictim, Answer, Ended, At, 
    TypeOK, CallsChecked, JobsNamed, RowsOwned
<1>9. CASE AnswerTransfer(t)
  <2>1. /\ UNCHANGED <<balance, entries, deposits, job, credited>>
        /\ \E a \in Answers : call' = [call EXCEPT ![t] = Ended(@, a)]
    BY <1>9 DEF AnswerTransfer, Answer
  <2> QED
    BY <2>1 DEF Ended, TypeOK, CallsChecked, JobsNamed, RowsOwned
<1> QED
  BY <1>1, <1>2, <1>3, <1>4, <1>5, <1>6, <1>7, <1>8, <1>9 DEF TransferStep


LEMMA JobAtTyped ==
  ASSUME NEW j \in WorkerJob, NEW pc \in JobPC, NEW after \in Int, NEW r \in Results
  PROVE  JobAt(pc, j, after, r) \in WorkerJob
  BY DEF JobAt

LEMMA ReturnTyped ==
  ASSUME TypeOK, NEW k \in Workers, NEW r \in Results, Return(k, r)
  PROVE  job' \in [Workers -> WorkerJob]
<1>1. "returned" \in JobPC /\ 0 \in Int
  OBVIOUS
<1> HIDE DEF WorkerJob, JobPC, Results, Kinds
<1>2. job \in [Workers -> WorkerJob]
  BY DEF TypeOK
<1>3. JobAt("returned", job[k], 0, r) \in WorkerJob
  BY <1>1, <1>2, JobAtTyped
<1>4. job' = [job EXCEPT ![k] = JobAt("returned", job[k], 0, r)]
  BY DEF Return
<1> HIDE DEF JobAt
<1> QED
  BY <1>2, <1>3, <1>4

LEMMA TypeJobStep ==
  ASSUME TypeInv, NEW k \in Workers, TakeEvent(k) \/ JobStep(k)
  PROVE  TypeInv'
<1> USE DEF TypeInv, InTransfer, Checked, TypeOK, CallsChecked, JobsNamed, RowsOwned
<1>1. CASE TakeEvent(k)
  BY <1>1, RepoAssumption DEF RepoAssumption, TakeEvent, StartJob, JobAt, Payable
<1>2. CASE ReadTransaction(k)
  <2>1. /\ job[k].deposit \in Deposits
        /\ job[k].amount \in Payable
        /\ UNCHANGED <<balance, entries, deposits, call, credited>>
    BY <1>2 DEF ReadTransaction
  <2>2. CASE \E r \in Results : Return(k, r)
    BY <2>1, <2>2 DEF Return, JobAt
  <2>3. CASE /\ deposits[job[k].deposit].status # "ABSENT"
             /\ \E pc \in {"credit", "mark"} :
                  job' = [job EXCEPT ![k] = JobAt(pc, @, 0, "none")]
    BY <2>1, <2>3 DEF JobAt
  <2> QED
    BY <1>2, <2>2, <2>3 DEF ReadTransaction
<1>3. CASE CreditWallet(k)
  <2>1. /\ job[k].deposit \in Deposits
        /\ job[k].amount \in Payable /\ job[k].amount \in Int
        /\ deposits[job[k].deposit].status # "ABSENT"
        /\ balance[PaidWallet(k)] \in Int
        /\ UNCHANGED <<balance, entries, deposits, call, credited>>
    BY <1>3 DEF CreditWallet, PaidWallet
  <2>2. CASE Return(k, "error")
    BY <2>1, <2>2 DEF Return, JobAt
  <2>3. CASE job' = [job EXCEPT ![k] =
                      JobAt("mark", @, balance[PaidWallet(k)] + @.amount, "none")]
    <3> DEFINE after == balance[PaidWallet(k)] + job[k].amount
    <3>1. after \in Int /\ job' = [job EXCEPT ![k] = JobAt("mark", @, after, "none")]
      BY <2>1, <2>3
    <3> HIDE DEF after
    <3> QED
      BY <2>1, <3>1 DEF JobAt
  <2> QED
    BY <1>3, <2>2, <2>3 DEF CreditWallet
<1>4. CASE MarkTransaction(k)
  BY <1>4 DEF MarkTransaction, JobAt
<1>5. CASE CommitJob(k)
  <2>1. /\ job[k].deposit \in Deposits
        /\ job[k].amount \in Payable
        /\ UNCHANGED <<entries, call>>
        /\ \E r \in Results : Return(k, r)
    BY <1>5 DEF CommitJob
  <2>2. /\ balance' \in [Wallets -> Int]
        /\ credited' \in [Deposits -> Nat]
        /\ \E s \in Statuses \ {"ABSENT"} :
             deposits' = [deposits EXCEPT ![job[k].deposit] = WithStatus(@, s)]
    <3>1. /\ balance \in [Wallets -> Int] /\ credited \in [Deposits -> Nat]
          /\ job[k].after \in Int
      OBVIOUS
    <3>2. CASE /\ balance' = [balance EXCEPT ![PaidWallet(k)] = job[k].after]
               /\ credited' = [credited EXCEPT ![job[k].deposit] = @ + 1]
      <4>1. balance' \in [Wallets -> Int] /\ credited' \in [Deposits -> Nat]
        <5> HIDE DEF TypeInv, TypeOK, CallsChecked, JobsNamed, RowsOwned, WorkerJob
        <5>1. balance' \in [Wallets -> Int]
          BY <3>1, <3>2
        <5>2. credited[job[k].deposit] + 1 \in Nat
          BY <2>1, <3>1
        <5>3. credited' \in [Deposits -> Nat]
          BY <3>1, <3>2, <5>2
        <5> QED
          BY <5>1, <5>3
      <4> QED
        BY <1>5, <4>1 DEF CommitJob
    <3>3. CASE UNCHANGED <<balance, credited>>
      BY <1>5, <3>1, <3>3 DEF CommitJob
    <3> QED
      BY <1>5, <3>2, <3>3 DEF CommitJob
  <2>3. job' \in [Workers -> WorkerJob]
    <3>1. PICK r \in Results : Return(k, r)
      BY <2>1
    <3>2. TypeOK
      BY DEF TypeInv
    <3> HIDE DEF TypeOK, WorkerJob, Results
    <3> QED
      BY <3>1, <3>2, ReturnTyped
  <2>4. \A m \in Workers :
          /\ job'[m].deposit = job[m].deposit /\ job'[m].amount = job[m].amount
          /\ m # k => job'[m] = job[m]
          /\ m = k => job'[m].pc = "returned"
    BY <2>1 DEF Return, JobAt
  <2>5. \A d \in Deposits :
          /\ deposits'[d].wallet = deposits[d].wallet
          /\ deposits'[d].amount = deposits[d].amount
          /\ deposits'[d].status \in Statuses
          /\ d # job[k].deposit => deposits'[d] = deposits[d]
    BY <2>1, <2>2 DEF WithStatus
  <2>6. deposits' \in [Deposits -> DepositRow]
    BY <2>1, <2>2 DEF WithStatus
  <2>7. TypeOK'
    BY <2>1, <2>2, <2>3, <2>6
  <2>8. deposits[job[k].deposit].status # "ABSENT" /\ deposits'[job[k].deposit].status # "ABSENT"
    BY <1>5, <2>1, <2>2 DEF CommitJob, WithStatus
  <2>9. JobsNamed' /\ RowsOwned' /\ CallsChecked'
    BY <2>1, <2>4, <2>5, <2>8
  <2> QED
    BY <2>7, <2>9
<1>6. CASE JobError(k)
  BY <1>6 DEF JobError, Return, JobAt
<1> QED
  BY <1>1, <1>2, <1>3, <1>4, <1>5, <1>6 DEF JobStep

LEMMA TypeOtherStep ==
  ASSUME TypeInv, RegisterDeposit \/ Crash \/ UNCHANGED repoVars
  PROVE  TypeInv'
<1> USE DEF TypeInv, InTransfer, Checked, TypeOK, CallsChecked, JobsNamed, RowsOwned
<1>1. CASE RegisterDeposit
  BY <1>1, RepoAssumption DEF RepoAssumption, RegisterDeposit, CreateTransaction, Payable
<1>2. CASE Crash
  BY <1>2 DEF Crash, CrashRepo, Ended, Unanswered, NoJob
<1>3. CASE UNCHANGED repoVars
  BY <1>3 DEF repoVars
<1> QED
  BY <1>1, <1>2, <1>3

LEMMA TypeStep == TypeInv /\ [RepoNext]_repoVars => TypeInv'
  BY TypeTransferStep, TypeJobStep, TypeOtherStep DEF RepoNext

(* The rows and the callers keep their types, whatever is interleaved.     *)
THEOREM TypeCorrect == RepoSpec => []TypeOK
<1>1. TypeInv => TypeOK
  BY DEF TypeInv
<1> QED
  BY TypeInit, TypeStep, <1>1, PTL DEF RepoSpec
-----------------------------------------------------------------------------
(* Part 2: locks and money.                                                *)

(* A step after which one session may hold one more row, that nobody held, *)
(* and the others hold at most what they held.                             *)
LEMMA AcquireExclusive ==
  ASSUME LocksExclusive, NEW s \in Sessions, NEW r,
         \A u \in Sessions : r \notin Held(u),
         Held(s)' \subseteq Held(s) \cup {r},
         \A u \in Sessions \ {s} : Held(u)' \subseteq Held(u)
  PROVE  LocksExclusive'
<1> SUFFICES ASSUME NEW x \in Sessions, NEW y \in Sessions, x # y
             PROVE  (Held(x) \cap Held(y))' = {}
  BY DEF LocksExclusive, Sessions
<1>1. Held(x) \cap Held(y) = {} /\ r \notin Held(x) /\ r \notin Held(y)
  BY DEF LocksExclusive
<1>2. CASE x = s
  BY <1>1, <1>2
<1>3. CASE y = s
  BY <1>1, <1>3
<1>4. CASE x # s /\ y # s
  BY <1>1, <1>4
<1> QED
  BY <1>2, <1>3, <1>4

LEMMA ReleaseExclusive ==
  ASSUME LocksExclusive, \A u \in Sessions : Held(u)' \subseteq Held(u)
  PROVE  LocksExclusive'
  BY DEF LocksExclusive, Sessions

(* The rows a session holds depend on its own record, and a worker's on    *)
(* the owner of its deposit.                                               *)
LEMMA TransferHolds ==
  ASSUME NEW t \in Transfers
  PROVE  /\ Held(t) = HeldByTransfer(t)
         /\ Held(t)' = HeldByTransfer(t)'
  BY DEF Held

LEMMA JobHolds ==
  ASSUME NEW k \in Workers
  PROVE  /\ Held(k) = HeldByJob(k)
         /\ Held(k)' = HeldByJob(k)'
  BY RepoAssumption DEF Held, RepoAssumption

LEMMA SameJobHolds ==
  ASSUME TypeInv, NEW k \in Workers, job'[k] = job[k],
         \A d \in Deposits :
           deposits[d].status # "ABSENT" => deposits'[d].wallet = deposits[d].wallet
  PROVE  Held(k)' = Held(k)
<1>1. CASE job[k].pc \in {"mark", "commit"}
  <2>1. PaidWallet(k)' = PaidWallet(k)
    BY <1>1 DEF PaidWallet, TypeInv, JobsNamed
  <2> QED
    BY <2>1, JobHolds DEF HeldByJob
<1>2. CASE job[k].pc \notin {"mark", "commit"}
  BY <1>2, JobHolds DEF HeldByJob
<1> QED
  BY <1>1, <1>2

LEMMA SameCallHolds ==
  ASSUME NEW t \in Transfers, call'[t] = call[t]
  PROVE  Held(t)' = Held(t)
  BY TransferHolds DEF HeldByTransfer

(* Every step of transfer t leaves the other sessions' locks alone.        *)
LEMMA TransferLocks ==
  ASSUME TypeInv, NEW t \in Transfers, NEW c, call' = [call EXCEPT ![t] = c],
         UNCHANGED <<deposits, job>>
  PROVE  /\ \A u \in Sessions \ {t} : Held(u)' \subseteq Held(u)
         /\ call'[t] = c
         /\ \A u \in Transfers \ {t} : call'[u] = call[u]
<1>1. call'[t] = c /\ \A u \in Transfers \ {t} : call'[u] = call[u]
  BY DEF TypeInv, TypeOK
<1>2. ASSUME NEW u \in Transfers \ {t} PROVE Held(u)' = Held(u)
  BY <1>1, <1>2, SameCallHolds
<1>3. ASSUME NEW u \in Workers PROVE Held(u)' = Held(u)
  BY <1>3, SameJobHolds
<1> QED
  BY <1>1, <1>2, <1>3 DEF Sessions

(* The same for the steps of worker k.                                     *)
LEMMA JobLocks ==
  ASSUME TypeInv, NEW k \in Workers, NEW j, job' = [job EXCEPT ![k] = j],
         UNCHANGED call,
         \A d \in Deposits :
           deposits[d].status # "ABSENT" => deposits'[d].wallet = deposits[d].wallet
  PROVE  /\ \A u \in Sessions \ {k} : Held(u)' \subseteq Held(u)
         /\ job'[k] = j
         /\ \A u \in Workers \ {k} : job'[u] = job[u]
<1>1. job'[k] = j /\ \A u \in Workers \ {k} : job'[u] = job[u]
  BY DEF TypeInv, TypeOK
<1>2. ASSUME NEW u \in Transfers PROVE Held(u)' = Held(u)
  BY <1>2, SameCallHolds
<1>3. ASSUME NEW u \in Workers \ {k} PROVE Held(u)' = Held(u)
  BY <1>1, <1>3, SameJobHolds
<1> QED
  BY <1>1, <1>2, <1>3 DEF Sessions
LEMMA LocksTransferStep ==
  ASSUME TypeInv, LocksExclusive, NEW t \in Transfers, RequestTransfer(t) \/ TransferStep(t)
  PROVE  LocksExclusive'
<1> USE DEF At, Ended, HeldByTransfer
<1>a. t \in Sessions /\ call[t] \in TransferCall
  BY DEF Sessions, TypeInv, TypeOK
<1>1. ASSUME NEW c, call' = [call EXCEPT ![t] = c], c.pc \in {"debit", "reply", "done"},
             UNCHANGED <<deposits, job>>
      PROVE  LocksExclusive'
  <2>1. call'[t] = c /\ \A u \in Sessions \ {t} : Held(u)' \subseteq Held(u)
    BY <1>1, TransferLocks
  <2>2. Held(t)' = {}
    BY <1>1, <2>1, TransferHolds
  <2> QED
    BY <2>1, <2>2, ReleaseExclusive
<1>2. ASSUME NEW c, call' = [call EXCEPT ![t] = c], UNCHANGED <<deposits, job>>,
             c.from = call[t].from, c.to = call[t].to,
             \/ /\ c.pc = "credit" /\ ~Locked(call[t].from)
             \/ /\ c.pc = "record" /\ call[t].pc = "credit" /\ ~Locked(call[t].to)
             \/ c.pc = "commit" /\ call[t].pc = "record"
      PROVE  LocksExclusive'
  <2>1. call'[t] = c /\ \A u \in Sessions \ {t} : Held(u)' \subseteq Held(u)
    BY <1>2, TransferLocks
  <2>2. CASE c.pc = "credit" /\ ~Locked(call[t].from)
    <3>1. Held(t)' \subseteq Held(t) \cup {call[t].from}
      BY <1>2, <2>1, <2>2, TransferHolds
    <3> QED
      BY <1>a, <2>1, <2>2, <3>1, AcquireExclusive DEF Locked
  <2>3. CASE c.pc = "record" /\ call[t].pc = "credit" /\ ~Locked(call[t].to)
    <3>1. Held(t)' \subseteq Held(t) \cup {call[t].to}
      BY <1>2, <2>1, <2>3, TransferHolds
    <3> QED
      BY <1>a, <2>1, <2>3, <3>1, AcquireExclusive DEF Locked
  <2>4. CASE c.pc = "commit" /\ call[t].pc = "record"
    <3>1. Held(t)' \subseteq Held(t)
      BY <1>2, <2>1, <2>4, TransferHolds
    <3> QED
      BY <2>1, <3>1, ReleaseExclusive
  <2> QED
    BY <1>2, <2>2, <2>3, <2>4
<1>3. CASE RequestTransfer(t)
  <2>1. PICK from, to \in Wallets \cup {None}, a \in Amounts, pinOk \in BOOLEAN,
             ref \in References : TransferRequest(t, from, to, a, pinOk, ref)
    BY <1>3 DEF RequestTransfer
  <2> QED
    BY <1>1, <2>1 DEF TransferRequest, Answer
<1>4. CASE DebitSender(t)
  BY <1>2, <1>4 DEF DebitSender
<1>5. CASE CreditRecipient(t)
  BY <1>1, <1>2, <1>5 DEF CreditRecipient, Answer
<1>6. CASE InsertRecords(t)
  <2>1. call[t].pc = "record" /\ UNCHANGED <<deposits, job>>
    BY <1>6 DEF InsertRecords
  <2>2. CASE call' = [call EXCEPT ![t] = At("commit", @, @.fromAfter, @.toAfter)]
    BY <1>2, <2>1, <2>2
  <2>3. CASE Answer(t, "failed")
    BY <1>1, <2>1, <2>3 DEF Answer
  <2> QED
    BY <1>6, <2>2, <2>3 DEF InsertRecords
<1>7. CASE \/ InsufficientBalance(t) \/ CommitTransfer(t) \/ AnswerTransfer(t)
           \/ TransferError(t) \/ DeadlockVictim(t)
  BY <1>1, <1>7
  DEF InsufficientBalance, CommitTransfer, AnswerTransfer, TransferError, DeadlockVictim, Answer
<1> QED
  BY <1>3, <1>4, <1>5, <1>6, <1>7 DEF TransferStep
LEMMA LocksJobStep ==
  ASSUME TypeInv, LocksExclusive, NEW k \in Workers, TakeEvent(k) \/ JobStep(k)
  PROVE  LocksExclusive'
<1> USE DEF JobAt, HeldByJob
<1>a. k \in Sessions /\ job[k] \in WorkerJob
  BY DEF Sessions, TypeInv, TypeOK
<1>1. ASSUME NEW j, job' = [job EXCEPT ![k] = j],
             j.pc \in {"read", "credit", "returned"} \/ (j.pc = "mark" /\ j.kind = "charge.failed"),
             UNCHANGED call,
             \A d \in Deposits :
               deposits[d].status # "ABSENT" => deposits'[d].wallet = deposits[d].wallet
      PROVE  LocksExclusive'
  <2>1. job'[k] = j /\ \A u \in Sessions \ {k} : Held(u)' \subseteq Held(u)
    BY <1>1, JobLocks
  <2>2. Held(k)' = {}
    BY <1>1, <2>1, JobHolds
  <2> QED
    BY <2>1, <2>2, ReleaseExclusive
<1>2. ASSUME NEW j, job' = [job EXCEPT ![k] = j], UNCHANGED <<call, deposits>>,
             j.kind = job[k].kind, j.deposit = job[k].deposit,
             \/ /\ j.pc = "mark" /\ ~Locked(PaidWallet(k))
             \/ /\ j.pc = "commit" /\ job[k].pc = "mark" /\ ~Locked(job[k].deposit)
      PROVE  LocksExclusive'
  <2>1. job'[k] = j /\ \A u \in Sessions \ {k} : Held(u)' \subseteq Held(u)
    BY <1>2, JobLocks
  <2>2. PaidWallet(k)' = PaidWallet(k)
    BY <1>2, <2>1 DEF PaidWallet
  <2>3. CASE j.pc = "mark" /\ ~Locked(PaidWallet(k))
    <3>1. Held(k)' \subseteq Held(k) \cup {PaidWallet(k)}
      BY <1>2, <2>1, <2>2, <2>3, JobHolds
    <3> QED
      BY <1>a, <2>1, <2>3, <3>1, AcquireExclusive DEF Locked
  <2>4. CASE j.pc = "commit" /\ job[k].pc = "mark" /\ ~Locked(job[k].deposit)
    <3>1. Held(k)' \subseteq Held(k) \cup {job[k].deposit}
      BY <1>2, <2>1, <2>2, <2>4, JobHolds
    <3> QED
      BY <1>a, <2>1, <2>4, <3>1, AcquireExclusive DEF Locked
  <2> QED
    BY <1>2, <2>3, <2>4
<1>3. CASE TakeEvent(k)
  BY <1>1, <1>3 DEF TakeEvent, StartJob
<1>4. CASE ReadTransaction(k)
  <2>1. UNCHANGED <<call, deposits>> /\ job[k].kind \in Kinds
    BY <1>4, <1>a DEF ReadTransaction
  <2>2. CASE \E r \in Results : Return(k, r)
    BY <1>1, <2>1, <2>2 DEF Return
  <2>3. CASE \/ job' = [job EXCEPT ![k] = JobAt("credit", @, 0, "none")]
             \/ /\ job[k].kind = "charge.failed"
                /\ job' = [job EXCEPT ![k] = JobAt("mark", @, 0, "none")]
    BY <1>1, <2>1, <2>3
  <2> QED
    BY <1>4, <2>1, <2>2, <2>3 DEF ReadTransaction
<1>5. CASE CreditWallet(k)
  BY <1>1, <1>2, <1>5 DEF CreditWallet, Return
<1>6. CASE MarkTransaction(k)
  BY <1>2, <1>6 DEF MarkTransaction
<1>7. CASE CommitJob(k)
  <2>1. \A d \in Deposits : deposits'[d].wallet = deposits[d].wallet
    BY <1>7, <1>a DEF CommitJob, WithStatus, TypeInv, TypeOK
  <2> QED
    BY <1>1, <1>7, <2>1 DEF CommitJob, Return
<1>8. CASE JobError(k)
  BY <1>1, <1>8 DEF JobError, Return
<1> QED
  BY <1>3, <1>4, <1>5, <1>6, <1>7, <1>8 DEF JobStep

LEMMA LocksOtherStep ==
  ASSUME TypeInv, LocksExclusive, RegisterDeposit \/ Crash \/ UNCHANGED repoVars
  PROVE  LocksExclusive'
<1>1. CASE RegisterDeposit
  <2>1. /\ UNCHANGED <<call, job>>
        /\ \A d \in Deposits :
             deposits[d].status # "ABSENT" => deposits'[d].wallet = deposits[d].wallet
    BY <1>1 DEF RegisterDeposit, CreateTransaction, TypeInv, TypeOK
  <2>2. \A u \in Sessions : Held(u)' = Held(u)
    BY <2>1, SameCallHolds, SameJobHolds DEF Sessions
  <2> QED
    BY <2>2, ReleaseExclusive
<1>2. CASE Crash
  <2>1. \A t \in Transfers : Held(t)' = {}
    BY <1>2, TransferHolds
    DEF Crash, CrashRepo, Ended, Unanswered, InTransfer, HeldByTransfer, TypeInv, TypeOK
  <2>2. \A k \in Workers : Held(k)' = {}
    BY <1>2, JobHolds DEF Crash, CrashRepo, NoJob, HeldByJob
  <2> QED
    BY <2>1, <2>2, ReleaseExclusive DEF Sessions
<1>3. CASE UNCHANGED repoVars
  <2>1. \A u \in Sessions : Held(u)' = Held(u)
    BY <1>3, SameCallHolds, SameJobHolds DEF Sessions, repoVars
  <2> QED
    BY <2>1, ReleaseExclusive
<1> QED
  BY <1>1, <1>2, <1>3
(* When session s writes only balances of rows that it holds, what the     *)
(* other sessions have computed stays current.                             *)
LEMMA OthersStayCurrent ==
  ASSUME MoneyInv, NEW s \in Sessions,
         \A w \in Wallets \ Held(s) : balance'[w] = balance[w],
         \A d \in Deposits :
           deposits[d].status # "ABSENT" => deposits'[d].wallet = deposits[d].wallet
  PROVE  /\ \A u \in Transfers \ {s} : call'[u] = call[u] => (DebitCurrent(u) /\ CreditCurrent(u))'
         /\ \A m \in Workers \ {s} : job'[m] = job[m] => JobCurrent(m)'
<1> USE DEF MoneyInv
<1>1. ASSUME NEW u \in Sessions \ {s}, NEW w \in Wallets, w \in Held(u)
      PROVE  balance'[w] = balance[w]
  BY <1>1 DEF LocksExclusive
<1>2. ASSUME NEW u \in Transfers \ {s}, call'[u] = call[u]
      PROVE  (DebitCurrent(u) /\ CreditCurrent(u))'
  <2>1. u \in Sessions /\ DebitCurrent(u) /\ CreditCurrent(u)
    BY DEF Sessions
  <2>2. call[u].pc \in {"credit", "record", "commit"} =>
          call[u].from \in Wallets /\ call[u].from \in Held(u)
    BY TransferHolds DEF TypeInv, CallsChecked, InTransfer, Checked, HeldByTransfer
  <2>3. call[u].pc \in {"record", "commit"} =>
          call[u].to \in Wallets /\ call[u].to \in Held(u)
    BY TransferHolds DEF TypeInv, CallsChecked, InTransfer, Checked, HeldByTransfer
  <2>4. DebitCurrent(u)'
    BY <1>1, <1>2, <2>1, <2>2 DEF DebitCurrent
  <2>5. CreditCurrent(u)'
    BY <1>1, <1>2, <2>1, <2>3 DEF CreditCurrent
  <2> QED
    BY <2>4, <2>5
<1>3. ASSUME NEW m \in Workers \ {s}, job'[m] = job[m]
      PROVE  JobCurrent(m)'
  <2>1. m \in Sessions /\ JobCurrent(m)
    BY DEF Sessions
  <2>2. Crediting(m) =>
          /\ PaidWallet(m) \in Wallets
          /\ PaidWallet(m) \in Held(m)
          /\ PaidWallet(m)' = PaidWallet(m)
    BY <1>3, JobHolds
    DEF Crediting, PaidWallet, TypeInv, JobsNamed, RowsOwned, HeldByJob
  <2> QED
    BY <1>1, <1>3, <2>1, <2>2 DEF JobCurrent, Crediting
<1> QED
  BY <1>2, <1>3

(* A step of transfer t that writes no balance: only its own sums matter.  *)
LEMMA QuietTransferStep ==
  ASSUME MoneyInv, NEW t \in Transfers, NEW c, call' = [call EXCEPT ![t] = c],
         UNCHANGED <<balance, deposits, job>>,
         (DebitCurrent(t) /\ CreditCurrent(t))'
  PROVE  /\ \A u \in Transfers : (DebitCurrent(u) /\ CreditCurrent(u))'
         /\ \A m \in Workers : JobCurrent(m)'
         /\ BalancesInRange'
<1>1. t \in Sessions /\ \A m \in Workers : m # t
  BY RepoAssumption DEF Sessions, RepoAssumption
<1>2. \A u \in Transfers \ {t} : call'[u] = call[u]
  BY TransferLocks DEF MoneyInv
<1>3. /\ \A u \in Transfers \ {t} : (DebitCurrent(u) /\ CreditCurrent(u))'
      /\ \A m \in Workers : JobCurrent(m)'
  BY <1>1, <1>2, OthersStayCurrent
<1> QED
  BY <1>3 DEF MoneyInv, BalancesInRange

LEMMA QuietJobStep ==
  ASSUME MoneyInv, NEW k \in Workers, NEW j, job' = [job EXCEPT ![k] = j],
         UNCHANGED <<balance, call>>, JobCurrent(k)',
         \A d \in Deposits :
           deposits[d].status # "ABSENT" => deposits'[d].wallet = deposits[d].wallet
  PROVE  /\ \A u \in Transfers : (DebitCurrent(u) /\ CreditCurrent(u))'
         /\ \A m \in Workers : JobCurrent(m)'
         /\ BalancesInRange'
<1>1. k \in Sessions /\ \A t \in Transfers : t # k
  BY RepoAssumption DEF Sessions, RepoAssumption
<1>2. \A u \in Workers \ {k} : job'[u] = job[u]
  BY JobLocks DEF MoneyInv
<1>3. /\ \A u \in Transfers : (DebitCurrent(u) /\ CreditCurrent(u))'
      /\ \A m \in Workers \ {k} : JobCurrent(m)'
  BY <1>1, <1>2, OthersStayCurrent
<1> QED
  BY <1>3 DEF MoneyInv, BalancesInRange
LEMMA MoneyTransferStep ==
  ASSUME MoneyInv, NEW t \in Transfers, RequestTransfer(t) \/ TransferStep(t)
  PROVE  MoneyInv'
<1> USE DEF At, Ended, DebitCurrent, CreditCurrent
<1>a. /\ call \in [Transfers -> TransferCall] /\ call[t] \in TransferCall
      /\ balance \in [Wallets -> Int]
      /\ \A w \in Wallets : balance[w] \in 0 .. MaxBalance
      /\ DebitCurrent(t) /\ CreditCurrent(t)
  BY DEF MoneyInv, TypeInv, TypeOK, BalancesInRange
<1>b. MaxBalance \in Nat /\ \A x \in Payable : x \in Int /\ x > 0
  BY RepoAssumption DEF RepoAssumption, Payable
<1>c. InTransfer(t) => Checked(call[t])
  BY DEF MoneyInv, TypeInv, CallsChecked
<1>t. TypeInv' /\ LocksExclusive'
  BY TypeTransferStep, LocksTransferStep DEF MoneyInv
<1> SUFFICES /\ \A u \in Transfers : (DebitCurrent(u) /\ CreditCurrent(u))'
             /\ \A m \in Workers : JobCurrent(m)'
             /\ BalancesInRange'
  BY <1>t DEF MoneyInv
<1>1. ASSUME NEW c, call' = [call EXCEPT ![t] = c], c.pc \in {"debit", "reply", "done"},
             UNCHANGED <<balance, deposits, job>>
      PROVE  /\ \A u \in Transfers : (DebitCurrent(u) /\ CreditCurrent(u))'
             /\ \A m \in Workers : JobCurrent(m)'
             /\ BalancesInRange'
  <2>1. (DebitCurrent(t) /\ CreditCurrent(t))'
    BY <1>1, <1>a
  <2> QED
    BY <1>1, <2>1, QuietTransferStep
<1>2. CASE RequestTransfer(t)
  <2>1. PICK from, to \in Wallets \cup {None}, a \in Amounts, pinOk \in BOOLEAN,
             ref \in References : TransferRequest(t, from, to, a, pinOk, ref)
    BY <1>2 DEF RequestTransfer
  <2> QED
    BY <1>1, <2>1 DEF TransferRequest, Answer
<1>3. CASE DebitSender(t)
  <2> DEFINE c == At("credit", call[t], balance[call[t].from] - call[t].amount, 0)
  <2>1. call' = [call EXCEPT ![t] = c] /\ UNCHANGED <<balance, deposits, job>>
    BY <1>3 DEF DebitSender
  <2>2. call'[t] = c /\ c.from = call[t].from /\ c.amount = call[t].amount /\ c.pc = "credit"
        /\ c.fromAfter = balance[call[t].from] - call[t].amount
    BY <1>a, <2>1
  <2>3. balance[call[t].from] - call[t].amount >= 0
    BY <1>3, <1>a, <1>b, <1>c DEF DebitSender, InTransfer, Checked
  <2>4. (DebitCurrent(t) /\ CreditCurrent(t))'
    BY <2>1, <2>2, <2>3
  <2> QED
    BY <2>1, <2>4, QuietTransferStep
<1>4. CASE CreditRecipient(t)
  <2>1. CASE Answer(t, "failed")
    BY <1>1, <1>4, <2>1 DEF CreditRecipient, Answer
  <2>2. CASE /\ balance[call[t].to] + call[t].amount <= MaxBalance
             /\ call' = [call EXCEPT ![t] =
                          At("record", @, @.fromAfter, balance[@.to] + @.amount)]
    <3> DEFINE c == At("record", call[t], call[t].fromAfter, balance[call[t].to] + call[t].amount)
    <3>1. /\ call' = [call EXCEPT ![t] = c] /\ UNCHANGED <<balance, deposits, job>>
          /\ call[t].pc = "credit"
      BY <1>4, <2>2 DEF CreditRecipient
    <3>2. call'[t] = c
      BY <1>a, <3>1
    <3>3. (DebitCurrent(t) /\ CreditCurrent(t))'
      BY <1>a, <2>2, <3>1, <3>2
    <3> QED
      BY <3>1, <3>3, QuietTransferStep
  <2> QED
    BY <1>4, <2>1, <2>2 DEF CreditRecipient
<1>5. CASE InsertRecords(t)
  <2>1. call[t].pc = "record" /\ UNCHANGED <<balance, deposits, job>>
    BY <1>5 DEF InsertRecords
  <2>2. CASE Answer(t, "failed")
    BY <1>1, <2>1, <2>2 DEF Answer
  <2>3. CASE call' = [call EXCEPT ![t] = At("commit", @, @.fromAfter, @.toAfter)]
    <3> DEFINE c == At("commit", call[t], call[t].fromAfter, call[t].toAfter)
    <3>1. call' = [call EXCEPT ![t] = c] /\ call'[t] = c
      BY <1>a, <2>3
    <3>2. (DebitCurrent(t) /\ CreditCurrent(t))'
      BY <1>a, <2>1, <3>1
    <3> QED
      BY <2>1, <3>1, <3>2, QuietTransferStep
  <2> QED
    BY <1>5, <2>2, <2>3 DEF InsertRecords
<1>6. CASE CommitTransfer(t)
  <2>1. /\ call[t].pc = "commit"
        /\ balance' = [balance EXCEPT ![call[t].from] = call[t].fromAfter,
                                      ![call[t].to] = call[t].toAfter]
        /\ UNCHANGED <<deposits, job>>
        /\ call' = [call EXCEPT ![t] = At("reply", @, 0, 0)]
    BY <1>6 DEF CommitTransfer
  <2>2. Checked(call[t]) /\ call[t].fromAfter \in 0 .. MaxBalance /\ call[t].toAfter \in 0 .. MaxBalance
    BY <1>a, <1>b, <1>c, <2>1 DEF InTransfer, Checked
  <2>3. BalancesInRange'
    BY <1>a, <2>1, <2>2 DEF BalancesInRange, Checked
  <2>4. t \in Sessions /\ \A m \in Workers : m # t
    BY RepoAssumption DEF Sessions, RepoAssumption
  <2>5. \A w \in Wallets \ Held(t) : balance'[w] = balance[w]
    BY <1>a, <2>1, <2>2, TransferHolds DEF HeldByTransfer, Checked
  <2>6. call'[t].pc = "reply" /\ \A u \in Transfers \ {t} : call'[u] = call[u]
    BY <1>a, <2>1
  <2>7. (DebitCurrent(t) /\ CreditCurrent(t))'
    BY <2>6
  <2>8. /\ \A u \in Transfers \ {t} : (DebitCurrent(u) /\ CreditCurrent(u))'
        /\ \A m \in Workers : JobCurrent(m)'
    BY <2>1, <2>4, <2>5, <2>6, OthersStayCurrent
  <2> QED
    BY <2>3, <2>7, <2>8
<1>7. CASE \/ InsufficientBalance(t) \/ AnswerTransfer(t)
           \/ TransferError(t) \/ DeadlockVictim(t)
  BY <1>1, <1>7 DEF InsufficientBalance, AnswerTransfer, TransferError, DeadlockVictim, Answer
<1> QED
  BY <1>2, <1>3, <1>4, <1>5, <1>6, <1>7 DEF TransferStep
LEMMA MoneyJobStep ==
  ASSUME MoneyInv, NEW k \in Workers, TakeEvent(k) \/ JobStep(k)
  PROVE  MoneyInv'
<1> USE DEF JobAt, JobCurrent, Crediting
<1>a. /\ job \in [Workers -> WorkerJob] /\ job[k] \in WorkerJob
      /\ deposits \in [Deposits -> DepositRow]
      /\ balance \in [Wallets -> Int]
      /\ \A w \in Wallets : balance[w] \in 0 .. MaxBalance
      /\ JobCurrent(k)
  BY DEF MoneyInv, TypeInv, TypeOK, BalancesInRange
<1>b. MaxBalance \in Nat /\ \A x \in Payable : x \in Int /\ x > 0
  BY RepoAssumption DEF RepoAssumption, Payable
<1>c. job[k].pc \in {"credit", "mark", "commit"} =>
        /\ job[k].deposit \in Deposits
        /\ job[k].amount \in Payable
        /\ PaidWallet(k) \in Wallets
  BY DEF MoneyInv, TypeInv, JobsNamed, RowsOwned, PaidWallet
<1>t. TypeInv' /\ LocksExclusive'
  BY TypeJobStep, LocksJobStep DEF MoneyInv
<1> SUFFICES /\ \A u \in Transfers : (DebitCurrent(u) /\ CreditCurrent(u))'
             /\ \A m \in Workers : JobCurrent(m)'
             /\ BalancesInRange'
  BY <1>t DEF MoneyInv
<1>1. ASSUME NEW j, job' = [job EXCEPT ![k] = j],
             j.pc \in {"read", "credit", "returned"} \/ j.kind # "charge.success",
             UNCHANGED <<balance, call>>,
             \A d \in Deposits :
               deposits[d].status # "ABSENT" => deposits'[d].wallet = deposits[d].wallet
      PROVE  /\ \A u \in Transfers : (DebitCurrent(u) /\ CreditCurrent(u))'
             /\ \A m \in Workers : JobCurrent(m)'
             /\ BalancesInRange'
  <2>1. JobCurrent(k)'
    BY <1>1, <1>a
  <2> QED
    BY <1>1, <2>1, QuietJobStep
<1>2. CASE TakeEvent(k)
  BY <1>1, <1>2 DEF TakeEvent, StartJob
<1>3. CASE ReadTransaction(k)
  <2>1. UNCHANGED <<balance, call, deposits>> /\ job[k].kind \in Kinds
    BY <1>3, <1>a DEF ReadTransaction
  <2>2. CASE \E r \in Results : Return(k, r)
    BY <1>1, <2>1, <2>2 DEF Return
  <2>3. CASE \/ job' = [job EXCEPT ![k] = JobAt("credit", @, 0, "none")]
             \/ /\ job[k].kind = "charge.failed"
                /\ job' = [job EXCEPT ![k] = JobAt("mark", @, 0, "none")]
    BY <1>1, <2>1, <2>3
  <2> QED
    BY <1>3, <2>1, <2>2, <2>3 DEF ReadTransaction
<1>4. CASE CreditWallet(k)
  <2>1. UNCHANGED <<balance, call, deposits>> /\ job[k].pc = "credit"
    BY <1>4 DEF CreditWallet
  <2>2. CASE Return(k, "error")
    BY <1>1, <2>1, <2>2 DEF Return
  <2>3. CASE /\ balance[PaidWallet(k)] + job[k].amount <= MaxBalance
             /\ job' = [job EXCEPT ![k] =
                          JobAt("mark", @, balance[PaidWallet(k)] + @.amount, "none")]
    <3> DEFINE j == JobAt("mark", job[k], balance[PaidWallet(k)] + job[k].amount, "none")
    <3>1. job' = [job EXCEPT ![k] = j] /\ job'[k] = j
      BY <1>a, <2>3
    <3>2. PaidWallet(k)' = PaidWallet(k)
      BY <2>1, <3>1 DEF PaidWallet
    <3>3. JobCurrent(k)'
      BY <2>1, <2>3, <3>1, <3>2
    <3> QED
      BY <2>1, <3>1, <3>3, QuietJobStep
  <2> QED
    BY <1>4, <2>2, <2>3 DEF CreditWallet
<1>5. CASE MarkTransaction(k)
  <2> DEFINE j == JobAt("commit", job[k], job[k].after, "none")
  <2>1. /\ UNCHANGED <<balance, call, deposits>> /\ job[k].pc = "mark"
        /\ job' = [job EXCEPT ![k] = j] /\ job'[k] = j
    BY <1>5, <1>a DEF MarkTransaction
  <2>2. PaidWallet(k)' = PaidWallet(k)
    BY <2>1 DEF PaidWallet
  <2>3. JobCurrent(k)'
    BY <1>a, <2>1, <2>2
  <2> QED
    BY <2>1, <2>3, QuietJobStep
<1>6. CASE CommitJob(k)
  <2>1. /\ job[k].pc = "commit" /\ UNCHANGED call
        /\ \E r \in Results : job' = [job EXCEPT ![k] = JobAt("returned", @, 0, r)]
        /\ \A d \in Deposits : deposits'[d].wallet = deposits[d].wallet
    BY <1>6, <1>a DEF CommitJob, Return, WithStatus
  <2>2. CASE UNCHANGED balance
    BY <1>1, <2>1, <2>2
  <2>3. CASE /\ job[k].kind = "charge.success"
             /\ balance' = [balance EXCEPT ![PaidWallet(k)] = job[k].after]
    <3>1. job[k].after \in 0 .. MaxBalance /\ PaidWallet(k) \in Wallets
      BY <1>a, <1>b, <1>c, <2>1, <2>3
    <3>2. BalancesInRange'
      BY <1>a, <2>3, <3>1 DEF BalancesInRange
    <3>3. k \in Sessions /\ \A t \in Transfers : t # k
      BY RepoAssumption DEF Sessions, RepoAssumption
    <3>4. \A w \in Wallets \ Held(k) : balance'[w] = balance[w]
      BY <1>a, <2>1, <2>3, <3>1, JobHolds DEF HeldByJob
    <3>5. job'[k].pc = "returned" /\ \A m \in Workers \ {k} : job'[m] = job[m]
      BY <1>a, <2>1
    <3>6. /\ \A u \in Transfers : (DebitCurrent(u) /\ CreditCurrent(u))'
          /\ \A m \in Workers \ {k} : JobCurrent(m)'
      BY <2>1, <3>3, <3>4, <3>5, OthersStayCurrent
    <3>7. JobCurrent(k)'
      BY <3>5
    <3> QED
      BY <3>2, <3>6, <3>7
  <2> QED
    BY <1>6, <2>2, <2>3 DEF CommitJob
<1>7. CASE JobError(k)
  BY <1>1, <1>7 DEF JobError, Return
<1> QED
  BY <1>2, <1>3, <1>4, <1>5, <1>6, <1>7 DEF JobStep

LEMMA MoneyOtherStep ==
  ASSUME MoneyInv, RegisterDeposit \/ Crash \/ UNCHANGED repoVars
  PROVE  MoneyInv'
<1>t. TypeInv' /\ LocksExclusive'
  BY TypeOtherStep, LocksOtherStep DEF MoneyInv
<1>1. CASE RegisterDeposit \/ UNCHANGED repoVars
  <2>1. UNCHANGED <<balance, call, job>>
    BY <1>1 DEF RegisterDeposit, CreateTransaction, repoVars
  <2>2. \A k \in Workers : Crediting(k) => PaidWallet(k)' = PaidWallet(k)
    BY <1>1 DEF Crediting, PaidWallet, RegisterDeposit, CreateTransaction, repoVars,
       MoneyInv, TypeInv, TypeOK, JobsNamed
  <2>3. \A k \in Workers : JobCurrent(k)'
    BY <2>1, <2>2 DEF JobCurrent, Crediting, MoneyInv
  <2>4. \A t \in Transfers : (DebitCurrent(t) /\ CreditCurrent(t))'
    BY <2>1 DEF DebitCurrent, CreditCurrent, MoneyInv
  <2> QED
    BY <1>t, <2>1, <2>3, <2>4 DEF MoneyInv, BalancesInRange
<1>2. CASE Crash
  <2>1. /\ UNCHANGED balance
        /\ \A t \in Transfers : call'[t].pc \in {"idle", "done"}
        /\ \A k \in Workers : job'[k].pc = "idle"
    BY <1>2 DEF Crash, CrashRepo, Ended, Unanswered, InTransfer, NoJob, MoneyInv, TypeInv, TypeOK
  <2> QED
    BY <1>t, <2>1 DEF MoneyInv, BalancesInRange, DebitCurrent, CreditCurrent, JobCurrent, Crediting
<1> QED
  BY <1>1, <1>2

LEMMA MoneyInit == RepoInit => MoneyInv
<1> SUFFICES ASSUME RepoInit PROVE MoneyInv
  OBVIOUS
<1>1. TypeInv
  BY TypeInit
<1>2. \A s \in Sessions : Held(s) = {}
  BY TransferHolds, JobHolds
  DEF RepoInit, Sessions, HeldByTransfer, HeldByJob, NoCall, NoJob
<1>3. LocksExclusive
  BY <1>2 DEF LocksExclusive
<1>4. BalancesInRange
  BY RepoAssumption DEF RepoAssumption, RepoInit, BalancesInRange
<1> QED
  BY <1>1, <1>3, <1>4
  DEF MoneyInv, RepoInit, DebitCurrent, CreditCurrent, JobCurrent, Crediting, NoCall, NoJob

LEMMA MoneyStep == MoneyInv /\ [RepoNext]_repoVars => MoneyInv'
  BY MoneyTransferStep, MoneyJobStep, MoneyOtherStep DEF RepoNext

LEMMA MoneyAlways == RepoSpec => []MoneyInv
  BY MoneyInit, MoneyStep, PTL DEF RepoSpec

(* No wallet is ever overdrawn or driven past the range of its column,     *)
(* whatever transfers, deposits, errors, lost replies and crashes are      *)
(* interleaved, and with any number of workers.                            *)
THEOREM NoOverdraft == RepoSpec => []BalancesInRange
<1>1. MoneyInv => BalancesInRange
  BY DEF MoneyInv
<1> QED
  BY MoneyAlways, <1>1, PTL
-----------------------------------------------------------------------------
(* Part 3: references, and deposits that are paid once.                    *)

LEMMA FreshTransferStep ==
  ASSUME MoneyInv, ReferencesFresh, NEW t \in Transfers,
         RequestTransfer(t) \/ TransferStep(t)
  PROVE  ReferencesFresh'
<1> USE DEF ReferencesFresh, At, Ended
<1>a. /\ call \in [Transfers -> TransferCall]
  BY DEF MoneyInv, TypeInv, TypeOK
<1>1. ASSUME NEW c, call' = [call EXCEPT ![t] = c], c.pc # "commit", UNCHANGED entries
      PROVE  ReferencesFresh'
  BY <1>a, <1>1
<1>2. CASE RequestTransfer(t)
  <2>1. PICK from, to \in Wallets \cup {None}, a \in Amounts, pinOk \in BOOLEAN,
             ref \in References : TransferRequest(t, from, to, a, pinOk, ref)
    BY <1>2 DEF RequestTransfer
  <2> QED
    BY <1>1, <2>1 DEF TransferRequest, Answer
<1>3. CASE InsertRecords(t)
  <2>1. CASE Answer(t, "failed")
    BY <1>1, <1>3, <2>1 DEF InsertRecords, Answer
  <2>2. CASE /\ \A e \in entries : e.reference # call[t].ref
             /\ call' = [call EXCEPT ![t] = At("commit", @, @.fromAfter, @.toAfter)]
    <3>1. /\ call'[t].ref = call[t].ref
          /\ \A u \in Transfers \ {t} : call'[u] = call[u]
      BY <1>a, <2>2
    <3>2. /\ UNCHANGED entries
          /\ \A u \in Transfers : call[u].pc = "commit" => call[u].ref # call[t].ref
      BY <1>3 DEF InsertRecords
    <3> QED
      BY <2>2, <3>1, <3>2
  <2> QED
    BY <1>3, <2>1, <2>2 DEF InsertRecords
<1>4. CASE CommitTransfer(t)
  <2>1. /\ call[t].pc = "commit"
        /\ entries' = entries \cup {Entry(call[t].ref, "debit", call[t].from, call[t].amount),
                                    Entry(call[t].ref, "credit", call[t].to, call[t].amount)}
        /\ call' = [call EXCEPT ![t] = At("reply", @, 0, 0)]
    BY <1>4 DEF CommitTransfer
  <2>2. call'[t].pc = "reply" /\ \A u \in Transfers \ {t} : call'[u] = call[u]
    BY <1>a, <2>1
  <2>3. \A e \in entries' : e \in entries \/ e.reference = call[t].ref
    BY <2>1 DEF Entry
  <2>4. ASSUME NEW u \in Transfers, call'[u].pc = "commit"
        PROVE  /\ \A e \in entries' : e.reference # call'[u].ref
               /\ \A v \in Transfers \ {u} : call'[v].pc = "commit" => call'[v].ref # call'[u].ref
    <3>1. u # t /\ call'[u] = call[u] /\ call[u].ref # call[t].ref
      BY <2>1, <2>2, <2>4
    <3> QED
      BY <2>2, <2>3, <2>4, <3>1
  <2> QED
    BY <2>4
<1>5. CASE DebitSender(t)
  BY <1>1, <1>5 DEF DebitSender
<1>6. CASE CreditRecipient(t)
  BY <1>1, <1>6 DEF CreditRecipient, Answer
<1>7. CASE \/ InsufficientBalance(t) \/ AnswerTransfer(t)
           \/ TransferError(t) \/ DeadlockVictim(t)
  <2>1. UNCHANGED entries /\ \E a \in Answers : call' = [call EXCEPT ![t] = Ended(@, a)]
    BY <1>7 DEF InsufficientBalance, AnswerTransfer, TransferError, DeadlockVictim, Answer
  <2> QED
    BY <1>1, <2>1
<1> QED
  BY <1>2, <1>3, <1>4, <1>5, <1>6, <1>7 DEF TransferStep

LEMMA FreshOtherStep ==
  ASSUME MoneyInv, ReferencesFresh,
         \/ \E k \in Workers : TakeEvent(k) \/ JobStep(k)
         \/ RegisterDeposit \/ Crash \/ UNCHANGED repoVars
  PROVE  ReferencesFresh'
<1>1. CASE UNCHANGED <<entries, call>>
  BY <1>1 DEF ReferencesFresh
<1>2. CASE Crash
  <2>1. /\ UNCHANGED entries
        /\ \A t \in Transfers : call'[t].pc # "commit"
    BY <1>2 DEF Crash, CrashRepo, Ended, Unanswered, InTransfer, MoneyInv, TypeInv, TypeOK
  <2> QED
    BY <2>1 DEF ReferencesFresh
<1>3. ASSUME NEW k \in Workers, TakeEvent(k) \/ JobStep(k)
      PROVE  UNCHANGED <<entries, call>>
  BY <1>3 DEF TakeEvent, StartJob, JobStep, ReadTransaction, CreditWallet,
     MarkTransaction, CommitJob, JobError
<1> QED
  BY <1>1, <1>2, <1>3 DEF RegisterDeposit, CreateTransaction, repoVars
-----------------------------------------------------------------------------
(* When jobs are apart the row of a deposit only changes in the job that   *)
(* read it, so each deposit is credited once.                              *)

DepositInv == TypeInv /\ StatusStillRead /\ CreditedOnce

LEMMA DepositJobStep ==
  ASSUME JobsApart, DepositInv, TypeInv', NEW k \in Workers, TakeEvent(k) \/ JobStep(k)
  PROVE  StatusStillRead' /\ CreditedOnce'
<1> USE DEF DepositInv, StatusStillRead, CreditedOnce, JobAt, Settling
<1>a. /\ job \in [Workers -> WorkerJob] /\ deposits \in [Deposits -> DepositRow]
      /\ credited \in [Deposits -> Nat] /\ job[k] \in WorkerJob
  BY DEF TypeInv, TypeOK
<1>b. \A m \in Workers \ {k} :
        Settling(m) /\ Settling(k) => job[m].deposit # job[k].deposit
  BY DEF JobsApart
<1>1. ASSUME NEW j, job' = [job EXCEPT ![k] = j], UNCHANGED <<deposits, credited>>,
             j.pc \in {"credit", "mark", "commit"} =>
               deposits[j.deposit].status \notin StopsAt(j.kind)
      PROVE  StatusStillRead' /\ CreditedOnce'
  <2>1. job'[k] = j /\ \A m \in Workers \ {k} : job'[m] = job[m]
    BY <1>a, <1>1
  <2> QED
    BY <1>1, <2>1 DEF StopsAt
<1>2. CASE TakeEvent(k)
  BY <1>1, <1>2 DEF TakeEvent, StartJob
<1>3. CASE ReadTransaction(k)
  <2>1. UNCHANGED <<deposits, credited>>
    BY <1>3 DEF ReadTransaction
  <2>2. CASE \E r \in Results : Return(k, r)
    BY <1>1, <2>1, <2>2 DEF Return
  <2>3. CASE /\ deposits[job[k].deposit].status \notin StopsAt(job[k].kind)
             /\ \E pc \in {"credit", "mark"} :
                  job' = [job EXCEPT ![k] = JobAt(pc, @, 0, "none")]
    BY <1>1, <2>1, <2>3
  <2> QED
    BY <1>3, <2>2, <2>3 DEF ReadTransaction
<1>4. CASE CreditWallet(k)
  <2>1. UNCHANGED <<deposits, credited>> /\ job[k].pc = "credit"
    BY <1>4 DEF CreditWallet
  <2>2. deposits[job[k].deposit].status \notin StopsAt(job[k].kind)
    BY <2>1
  <2> QED
    BY <1>1, <1>4, <2>1, <2>2 DEF CreditWallet, Return
<1>5. CASE MarkTransaction(k)
  <2>1. UNCHANGED <<deposits, credited>> /\ job[k].pc = "mark"
    BY <1>5 DEF MarkTransaction
  <2> QED
    BY <1>1, <1>5, <2>1 DEF MarkTransaction
<1>6. CASE CommitJob(k)
  <2>1. /\ job[k].pc = "commit"
        /\ \E r \in Results : job' = [job EXCEPT ![k] = JobAt("returned", @, 0, r)]
    BY <1>6 DEF CommitJob, Return
  <2>2. job'[k].pc = "returned" /\ \A m \in Workers \ {k} : job'[m] = job[m]
    BY <1>a, <2>1
  <2>c. \A m \in Workers \ {k} : Settling(m) => job[m].deposit # job[k].deposit
    BY <1>b, <2>1
  <2>3. /\ job[k].deposit \in Deposits
        /\ deposits[job[k].deposit].status \notin StopsAt(job[k].kind)
        /\ deposits[job[k].deposit].status # "SUCCESS"
        /\ credited[job[k].deposit] = 0
    BY <2>1 DEF StopsAt, TypeInv, JobsNamed
  <2>4. CASE /\ deposits' = [deposits EXCEPT ![job[k].deposit] = WithStatus(@, "SUCCESS")]
             /\ credited' = [credited EXCEPT ![job[k].deposit] = @ + 1]
    BY <1>a, <2>2, <2>3, <2>4, <2>c DEF WithStatus, TypeInv, JobsNamed
  <2>5. CASE /\ deposits' = [deposits EXCEPT ![job[k].deposit] = WithStatus(@, "FAILED")]
             /\ UNCHANGED credited
    BY <1>a, <2>2, <2>3, <2>5, <2>c DEF WithStatus, TypeInv, JobsNamed
  <2> QED
    BY <1>6, <2>4, <2>5 DEF CommitJob
<1>7. CASE JobError(k)
  BY <1>1, <1>7 DEF JobError, Return
<1> QED
  BY <1>2, <1>3, <1>4, <1>5, <1>6, <1>7 DEF JobStep

LEMMA DepositOtherStep ==
  ASSUME DepositInv,
         \/ \E t \in Transfers : RequestTransfer(t) \/ TransferStep(t)
         \/ RegisterDeposit \/ Crash \/ UNCHANGED repoVars
  PROVE  StatusStillRead' /\ CreditedOnce'
<1> USE DEF DepositInv, StatusStillRead, CreditedOnce, Settling
<1>1. CASE UNCHANGED <<deposits, job, credited>>
  BY <1>1 DEF StopsAt
<1>2. CASE RegisterDeposit
  BY <1>2 DEF RegisterDeposit, CreateTransaction, StopsAt, TypeInv, TypeOK, JobsNamed
<1>3. CASE Crash
  BY <1>3 DEF Crash, CrashRepo, NoJob
<1>4. ASSUME NEW t \in Transfers, RequestTransfer(t) \/ TransferStep(t)
      PROVE  UNCHANGED <<deposits, job, credited>>
  BY <1>4 DEF RequestTransfer, TransferRequest, TransferStep, DebitSender, InsufficientBalance,
     CreditRecipient, InsertRecords, CommitTransfer, AnswerTransfer, TransferError, DeadlockVictim
<1> QED
  BY <1>1, <1>2, <1>3, <1>4 DEF repoVars

LEMMA RepoInvInit == RepoInit => RepoInv
<1> SUFFICES ASSUME RepoInit PROVE RepoInv
  OBVIOUS
<1>1. ReferencesFresh /\ StatusStillRead /\ CreditedOnce
  BY DEF RepoInit, ReferencesFresh, StatusStillRead, Settling, CreditedOnce, NoCall, NoJob,
     NoDeposit
<1> QED
  BY <1>1, MoneyInit DEF RepoInv

LEMMA RepoInvStep ==
  RepoInv /\ JobsApart /\ [RepoNext]_repoVars => RepoInv'
<1> SUFFICES ASSUME RepoInv, JobsApart, [RepoNext]_repoVars PROVE RepoInv'
  OBVIOUS
<1>1. MoneyInv'
  BY MoneyStep DEF RepoInv
<1>2. ReferencesFresh'
  BY FreshTransferStep, FreshOtherStep DEF RepoInv, RepoNext
<1>3. DepositInv /\ TypeInv'
  BY <1>1 DEF RepoInv, MoneyInv, DepositInv
<1>4. StatusStillRead' /\ CreditedOnce'
  BY <1>3, DepositJobStep, DepositOtherStep DEF RepoNext
<1> QED
  BY <1>1, <1>2, <1>4 DEF RepoInv

(* The strengthening that makes the properties inductive, as MCWalletRepo  *)
(* checks it: it holds in every reachable state as long as no two workers  *)
(* are between the SELECT and the COMMIT of the same deposit.  That is all *)
(* that several processes need: the rest, from the locks to the lists, may *)
(* be interleaved in any way.                                              *)
THEOREM RepoInvWhileApart == RepoSpec /\ []JobsApart => []RepoInv
  BY RepoInvInit, RepoInvStep, PTL DEF RepoSpec

LEMMA OneIsApart == OneWorker => JobsApart
  BY DEF OneWorker, JobsApart

(* One worker is one process of cmd/server/main.go: there it always holds. *)
THEOREM RepoInvAlways ==
  ASSUME OneWorker
  PROVE  RepoSpec => []RepoInv
<1>1. JobsApart
  BY OneIsApart
<1> QED
  BY <1>1, RepoInvWhileApart, PTL

(* While jobs are apart, a deposit pays its wallet exactly when its row    *)
(* turns SUCCESS: retries, duplicates, charge.failed events and crashes    *)
(* included.                                                               *)
THEOREM CreditedOnceWhileApart == RepoSpec /\ []JobsApart => []CreditedOnce
<1>1. RepoInv => CreditedOnce
  BY DEF RepoInv
<1> QED
  BY RepoInvWhileApart, <1>1, PTL

(* With one worker it always does.                                         *)
THEOREM DepositsCreditedOnce ==
  ASSUME OneWorker
  PROVE  RepoSpec => []CreditedOnce
<1>1. JobsApart
  BY OneIsApart
<1> QED
  BY <1>1, CreditedOnceWhileApart, PTL
-----------------------------------------------------------------------------
(* Every step of the repository is an atomic operation of the ledger or    *)
(* changes none of its tables.                                             *)

LEMMA CommitTransferRefines ==
  ASSUME RepoInv, NEW t \in Transfers, CommitTransfer(t)
  PROVE  Ledger!Transfer(call[t].from, call[t].to, call[t].amount, call[t].ref)
<1>1. /\ call[t].pc = "commit"
      /\ balance' = [balance EXCEPT ![call[t].from] = call[t].fromAfter,
                                    ![call[t].to] = call[t].toAfter]
      /\ entries' = entries \cup {Entry(call[t].ref, "debit", call[t].from, call[t].amount),
                                  Entry(call[t].ref, "credit", call[t].to, call[t].amount)}
      /\ UNCHANGED deposits
  BY DEF CommitTransfer
<1>2. /\ balance \in [Wallets -> Int] /\ call[t] \in TransferCall
      /\ Checked(call[t]) /\ DebitCurrent(t) /\ CreditCurrent(t)
  BY <1>1 DEF RepoInv, MoneyInv, TypeInv, TypeOK, CallsChecked, InTransfer
<1>3. call[t].amount \in Int
  BY <1>2
<1>4. /\ call[t].fromAfter = balance[call[t].from] - call[t].amount
      /\ call[t].fromAfter >= 0
      /\ call[t].toAfter = balance[call[t].to] + call[t].amount
      /\ call[t].toAfter <= MaxBalance
      /\ call[t].from \in Wallets /\ call[t].to \in Wallets /\ call[t].from # call[t].to
  BY <1>1, <1>2 DEF DebitCurrent, CreditCurrent, Checked
<1>5. balance' = [balance EXCEPT ![call[t].from] = @ - call[t].amount,
                                 ![call[t].to] = @ + call[t].amount]
  BY <1>1, <1>2, <1>4
<1>6. balance[call[t].from] >= call[t].amount /\ balance[call[t].to] + call[t].amount <= MaxBalance
  BY <1>2, <1>3, <1>4
<1>7. \A e \in entries : e.reference # call[t].ref
  BY <1>1 DEF RepoInv, ReferencesFresh
<1> QED
  BY <1>1, <1>4, <1>5, <1>6, <1>7 DEF Ledger!Transfer, Ledger!Entry, Entry

LEMMA CommitJobRefines ==
  ASSUME RepoInv, NEW k \in Workers, CommitJob(k)
  PROVE  Ledger!Settle(job[k].deposit, job[k].amount) \/ Ledger!Decline(job[k].deposit)
<1>1. /\ job[k].pc = "commit" /\ UNCHANGED entries
      /\ job[k] \in WorkerJob /\ deposits \in [Deposits -> DepositRow]
      /\ balance \in [Wallets -> Int] /\ JobCurrent(k)
      /\ job[k].deposit \in Deposits
      /\ deposits[job[k].deposit].status # "ABSENT"
      /\ deposits[job[k].deposit].status \notin StopsAt(job[k].kind)
  BY DEF CommitJob, RepoInv, MoneyInv, TypeInv, TypeOK, JobsNamed, StatusStillRead, Settling
<1>2. CASE /\ job[k].kind = "charge.success"
           /\ balance' = [balance EXCEPT ![PaidWallet(k)] = job[k].after]
           /\ deposits' = [deposits EXCEPT ![job[k].deposit] = WithStatus(@, "SUCCESS")]
  <2>1. deposits[job[k].deposit].status \in {"PENDING", "FAILED"}
    BY <1>1, <1>2 DEF StopsAt
  <2>2. /\ job[k].after = balance[PaidWallet(k)] + job[k].amount
        /\ job[k].after <= MaxBalance
    BY <1>1, <1>2 DEF JobCurrent, Crediting
  <2> QED
    BY <1>1, <1>2, <2>1, <2>2 DEF Ledger!Settle, Ledger!WithStatus, WithStatus, PaidWallet
<1>3. CASE /\ job[k].kind = "charge.failed"
           /\ deposits' = [deposits EXCEPT ![job[k].deposit] = WithStatus(@, "FAILED")]
           /\ UNCHANGED balance
  <2>1. deposits[job[k].deposit].status = "PENDING"
    BY <1>1, <1>3 DEF StopsAt
  <2> QED
    BY <1>1, <1>3, <2>1 DEF Ledger!Decline, Ledger!WithStatus, WithStatus
<1> QED
  BY <1>2, <1>3 DEF CommitJob

LEMMA LedgerStep ==
  ASSUME RepoInv, [RepoNext]_repoVars
  PROVE  [Ledger!Next]_(Ledger!vars)
<1> USE DEF Ledger!vars
<1>1. ASSUME NEW t \in Transfers, CommitTransfer(t)
      PROVE  Ledger!Next
  <2>1. call[t].pc = "commit" /\ Checked(call[t])
    BY <1>1 DEF CommitTransfer, RepoInv, MoneyInv, TypeInv, CallsChecked, InTransfer
  <2> QED
    BY <1>1, <2>1, CommitTransferRefines DEF Ledger!Next, Checked
<1>2. ASSUME NEW k \in Workers, CommitJob(k)
      PROVE  Ledger!Next
  <2>1. job[k].deposit \in Deposits /\ job[k].amount \in Payable
    BY <1>2 DEF CommitJob, RepoInv, MoneyInv, TypeInv, JobsNamed
  <2> QED
    BY <1>2, <2>1, CommitJobRefines DEF Ledger!Next
<1>3. CASE RegisterDeposit
  BY <1>3 DEF RegisterDeposit, CreateTransaction, Ledger!Next, Ledger!Register
<1>4. ASSUME NEW t \in Transfers, RequestTransfer(t) \/ TransferStep(t), ~CommitTransfer(t)
      PROVE  UNCHANGED <<balance, entries, deposits>>
  BY <1>4 DEF RequestTransfer, TransferRequest, TransferStep, DebitSender, InsufficientBalance,
     CreditRecipient, InsertRecords, AnswerTransfer, TransferError, DeadlockVictim, Answer
<1>5. ASSUME NEW k \in Workers, TakeEvent(k) \/ JobStep(k), ~CommitJob(k)
      PROVE  UNCHANGED <<balance, entries, deposits>>
  BY <1>5 DEF TakeEvent, StartJob, JobStep, ReadTransaction, CreditWallet, MarkTransaction, JobError
<1>6. CASE Crash
  BY <1>6 DEF Crash, CrashRepo
<1>7. CASE UNCHANGED repoVars
  BY <1>7 DEF repoVars
<1> QED
  BY <1>1, <1>2, <1>3, <1>4, <1>5, <1>6, <1>7 DEF RepoNext

(* While jobs are apart the statement-level repository implements the      *)
(* ledger of atomic transfers, registrations, settlements and declines.    *)
THEOREM LedgerWhileApart == RepoSpec /\ []JobsApart => ImplementsLedger
<1>1. RepoInit => Ledger!Init
  BY DEF RepoInit, Ledger!Init, NoDeposit, Ledger!NoDeposit
<1>2. RepoInv /\ [RepoNext]_repoVars => [Ledger!Next]_(Ledger!vars)
  BY LedgerStep
<1> QED
  BY RepoInvWhileApart, <1>1, <1>2, PTL DEF RepoSpec, ImplementsLedger, Ledger!Spec

(* With one worker it implements the ledger outright.                      *)
THEOREM RepoImplementsLedger ==
  ASSUME OneWorker
  PROVE  RepoSpec => ImplementsLedger
<1>1. JobsApart
  BY OneIsApart
<1> QED
  BY <1>1, LedgerWhileApart, PTL

(* A deposit that says SUCCESS stays as it is, because no operation of the *)
(* ledger touches it.                                                      *)
THEOREM SuccessFinalWhileApart == RepoSpec /\ []JobsApart => SuccessIsFinal
<1>1. ASSUME RepoInv, [RepoNext]_repoVars, NEW d \in Deposits
      PROVE  RowKept(d)
  <2>1. deposits \in [Deposits -> DepositRow]
    BY <1>1 DEF RepoInv, MoneyInv, TypeInv, TypeOK
  <2>2. CASE UNCHANGED deposits
    BY <2>2 DEF RowKept
  <2>3. ASSUME NEW e \in Deposits, NEW row, deposits[e].status # "SUCCESS",
               deposits' = [deposits EXCEPT ![e] = row],
               deposits[e].status # "ABSENT" =>
                 row.wallet = deposits[e].wallet /\ row.amount = deposits[e].amount
        PROVE  RowKept(d)
    BY <2>1, <2>3 DEF RowKept
  <2>4. ASSUME Ledger!Next
        PROVE  RowKept(d)
    <3>1. CASE \E e \in Deposits, w \in Wallets, a \in Payable : Ledger!Register(e, w, a)
      BY <2>3, <3>1 DEF Ledger!Register
    <3>2. CASE \E e \in Deposits, a \in Payable : Ledger!Settle(e, a)
      BY <2>3, <3>2 DEF Ledger!Settle, Ledger!WithStatus
    <3>3. CASE \E e \in Deposits : Ledger!Decline(e)
      BY <2>3, <3>3 DEF Ledger!Decline, Ledger!WithStatus
    <3>4. CASE \E from, to \in Wallets, a \in Payable, ref \in References :
                 Ledger!Transfer(from, to, a, ref)
      BY <2>2, <3>4 DEF Ledger!Transfer
    <3> QED
      BY <2>4, <3>1, <3>2, <3>3, <3>4 DEF Ledger!Next
  <2> QED
    BY <1>1, <2>2, <2>4, LedgerStep DEF Ledger!vars
<1>2. RepoInv /\ [RepoNext]_repoVars => [\A d \in Deposits : RowKept(d)]_repoVars
  BY <1>1
<1> QED
  BY RepoInvWhileApart, <1>2, PTL DEF RepoSpec, SuccessIsFinal

(* With one worker it always stays.                                        *)
THEOREM SuccessStaysFinal ==
  ASSUME OneWorker
  PROVE  RepoSpec => SuccessIsFinal
<1>1. JobsApart
  BY OneIsApart
<1> QED
  BY <1>1, SuccessFinalWhileApart, PTL
-----------------------------------------------------------------------------
(* Part 4: waiting for locks.                                              *)

(* A set of natural numbers has a least element.                           *)
Below == OpToRel(<, Nat)

LEMMA BelowIs == \A x, y \in Nat : <<x, y>> \in Below <=> x < y
  BY DEF Below, OpToRel

LEMMA BelowWellFounded == IsWellFoundedOn(Below, Nat)
  BY NatLessThanWellFounded, Zenon DEF Below

LEMMA LeastOf ==
  ASSUME NEW S, S \subseteq Nat, S # {}
  PROVE  \E x \in S : \A y \in S : x <= y
<1>1. PICK x \in S : \A y \in S : ~(<<y, x>> \in Below)
  BY BelowWellFounded, WFMin
<1>2. ASSUME NEW y \in S PROVE x <= y
  <2>1. x \in Nat /\ y \in Nat /\ ~(y < x)
    BY <1>1, BelowIs
  <2> QED
    BY <2>1
<1> QED
  BY <1>2

(* Nobody waits for a worker that waits: at its wallet a worker holds      *)
(* nothing yet, and the row of its deposit is only held by workers that    *)
(* wait for nothing any more.  Nor does who holds a reference wait.        *)
LEMMA WaitEndsInTransfer ==
  ASSUME TypeInv, NEW S \in SUBSET Sessions, \A x \in S : \E y \in S : Awaits(x, y),
         NEW x \in S
  PROVE  \E y \in S \cap Transfers : Awaits(x, y) /\ (x \in Transfers => WaitsFor(x, y))
<1> USE DEF Sessions
<1>1. ASSUME NEW k \in S, k \notin Transfers, job[k].pc = "mark"
      PROVE  FALSE
  <2>1. k \in Workers /\ job[k].deposit \in Deposits
    BY <1>1 DEF TypeInv, JobsNamed
  <2>2. PICK y \in S : Awaits(k, y)
    OBVIOUS
  <2>3. job[k].deposit \in Held(y)
    BY <1>1, <2>2 DEF Awaits
  <2>4. job[k].deposit \notin Wallets
    BY <2>1, RepoAssumption DEF RepoAssumption
  <2>5. y \notin Transfers
    BY <2>3, <2>4 DEF Held, HeldByTransfer
  <2>6. /\ y \in Workers
        /\ job[k].deposit = PaidWallet(y) \/ job[y].pc = "commit"
        /\ job[y].pc \in {"mark", "commit"}
    BY <2>3, <2>5 DEF Held, HeldByJob
  <2>7. PaidWallet(y) \in Wallets
    BY <2>6 DEF TypeInv, JobsNamed, RowsOwned, PaidWallet
  <2>8. job[y].pc = "commit"
    BY <2>4, <2>6, <2>7
  <2>9. \E z \in S : Awaits(y, z)
    OBVIOUS
  <2> QED
    BY <2>5, <2>8, <2>9 DEF Awaits
<1>2. PICK y \in S : Awaits(x, y)
  OBVIOUS
<1>3. y \in Transfers
  <2>1. SUFFICES ASSUME y \notin Transfers PROVE FALSE
    OBVIOUS
  <2>2. PICK z \in S : Awaits(y, z)
    OBVIOUS
  <2>3. job[y].pc = "credit"
    BY <1>1, <2>1, <2>2 DEF Awaits
  <2>4. Held(y) = {}
    BY <2>1, <2>3 DEF Held, HeldByJob
  <2> QED
    BY <1>2, <2>1, <2>4 DEF Awaits
<1>4. ASSUME x \in Transfers PROVE WaitsFor(x, y)
  <2>1. PICK z \in S : Awaits(y, z)
    OBVIOUS
  <2>2. x \notin Workers /\ y \notin Workers
    BY <1>3, <1>4, RepoAssumption DEF RepoAssumption
  <2>3. call[y].pc # "commit"
    BY <2>1, <2>2 DEF Awaits
  <2>4. Held(y) = HeldByTransfer(y)
    BY <1>3 DEF Held
  <2> QED
    BY <1>2, <2>2, <2>3, <2>4 DEF Awaits, WaitsFor
<1> QED
  BY <1>2, <1>3, <1>4

(* So a smallest set of transfers that only wait for each other is a cycle.*)
LEMMA StandstillVictim ==
  ASSUME TypeInv, IsFiniteSet(Transfers), NEW S \in SUBSET Sessions, Stuck(S)
  PROVE  \E t \in S \cap Transfers : Deadlocked(t)
<1> DEFINE Closed(C) == C # {} /\ \A x \in C : \E y \in C : WaitsFor(x, y)
           T == S \cap Transfers
           Sizes == {Cardinality(C) : C \in {D \in SUBSET T : Closed(D)}}
<1>1. \A x \in S : \E y \in T : x \in Transfers => WaitsFor(x, y)
  BY WaitEndsInTransfer DEF Stuck
<1>2. T # {}
  BY <1>1 DEF Stuck
<1>3. Closed(T)
  BY <1>1, <1>2
<1>4. \A C \in SUBSET T : IsFiniteSet(C) /\ Cardinality(C) \in Nat
  BY FS_Subset, FS_CardinalityType
<1>5. Sizes \subseteq Nat /\ Sizes # {}
  BY <1>3, <1>4
<1>6. PICK C \in SUBSET T : Closed(C) /\ \A D \in SUBSET T : Closed(D) => Cardinality(C) <= Cardinality(D)
  <2> HIDE DEF Sizes, Closed, T
  <2>1. PICK n \in Sizes : \A m \in Sizes : n <= m
    BY <1>5, LeastOf
  <2>2. PICK C \in SUBSET T : Closed(C) /\ n = Cardinality(C)
    BY <2>1 DEF Sizes
  <2>3. \A D \in SUBSET T : Closed(D) => Cardinality(D) \in Sizes
    BY DEF Sizes
  <2> QED
    BY <2>1, <2>2, <2>3
<1>7. ASSUME NEW y \in C
      PROVE  \E x \in C : WaitsFor(x, y)
  <2>1. SUFFICES ASSUME \A x \in C : ~WaitsFor(x, y) PROVE FALSE
    OBVIOUS
  <2>2. Closed(C \ {y})
    BY <1>6, <2>1
  <2>3. C \ {y} \in SUBSET T
    OBVIOUS
  <2>4. Cardinality(C) <= Cardinality(C \ {y})
    BY <1>6, <2>2, <2>3
  <2>5. Cardinality(C \ {y}) = Cardinality(C) - 1 /\ Cardinality(C) \in Nat
    BY <1>4, FS_RemoveElement
  <2> QED
    BY <2>4, <2>5
<1>8. PICK t \in C : TRUE
  BY <1>6
<1> QED
  BY <1>6, <1>7, <1>8 DEF Deadlocked

(* Why Deadlocked may look at transfers alone, while Postgres looks at     *)
(* every wait: the order in which the jobs take their rows, and the place  *)
(* of the INSERTs after the UPDATEs, leave no standstill in which a cycle  *)
(* of transfers is not the cause, for any number of workers and transfers. *)
THEOREM StandstillsHaveVictims ==
  ASSUME IsFiniteSet(Transfers)
  PROVE  RepoSpec => []StandstillHasVictim
<1>1. MoneyInv => StandstillHasVictim
  BY StandstillVictim DEF MoneyInv, StandstillHasVictim
<1> QED
  BY MoneyAlways, <1>1, PTL
=============================================================================
