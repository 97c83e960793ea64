------------------------------ MODULE BookProofs ------------------------------
(***************************************************************************)
(* Proofs about what the rows of the transactions table say: with the      *)
(* deposits that are paid they add up to the balances, and the answers of  *)
(* TransferFunds are true of them.                                         *)
(***************************************************************************)
EXTENDS WalletBooks, PipelineProofs

(* Sums over finite sets.                                                  *)

First(T) == CHOOSE x \in T : TRUE

SumStep(f, g, T) == IF T = {} THEN 0 ELSE f[First(T)] + g[T \ {First(T)}]

(* The function that the definition of SumFunctionOnSet chooses.           *)
SumOn(f, S) == CHOOSE g : g = [T \in SUBSET S |-> SumStep(f, g, T)]

LEMMA SumIs ==
  ASSUME NEW f, NEW S
  PROVE  SumFunctionOnSet(f, S) = SumOn(f, S)[S]
  BY DEF SumFunctionOnSet, FoldFunctionOnSet, MapThenFoldSet, SumOn, SumStep, First

LEMMA FirstIs ==
  ASSUME NEW S, IsFiniteSet(S), NEW T \in SUBSET S, T # {}
  PROVE  /\ First(T) \in T
         /\ T \ {First(T)} \in SUBSET S
         /\ Cardinality(T) \in Nat
         /\ Cardinality(T \ {First(T)}) = Cardinality(T) - 1
<1>1. First(T) \in T
  BY DEF First
<1>2. IsFiniteSet(T) /\ Cardinality(T) \in Nat
  BY FS_Subset, FS_CardinalityType
<1> QED
  BY <1>1, <1>2, FS_RemoveElement

(* There is such a function: by the number of elements of its arguments.   *)
LEMMA SumExists ==
  ASSUME NEW f, NEW S, IsFiniteSet(S)
  PROVE  \A T \in SUBSET S : SumOn(f, S)[T] = SumStep(f, SumOn(f, S), T)
<1> DEFINE Small(k) == {T \in SUBSET S : Cardinality(T) <= k}
           Sums(g, k) == g = [T \in Small(k) |-> SumStep(f, g, T)]
           Bad == {k \in Nat : ~ \E g : Sums(g, k)}
<1>a. \A T \in SUBSET S : IsFiniteSet(T) /\ Cardinality(T) \in Nat /\ Cardinality(T) <= Cardinality(S)
  BY FS_Subset, FS_CardinalityType
<1>1. \E g : Sums(g, 0)
  <2>1. \A T \in Small(0) : T = {}
    BY <1>a, FS_EmptySet
  <2>2. Sums([T \in Small(0) |-> 0], 0)
    BY <2>1 DEF SumStep
  <2> QED
    BY <2>2
<1>2. ASSUME NEW k \in Nat, NEW g, Sums(g, k) PROVE \E h : Sums(h, k + 1)
  <2> DEFINE h == [T \in Small(k + 1) |-> SumStep(f, g, T)]
  <2>1. Small(k) \subseteq Small(k + 1)
    BY <1>a
  <2>2. \A T \in Small(k) : h[T] = g[T]
    <3>1. \A T \in Small(k) : g[T] = SumStep(f, g, T)
      BY <1>2
    <3> QED
      BY <2>1, <3>1
  <2>3. \A T \in Small(k + 1) : SumStep(f, g, T) = SumStep(f, h, T)
    <3> TAKE T \in Small(k + 1)
    <3>1. CASE T = {}
      BY <3>1 DEF SumStep
    <3>2. CASE T # {}
      <4>1. T \ {First(T)} \in Small(k)
        BY <3>2, FirstIs
      <4> QED
        BY <2>2, <3>2, <4>1 DEF SumStep
    <3> QED
      BY <3>1, <3>2
  <2>4. Sums(h, k + 1)
    BY <2>3
  <2> QED
    BY <2>4
<1>3. Bad = {}
  <2> HIDE DEF Sums
  <2> SUFFICES ASSUME Bad # {} PROVE FALSE
    OBVIOUS
  <2>1. PICK k \in Bad : \A m \in Bad : k <= m
    BY LeastOf
  <2>2. k # 0
    BY <1>1
  <2>3. k - 1 \in Nat /\ k - 1 \notin Bad
    BY <2>1, <2>2
  <2>4. PICK g : Sums(g, k - 1)
    BY <2>3
  <2>5. \E h : Sums(h, (k - 1) + 1)
    BY <1>2, <2>3, <2>4
  <2> QED
    BY <2>1, <2>5
<1>4. Cardinality(S) \in Nat
  BY FS_CardinalityType
<1>5. PICK g : Sums(g, Cardinality(S))
  BY <1>3, <1>4
<1>6. Small(Cardinality(S)) = SUBSET S
  BY <1>a
<1>7. g = [T \in SUBSET S |-> SumStep(f, g, T)]
  BY <1>5, <1>6
<1>8. SumOn(f, S) = [T \in SUBSET S |-> SumStep(f, SumOn(f, S), T)]
  BY <1>7 DEF SumOn
<1> QED
  BY <1>8

LEMMA SumOnIs ==
  ASSUME NEW f, NEW S, IsFiniteSet(S), NEW T \in SUBSET S
  PROVE  SumOn(f, S)[T] = IF T = {} THEN 0 ELSE f[First(T)] + SumOn(f, S)[T \ {First(T)}]
<1>1. SumOn(f, S)[T] = SumStep(f, SumOn(f, S), T)
  BY SumExists
<1> QED
  BY <1>1 DEF SumStep

(* A sum only depends on the values of its members.                        *)
LEMMA SumOnSame ==
  ASSUME NEW f, NEW g, NEW S, NEW R, IsFiniteSet(S), IsFiniteSet(R),
         NEW U \in SUBSET S, U \subseteq R, \A x \in U : f[x] = g[x]
  PROVE  SumOn(f, S)[U] = SumOn(g, R)[U]
<1> DEFINE Same(T) == SumOn(f, S)[T] = SumOn(g, R)[T]
           Bad == {T \in SUBSET U : ~Same(T)}
           Sizes == {Cardinality(T) : T \in Bad}
<1>1. ASSUME Bad # {} PROVE FALSE
  <2>1. Sizes # {} /\ Sizes \subseteq Nat
    BY <1>1, FS_Subset, FS_CardinalityType
  <2>2. PICK n \in Sizes : \A m \in Sizes : n <= m
    <3> HIDE DEF Sizes
    <3> QED
      BY <2>1, LeastOf
  <2>3. PICK T \in Bad : n = Cardinality(T)
    BY <2>2
  <2>4. T \in SUBSET S /\ T \in SUBSET R /\ T \subseteq U
    BY <2>3
  <2>5. /\ SumOn(f, S)[T] = IF T = {} THEN 0 ELSE f[First(T)] + SumOn(f, S)[T \ {First(T)}]
        /\ SumOn(g, R)[T] = IF T = {} THEN 0 ELSE g[First(T)] + SumOn(g, R)[T \ {First(T)}]
    <3> HIDE DEF Bad, Sizes
    <3>1. SumOn(f, S)[T] = IF T = {} THEN 0 ELSE f[First(T)] + SumOn(f, S)[T \ {First(T)}]
      BY <2>4, SumOnIs
    <3>2. SumOn(g, R)[T] = IF T = {} THEN 0 ELSE g[First(T)] + SumOn(g, R)[T \ {First(T)}]
      BY <2>4, SumOnIs
    <3> QED
      BY <3>1, <3>2
  <2>6. T # {}
    BY <2>3, <2>5
  <2>7. /\ First(T) \in T /\ T \ {First(T)} \in SUBSET U
        /\ Cardinality(T) \in Nat /\ Cardinality(T \ {First(T)}) = Cardinality(T) - 1
    BY <2>4, <2>6, FirstIs
  <2>8. Cardinality(T \ {First(T)}) \notin Sizes
    <3>1. \A m \in Sizes : ~(m < n)
      <4> HIDE DEF Sizes
      <4> QED
        BY <2>1, <2>2
    <3>2. Cardinality(T \ {First(T)}) < n
      BY <2>3, <2>7
    <3> QED
      BY <3>1, <3>2
  <2>9. Same(T \ {First(T)})
    BY <2>7, <2>8
  <2> QED
    BY <2>3, <2>4, <2>5, <2>6, <2>7, <2>9
<1> QED
  BY <1>1

(* Any member may be added last.                                           *)
LEMMA SumOnAny ==
  ASSUME NEW f, NEW S, IsFiniteSet(S), \A x \in S : f[x] \in Int
  PROVE  \A T \in SUBSET S :
           /\ SumOn(f, S)[T] \in Int
           /\ \A x \in T : SumOn(f, S)[T] = SumOn(f, S)[T \ {x}] + f[x]
<1> DEFINE g == SumOn(f, S)
           Any(T) == g[T] \in Int /\ \A x \in T : g[T] = g[T \ {x}] + f[x]
           Bad == {T \in SUBSET S : ~Any(T)}
           Sizes == {Cardinality(T) : T \in Bad}
<1>a. \A T \in SUBSET S : g[T] = IF T = {} THEN 0 ELSE f[First(T)] + g[T \ {First(T)}]
  BY SumOnIs
<1> HIDE DEF g
<1>1. ASSUME Bad # {} PROVE FALSE
  <2>1. Sizes # {} /\ Sizes \subseteq Nat
    <3> HIDE DEF Any
    <3> QED
      BY <1>1, FS_Subset, FS_CardinalityType
  <2>2. PICK n \in Sizes : \A m \in Sizes : n <= m
    <3> HIDE DEF Sizes
    <3> QED
      BY <2>1, LeastOf
  <2>3. PICK T \in Bad : n = Cardinality(T)
    <3> HIDE DEF Any
    <3> QED
      BY <2>2
  <2>4. ASSUME NEW U \in SUBSET S, Cardinality(U) < n PROVE Any(U)
    <3>1. \A m \in Sizes : ~(m < n)
      <4> HIDE DEF Sizes
      <4> QED
        BY <2>1, <2>2
    <3>2. U \notin Bad
      <4> HIDE DEF Any
      <4> QED
        BY <2>4, <3>1
    <3> QED
      BY <3>2
  <2>5. T # {}
    <3>1. SUFFICES ASSUME T = {} PROVE FALSE
      OBVIOUS
    <3>2. g[T] = 0
      BY <1>a, <3>1
    <3>3. Any(T)
      BY <3>1, <3>2
    <3> QED
      BY <2>3, <3>3
  <2>6. ASSUME NEW x \in T
        PROVE  /\ IsFiniteSet(T) /\ Cardinality(T) = n /\ n \in Nat
               /\ T \ {x} \in SUBSET S /\ Cardinality(T \ {x}) < n
    <3>1. T \in SUBSET S /\ Cardinality(T) = n
      BY <2>3
    <3>2. IsFiniteSet(T) /\ Cardinality(T) \in Nat
      BY <3>1, FS_Subset, FS_CardinalityType
    <3>3. Cardinality(T \ {x}) = Cardinality(T) - 1
      BY <3>2, FS_RemoveElement
    <3> QED
      BY <3>1, <3>2, <3>3
  <2> DEFINE y == First(T)
  <2>7. y \in T /\ g[T] = f[y] + g[T \ {y}]
    BY <1>a, <2>3, <2>5, FirstIs
  <2> HIDE DEF y
  <2>8. Any(T \ {y})
    BY <2>4, <2>6, <2>7
  <2>9. ASSUME NEW x \in T, x # y PROVE g[T] = g[T \ {x}] + f[x]
    <3>1. Any(T \ {x})
      BY <2>4, <2>6
    <3>2. g[T \ {x}] = g[(T \ {x}) \ {y}] + f[y]
      BY <2>7, <2>9, <3>1
    <3>3. g[T \ {y}] = g[(T \ {y}) \ {x}] + f[x]
      BY <2>8, <2>9
    <3>4. (T \ {x}) \ {y} = (T \ {y}) \ {x}
      OBVIOUS
    <3>5. /\ g[T \ {y}] \in Int /\ g[T \ {x}] \in Int /\ f[x] \in Int /\ f[y] \in Int
          /\ g[(T \ {y}) \ {x}] \in Int
      <4>1. (T \ {y}) \ {x} \in SUBSET S /\ Cardinality((T \ {y}) \ {x}) < n
        <5>1. IsFiniteSet(T \ {y}) /\ Cardinality(T \ {y}) \in Nat /\ Cardinality(T \ {y}) < n
          BY <2>6, <2>7, FS_RemoveElement, FS_CardinalityType
        <5>2. Cardinality((T \ {y}) \ {x}) = Cardinality(T \ {y}) - 1
          BY <2>9, <5>1, FS_RemoveElement
        <5> QED
          BY <2>3, <2>6, <2>7, <5>1, <5>2
      <4>2. Any((T \ {y}) \ {x})
        BY <2>4, <4>1
      <4> QED
        BY <2>3, <2>7, <2>8, <2>9, <3>1, <4>2
    <3> QED
      BY <2>7, <3>2, <3>3, <3>4, <3>5
  <2>10. g[T] \in Int
    BY <2>3, <2>7, <2>8
  <2>11. g[T] = g[T \ {y}] + f[y]
    BY <2>3, <2>7, <2>8
  <2>12. Any(T)
    BY <2>9, <2>10, <2>11
  <2> QED
    BY <2>3, <2>12
<1>2. Bad = {}
  BY <1>1
<1>3. \A T \in SUBSET S : Any(T)
  <2> HIDE DEF Any
  <2> QED
    BY <1>2
<1> QED
  BY <1>3 DEF g

LEMMA SumEmpty == \A f : SumFunctionOnSet(f, {}) = 0
<1> TAKE f
<1>1. SumOn(f, {})[{}] = 0
  BY SumOnIs, FS_EmptySet
<1> QED
  BY <1>1, SumIs

LEMMA SumSame ==
  ASSUME NEW f, NEW g, NEW S, IsFiniteSet(S), \A x \in S : f[x] = g[x]
  PROVE  SumFunctionOnSet(f, S) = SumFunctionOnSet(g, S)
  BY SumIs, SumOnSame

LEMMA SumInt ==
  ASSUME NEW f, NEW S, IsFiniteSet(S), \A x \in S : f[x] \in Int
  PROVE  SumFunctionOnSet(f, S) \in Int
  BY SumIs, SumOnAny

LEMMA SumAdds ==
  ASSUME NEW f, NEW S, IsFiniteSet(S), NEW x, x \notin S, \A y \in S \cup {x} : f[y] \in Int
  PROVE  SumFunctionOnSet(f, S \cup {x}) = SumFunctionOnSet(f, S) + f[x]
<1> DEFINE T == S \cup {x}
<1>1. IsFiniteSet(T) /\ S \in SUBSET T /\ S \subseteq S /\ x \in T /\ T \ {x} = S
  BY FS_AddElement
<1>2. SumOn(f, T)[T] = SumOn(f, T)[T \ {x}] + f[x]
  <2>1. (\A y \in T : f[y] \in Int) /\ T \in SUBSET T
    OBVIOUS
  <2> HIDE DEF T
  <2>2. \A U \in SUBSET T :
          /\ SumOn(f, T)[U] \in Int
          /\ \A y \in U : SumOn(f, T)[U] = SumOn(f, T)[U \ {y}] + f[y]
    BY <1>1, <2>1, SumOnAny
  <2> QED
    BY <1>1, <2>2
<1>3. SumOn(f, T)[S] = SumOn(f, S)[S]
  BY <1>1, SumOnSame
<1> QED
  BY <1>1, <1>2, <1>3, SumIs
-----------------------------------------------------------------------------
(* Charges.  With exact charges a job carries the amount of a row that     *)
(* exists, and this amount does not change.                                *)

USE DEF DepositRow, Statuses, TransferCall, TransferPC, Answers, WorkerJob, JobPC, Kinds, Results

AbsentIsEmpty == \A d \in Deposits : deposits[d].status = "ABSENT" => deposits[d].amount = 0

ChargesExact ==
  \A k \in Workers :
    job[k].pc # "idle" =>
      /\ job[k].deposit \in Deposits
      /\ deposits[job[k].deposit].status # "ABSENT"
      /\ job[k].amount = deposits[job[k].deposit].amount

ChargeInv == AbsentIsEmpty /\ ChargesExact

(* Rows come into being once, with an amount that they keep.               *)
LEMMA ChargeKept ==
  ASSUME ChargeInv, job' = job \/ \A k \in Workers : job'[k].pc = "idle",
         \A d \in Deposits : \/ deposits'[d] = deposits[d]
                             \/ deposits[d].status = "ABSENT" /\ deposits'[d].status # "ABSENT"
  PROVE  ChargeInv'
<1> USE DEF ChargeInv, AbsentIsEmpty, ChargesExact
<1>1. AbsentIsEmpty'
  BY DEF AbsentIsEmpty
<1>2. ASSUME NEW k \in Workers, job' = job, job[k].pc # "idle"
      PROVE  /\ job[k].deposit \in Deposits
             /\ deposits'[job[k].deposit] = deposits[job[k].deposit]
  BY <1>2
<1>3. CASE job' = job
  BY <1>1, <1>2, <1>3
<1>4. CASE \A k \in Workers : job'[k].pc = "idle"
  BY <1>1, <1>4
<1> QED
  BY <1>3, <1>4

LEMMA ChargeJobStep ==
  ASSUME ExactCharges, TypeInv, ChargeInv, NEW k \in Workers, TakeEvent(k) \/ JobStep(k)
  PROVE  ChargeInv'
<1> USE DEF ChargeInv, AbsentIsEmpty, ChargesExact
<1>a. /\ job \in [Workers -> WorkerJob] /\ deposits \in [Deposits -> DepositRow]
  BY DEF TypeInv, TypeOK
<1>1. ASSUME NEW j, job' = [job EXCEPT ![k] = j],
             \A d \in Deposits : /\ deposits'[d].amount = deposits[d].amount
                                 /\ deposits'[d].status = "ABSENT" <=> deposits[d].status = "ABSENT",
             /\ j.deposit \in Deposits
             /\ deposits[j.deposit].status # "ABSENT"
             /\ j.amount = deposits[j.deposit].amount
      PROVE  ChargeInv'
  <2>1. job'[k] = j /\ \A m \in Workers \ {k} : job'[m] = job[m]
    BY <1>a, <1>1
  <2> QED
    BY <1>1, <2>1
<1>2. CASE TakeEvent(k)
  <2>1. PICK kind \in Kinds, d \in Deposits, a \in Payable :
          a = deposits[d].amount /\ StartJob(k, kind, d, a)
    BY <1>2 DEF TakeEvent
  <2>2. deposits[d].status # "ABSENT"
    BY <2>1, RepoAssumption DEF Payable
  <2> QED
    BY <1>1, <2>1, <2>2 DEF StartJob, JobAt
<1>3. ASSUME NEW pc, NEW after, NEW result, job[k].pc # "idle",
             job' = [job EXCEPT ![k] = JobAt(pc, @, after, result)],
             \A d \in Deposits : /\ deposits'[d].amount = deposits[d].amount
                                 /\ deposits'[d].status = "ABSENT" <=> deposits[d].status = "ABSENT"
      PROVE  ChargeInv'
  <2> DEFINE j == JobAt(pc, job[k], after, result)
  <2>1. j.deposit = job[k].deposit /\ j.amount = job[k].amount
    BY DEF JobAt
  <2>2. job' = [job EXCEPT ![k] = j]
    BY <1>3
  <2> HIDE DEF j
  <2> QED
    BY <1>1, <1>3, <2>1, <2>2
<1>4. CASE ReadTransaction(k)
  BY <1>3, <1>4 DEF ReadTransaction, Return
<1>5. CASE CreditWallet(k)
  BY <1>3, <1>5 DEF CreditWallet, Return
<1>6. CASE MarkTransaction(k)
  BY <1>3, <1>6 DEF MarkTransaction
<1>7. CASE JobError(k)
  BY <1>3, <1>7 DEF JobError, Return
<1>8. CASE CommitJob(k)
  <2>1. PICK status \in {"SUCCESS", "FAILED"} :
          deposits' = [deposits EXCEPT ![job[k].deposit] = WithStatus(@, status)]
    BY <1>8 DEF CommitJob
  <2>2. job[k].deposit \in Deposits /\ deposits[job[k].deposit].status # "ABSENT"
    BY <1>8 DEF CommitJob
  <2>3. \A d \in Deposits : /\ deposits'[d].amount = deposits[d].amount
                            /\ deposits'[d].status = "ABSENT" <=> deposits[d].status = "ABSENT"
    BY <1>a, <2>1, <2>2 DEF WithStatus
  <2>4. PICK r \in Results : job' = [job EXCEPT ![k] = JobAt("returned", @, 0, r)]
    BY <1>8 DEF CommitJob, Return
  <2>5. job[k].pc # "idle"
    BY <1>8 DEF CommitJob
  <2> QED
    BY <1>3, <2>3, <2>4, <2>5
<1> QED
  BY <1>2, <1>4, <1>5, <1>6, <1>7, <1>8 DEF JobStep

LEMMA ChargeOtherStep ==
  ASSUME TypeInv, ChargeInv,
         \/ \E t \in Transfers : RequestTransfer(t) \/ TransferStep(t)
         \/ RegisterDeposit \/ Crash \/ UNCHANGED repoVars
  PROVE  ChargeInv'
<1>1. CASE UNCHANGED <<deposits, job>>
  BY <1>1, ChargeKept
<1>2. CASE RegisterDeposit
  <2>1. PICK d \in Deposits, w \in Wallets, a \in Payable : CreateTransaction(d, w, a)
    BY <1>2 DEF RegisterDeposit
  <2>2. deposits \in [Deposits -> DepositRow]
    BY DEF TypeInv, TypeOK
  <2> QED
    BY <2>1, <2>2, ChargeKept DEF CreateTransaction
<1>3. CASE Crash
  BY <1>3, ChargeKept DEF Crash, CrashRepo, NoJob
<1>4. ASSUME NEW t \in Transfers, RequestTransfer(t) \/ TransferStep(t)
      PROVE  UNCHANGED <<deposits, job>>
  BY <1>4 DEF RequestTransfer, TransferRequest, TransferStep, DebitSender, InsufficientBalance,
     CreditRecipient, InsertRecords, CommitTransfer, AnswerTransfer, TransferError, DeadlockVictim
<1> QED
  BY <1>1, <1>2, <1>3, <1>4 DEF repoVars
-----------------------------------------------------------------------------
(* The books.  A commit adds rows that the sums did not have, with the     *)
(* amounts by which it changes the balances.                               *)

BooksInv ==
  /\ IsFiniteSet(entries)
  /\ \A w \in Wallets : IsFiniteSet(PaidRows(w))
  /\ BalanceMatchesLedger

LEMMA EntryAmountIs ==
  ASSUME NEW e \in LedgerEntry
  PROVE  EntryAmount[e] = e.amount /\ e.amount \in Int
<1>1. e.amount \in Payable
  BY DEF LedgerEntry
<1>2. Payable \subseteq Int
  BY RepoAssumption DEF Payable
<1> QED
  BY <1>1, <1>2 DEF EntryAmount

LEMMA PostedInt ==
  ASSUME TypeOK, IsFiniteSet(entries), NEW w, NEW leg
  PROVE  Posted(w, leg) \in Int
<1>1. PostedRows(w, leg) \subseteq entries /\ IsFiniteSet(PostedRows(w, leg))
  BY FS_Subset DEF PostedRows
<1>2. \A e \in PostedRows(w, leg) : EntryAmount[e] \in Int
  BY <1>1, EntryAmountIs DEF TypeOK
<1> QED
  BY <1>1, <1>2, SumInt DEF Posted

LEMMA PaidInt ==
  ASSUME TypeOK, NEW w, IsFiniteSet(PaidRows(w))
  PROVE  Paid(w) \in Int
<1>1. \A d \in PaidRows(w) : DepositAmount[d] \in Int
  BY DEF TypeOK, PaidRows, DepositAmount
<1> QED
  BY <1>1, SumInt DEF Paid

(* A row posted to a leg of a wallet adds its amount there.                *)
LEMMA PostedAdds ==
  ASSUME TypeOK, IsFiniteSet(entries), NEW w, NEW leg,
         NEW e \in LedgerEntry, e \notin entries, NEW other, 
         other.wallet # w \/ other.leg # leg,
         entries' = entries \cup {e, other}
  PROVE  Posted(w, leg)' = IF e.wallet = w /\ e.leg = leg
                             THEN Posted(w, leg) + e.amount ELSE Posted(w, leg)
<1>1. PostedRows(w, leg)' = IF e.wallet = w /\ e.leg = leg
                              THEN PostedRows(w, leg) \cup {e} ELSE PostedRows(w, leg)
  BY DEF PostedRows
<1>2. EntryAmount' = EntryAmount
  BY DEF EntryAmount
<1>3. PostedRows(w, leg) \subseteq entries /\ IsFiniteSet(PostedRows(w, leg))
  BY FS_Subset DEF PostedRows
<1>4. \A x \in PostedRows(w, leg) \cup {e} : EntryAmount[x] \in Int
  BY <1>3, EntryAmountIs DEF TypeOK
<1>5. SumFunctionOnSet(EntryAmount, PostedRows(w, leg) \cup {e})
        = SumFunctionOnSet(EntryAmount, PostedRows(w, leg)) + EntryAmount[e]
  BY <1>3, <1>4, SumAdds
<1>6. EntryAmount[e] = e.amount
  BY EntryAmountIs
<1> QED
  BY <1>1, <1>2, <1>5, <1>6 DEF Posted

LEMMA BooksTransfer ==
  ASSUME RepoInv, BooksInv, NEW t \in Transfers, CommitTransfer(t)
  PROVE  BooksInv'
<1> DEFINE from == call[t].from
           to == call[t].to
           a == call[t].amount
           debit == Entry(call[t].ref, "debit", from, a)
           credit == Entry(call[t].ref, "credit", to, a)
<1>1. Ledger!Transfer(from, to, a, call[t].ref)
  BY CommitTransferRefines
<1>2. TypeOK /\ Checked(call[t])
  BY DEF CommitTransfer, RepoInv, MoneyInv, TypeInv, CallsChecked, InTransfer
<1>3. /\ from \in Wallets /\ to \in Wallets /\ from # to /\ a \in Payable /\ a \in Int
      /\ call[t].ref \in References
  BY <1>2, RepoAssumption DEF Checked, Payable
<1>4. /\ balance' = [balance EXCEPT ![from] = @ - a, ![to] = @ + a]
      /\ entries' = entries \cup {debit, credit}
      /\ debit \notin entries /\ credit \notin entries
      /\ UNCHANGED deposits
  BY <1>1 DEF Ledger!Transfer, Ledger!Entry, Entry
<1>5. /\ debit \in LedgerEntry /\ debit.wallet = from /\ debit.leg = "debit" /\ debit.amount = a
      /\ credit \in LedgerEntry /\ credit.wallet = to /\ credit.leg = "credit" /\ credit.amount = a
  BY <1>3 DEF Entry, LedgerEntry
<1> HIDE DEF debit, credit, from, to, a
<1>6. IsFiniteSet(entries) /\ IsFiniteSet(entries')
  <2>1. entries' = (entries \cup {debit}) \cup {credit}
    BY <1>4
  <2> QED
    BY <2>1, FS_AddElement DEF BooksInv
<1>7. ASSUME NEW w \in Wallets
      PROVE  /\ Posted(w, "debit")' = IF w = from THEN Posted(w, "debit") + a ELSE Posted(w, "debit")
             /\ Posted(w, "credit")' = IF w = to THEN Posted(w, "credit") + a ELSE Posted(w, "credit")
  <2>1. entries' = entries \cup {credit, debit}
    BY <1>4
  <2>2. Posted(w, "debit")' = IF w = from THEN Posted(w, "debit") + a ELSE Posted(w, "debit")
    BY <1>2, <1>4, <1>5, <1>6, PostedAdds
  <2>3. Posted(w, "credit")' = IF w = to THEN Posted(w, "credit") + a ELSE Posted(w, "credit")
    BY <1>2, <1>4, <1>5, <1>6, <2>1, PostedAdds
  <2> QED
    BY <2>2, <2>3
<1>8. \A w \in Wallets : PaidRows(w)' = PaidRows(w) /\ Paid(w)' = Paid(w)
  BY <1>4 DEF PaidRows, Paid, DepositAmount
<1>9. ASSUME NEW w \in Wallets
      PROVE  balance'[w] = Opening[w] + Paid(w)' + Posted(w, "credit")' - Posted(w, "debit")'
  <2>1. balance[w] = Opening[w] + Paid(w) + Posted(w, "credit") - Posted(w, "debit")
    BY DEF BooksInv, BalanceMatchesLedger
  <2>2. /\ Posted(w, "credit") \in Int /\ Posted(w, "debit") \in Int /\ Paid(w) \in Int
        /\ Opening[w] \in Int /\ balance \in [Wallets -> Int]
    BY <1>2, <1>6, PostedInt, PaidInt, RepoAssumption DEF BooksInv, TypeOK
  <2>3. balance'[w] = balance[w] - (IF w = from THEN a ELSE 0) + (IF w = to THEN a ELSE 0)
    BY <1>3, <1>4, <2>2
  <2> QED
    BY <1>3, <1>7, <1>8, <2>1, <2>2, <2>3
<1> QED
  BY <1>6, <1>8, <1>9 DEF BooksInv, BalanceMatchesLedger

(* A change of a deposit's row to anything but SUCCESS.                    *)
LEMMA BooksRow ==
  ASSUME BooksInv, TypeOK, TypeOK', NEW d \in Deposits, NEW row,
         deposits[d].status # "SUCCESS", row.status # "SUCCESS",
         deposits' = [deposits EXCEPT ![d] = row], UNCHANGED <<balance, entries>>
  PROVE  BooksInv'
<1>1. \A w : PaidRows(w)' = PaidRows(w)
  BY DEF PaidRows, TypeOK
<1>2. \A w : \A x \in PaidRows(w) : DepositAmount'[x] = DepositAmount[x]
  BY DEF PaidRows, DepositAmount, TypeOK
<1>3. \A w \in Wallets : Paid(w)' = Paid(w)
  <2> TAKE w \in Wallets
  <2>1. IsFiniteSet(PaidRows(w))
    BY DEF BooksInv
  <2>2. SumFunctionOnSet(DepositAmount', PaidRows(w)) = SumFunctionOnSet(DepositAmount, PaidRows(w))
    BY <1>2, <2>1, SumSame
  <2> QED
    BY <1>1, <2>2 DEF Paid
<1>4. \A w, leg : Posted(w, leg)' = Posted(w, leg)
  BY DEF Posted, PostedRows, EntryAmount
<1> QED
  BY <1>1, <1>3, <1>4 DEF BooksInv, BalanceMatchesLedger

(* The COMMIT of a deposit's payment, which is charged exactly.            *)
LEMMA BooksSettle ==
  ASSUME RepoInv, BooksInv, TypeOK', NEW d \in Deposits, deposits[d].status # "ABSENT",
         Ledger!Settle(d, deposits[d].amount)
  PROVE  BooksInv'
<1> DEFINE to == deposits[d].wallet
           a == deposits[d].amount
<1>1. TypeOK /\ to \in Wallets /\ a \in Int
  BY DEF RepoInv, MoneyInv, TypeInv, RowsOwned, TypeOK
<1>2. /\ deposits[d].status # "SUCCESS"
      /\ balance' = [balance EXCEPT ![to] = @ + a]
      /\ deposits' = [deposits EXCEPT ![d] = Ledger!WithStatus(@, "SUCCESS")]
      /\ UNCHANGED entries
  BY DEF Ledger!Settle
<1>3. /\ deposits'[d].status = "SUCCESS" /\ deposits'[d].wallet = to /\ deposits'[d].amount = a
      /\ \A x \in Deposits \ {d} : deposits'[x] = deposits[x]
  BY <1>1, <1>2 DEF Ledger!WithStatus, TypeOK
<1>4. \A w \in Wallets : /\ PaidRows(w)' = IF w = to THEN PaidRows(w) \cup {d} ELSE PaidRows(w)
                         /\ d \notin PaidRows(w)
  BY <1>2, <1>3 DEF PaidRows
<1>5. DepositAmount' = DepositAmount
  BY <1>3 DEF DepositAmount
<1> HIDE DEF to, a
<1>6. ASSUME NEW w \in Wallets
      PROVE  /\ IsFiniteSet(PaidRows(w)')
             /\ Paid(w)' = IF w = to THEN Paid(w) + a ELSE Paid(w)
  <2>1. IsFiniteSet(PaidRows(w))
    BY DEF BooksInv
  <2>2. \A x \in PaidRows(w) \cup {d} : DepositAmount[x] \in Int
    BY <1>1 DEF DepositAmount, PaidRows, TypeOK
  <2>3. SumFunctionOnSet(DepositAmount, PaidRows(w) \cup {d})
          = SumFunctionOnSet(DepositAmount, PaidRows(w)) + DepositAmount[d]
    BY <1>4, <2>1, <2>2, SumAdds
  <2>4. DepositAmount[d] = a
    BY DEF DepositAmount, a
  <2>5. IsFiniteSet(PaidRows(w) \cup {d})
    BY <2>1, FS_AddElement
  <2> QED
    BY <1>4, <1>5, <2>1, <2>3, <2>4, <2>5 DEF Paid
<1>7. \A w, leg : Posted(w, leg)' = Posted(w, leg)
  BY <1>2 DEF Posted, PostedRows, EntryAmount
<1>8. ASSUME NEW w \in Wallets
      PROVE  balance'[w] = Opening[w] + Paid(w)' + Posted(w, "credit")' - Posted(w, "debit")'
  <2>1. balance[w] = Opening[w] + Paid(w) + Posted(w, "credit") - Posted(w, "debit")
    BY DEF BooksInv, BalanceMatchesLedger
  <2>2. /\ Posted(w, "credit") \in Int /\ Posted(w, "debit") \in Int /\ Paid(w) \in Int
        /\ Opening[w] \in Int /\ balance \in [Wallets -> Int]
    BY <1>1, PostedInt, PaidInt, RepoAssumption DEF BooksInv, TypeOK
  <2>3. balance'[w] = IF w = to THEN balance[w] + a ELSE balance[w]
    BY <1>1, <1>2, <2>2
  <2> QED
    BY <1>1, <1>6, <1>7, <2>1, <2>2, <2>3
<1>9. IsFiniteSet(entries')
  BY <1>2 DEF BooksInv
<1> QED
  BY <1>6, <1>8, <1>9 DEF BooksInv, BalanceMatchesLedger

LEMMA BooksJob ==
  ASSUME RepoInv, ChargeInv, BooksInv, TypeOK', NEW k \in Workers, CommitJob(k)
  PROVE  BooksInv'
<1>1. /\ job[k].deposit \in Deposits
      /\ deposits[job[k].deposit].status # "ABSENT"
      /\ job[k].amount = deposits[job[k].deposit].amount
  BY DEF CommitJob, ChargeInv, ChargesExact
<1>2. CASE Ledger!Settle(job[k].deposit, job[k].amount)
  BY <1>1, <1>2, BooksSettle
<1>3. CASE Ledger!Decline(job[k].deposit)
  <2>1. /\ deposits[job[k].deposit].status # "SUCCESS"
        /\ deposits' = [deposits EXCEPT ![job[k].deposit] = Ledger!WithStatus(@, "FAILED")]
        /\ UNCHANGED <<balance, entries>>
    BY <1>3 DEF Ledger!Decline
  <2> DEFINE row == Ledger!WithStatus(deposits[job[k].deposit], "FAILED")
  <2>2. row.status = "FAILED"
    BY DEF Ledger!WithStatus
  <2>3. TypeOK /\ deposits' = [deposits EXCEPT ![job[k].deposit] = row]
    BY <2>1 DEF RepoInv, MoneyInv, TypeInv
  <2> HIDE DEF row
  <2> QED
    BY <1>1, <2>1, <2>2, <2>3, BooksRow
<1> QED
  BY <1>2, <1>3, CommitJobRefines

LEMMA BooksStep ==
  ASSUME RepoInv, ChargeInv, BooksInv, RepoInv', [RepoNext]_repoVars
  PROVE  BooksInv'
<1>1. TypeOK /\ TypeOK'
  BY DEF RepoInv, MoneyInv, TypeInv
<1>2. ASSUME UNCHANGED <<balance, entries, deposits>> PROVE BooksInv'
  BY <1>2 DEF BooksInv, BalanceMatchesLedger, Paid, PaidRows, DepositAmount, Posted,
     PostedRows, EntryAmount
<1>3. CASE RegisterDeposit
  <2>1. PICK d \in Deposits, w \in Wallets, a \in Payable : CreateTransaction(d, w, a)
    BY <1>3 DEF RegisterDeposit
  <2> DEFINE row == [status |-> "PENDING", wallet |-> w, amount |-> a]
  <2>2. /\ deposits[d].status # "SUCCESS" /\ row.status # "SUCCESS"
        /\ deposits' = [deposits EXCEPT ![d] = row] /\ UNCHANGED <<balance, entries>>
    BY <2>1 DEF CreateTransaction
  <2> HIDE DEF row
  <2> QED
    BY <1>1, <2>2, BooksRow
<1>4. ASSUME NEW t \in Transfers, RequestTransfer(t) \/ TransferStep(t), ~CommitTransfer(t)
      PROVE  UNCHANGED <<balance, entries, deposits>>
  BY <1>4 DEF RequestTransfer, TransferRequest, TransferStep, DebitSender, InsufficientBalance,
     CreditRecipient, InsertRecords, AnswerTransfer, TransferError, DeadlockVictim, Answer
<1>5. ASSUME NEW k \in Workers, TakeEvent(k) \/ JobStep(k), ~CommitJob(k)
      PROVE  UNCHANGED <<balance, entries, deposits>>
  BY <1>5 DEF TakeEvent, StartJob, JobStep, ReadTransaction, CreditWallet, MarkTransaction, JobError
<1>6. CASE Crash
  BY <1>2, <1>6 DEF Crash, CrashRepo
<1>7. CASE UNCHANGED repoVars
  BY <1>2, <1>7 DEF repoVars
<1> QED
  BY <1>1, <1>2, <1>3, <1>4, <1>5, <1>6, <1>7, BooksTransfer, BooksJob DEF RepoNext

(* The balance of every wallet is what its rows add up to, in every        *)
(* reachable state and whatever is interleaved, fails or crashes, as long  *)
(* as no two workers settle the same deposit at once and charges are of    *)
(* the amount that was initialised.                                        *)
THEOREM BalancesMatchLedger ==
  ASSUME ExactCharges
  PROVE  RepoSpec /\ []JobsApart => []BalanceMatchesLedger
<1> DEFINE Inv == RepoInv /\ ChargeInv /\ BooksInv
<1>1. RepoInit => Inv
  <2> SUFFICES ASSUME RepoInit PROVE Inv
    OBVIOUS
  <2>1. ChargeInv
    BY DEF RepoInit, ChargeInv, AbsentIsEmpty, ChargesExact, NoDeposit, NoJob
  <2>2. \A w, leg : PaidRows(w) = {} /\ PostedRows(w, leg) = {}
    BY DEF RepoInit, PaidRows, PostedRows, NoDeposit
  <2>3. \A w \in Wallets : Paid(w) = 0 /\ Posted(w, "credit") = 0 /\ Posted(w, "debit") = 0
    BY <2>2, SumEmpty DEF Paid, Posted
  <2>4. \A w \in Wallets : balance[w] = Opening[w] /\ Opening[w] \in Int
    BY RepoAssumption DEF RepoInit
  <2>5. BooksInv
    <3>1. ASSUME NEW w \in Wallets
          PROVE  balance[w] = Opening[w] + Paid(w) + Posted(w, "credit") - Posted(w, "debit")
      <4>1. /\ Paid(w) = 0 /\ Posted(w, "credit") = 0 /\ Posted(w, "debit") = 0
            /\ balance[w] = Opening[w] /\ Opening[w] \in Int
        BY <2>3, <2>4
      <4> QED
        BY <4>1
    <3>2. IsFiniteSet(entries) /\ \A w \in Wallets : IsFiniteSet(PaidRows(w))
      BY <2>2, FS_EmptySet DEF RepoInit
    <3> QED
      BY <3>1, <3>2 DEF BooksInv, BalanceMatchesLedger
  <2> QED
    BY <2>1, <2>5, RepoInvInit
<1>2. Inv /\ JobsApart /\ [RepoNext]_repoVars => Inv'
  <2> SUFFICES ASSUME Inv, JobsApart, [RepoNext]_repoVars PROVE Inv'
    OBVIOUS
  <2>1. RepoInv'
    BY RepoInvStep
  <2>2. ChargeInv'
    BY ChargeJobStep, ChargeOtherStep DEF RepoNext, RepoInv, MoneyInv
  <2>3. BooksInv'
    BY <2>1, BooksStep
  <2> QED
    BY <2>1, <2>2, <2>3
<1>3. Inv => BalanceMatchesLedger
  BY DEF BooksInv
<1> QED
  BY <1>1, <1>2, <1>3, PTL DEF RepoSpec
-----------------------------------------------------------------------------
(* The books stay right when deposits come through the whole pipeline.     *)
THEOREM PipelineBalancesMatch ==
  ASSUME ExactCharges
  PROVE  PipelineSpec /\ []JobsApart => []BalanceMatchesLedger
  BY PipelineRunsRepo, BalancesMatchLedger, PTL
-----------------------------------------------------------------------------
(* What TransferFunds answers: a commit adds the two rows of its own       *)
(* transfer, under a reference that no other row has.                      *)

(* A transfer has no answer before its handler has returned.               *)
AnsweredAtEnd == \A t \in Transfers : call[t].answer # "none" => call[t].pc = "done"

(* Its COMMIT was applied.  The handler may know it, or learn it from the  *)
(* reply that it still waits for.                                          *)
Committed(t) == call[t].pc = "reply" \/ call[t].answer = "completed"

CommittedApart ==
  \A t \in Transfers :
    Committed(t) =>
      /\ Legs(t) \subseteq entries
      /\ \A u \in Transfers \ {t} : Committed(u) => call[u].ref # call[t].ref

RowsOfTransfers ==
  \A e \in entries : \E t \in Transfers :
    e \in Legs(t) /\ Legs(t) \subseteq entries /\ MayHaveCommitted(t)

AnswerInv == AnsweredAtEnd /\ CommittedApart /\ RowsOfTransfers

LEMMA AnswerInit == RepoInit => AnswerInv
  BY DEF RepoInit, AnswerInv, AnsweredAtEnd, CommittedApart, Committed, RowsOfTransfers, NoCall

(* A step that writes no row: who has committed stays the same, but for    *)
(* those that are answered, or lost, and these keep their rows.            *)
LEMMA AnswerKept ==
  ASSUME AnswerInv, AnsweredAtEnd', UNCHANGED entries,
         \A t \in Transfers :
           /\ Committed(t)' => Committed(t)
           /\ MayHaveCommitted(t) =>
                /\ MayHaveCommitted(t)'
                /\ Legs(t)' = Legs(t)
                /\ call'[t].ref = call[t].ref
  PROVE  AnswerInv'
<1> USE DEF AnswerInv
<1>1. \A t \in Transfers : Committed(t) => MayHaveCommitted(t)
  BY DEF Committed, MayHaveCommitted
<1>2. CommittedApart'
  BY <1>1 DEF CommittedApart
<1>3. RowsOfTransfers'
  <2> SUFFICES ASSUME NEW e \in entries
               PROVE  \E t \in Transfers : /\ e \in Legs(t)'
                                           /\ Legs(t)' \subseteq entries
                                           /\ MayHaveCommitted(t)'
    BY DEF RowsOfTransfers
  <2>1. PICK t \in Transfers :
          e \in Legs(t) /\ Legs(t) \subseteq entries /\ MayHaveCommitted(t)
    BY DEF RowsOfTransfers
  <2> QED
    BY <2>1
<1> QED
  BY <1>2, <1>3

(* Before its COMMIT a transfer has no row: what it does is its own matter *)
(* until then.                                                             *)
LEMMA AnswerOpen ==
  ASSUME TypeOK, AnswerInv, NEW t \in Transfers, NEW c,
         call[t].pc \notin {"reply", "done"},
         call' = [call EXCEPT ![t] = c],
         c.pc # "reply", c.answer # "completed",
         c.answer # "none" => c.pc = "done",
         UNCHANGED entries
  PROVE  AnswerInv'
<1>1. call'[t] = c /\ \A u \in Transfers \ {t} : call'[u] = call[u]
  BY DEF TypeOK
<1>2. AnsweredAtEnd'
  BY <1>1 DEF AnswerInv, AnsweredAtEnd
<1>3. ~MayHaveCommitted(t) /\ ~Committed(t)'
  BY <1>1 DEF AnswerInv, AnsweredAtEnd, MayHaveCommitted, Committed
<1>4. ASSUME NEW u \in Transfers, u # t
      PROVE  /\ Committed(u)' = Committed(u)
             /\ MayHaveCommitted(u)' = MayHaveCommitted(u)
             /\ Legs(u)' = Legs(u) /\ call'[u].ref = call[u].ref
  BY <1>1, <1>4 DEF Committed, MayHaveCommitted, Legs, Entry
<1> QED
  BY <1>2, <1>3, <1>4, AnswerKept

(* The end of a call keeps what the call was about.                        *)
LEMMA EndedKeeps ==
  ASSUME NEW t, NEW a, call'[t] = Ended(call[t], a)
  PROVE  /\ Legs(t)' = Legs(t) /\ call'[t].ref = call[t].ref
         /\ call'[t].pc = "done" /\ call'[t].answer = a
  BY DEF Ended, Legs, Entry

LEMMA AnswerAnswered ==
  ASSUME TypeOK, AnswerInv, NEW t \in Transfers, AnswerTransfer(t)
  PROVE  AnswerInv'
<1>1. PICK a \in {"completed", "failed"} : call' = [call EXCEPT ![t] = Ended(call[t], a)]
  BY DEF AnswerTransfer, Answer
<1>2. call'[t] = Ended(call[t], a) /\ \A u \in Transfers \ {t} : call'[u] = call[u]
  BY <1>1 DEF TypeOK
<1>3. /\ Legs(t)' = Legs(t) /\ call'[t].ref = call[t].ref
      /\ call'[t].pc = "done" /\ call'[t].answer = a
  BY <1>2, EndedKeeps
<1>4. call[t].pc = "reply" /\ UNCHANGED entries
  BY DEF AnswerTransfer
<1>5. AnsweredAtEnd'
  BY <1>2, <1>3 DEF AnswerInv, AnsweredAtEnd
<1>6. Committed(t) /\ MayHaveCommitted(t)'
  BY <1>3, <1>4 DEF Committed, MayHaveCommitted
<1>7. ASSUME NEW u \in Transfers, u # t
      PROVE  /\ Committed(u)' = Committed(u)
             /\ MayHaveCommitted(u)' = MayHaveCommitted(u)
             /\ Legs(u)' = Legs(u) /\ call'[u].ref = call[u].ref
  BY <1>2, <1>7 DEF Committed, MayHaveCommitted, Legs, Entry
<1> QED
  BY <1>3, <1>4, <1>5, <1>6, <1>7, AnswerKept

(* COMMIT writes both rows, under a reference that no row has.             *)
LEMMA AnswerCommit ==
  ASSUME TypeOK, AnswerInv, ReferencesFresh, NEW t \in Transfers, CommitTransfer(t)
  PROVE  AnswerInv'
<1> USE DEF AnswerInv
<1>1. /\ call' = [call EXCEPT ![t] = At("reply", call[t], 0, 0)]
      /\ call[t].pc = "commit"
      /\ entries' = entries \cup Legs(t)
  BY DEF CommitTransfer, Legs
<1>2. /\ call'[t] = At("reply", call[t], 0, 0)
      /\ \A u \in Transfers \ {t} : call'[u] = call[u]
  BY <1>1 DEF TypeOK
<1>3. /\ Legs(t)' = Legs(t) /\ call'[t].ref = call[t].ref
      /\ call'[t].pc = "reply" /\ call'[t].answer = "none"
  BY <1>2 DEF At, Legs, Entry
<1>4. ASSUME NEW u \in Transfers, u # t
      PROVE  /\ Committed(u)' = Committed(u)
             /\ MayHaveCommitted(u)' = MayHaveCommitted(u)
             /\ Legs(u)' = Legs(u) /\ call'[u].ref = call[u].ref
  BY <1>2, <1>4 DEF Committed, MayHaveCommitted, Legs, Entry
<1>5. AnsweredAtEnd'
  BY <1>2, <1>3 DEF AnsweredAtEnd
<1>6. ASSUME NEW u \in Transfers, u # t, Committed(u) PROVE call[u].ref # call[t].ref
  <2>1. Entry(call[u].ref, "debit", call[u].from, call[u].amount) \in entries
    BY <1>6 DEF CommittedApart, Legs
  <2> QED
    BY <1>1, <2>1 DEF ReferencesFresh, Entry
<1>7. CommittedApart'
  BY <1>1, <1>3, <1>4, <1>6 DEF CommittedApart
<1>8. RowsOfTransfers'
  <2>1. ~MayHaveCommitted(t) /\ MayHaveCommitted(t)'
    BY <1>1, <1>3 DEF MayHaveCommitted, AnsweredAtEnd
  <2>2. ASSUME NEW e \in entries
        PROVE  \E u \in Transfers : /\ e \in Legs(u)'
                                    /\ Legs(u)' \subseteq entries'
                                    /\ MayHaveCommitted(u)'
    <3>1. PICK u \in Transfers :
            e \in Legs(u) /\ Legs(u) \subseteq entries /\ MayHaveCommitted(u)
      BY DEF RowsOfTransfers
    <3> QED
      BY <1>1, <1>4, <2>1, <3>1
  <2> QED
    BY <1>1, <1>3, <2>1, <2>2 DEF RowsOfTransfers
<1> QED
  BY <1>5, <1>7, <1>8

LEMMA AnswerTransferStep ==
  ASSUME TypeOK, AnswerInv, ReferencesFresh, NEW t \in Transfers,
         RequestTransfer(t) \/ TransferStep(t)
  PROVE  AnswerInv'
<1>1. CASE CommitTransfer(t)
  BY <1>1, AnswerCommit
<1>2. ASSUME NEW a \in {"insufficient", "rejected", "failed"},
             call[t].pc \notin {"reply", "done"},
             Answer(t, a), UNCHANGED entries
      PROVE  AnswerInv'
  <2> DEFINE c == Ended(call[t], a)
  <2>1. c.answer # "completed" /\ c.pc = "done"
    BY DEF Ended
  <2>2. call' = [call EXCEPT ![t] = c]
    BY <1>2 DEF Answer
  <2> HIDE DEF c
  <2> QED
    BY <1>2, <2>1, <2>2, AnswerOpen
<1>3. ASSUME NEW pc \in {"debit", "credit", "record", "commit"}, NEW c, NEW x, NEW y,
             call[t].pc \notin {"reply", "done"},
             call' = [call EXCEPT ![t] = At(pc, c, x, y)], UNCHANGED entries
      PROVE  AnswerInv'
  <2> DEFINE d == At(pc, c, x, y)
  <2>1. d.answer = "none" /\ d.pc # "reply"
    BY DEF At
  <2> HIDE DEF d
  <2> QED
    <3>1. call' = [call EXCEPT ![t] = d]
      BY <1>3 DEF d
    <3> QED
      BY <1>3, <2>1, <3>1, AnswerOpen
<1>4. CASE RequestTransfer(t)
  <2>1. PICK from, to \in Wallets \cup {None}, a \in Amounts, pinOk \in BOOLEAN,
             ref \in References : TransferRequest(t, from, to, a, pinOk, ref)
    BY <1>4 DEF RequestTransfer
  <2> QED
    BY <1>2, <1>3, <2>1 DEF TransferRequest
<1>5. CASE DebitSender(t) \/ InsufficientBalance(t)
  BY <1>2, <1>3, <1>5 DEF DebitSender, InsufficientBalance
<1>6. CASE CreditRecipient(t)
  BY <1>2, <1>3, <1>6 DEF CreditRecipient
<1>7. CASE InsertRecords(t)
  BY <1>2, <1>3, <1>7 DEF InsertRecords
<1>8. CASE TransferError(t)
  BY <1>2, <1>8 DEF TransferError, InTransfer
<1>9. CASE DeadlockVictim(t)
  <2>1. call[t].pc \in {"debit", "credit"}
    BY <1>9 DEF DeadlockVictim, Deadlocked, WaitsFor
  <2> QED
    BY <1>2, <1>9, <2>1 DEF DeadlockVictim
<1>10. CASE AnswerTransfer(t)
  BY <1>10, AnswerAnswered
<1> QED
  BY <1>1, <1>4, <1>5, <1>6, <1>7, <1>8, <1>9, <1>10 DEF TransferStep

LEMMA AnswerOtherStep ==
  ASSUME TypeOK, AnswerInv,
         \/ \E k \in Workers : TakeEvent(k) \/ JobStep(k)
         \/ RegisterDeposit \/ Crash \/ UNCHANGED repoVars
  PROVE  AnswerInv'
<1>1. CASE UNCHANGED <<entries, call>>
  BY <1>1 DEF AnswerInv, AnsweredAtEnd, CommittedApart, Committed, RowsOfTransfers,
     MayHaveCommitted, Legs, Entry
<1>2. CASE Crash
  <2>1. /\ UNCHANGED entries
        /\ \A t \in Transfers :
             IF Unanswered(t) THEN call'[t] = Ended(call[t], "lost") ELSE call'[t] = call[t]
    BY <1>2 DEF Crash, CrashRepo
  <2>2. ASSUME NEW t \in Transfers
        PROVE  /\ call'[t].answer # "none" => call'[t].pc = "done"
               /\ Committed(t)' => Committed(t)
               /\ MayHaveCommitted(t) =>
                    /\ MayHaveCommitted(t)'
                    /\ Legs(t)' = Legs(t)
                    /\ call'[t].ref = call[t].ref
    <3>1. CASE Unanswered(t)
      BY <2>1, <3>1, EndedKeeps DEF Committed, MayHaveCommitted
    <3>2. CASE ~Unanswered(t)
      <4>1. call'[t] = call[t]
        BY <2>1, <3>2
      <4> QED
        BY <4>1 DEF AnswerInv, AnsweredAtEnd, Committed, MayHaveCommitted, Legs, Entry
    <3> QED
      BY <3>1, <3>2
  <2>3. AnsweredAtEnd'
    BY <2>2 DEF AnsweredAtEnd
  <2> QED
    BY <2>1, <2>2, <2>3, AnswerKept
<1>3. ASSUME NEW k \in Workers, TakeEvent(k) \/ JobStep(k)
      PROVE  UNCHANGED <<entries, call>>
  BY <1>3 DEF TakeEvent, StartJob, JobStep, ReadTransaction, CreditWallet,
     MarkTransaction, CommitJob, JobError
<1> QED
  BY <1>1, <1>2, <1>3 DEF RegisterDeposit, CreateTransaction, repoVars

LEMMA AnswerAlways == RepoSpec => []AnswerInv
<1> DEFINE Inv == MoneyInv /\ ReferencesFresh /\ AnswerInv
<1>1. RepoInit => Inv
  BY MoneyInit, RepoInvInit, AnswerInit DEF RepoInv
<1>2. Inv /\ [RepoNext]_repoVars => Inv'
  <2> SUFFICES ASSUME Inv, [RepoNext]_repoVars PROVE Inv'
    OBVIOUS
  <2>1. TypeOK
    BY DEF MoneyInv, TypeInv
  <2>2. MoneyInv'
    BY MoneyStep
  <2>3. ReferencesFresh'
    BY FreshTransferStep, FreshOtherStep DEF RepoNext
  <2>4. AnswerInv'
    BY <2>1, AnswerTransferStep, AnswerOtherStep DEF RepoNext
  <2> QED
    BY <2>2, <2>3, <2>4
<1> QED
  BY <1>1, <1>2, PTL DEF RepoSpec

(* "Transfer completed" is answered only when both rows of the transfer    *)
(* are in the table and are its own, and each row belongs to a transfer    *)
(* that was not refused and has both its rows: for any interleaving, any   *)
(* failing statement and any crash, between COMMIT and the answer too.     *)
THEOREM AnswersAreTruthful == RepoSpec => []TransferAnswerTruthful
<1>1. AnswerInv => TransferAnswerTruthful
  <2> SUFFICES ASSUME AnswerInv PROVE TransferAnswerTruthful
    OBVIOUS
  <2>1. \A t \in Transfers : call[t].answer = "completed" => Committed(t)
    BY DEF Committed
  <2> QED
    BY <2>1 DEF AnswerInv, CommittedApart, RowsOfTransfers, TransferAnswerTruthful
<1> QED
  BY <1>1, AnswerAlways, PTL

(* What docs/swagger.yaml says of the 500 holds when the database loses no *)
(* reply and no two transfers under way have read the same nanosecond: the *)
(* handler takes the reference of a transfer from the clock.               *)
RefsDistinct ==
  \A t, u \in Transfers :
    t # u /\ call[t].ref \in References => call[t].ref # call[u].ref

(* Then every row belongs to a transfer that was answered as completed,    *)
(* or not at all.                                                          *)
NotRefused(t) == call[t].pc = "reply" \/ call[t].answer \in {"completed", "lost"}

RowsNotRefused == \A e \in entries : \E t \in Transfers : e \in Legs(t) /\ NotRefused(t)

LEMMA DoneStays ==
  ASSUME TypeOK, [RepoNext]_repoVars, NEW t \in Transfers, call[t].pc = "done"
  PROVE  call'[t] = call[t]
<1>a. call \in [Transfers -> TransferCall]
  BY DEF TypeOK
<1>1. ASSUME NEW u \in Transfers, RequestTransfer(u) \/ TransferStep(u)
      PROVE  call[u].pc # "done" /\ \E c : call' = [call EXCEPT ![u] = c]
  BY <1>1 DEF RequestTransfer, TransferRequest, TransferStep, DebitSender, InsufficientBalance,
     CreditRecipient, InsertRecords, CommitTransfer, AnswerTransfer, TransferError,
     DeadlockVictim, Deadlocked, WaitsFor, Answer, InTransfer
<1>2. ASSUME NEW u \in Transfers, RequestTransfer(u) \/ TransferStep(u)
      PROVE  call'[t] = call[t]
  BY <1>a, <1>1, <1>2
<1>3. ASSUME NEW k \in Workers, TakeEvent(k) \/ JobStep(k)
      PROVE  call' = call
  BY <1>3 DEF TakeEvent, StartJob, JobStep, ReadTransaction, CreditWallet, MarkTransaction,
     CommitJob, JobError
<1>4. CASE Crash
  BY <1>4 DEF Crash, CrashRepo, Unanswered, InTransfer
<1> QED
  BY <1>2, <1>3, <1>4 DEF RepoNext, RegisterDeposit, CreateTransaction, repoVars

(* Who waits for the reply to COMMIT is answered as completed, or lost.    *)
LEMMA ReplyKept ==
  ASSUME "db" \notin Faults, TypeOK, [RepoNext]_repoVars,
         NEW t \in Transfers, call[t].pc = "reply"
  PROVE  \/ call'[t] = call[t]
         \/ \E a \in {"completed", "lost"} : call'[t] = Ended(call[t], a)
<1>a. call \in [Transfers -> TransferCall]
  BY DEF TypeOK
<1>1. ASSUME RequestTransfer(t) \/ TransferStep(t)
      PROVE  AnswerTransfer(t)
  BY <1>1 DEF RequestTransfer, TransferRequest, TransferStep, DebitSender, InsufficientBalance,
     CreditRecipient, InsertRecords, CommitTransfer, TransferError, DeadlockVictim, Deadlocked,
     WaitsFor, InTransfer
<1>2. CASE AnswerTransfer(t)
  <2>1. call' = [call EXCEPT ![t] = Ended(call[t], "completed")]
    BY <1>2 DEF AnswerTransfer, Answer
  <2> QED
    BY <1>a, <2>1
<1>3. ASSUME NEW u \in Transfers, u # t, RequestTransfer(u) \/ TransferStep(u)
      PROVE  call'[t] = call[t]
  <2>1. \E c : call' = [call EXCEPT ![u] = c]
    BY <1>3 DEF RequestTransfer, TransferRequest, TransferStep, DebitSender,
       InsufficientBalance, CreditRecipient, InsertRecords, CommitTransfer, AnswerTransfer,
       TransferError, DeadlockVictim, Answer
  <2> QED
    BY <1>a, <1>3, <2>1
<1>4. ASSUME NEW k \in Workers, TakeEvent(k) \/ JobStep(k)
      PROVE  call' = call
  BY <1>4 DEF TakeEvent, StartJob, JobStep, ReadTransaction, CreditWallet, MarkTransaction,
     CommitJob, JobError
<1>5. CASE Crash
  BY <1>5 DEF Crash, CrashRepo, Unanswered
<1> QED
  BY <1>1, <1>2, <1>3, <1>4, <1>5
     DEF RepoNext, RegisterDeposit, CreateTransaction, repoVars

LEMMA NotRefusedStays ==
  ASSUME "db" \notin Faults, TypeOK, AnswerInv, [RepoNext]_repoVars,
         NEW t \in Transfers, NotRefused(t)
  PROVE  NotRefused(t)' /\ Legs(t)' = Legs(t)
<1>1. CASE call'[t] = call[t]
  BY <1>1 DEF NotRefused, Legs, Entry
<1>2. CASE \E a \in {"completed", "lost"} : call'[t] = Ended(call[t], a)
  BY <1>2, EndedKeeps DEF NotRefused
<1>3. call[t].pc \in {"reply", "done"}
  BY DEF NotRefused, AnswerInv, AnsweredAtEnd
<1> QED
  BY <1>1, <1>2, <1>3, ReplyKept, DoneStays

LEMMA NotRefusedStep ==
  ASSUME "db" \notin Faults, TypeOK, AnswerInv, RowsNotRefused, [RepoNext]_repoVars
  PROVE  RowsNotRefused'
<1>1. ASSUME NEW e \in entries
      PROVE  \E t \in Transfers : e \in Legs(t)' /\ NotRefused(t)'
  <2>1. PICK t \in Transfers : e \in Legs(t) /\ NotRefused(t)
    BY DEF RowsNotRefused
  <2> QED
    BY <2>1, NotRefusedStays
<1>2. CASE entries' = entries
  BY <1>1, <1>2 DEF RowsNotRefused
<1>3. ASSUME NEW t \in Transfers, CommitTransfer(t)
      PROVE  RowsNotRefused'
  <2>1. /\ call' = [call EXCEPT ![t] = At("reply", call[t], 0, 0)]
        /\ entries' = entries \cup Legs(t)
    BY <1>3 DEF CommitTransfer, Legs
  <2>2. call'[t] = At("reply", call[t], 0, 0)
    BY <2>1 DEF TypeOK
  <2>3. Legs(t)' = Legs(t) /\ NotRefused(t)'
    BY <2>2 DEF Legs, Entry, At, NotRefused
  <2> QED
    BY <1>1, <2>1, <2>3 DEF RowsNotRefused
<1>4. ASSUME NEW t \in Transfers, RequestTransfer(t) \/ TransferStep(t), ~CommitTransfer(t)
      PROVE  entries' = entries
  BY <1>4 DEF RequestTransfer, TransferRequest, TransferStep, DebitSender, InsufficientBalance,
     CreditRecipient, InsertRecords, AnswerTransfer, TransferError, DeadlockVictim
<1>5. ASSUME NEW k \in Workers, TakeEvent(k) \/ JobStep(k)
      PROVE  entries' = entries
  BY <1>5 DEF TakeEvent, StartJob, JobStep, ReadTransaction, CreditWallet, MarkTransaction,
     CommitJob, JobError
<1> QED
  BY <1>2, <1>3, <1>4, <1>5
     DEF RepoNext, RegisterDeposit, CreateTransaction, Crash, CrashRepo, repoVars

(* "Transfer failed" means that nothing moved, but for the reply to COMMIT:*)
(* refused statements and aborted deadlocks leave no row behind.           *)
THEOREM FailedMovesNothing ==
  ASSUME "db" \notin Faults
  PROVE  RepoSpec /\ []RefsDistinct => []FailedMeansNothingMoved
<1>1. RepoSpec => [](MoneyInv /\ AnswerInv)
  BY MoneyAlways, AnswerAlways, PTL
<1>2. RepoInit => RowsNotRefused
  BY DEF RepoInit, RowsNotRefused
<1>3. MoneyInv /\ AnswerInv /\ RowsNotRefused /\ [RepoNext]_repoVars => RowsNotRefused'
  BY NotRefusedStep DEF MoneyInv, TypeInv
<1>4. MoneyInv /\ AnswerInv /\ RowsNotRefused /\ RefsDistinct => FailedMeansNothingMoved
  <2> SUFFICES ASSUME MoneyInv, AnswerInv, RowsNotRefused, RefsDistinct,
                      NEW t \in Transfers, call[t].answer = "failed", NEW e \in Legs(t), e \in entries
               PROVE  FALSE
    BY DEF FailedMeansNothingMoved
  <2>1. PICK u \in Transfers : e \in Legs(u) /\ NotRefused(u)
    BY DEF RowsNotRefused
  <2>2. u # t
    BY <2>1 DEF NotRefused, AnswerInv, AnsweredAtEnd
  <2>3. e.reference = call[u].ref /\ e.reference = call[t].ref
    BY <2>1 DEF Legs, Entry
  <2>4. e.reference \in References
    BY DEF MoneyInv, TypeInv, TypeOK, LedgerEntry
  <2> QED
    BY <2>2, <2>3, <2>4 DEF RefsDistinct
<1> QED
  BY <1>1, <1>2, <1>3, <1>4, PTL DEF RepoSpec
=============================================================================
