----------------------------- MODULE StatusProofs -----------------------------
(***************************************************************************)
(* Proofs about DepositStatus: what a customer who polls is told, although *)
(* the row and the gateway are read at different times, is true, and a     *)
(* SUCCESS is never taken back; for any number of deposits and of webhook  *)
(* goroutines, and all faults.                                             *)
(***************************************************************************)
EXTENDS DepositStatus, PipelineProofs

Answers200 ==
  [pc : {"idle", "verify"}, status : {"none", "PENDING", "SUCCESS", "FAILED"},
   paystack : {"none", "not_checked", "success", "other"}]

(* What was told was so and is so still; and a poll that asks the gateway  *)
(* belongs to a customer who has not been told SUCCESS.                    *)
ToldSoFar(d) ==
  /\ poll[d].status = "SUCCESS" => deposits[d].status = "SUCCESS"
  /\ poll[d].paystack = "success" => gateway[d] = "paid"
  /\ poll[d].status = "FAILED" => gateway[d] \in {"failed", "paid"}
  /\ poll[d].pc = "verify" => poll[d].status # "SUCCESS"

StatusInv ==
  /\ poll \in [Deposits -> Answers200]
  /\ \A d \in Deposits : ToldSoFar(d)

(* What has happened at the gateway is not undone.                         *)
GatewayKept ==
  \A d \in Deposits :
    /\ gateway[d] = "paid" => gateway'[d] = "paid"
    /\ gateway[d] = "failed" => gateway'[d] \in {"failed", "paid"}

LEMMA GatewayStays ==
  ASSUME PipeInv, [PipelineNext]_pipelineVars
  PROVE  GatewayKept
<1>1. CASE gateway' = gateway
  BY <1>1 DEF GatewayKept
<1>2. ASSUME NEW d \in Deposits, GatewayStep(d)
      PROVE  GatewayKept
  <2>1. gateway \in [Deposits -> {"none", "open", "failed", "paid"}]
    BY DEF PipeInv, FrontInv, FrontTypes
  <2>2. \/ gateway[d] = "none" /\ gateway' = [gateway EXCEPT ![d] = "open"]
        \/ gateway[d] \in {"open", "failed"} /\ gateway' = [gateway EXCEPT ![d] = "paid"]
        \/ gateway[d] = "open" /\ gateway' = [gateway EXCEPT ![d] = "failed"]
    BY <1>2 DEF GatewayStep, OpenCharge, CustomerPays, CustomerDeclined
  <2> QED
    BY <2>1, <2>2 DEF GatewayKept
<1>3. ASSUME NEW d \in Deposits, RequestStep(d)
      PROVE  gateway' = gateway
  BY <1>3 DEF RequestStep, WalletDeposit, GatewayReplies, InsertPending
<1>4. ASSUME NEW h \in Hooks, HookStep(h) \/ \E e \in outbox : DeliverWebhook(h, e)
      PROVE  gateway' = gateway
  BY <1>4 DEF HookStep, LookupTransaction, PublishEvent, AnswerWebhook, DeliverWebhook, frontVars
<1>5. ASSUME NEW k \in Workers, WorkerStep(k)
      PROVE  gateway' = gateway
  BY <1>5 DEF WorkerStep, PopEvent, PopReplyLost, RunJob, FinishEvent, RetryEvent, MoveToDLQ,
     frontVars
<1>6. ASSUME NEW t \in Transfers, RunTransfer(t)
      PROVE  gateway' = gateway
  BY <1>6 DEF RunTransfer, frontVars
<1>7. CrashServer \/ UNCHANGED pipelineVars => gateway' = gateway
  BY DEF CrashServer, pipelineVars, frontVars
<1> QED
  BY <1>1, <1>2, <1>3, <1>4, <1>5, <1>6, <1>7 DEF PipelineNext, PipelineStep

LEMMA StatusStepIsPipelineStep == [StatusNext]_statusVars => [PipelineNext]_pipelineVars
  BY DEF StatusNext, statusVars, PipelineNext, PollStep, GetDepositStatus,
         VerifyPaystackStatus, CrashPoll

LEMMA StatusImplementsPipeline == StatusSpec => PipelineSpec
  BY StatusStepIsPipelineStep, PTL DEF StatusSpec, PipelineSpec

(* A step in which no poll takes part keeps what was told.                 *)
LEMMA ToldStays ==
  ASSUME NEW d \in Deposits, ToldSoFar(d), GatewayKept, SuccessKept,
         poll'[d].status = poll[d].status, poll'[d].paystack = poll[d].paystack,
         poll'[d].pc \in {poll[d].pc, "idle"}
  PROVE  ToldSoFar(d)'
<1>1. /\ gateway[d] = "paid" => gateway'[d] = "paid"
      /\ gateway[d] \in {"failed", "paid"} => gateway'[d] \in {"failed", "paid"}
      /\ deposits[d].status = "SUCCESS" => deposits'[d].status = "SUCCESS"
  BY DEF GatewayKept, SuccessKept
<1> QED
  BY <1>1 DEF ToldSoFar

(* A step of the poll of deposit d.                                        *)
LEMMA PollKeeps ==
  ASSUME StatusInv, PipeInv, NEW d \in Deposits, PollStep(d)
  PROVE  /\ StatusInv'
         /\ \A c \in Deposits : poll[c].status = "SUCCESS" => poll'[c].status = "SUCCESS"
<1>1. UNCHANGED <<deposits, gateway>>
  BY DEF PollStep, GetDepositStatus, VerifyPaystackStatus, pipelineVars, repoVars, frontVars
<1>2. ToldSoFar(d) /\ poll[d] \in Answers200
  BY DEF StatusInv
<1>3. /\ deposits[d].status = "SUCCESS" => gateway[d] = "paid"
      /\ deposits[d].status = "FAILED" => gateway[d] \in {"failed", "paid"}
  BY RowsTrueSuffices DEF PipeInv, FrontInv, StatusMatchesGateway
<1>4. ASSUME NEW p \in Answers200, poll' = [poll EXCEPT ![d] = p],
             p.status = "SUCCESS" => deposits[d].status = "SUCCESS",
             p.paystack = "success" => gateway[d] = "paid",
             p.status = "FAILED" => gateway[d] \in {"failed", "paid"},
             p.pc = "verify" => p.status # "SUCCESS",
             poll[d].status = "SUCCESS" => p.status = "SUCCESS"
      PROVE  /\ StatusInv'
             /\ \A c \in Deposits : poll[c].status = "SUCCESS" => poll'[c].status = "SUCCESS"
  <2>1. /\ poll' \in [Deposits -> Answers200] /\ poll'[d] = p
        /\ \A c \in Deposits \ {d} : poll'[c] = poll[c]
    BY <1>4 DEF StatusInv
  <2>2. ASSUME NEW c \in Deposits PROVE ToldSoFar(c)'
    <3>1. CASE c = d
      BY <1>1, <1>4, <2>1, <3>1 DEF ToldSoFar
    <3>2. CASE c # d
      BY <1>1, <2>1, <3>2 DEF ToldSoFar, StatusInv
    <3> QED
      BY <3>1, <3>2
  <2> QED
    BY <1>4, <2>1, <2>2 DEF StatusInv
<1>5. CASE GetDepositStatus(d)
  <2>1. CASE /\ deposits[d].status \in {"SUCCESS", "FAILED"}
             /\ Told(d, deposits[d].status, "not_checked")
    <3>1. PICK p : p = Poll("idle", deposits[d].status, "not_checked")
      OBVIOUS
    <3>2. /\ p \in Answers200 /\ p.pc = "idle" /\ p.status = deposits[d].status
          /\ p.paystack = "not_checked" /\ poll' = [poll EXCEPT ![d] = p]
      BY <2>1, <3>1 DEF Poll, Told, Answers200
    <3> QED
      BY <1>2, <1>3, <1>4, <3>2 DEF ToldSoFar
  <2>2. CASE /\ deposits[d].status = "PENDING"
             /\ poll' = [poll EXCEPT ![d] = Poll("verify", @.status, @.paystack)]
    <3>1. PICK p : p = Poll("verify", poll[d].status, poll[d].paystack)
      OBVIOUS
    <3>2. /\ p \in Answers200 /\ p.pc = "verify" /\ p.status = poll[d].status
          /\ p.paystack = poll[d].paystack /\ poll' = [poll EXCEPT ![d] = p]
      BY <1>2, <2>2, <3>1 DEF Poll, Answers200, StatusInv
    <3> QED
      BY <1>2, <1>4, <2>2, <3>2 DEF ToldSoFar
  <2> QED
    BY <1>5, <2>1, <2>2 DEF GetDepositStatus
<1>6. CASE VerifyPaystackStatus(d)
  <2>1. PICK paystack \in {"success", "other"} :
          /\ Told(d, "PENDING", paystack)
          /\ paystack = "success" => gateway[d] = "paid"
    BY <1>6 DEF VerifyPaystackStatus, Answer200
  <2>2. PICK p : p = Poll("idle", "PENDING", paystack)
    OBVIOUS
  <2>3. /\ p \in Answers200 /\ p.pc = "idle" /\ p.status = "PENDING"
        /\ p.paystack = paystack /\ poll' = [poll EXCEPT ![d] = p]
    BY <2>1, <2>2 DEF Poll, Told, Answers200
  <2>4. poll[d].status # "SUCCESS"
    BY <1>2, <1>6 DEF VerifyPaystackStatus, ToldSoFar
  <2> QED
    BY <1>4, <2>1, <2>3, <2>4
<1> QED
  BY <1>5, <1>6 DEF PollStep

(* Every step, as long as rows that say SUCCESS stay so.                   *)
LEMMA StatusStep ==
  ASSUME StatusInv, PipeInv, SuccessKept, [StatusNext]_statusVars
  PROVE  /\ StatusInv'
         /\ \A d \in Deposits : poll[d].status = "SUCCESS" => poll'[d].status = "SUCCESS"
<1>1. GatewayKept
  BY GatewayStays, StatusStepIsPipelineStep
<1>2. CASE UNCHANGED poll
  BY <1>1, <1>2, ToldStays DEF StatusInv
<1>3. CASE CrashPoll
  <2>1. /\ poll' \in [Deposits -> Answers200]
        /\ \A d \in Deposits : /\ poll'[d].pc = "idle"
                               /\ poll'[d].status = poll[d].status
                               /\ poll'[d].paystack = poll[d].paystack
    BY <1>3 DEF CrashPoll, Poll, StatusInv, Answers200
  <2> QED
    BY <1>1, <2>1, ToldStays DEF StatusInv
<1> QED
  BY <1>2, <1>3, PollKeeps DEF StatusNext, statusVars

LEMMA StatusInitial == PollInit => StatusInv
  BY DEF PollInit, StatusInv, Poll, Answers200, ToldSoFar

LEMMA StatusAlways == StatusSpec /\ []JobsApart => []StatusInv
<1>1. /\ StatusInv /\ PipeInv /\ [StatusNext]_statusVars
      /\ [\A d \in Deposits : RowKept(d)]_repoVars
      => StatusInv'
  BY KeptRows, StatusStep
<1> QED
  BY <1>1, StatusInitial, StatusImplementsPipeline, PipeAlways, RowsStaySuccess, PTL
     DEF StatusSpec, SuccessIsFinal

(* While jobs are apart, and so with one worker (OneIsApart):              *)
(* a customer is told SUCCESS only when the wallet was credited, and once; *)
(* and that the gateway has the money, or has refused it, when it has.     *)
THEOREM PollsAreTruthful == StatusSpec /\ []JobsApart => []AnswerTruthful
<1>1. StatusInv /\ CreditedOnce => AnswerTruthful
  BY DEF StatusInv, ToldSoFar, CreditedOnce, AnswerTruthful
<1> QED
  BY <1>1, StatusAlways, StatusImplementsPipeline, PipelineCreditsOnce, PTL

(* Nobody who was told SUCCESS is told PENDING or FAILED later.            *)
THEOREM SuccessStaysTold == StatusSpec /\ []JobsApart => SuccessToldForEver
<1>1. /\ StatusInv /\ PipeInv /\ [StatusNext]_statusVars
      /\ [\A d \in Deposits : RowKept(d)]_repoVars
      => [\A d \in Deposits :
            poll[d].status = "SUCCESS" => poll'[d].status = "SUCCESS"]_poll
  BY KeptRows, StatusStep
<1> QED
  BY <1>1, StatusAlways, StatusImplementsPipeline, PipeAlways, RowsStaySuccess, PTL
     DEF StatusSpec, SuccessIsFinal, SuccessToldForEver
=============================================================================
