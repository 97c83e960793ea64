------------------------------ MODULE DepositStatus ------------------------------
(***************************************************************************)
(* A client that polls the status of its deposit while the pipeline works  *)
(* on it.  The handler reads the row, and when the row is PENDING it asks  *)
(* the gateway as well: what it answers is the status of before that call. *)
(***************************************************************************)
EXTENDS DepositPipeline

VARIABLE
  poll  \* deposit -> the client's request, and what it was last told

statusVars == <<pipelineVars, poll>>

Poll(pc, status, paystack) ==
  [pc |-> pc, status |-> status, paystack |-> paystack]

PollInit == poll = [d \in Deposits |-> Poll("idle", "none", "none")]

Told(d, status, paystack) ==
  poll' = [poll EXCEPT ![d] = Poll("idle", status, paystack)]

(* A row that is not there is answered 404, and so is any error.           *)
GetDepositStatus(d) ==
  LET status == deposits[d].status IN
  /\ request[d].stage = "answered"
  /\ poll[d].pc = "idle"
  /\ \/ status \in {"SUCCESS", "FAILED"} /\ Told(d, status, "not_checked")
     \/ /\ status = "PENDING"
        /\ poll' = [poll EXCEPT ![d] = Poll("verify", @.status, @.paystack)]
  /\ UNCHANGED pipelineVars

(* Mutant: a payment that the gateway confirms is answered as SUCCESS.     *)
AnswerOfGateway(d, paystack) ==
  Told(d, IF paystack = "success" THEN "SUCCESS" ELSE "PENDING", paystack)

Answer200(d, paystack) == Told(d, "PENDING", paystack)

(* What the gateway says, where only "success" is told apart from the      *)
(* other words, or nothing, when the call fails or takes ten seconds.      *)
VerifyPaystackStatus(d) ==
  /\ poll[d].pc = "verify"
  /\ \/ gateway[d] = "paid" /\ Answer200(d, "success")
     \/ Answer200(d, "other")
  /\ UNCHANGED pipelineVars

PollStep(d) == GetDepositStatus(d) \/ VerifyPaystackStatus(d)

(* A request in progress is not answered any more.                         *)
CrashPoll ==
  /\ CrashServer
  /\ poll' = [d \in Deposits |-> Poll("idle", poll[d].status, poll[d].paystack)]

StatusNext ==
  \/ PipelineStep /\ UNCHANGED poll
  \/ \E d \in Deposits : PollStep(d)
  \/ CrashPoll

(* The client polls again and again.                                       *)
StatusSpec ==
  /\ PipelineInit /\ PollInit
  /\ [][StatusNext]_statusVars
  /\ PipelineFairness
  /\ \A d \in Deposits : WF_statusVars(PollStep(d))

-----------------------------------------------------------------------------
(* Properties.                                                             *)

(* The customer is only told SUCCESS when the money is in the wallet, and  *)
(* that the gateway has it when it has, although the two are asked one     *)
(* after the other while webhook and worker go on.                         *)
AnswerTruthful ==
  \A d \in Deposits :
    /\ poll[d].status = "SUCCESS" => credited[d] = 1
    /\ poll[d].paystack = "success" => gateway[d] = "paid"
    /\ poll[d].status = "FAILED" => gateway[d] \in {"failed", "paid"}

(* Nobody who was told SUCCESS is told anything else later.                *)
SuccessToldForEver ==
  [][\A d \in Deposits :
       poll[d].status = "SUCCESS" => poll'[d].status = "SUCCESS"]_poll

(* A customer who has paid and goes on asking is told SUCCESS at last, or  *)
(* the payment is on the dead letter queue, or it was lost in one of the   *)
(* ways of AckedPaymentAccounted, provided that the server does not crash  *)
(* for ever.                                                               *)
PayerLearns ==
  <>[][~CrashServer]_pipelineVars =>
    \A d \in Deposits :
      gateway[d] = "paid" ~>
        \/ poll[d].status = "SUCCESS"
        \/ Event("charge.success", d) \in dlq \cup lost
=============================================================================
