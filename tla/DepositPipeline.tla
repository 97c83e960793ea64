---------------------------- MODULE DepositPipeline ----------------------------
(***************************************************************************)
(* The way of a deposit: the handler WalletDeposit opens a charge at the   *)
(* payment gateway and inserts the PENDING row, the customer pays or is    *)
(* declined, the gateway notifies the webhook until it is acknowledged,    *)
(* the webhook handler looks the row up and pushes the event on a Redis    *)
(* list, and the worker pops it and runs it on WalletRepo, with retries    *)
(* and a dead letter queue.  A reference stands for one deposit request:   *)
(* a request that is refused before it has a reference changes nothing.    *)
(* Deliveries that the rate limiter, the signature check or the JSON       *)
(* decoder refuse, and events of other types, change nothing either.       *)
(***************************************************************************)
EXTENDS WalletRepo, Sequences

CONSTANTS
  Hooks,       \* goroutines that serve the webhook
  MaxRetries,  \* attempts of the worker, 3 in the code
  QueueBound   \* bound of the model on the length of the Redis list

ASSUME PipelineAssumption ==
  /\ MaxRetries \in Nat \ {0}
  /\ QueueBound \in Nat
  /\ Hooks \cap Workers = {}

VARIABLES
  request,   \* deposit reference -> the handler that works on it
  gateway,   \* deposit reference -> the charge at the gateway
  outbox,    \* notifications that the gateway still has to deliver
  acked,     \* history: notifications that the webhook answered with 200
  hook,      \* webhook goroutine -> the notification it serves
  queue,     \* the Redis list webhook_events
  held,      \* worker -> the event it has popped
  attempt,   \* worker -> how often it has tried that event
  dlq,       \* events on the Redis list failed_webhook_events
  lost       \* history: payments let go of without being credited

frontVars == <<request, gateway>>
webhookVars == <<outbox, acked, hook>>
workerVars == <<held, attempt, dlq, lost>>
pipelineVars == <<repoVars, frontVars, webhookVars, queue, workerVars>>

(* Beside "db" and "crash", the Faults of a pipeline may hold              *)
(*   "paystack"  the call to the gateway times out or its reply is lost    *)
(*   "repay"     a customer who was declined pays the same reference       *)
(*   "ack"       the 200 of the webhook does not reach the gateway         *)
(*   "lookup"    the webhook's SELECT fails                                *)
(*   "redis"     RPUSH fails, perhaps after it was applied, or is repeated *)
(*               by the Redis client                                       *)
(*   "pop"       Redis applies BLPOP and its reply is lost                 *)
(*   "dlq"       the push on the dead letter queue fails                   *)
May(fault) == fault \in Faults

Event(kind, d) == [kind |-> kind, deposit |-> d, amount |-> request[d].amount]
NoEvent == [kind |-> "none", deposit |-> None, amount |-> 0]

NoRequest == [stage |-> "new", wallet |-> None, amount |-> 0]
FreeHook == [pc |-> "free", event |-> NoEvent]

PipelineInit ==
  /\ RepoInit
  /\ request = [d \in Deposits |-> NoRequest]
  /\ gateway = [d \in Deposits |-> "none"]
  /\ outbox = {}
  /\ acked = {}
  /\ hook = [h \in Hooks |-> FreeHook]
  /\ queue = <<>>
  /\ held = [k \in Workers |-> NoEvent]
  /\ attempt = [k \in Workers |-> 0]
  /\ dlq = {}
  /\ lost = {}

-----------------------------------------------------------------------------
(* WalletDeposit.                                                          *)

ToStage(d, s) ==
  request' = [request EXCEPT ![d] =
                [stage |-> s, wallet |-> @.wallet, amount |-> @.amount]]

WalletDeposit(d, w, a) ==
  /\ request[d].stage = "new"
  /\ a >= MinTransactionAmount
  /\ request' = [request EXCEPT ![d] =
                   [stage |-> "calling", wallet |-> w, amount |-> a]]
  /\ UNCHANGED <<repoVars, gateway, webhookVars, queue, workerVars>>

(* The gateway opens a charge, perhaps when the handler has given up.      *)
OpenCharge(d) ==
  /\ request[d].stage \in {"calling", "failed"}
  /\ gateway[d] = "none"
  /\ gateway' = [gateway EXCEPT ![d] = "open"]
  /\ UNCHANGED <<repoVars, request, webhookVars, queue, workerVars>>

(* The reply: the URL, a refusal, or nothing within ten seconds.           *)
GatewayReplies(d) ==
  /\ request[d].stage = "calling"
  /\ \/ gateway[d] = "open" /\ ToStage(d, "inserting")
     \/ gateway[d] = "none" /\ ToStage(d, "failed")
     \/ May("paystack") /\ ToStage(d, "failed")
  /\ UNCHANGED <<repoVars, gateway, webhookVars, queue, workerVars>>

(* Mutants: the URL is answered although the INSERT failed; the row has    *)
(* another amount than the charge.                                         *)
InsertPendingErrorIgnored(d) ==
  /\ request[d].stage = "inserting"
  /\ \/ /\ CreateTransaction(d, request[d].wallet, request[d].amount)
        /\ ToStage(d, "answered")
     \/ May("db") /\ ToStage(d, "answered") /\ UNCHANGED repoVars
  /\ UNCHANGED <<gateway, webhookVars, queue, workerVars>>
InsertPendingOtherAmount(d) ==
  /\ request[d].stage = "inserting"
  /\ CreateTransaction(d, request[d].wallet, 100 * request[d].amount)
  /\ ToStage(d, "answered")
  /\ UNCHANGED <<gateway, webhookVars, queue, workerVars>>

(* The row is inserted and then the URL is answered.  An error answers 500 *)
(* although the row may be there.                                          *)
InsertPending(d) ==
  /\ request[d].stage = "inserting"
  /\ \/ /\ CreateTransaction(d, request[d].wallet, request[d].amount)
        /\ \/ ToStage(d, "answered")
           \/ May("db") /\ ToStage(d, "failed")
     \/ May("db") /\ ToStage(d, "failed") /\ UNCHANGED repoVars
  /\ UNCHANGED <<gateway, webhookVars, queue, workerVars>>

-----------------------------------------------------------------------------
(* The gateway and its customer, who has the URL once it was answered.     *)

CustomerPays(d) ==
  /\ request[d].stage = "answered"
  /\ gateway[d] = "open" \/ (May("repay") /\ gateway[d] = "failed")
  /\ gateway' = [gateway EXCEPT ![d] = "paid"]
  /\ outbox' = outbox \cup {Event("charge.success", d)}
  /\ UNCHANGED <<repoVars, request, acked, hook, queue, workerVars>>

CustomerDeclined(d) ==
  /\ request[d].stage = "answered"
  /\ gateway[d] = "open"
  /\ gateway' = [gateway EXCEPT ![d] = "failed"]
  /\ outbox' = outbox \cup {Event("charge.failed", d)}
  /\ UNCHANGED <<repoVars, request, acked, hook, queue, workerVars>>

(* A notification is delivered again and again until a 200 arrives; two    *)
(* deliveries may overlap.                                                 *)
DeliverWebhook(h, e) ==
  /\ hook[h].pc = "free"
  /\ e \in outbox
  /\ hook' = [hook EXCEPT ![h] = [pc |-> "lookup", event |-> e]]
  /\ UNCHANGED <<repoVars, frontVars, outbox, acked, queue, workerVars>>

-----------------------------------------------------------------------------
(* PaystackWebhook.                                                        *)

Respond200(h) ==
  /\ hook' = [hook EXCEPT ![h] = FreeHook]
  /\ acked' = acked \cup {hook[h].event}
  /\ \/ outbox' = outbox \ {hook[h].event}
     \/ May("ack") /\ UNCHANGED outbox

Respond500(h) ==
  /\ hook' = [hook EXCEPT ![h] = FreeHook]
  /\ UNCHANGED <<outbox, acked>>

Lose(events) ==
  lost' = lost \cup {e \in events : e.kind = "charge.success"}

(* GetTransactionByReference: only a PENDING row lets the event through.   *)
(* No row, and any error of the database, is answered with 200 as well.    *)
LookupTransaction(h) ==
  LET status == deposits[hook[h].event.deposit].status IN
  /\ hook[h].pc = "lookup"
  /\ \/ /\ status = "PENDING"
        /\ hook' = [hook EXCEPT ![h] = [pc |-> "publish", event |-> @.event]]
        /\ UNCHANGED <<outbox, acked, lost>>
     \/ status = "SUCCESS" /\ Respond200(h) /\ UNCHANGED lost
     \/ status \in {"FAILED", "ABSENT"} /\ Respond200(h) /\ Lose({hook[h].event})
     \/ May("lookup") /\ Respond200(h) /\ Lose({hook[h].event})
  /\ UNCHANGED <<repoVars, frontVars, queue, held, attempt, dlq>>

(* RPUSH on webhook_events: what the list may be after a success, as the   *)
(* Redis client repeats a push whose reply is lost, and after an error.    *)
Published(e) ==
  {Append(queue, e)} \cup
    (IF May("redis") THEN {Append(Append(queue, e), e)} ELSE {})

PublishFailed(e) == IF May("redis") THEN {queue, Append(queue, e)} ELSE {}

(* Mutant: an error of RPUSH is answered with 200.                         *)
PublishEventErrorIgnored(h) ==
  /\ hook[h].pc = "publish"
  /\ Len(queue) < QueueBound
  /\ queue' \in Published(hook[h].event) \cup PublishFailed(hook[h].event)
  /\ hook' = [hook EXCEPT ![h] = [pc |-> "respond", event |-> @.event]]
  /\ UNCHANGED <<repoVars, frontVars, outbox, acked, workerVars>>

PublishEvent(h) ==
  /\ hook[h].pc = "publish"
  /\ Len(queue) < QueueBound
  /\ \/ /\ queue' \in Published(hook[h].event)
        /\ hook' = [hook EXCEPT ![h] = [pc |-> "respond", event |-> @.event]]
        /\ UNCHANGED <<outbox, acked>>
     \/ queue' \in PublishFailed(hook[h].event) /\ Respond500(h)
  /\ UNCHANGED <<repoVars, frontVars, workerVars>>

(* The worker may be done with the event before its 200 is written.        *)
AnswerWebhook(h) ==
  /\ hook[h].pc = "respond"
  /\ Respond200(h)
  /\ UNCHANGED <<repoVars, frontVars, queue, workerVars>>

-----------------------------------------------------------------------------
(* WebhookWorker.                                                          *)

(* Mutant: every event is run as a success.                                *)
TryAsSuccess(k, e) == StartJob(k, "charge.success", e.deposit, e.amount)

Try(k, e) == StartJob(k, e.kind, e.deposit, e.amount)

(* BLPOP removes the event from Redis: from here it is only in memory.     *)
PopEvent(k) ==
  /\ held[k] = NoEvent
  /\ queue # <<>>
  /\ held' = [held EXCEPT ![k] = Head(queue)]
  /\ attempt' = [attempt EXCEPT ![k] = 1]
  /\ queue' = Tail(queue)
  /\ Try(k, Head(queue))
  /\ UNCHANGED <<frontVars, webhookVars, dlq, lost>>

(* An error of BLPOP is ignored and the loop goes on.  A BLPOP that Redis  *)
(* did not apply changes nothing; when only its reply is lost, the event   *)
(* is gone and no worker ever held it, also when the Redis client repeats  *)
(* the command and gets the next event.                                    *)
PopReplyLost(k) ==
  /\ May("pop")
  /\ held[k] = NoEvent
  /\ queue # <<>>
  /\ queue' = Tail(queue)
  /\ Lose({Head(queue)})
  /\ UNCHANGED <<repoVars, frontVars, webhookVars, held, attempt, dlq>>

RunJob(k) ==
  /\ JobStep(k)
  /\ UNCHANGED <<frontVars, webhookVars, queue, workerVars>>

Returned(k, result) ==
  /\ held[k] # NoEvent
  /\ job[k].pc = "returned"
  /\ job[k].result = result

LetGo(k) ==
  /\ held' = [held EXCEPT ![k] = NoEvent]
  /\ attempt' = [attempt EXCEPT ![k] = 0]

FinishEvent(k) ==
  /\ Returned(k, "ok")
  /\ LetGo(k)
  /\ UNCHANGED <<repoVars, frontVars, webhookVars, queue, dlq, lost>>

(* Mutant: one attempt too many.                                           *)
RetryEventOnceMore(k) ==
  /\ Returned(k, "error")
  /\ attempt[k] <= MaxRetries
  /\ attempt' = [attempt EXCEPT ![k] = @ + 1]
  /\ Try(k, held[k])
  /\ UNCHANGED <<frontVars, webhookVars, queue, held, dlq, lost>>

RetryEvent(k) ==
  /\ Returned(k, "error")
  /\ attempt[k] < MaxRetries
  /\ attempt' = [attempt EXCEPT ![k] = @ + 1]
  /\ Try(k, held[k])
  /\ UNCHANGED <<frontVars, webhookVars, queue, held, dlq, lost>>

(* Mutant: the dead letter queue is forgotten.                             *)
MoveToDLQForgotten(k) ==
  /\ Returned(k, "error")
  /\ attempt[k] = MaxRetries
  /\ LetGo(k)
  /\ UNCHANGED <<repoVars, frontVars, webhookVars, queue, dlq, lost>>

(* Nothing reads the dead letter queue, so its order and its duplicates    *)
(* are left out.                                                           *)
PushToDLQ(e) ==
  \/ dlq' = dlq \cup {e} /\ UNCHANGED lost
  \/ May("dlq") /\ Lose({e}) /\ UNCHANGED dlq

(* A push that fails is only logged.                                       *)
MoveToDLQ(k) ==
  /\ Returned(k, "error")
  /\ attempt[k] = MaxRetries
  /\ LetGo(k)
  /\ PushToDLQ(held[k])
  /\ UNCHANGED <<repoVars, frontVars, webhookVars, queue>>

-----------------------------------------------------------------------------
(* The server process dies, or is stopped: main waits for the HTTP server, *)
(* not for the worker.  Postgres, Redis and the gateway keep their state.  *)
CrashServer ==
  /\ Crash
  /\ request' = [d \in Deposits |->
       IF request[d].stage \in {"calling", "inserting"}
         THEN [stage |-> "failed", wallet |-> request[d].wallet,
               amount |-> request[d].amount]
         ELSE request[d]]
  /\ hook' = [h \in Hooks |-> FreeHook]
  /\ held' = [k \in Workers |-> NoEvent]
  /\ attempt' = [k \in Workers |-> 0]
  /\ Lose({held[k] : k \in Workers})
  /\ UNCHANGED <<gateway, outbox, acked, queue, dlq>>

RunTransfer(t) ==
  /\ RequestTransfer(t) \/ TransferStep(t)
  /\ UNCHANGED <<frontVars, webhookVars, queue, workerVars>>

RequestStep(d) ==
  \/ \E w \in Wallets, a \in Amounts : WalletDeposit(d, w, a)
  \/ GatewayReplies(d) \/ InsertPending(d)

GatewayStep(d) == OpenCharge(d) \/ CustomerPays(d) \/ CustomerDeclined(d)

HookStep(h) == LookupTransaction(h) \/ PublishEvent(h) \/ AnswerWebhook(h)

WorkerStep(k) ==
  \/ PopEvent(k) \/ PopReplyLost(k)
  \/ RunJob(k) \/ FinishEvent(k) \/ RetryEvent(k) \/ MoveToDLQ(k)

PipelineStep ==
  \/ \E d \in Deposits : RequestStep(d) \/ GatewayStep(d)
  \/ \E h \in Hooks : HookStep(h) \/ \E e \in outbox : DeliverWebhook(h, e)
  \/ \E k \in Workers : WorkerStep(k)
  \/ \E t \in Transfers : RunTransfer(t)

PipelineNext == PipelineStep \/ CrashServer

PipelineSpec == PipelineInit /\ [][PipelineNext]_pipelineVars
(* The customer may stay away for ever.  The gateway keeps notifying, the  *)
(* webhook's goroutines and the worker keep running; strong fairness where *)
(* a goroutine shares a resource (a webhook slot, room in the model's      *)
(* bounded list, a row lock) that is handed out in turn.                   *)
PipelineFairness ==
  /\ \A d \in Deposits : WF_pipelineVars(GatewayReplies(d) \/ InsertPending(d))
  /\ \A d \in Deposits, kind \in Kinds :
       SF_pipelineVars(\E h \in Hooks : DeliverWebhook(h, Event(kind, d)))
  /\ \A h \in Hooks : SF_pipelineVars(HookStep(h))
  /\ \A k \in Workers : SF_pipelineVars(WorkerStep(k))
  /\ \A t \in Transfers :
       SF_pipelineVars(TransferStep(t) /\ UNCHANGED <<frontVars, webhookVars,
                                                      queue, workerVars>>)

-----------------------------------------------------------------------------
(* Properties.                                                             *)

Stages == {"new", "calling", "inserting", "answered", "failed"}
HookPC == {"free", "lookup", "publish", "respond"}

EventsOf(d) == [kind : Kinds, deposit : {d}, amount : {request[d].amount}]
Events == UNION {EventsOf(d) : d \in Deposits}

QueuedEvents == {queue[i] : i \in 1 .. Len(queue)}

(* Type invariant of what the pipeline adds to the repository.             *)
PipelineTypeOK ==
  /\ request \in [Deposits ->
       [stage : Stages, wallet : Wallets \cup {None}, amount : Payable \cup {0}]]
  /\ gateway \in [Deposits -> {"none", "open", "failed", "paid"}]
  /\ outbox \cup acked \cup dlq \cup lost \cup QueuedEvents \subseteq Events
  /\ hook \in [Hooks -> [pc : HookPC, event : Events \cup {NoEvent}]]
  /\ held \in [Workers -> Events \cup {NoEvent}]
  /\ attempt \in [Workers -> 0 .. MaxRetries]

(* Nobody can pay a charge whose row does not exist, although the charge   *)
(* is opened before the row is inserted and either may fail: the URL       *)
(* leaves the handler last.  The row then is the request's.                *)
NoOrphanPayment ==
  \A d \in Deposits :
    gateway[d] \in {"paid", "failed"} =>
      /\ deposits[d].status # "ABSENT"
      /\ deposits[d].wallet = request[d].wallet
      /\ deposits[d].amount = request[d].amount

(* No row says SUCCESS for a charge that was not paid, nor FAILED for one  *)
(* that was not declined, however notifications overlap.                   *)
StatusMatchesGateway ==
  \A d \in Deposits :
    /\ deposits[d].status = "SUCCESS" => gateway[d] = "paid"
    /\ deposits[d].status = "FAILED" => gateway[d] \in {"failed", "paid"}

InFlight(e) == e \in QueuedEvents \/ \E k \in Workers : held[k] = e

(* An acknowledged payment, of which the gateway will not notify again, is *)
(* credited, or on its way, or kept for an operator, or was let go of in   *)
(* one of the ways the code has: the lookup failed or found a FAILED row,  *)
(* the reply to BLPOP was lost, the server died while the worker held the  *)
(* event, or the push on the dead letter queue failed.  Nothing else loses *)
(* a payment, as long as Redis keeps its lists.                            *)
AckedPaymentAccounted ==
  \A e \in acked :
    e.kind = "charge.success" =>
      \/ deposits[e.deposit].status = "SUCCESS"
      \/ InFlight(e)
      \/ e \in dlq \cup lost

(* What docs/swagger.yaml says of the webhook's 200, "Event Processed",    *)
(* read as weakly as it can be: once a payment was acknowledged, so that   *)
(* the gateway will not notify again, it is credited, or still on its way, *)
(* or kept for an operator.                                                *)
AckedPaymentKept ==
  \A e \in acked :
    e.kind = "charge.success" =>
      deposits[e.deposit].status = "SUCCESS" \/ InFlight(e) \/ e \in dlq

(* The pipeline only uses the repository in the way that WalletRepo allows *)
(* and that its invariants assume.                                         *)
ImplementsRepo == RepoInit /\ [][RepoNext]_repoVars
=============================================================================
