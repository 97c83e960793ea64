---------------------------- MODULE PipelineProofs ----------------------------
(***************************************************************************)
(* Proofs that the pipeline uses the repository as WalletRepo allows, so   *)
(* that what is proved of RepoSpec holds of the deposits that go through   *)
(* the gateway, the webhook and the worker; that no payment is orphaned,   *)
(* and that rows say what happened at the gateway.  They hold for any      *)
(* number of deposits, transfers, webhook goroutines and workers, any      *)
(* faults and any length of the queue.                                     *)
(***************************************************************************)
EXTENDS DepositPipeline, WalletRepoProofs

AnyEvent == [kind : Kinds, deposit : Deposits, amount : Payable]

(* What a charge that was declined may be: still that, or paid in the end  *)
(* where the gateway lets the customer try again.                          *)
AfterDecline == IF May("repay") THEN {"failed", "paid"} ELSE {"failed"}

(* An event says what happened at the gateway, with the amount of its      *)
(* deposit's row, and its row was inserted before.                         *)
ValidEvent(e) ==
  /\ e \in AnyEvent
  /\ e.amount = request[e.deposit].amount
  /\ request[e.deposit].stage = "answered"
  /\ gateway[e.deposit] \in
       IF e.kind = "charge.success" THEN {"paid"} ELSE AfterDecline

FrontTypes ==
  /\ request \in [Deposits ->
       [stage : Stages, wallet : Wallets \cup {None}, amount : Payable \cup {0}]]
  /\ gateway \in [Deposits -> {"none", "open", "failed", "paid"}]

(* The URL is answered last, so that the row is there before the customer  *)
(* can pay, and the row is the request's.                                  *)
RequestSound(d) ==
  /\ request[d].stage # "new" => request[d].wallet \in Wallets /\ request[d].amount \in Payable
  /\ request[d].stage \in {"new", "calling", "inserting"} => deposits[d].status = "ABSENT"
  /\ request[d].stage = "answered" => deposits[d].status # "ABSENT"
  /\ deposits[d].status # "ABSENT" =>
       /\ deposits[d].wallet = request[d].wallet
       /\ deposits[d].amount = request[d].amount
  /\ gateway[d] \in {"failed", "paid"} => request[d].stage = "answered"

RowsTrue ==
  \A d \in Deposits :
    /\ deposits[d].status = "SUCCESS" => gateway[d] = "paid"
    /\ deposits[d].status = "FAILED" => gateway[d] \in AfterDecline

LEMMA RowsTrueSuffices == RowsTrue => StatusMatchesGateway
  BY DEF RowsTrue, AfterDecline, StatusMatchesGateway

FrontInv ==
  /\ FrontTypes
  /\ \A d \in Deposits : RequestSound(d)
  /\ RowsTrue

(* Wherever an event is, it is valid.                                      *)
OutsideInv == \A e \in outbox \cup acked \cup dlq \cup lost : ValidEvent(e)

QueueInv ==
  /\ queue \in Seq(AnyEvent)
  /\ \A e \in QueuedEvents : ValidEvent(e)

HookInv ==
  /\ hook \in [Hooks -> [pc : HookPC, event : AnyEvent \cup {NoEvent}]]
  /\ \A h \in Hooks : hook[h].event = NoEvent \/ ValidEvent(hook[h].event)
  /\ \A h \in Hooks : hook[h].pc # "free" => hook[h].event # NoEvent

JobEvent(k) ==
  [kind |-> job[k].kind, deposit |-> job[k].deposit, amount |-> job[k].amount]

WorkerInv ==
  /\ held \in [Workers -> AnyEvent \cup {NoEvent}]
  /\ attempt \in [Workers -> 0 .. MaxRetries]
  /\ \A k \in Workers : held[k] = NoEvent \/ ValidEvent(held[k])
  /\ \A k \in Workers : job[k].pc # "idle" => ValidEvent(JobEvent(k))

PipeInv == TypeInv /\ FrontInv /\ OutsideInv /\ QueueInv /\ HookInv /\ WorkerInv
-----------------------------------------------------------------------------
(* The queue.                                                              *)

Elements(q) == {q[i] : i \in 1 .. Len(q)}

LEMMA AppendElements ==
  ASSUME NEW q \in Seq(AnyEvent), NEW e \in AnyEvent
  PROVE  Append(q, e) \in Seq(AnyEvent) /\ Elements(Append(q, e)) = Elements(q) \cup {e}
<1>1. /\ Append(q, e) \in Seq(AnyEvent) /\ Len(Append(q, e)) = Len(q) + 1
      /\ \A i \in 1 .. Len(q) : Append(q, e)[i] = q[i]
      /\ Append(q, e)[Len(q) + 1] = e
      /\ Len(q) \in Nat
  OBVIOUS
<1> QED
  BY <1>1 DEF Elements

LEMMA PopElements ==
  ASSUME NEW q \in Seq(AnyEvent), q # <<>>
  PROVE  /\ Head(q) \in AnyEvent /\ Tail(q) \in Seq(AnyEvent)
         /\ Elements(q) = {Head(q)} \cup Elements(Tail(q))
<1>1. /\ Len(q) \in Nat /\ Len(q) > 0 /\ Head(q) = q[1] /\ Head(q) \in AnyEvent
      /\ Tail(q) \in Seq(AnyEvent) /\ Len(Tail(q)) = Len(q) - 1
      /\ \A i \in 1 .. Len(q) - 1 : Tail(q)[i] = q[i + 1]
  OBVIOUS
<1>2. ASSUME NEW x \in Elements(q)
      PROVE  x \in {Head(q)} \cup Elements(Tail(q))
  <2>1. PICK i \in 1 .. Len(q) : x = q[i]
    BY DEF Elements
  <2>2. CASE i = 1
    BY <1>1, <2>1, <2>2
  <2>3. CASE i # 1
    <3>1. i - 1 \in 1 .. Len(Tail(q)) /\ Tail(q)[i - 1] = x
      BY <1>1, <2>1, <2>3
    <3> QED
      BY <3>1 DEF Elements
  <2> QED
    BY <2>2, <2>3
<1>3. ASSUME NEW x \in Elements(Tail(q))
      PROVE  x \in Elements(q)
  <2>1. PICK i \in 1 .. Len(Tail(q)) : x = Tail(q)[i]
    BY DEF Elements
  <2>2. i + 1 \in 1 .. Len(q) /\ q[i + 1] = x
    BY <1>1, <2>1
  <2> QED
    BY <2>2 DEF Elements
<1>4. Head(q) \in Elements(q)
  BY <1>1 DEF Elements
<1> QED
  BY <1>1, <1>2, <1>3, <1>4

LEMMA QueuedAre == QueuedEvents = Elements(queue) /\ QueuedEvents' = Elements(queue')
  BY DEF QueuedEvents, Elements

-----------------------------------------------------------------------------
(* Valid events stay valid.                                                *)

LEMMA EventsStay ==
  ASSUME \A d \in Deposits :
           request[d].stage = "answered" =>
             /\ request'[d] = request[d]
             /\ \/ gateway'[d] = gateway[d]
                \/ gateway'[d] = "paid" /\ (gateway[d] = "failed" => May("repay"))
  PROVE  \A e : ValidEvent(e) => ValidEvent(e)'
<1> SUFFICES ASSUME NEW e, ValidEvent(e) PROVE ValidEvent(e)'
  OBVIOUS
<1>1. e \in AnyEvent /\ e.deposit \in Deposits
  BY DEF ValidEvent, AnyEvent
<1> QED
  BY <1>1 DEF ValidEvent, AfterDecline

LEMMA PipeInitial == PipelineInit => PipeInv
<1> SUFFICES ASSUME PipelineInit PROVE PipeInv
  OBVIOUS
<1>1. TypeInv
  BY TypeInit DEF PipelineInit
<1>2. FrontInv
  BY DEF PipelineInit, RepoInit, FrontInv, FrontTypes, RequestSound, RowsTrue,
     NoRequest, NoDeposit, Stages
<1>3. OutsideInv /\ QueueInv
  BY DEF PipelineInit, OutsideInv, QueueInv, QueuedEvents
<1>4. HookInv
  BY DEF PipelineInit, HookInv, FreeHook, HookPC
<1>5. WorkerInv
  BY PipelineAssumption DEF PipelineInit, RepoInit, WorkerInv, NoJob
<1> QED
  BY <1>1, <1>2, <1>3, <1>4, <1>5 DEF PipeInv
-----------------------------------------------------------------------------
(* The deposit handler and the gateway.                                    *)

LEMMA PlacesKept ==
  ASSUME PipeInv, \A e : ValidEvent(e) => ValidEvent(e)',
         \A e \in outbox' : e \in outbox \/ ValidEvent(e)',
         UNCHANGED <<acked, hook, queue, workerVars, job>>
  PROVE  OutsideInv' /\ QueueInv' /\ HookInv' /\ WorkerInv'
<1> USE DEF PipeInv, workerVars
<1>1. OutsideInv'
  BY DEF OutsideInv
<1>2. QueueInv'
  BY DEF QueueInv, QueuedEvents
<1>3. HookInv'
  BY DEF HookInv
<1>4. WorkerInv'
  BY DEF WorkerInv, JobEvent
<1> QED
  BY <1>1, <1>2, <1>3, <1>4

LEMMA RequestHandlerStep ==
  ASSUME PipeInv, NEW d \in Deposits, RequestStep(d)
  PROVE  PipeInv' /\ [RepoNext]_repoVars
<1> USE DEF PipeInv, FrontInv, FrontTypes
<1>a. /\ deposits \in [Deposits -> DepositRow] /\ RequestSound(d)
      /\ request[d] \in [stage : Stages, wallet : Wallets \cup {None}, amount : Payable \cup {0}]
  BY DEF TypeInv, TypeOK
<1>1. /\ UNCHANGED <<gateway, webhookVars, queue, workerVars, job>>
      /\ request[d].stage # "answered"
      /\ \E s \in Stages, w \in Wallets, a \in Payable :
            /\ request' = [request EXCEPT ![d] = [stage |-> s, wallet |-> w, amount |-> a]]
            /\ request[d].stage # "new" => w = request[d].wallet /\ a = request[d].amount
            /\ s # "new"
            /\ \/ /\ s \in {"calling", "inserting", "failed"} /\ UNCHANGED repoVars
                  /\ s = "calling" => request[d].stage = "new"
                  /\ s = "inserting" => request[d].stage = "calling"
               \/ /\ s \in {"answered", "failed"} /\ request[d].stage = "inserting"
                  /\ CreateTransaction(d, w, a)
  <2>1. CASE \E w \in Wallets, a \in Amounts : WalletDeposit(d, w, a)
    BY <2>1 DEF WalletDeposit, Payable, Stages, repoVars
  <2>2. CASE GatewayReplies(d) \/ InsertPending(d)
    <3>1. PICK w \in Wallets, a \in Payable : w = request[d].wallet /\ a = request[d].amount
      BY <1>a, <2>2 DEF GatewayReplies, InsertPending, RequestSound
    <3>2. \A s : ToStage(d, s) =>
            request' = [request EXCEPT ![d] = [stage |-> s, wallet |-> w, amount |-> a]]
      BY <3>1 DEF ToStage
    <3> QED
      BY <2>2, <3>1, <3>2 DEF GatewayReplies, InsertPending, CreateTransaction, Stages, repoVars
  <2> QED
    BY <2>1, <2>2 DEF RequestStep
<1>2. PICK s \in Stages, w \in Wallets, a \in Payable :
        /\ request' = [request EXCEPT ![d] = [stage |-> s, wallet |-> w, amount |-> a]]
        /\ request[d].stage # "new" => w = request[d].wallet /\ a = request[d].amount
        /\ s # "new"
        /\ \/ /\ s \in {"calling", "inserting", "failed"} /\ UNCHANGED repoVars
              /\ s = "calling" => request[d].stage = "new"
              /\ s = "inserting" => request[d].stage = "calling"
           \/ /\ s \in {"answered", "failed"} /\ request[d].stage = "inserting"
              /\ CreateTransaction(d, w, a)
  BY <1>1
<1>3. [RepoNext]_repoVars
  BY <1>2 DEF RepoNext, RegisterDeposit
<1>4. TypeInv'
  BY <1>3, TypeStep
<1>5. /\ request'[d] = [stage |-> s, wallet |-> w, amount |-> a]
      /\ \A c \in Deposits \ {d} : request'[c] = request[c]
  BY <1>2
<1>6. /\ \A c \in Deposits \ {d} : deposits'[c] = deposits[c]
      /\ \/ s \in {"calling", "inserting", "failed"} /\ deposits'[d] = deposits[d]
            /\ (s \in {"calling", "inserting"} => deposits[d].status = "ABSENT")
         \/ /\ s \in {"answered", "failed"} /\ request[d].stage = "inserting"
            /\ deposits'[d] = [status |-> "PENDING", wallet |-> w, amount |-> a]
  <2>1. CASE UNCHANGED repoVars
    BY <1>2, <1>a, <2>1 DEF repoVars, RequestSound, CreateTransaction
  <2>2. CASE s \in {"answered", "failed"} /\ request[d].stage = "inserting" /\ CreateTransaction(d, w, a)
    BY <1>a, <2>2 DEF CreateTransaction
  <2> QED
    BY <1>2, <2>1, <2>2
<1>7. /\ gateway' = gateway
      /\ gateway[d] \notin {"failed", "paid"}
  BY <1>a, <1>1 DEF RequestSound
<1>8. RequestSound(d)'
  BY <1>a, <1>2, <1>5, <1>6, <1>7 DEF RequestSound
<1>9. \A c \in Deposits \ {d} : RequestSound(c)'
  BY <1>5, <1>6, <1>7 DEF RequestSound
<1>10. RowsTrue'
  BY <1>6, <1>7 DEF RowsTrue
<1>11. FrontTypes'
  BY <1>2, <1>7
<1>12. OutsideInv' /\ QueueInv' /\ HookInv' /\ WorkerInv'
  <2>1. \A e : ValidEvent(e) => ValidEvent(e)'
    BY <1>1, <1>5, EventsStay
  <2> QED
    BY <2>1, <1>1, PlacesKept DEF webhookVars
<1> QED
  BY <1>3, <1>4, <1>8, <1>9, <1>10, <1>11, <1>12

LEMMA GatewayActionStep ==
  ASSUME PipeInv, NEW d \in Deposits, GatewayStep(d)
  PROVE  PipeInv' /\ [RepoNext]_repoVars
<1> USE DEF PipeInv, FrontInv, FrontTypes
<1>a. /\ deposits \in [Deposits -> DepositRow] /\ RequestSound(d)
      /\ request[d] \in [stage : Stages, wallet : Wallets \cup {None}, amount : Payable \cup {0}]
  BY DEF TypeInv, TypeOK
<1>1. /\ UNCHANGED <<repoVars, request, acked, hook, queue, workerVars>>
      /\ \E g \in {"open", "failed", "paid"} :
           /\ gateway' = [gateway EXCEPT ![d] = g]
           /\ g # "open" => request[d].stage = "answered"
           /\ gateway[d] = "failed" => g = "paid" /\ May("repay")
           /\ gateway[d] # "paid"
           /\ \/ g = "open" /\ UNCHANGED outbox
              \/ g = "paid" /\ outbox' = outbox \cup {Event("charge.success", d)}
              \/ g = "failed" /\ outbox' = outbox \cup {Event("charge.failed", d)}
  BY DEF GatewayStep, OpenCharge, CustomerPays, CustomerDeclined, webhookVars
<1>2. PICK g \in {"open", "failed", "paid"} :
           /\ gateway' = [gateway EXCEPT ![d] = g]
           /\ g # "open" => request[d].stage = "answered"
           /\ gateway[d] = "failed" => g = "paid" /\ May("repay")
           /\ gateway[d] # "paid"
           /\ \/ g = "open" /\ UNCHANGED outbox
              \/ g = "paid" /\ outbox' = outbox \cup {Event("charge.success", d)}
              \/ g = "failed" /\ outbox' = outbox \cup {Event("charge.failed", d)}
  BY <1>1
<1>3. UNCHANGED <<balance, entries, deposits, call, job, credited>>
  BY <1>1 DEF repoVars
<1>4. gateway'[d] = g /\ \A c \in Deposits \ {d} : gateway'[c] = gateway[c]
  BY <1>2
<1>5. TypeInv'
  BY <1>1, TypeStep
<1>6. FrontInv'
  BY <1>a, <1>1, <1>2, <1>3, <1>4 DEF RequestSound, RowsTrue, AfterDecline
<1>7. \A e : ValidEvent(e) => ValidEvent(e)'
  <2>1. ASSUME NEW e, ValidEvent(e)
        PROVE  ValidEvent(e)'
    <3>1. e.deposit \in Deposits
      BY <2>1 DEF ValidEvent, AnyEvent
    <3> QED
      BY <1>1, <1>2, <1>4, <2>1, <3>1 DEF ValidEvent, AfterDecline
  <2> QED
    BY <2>1
<1>8. \A e \in outbox' : e \in outbox \/ ValidEvent(e)'
  <2>1. ASSUME NEW e, NEW kind \in Kinds, e = Event(kind, d), g # "open",
               kind = IF g = "paid" THEN "charge.success" ELSE "charge.failed"
        PROVE  ValidEvent(e)'
    <3>1. request[d].stage = "answered" /\ request[d].amount \in Payable
      BY <1>a, <1>2, <2>1 DEF RequestSound
    <3>2. e \in AnyEvent /\ e.deposit = d /\ e.kind = kind /\ e.amount = request[d].amount
      BY <2>1, <3>1 DEF AnyEvent, Event
    <3> QED
      BY <1>1, <1>2, <1>4, <2>1, <3>1, <3>2 DEF ValidEvent, AfterDecline
  <2>2. CASE g = "paid"
    <3>1. SUFFICES ASSUME NEW e \in outbox', e \notin outbox PROVE ValidEvent(e)'
      OBVIOUS
    <3>2. e = Event("charge.success", d)
      BY <1>2, <2>2, <3>1
    <3> QED
      BY <2>1, <2>2, <3>2 DEF Kinds
  <2>3. CASE g = "failed"
    <3>1. SUFFICES ASSUME NEW e \in outbox', e \notin outbox PROVE ValidEvent(e)'
      OBVIOUS
    <3>2. e = Event("charge.failed", d)
      BY <1>2, <2>3, <3>1
    <3> QED
      BY <2>1, <2>3, <3>2 DEF Kinds
  <2> QED
    BY <1>2, <2>2, <2>3
<1>9. OutsideInv' /\ QueueInv' /\ HookInv' /\ WorkerInv'
  BY <1>1, <1>3, <1>7, <1>8, PlacesKept
<1> QED
  BY <1>1, <1>5, <1>6, <1>9
-----------------------------------------------------------------------------
(* The webhook.  A step that leaves repository, requests and gateway alone *)
(* keeps every event valid.                                                *)

LEMMA FrontUnchanged ==
  ASSUME PipeInv, UNCHANGED <<repoVars, frontVars>>
  PROVE  /\ TypeInv' /\ FrontInv' /\ [RepoNext]_repoVars
         /\ \A e : ValidEvent(e) => ValidEvent(e)'
<1>1. UNCHANGED <<balance, entries, deposits, call, job, credited, request, gateway>>
  BY DEF repoVars, frontVars
<1>2. TypeInv'
  BY TypeStep DEF PipeInv
<1>3. FrontInv'
  BY <1>1 DEF PipeInv, FrontInv, FrontTypes, RequestSound, RowsTrue
<1>4. \A e : ValidEvent(e) => ValidEvent(e)'
  BY <1>1, EventsStay
<1> QED
  BY <1>2, <1>3, <1>4

LEMMA WorkersKept ==
  ASSUME PipeInv, \A e : ValidEvent(e) => ValidEvent(e)', UNCHANGED <<held, attempt, job>>
  PROVE  WorkerInv'
  BY DEF PipeInv, WorkerInv, JobEvent

(* Goroutine h takes up, keeps or drops an event that was valid.           *)
LEMMA HookSet ==
  ASSUME PipeInv, \A e : ValidEvent(e) => ValidEvent(e)', NEW h \in Hooks,
         NEW pc \in HookPC, NEW e,
         hook' = [hook EXCEPT ![h] = [pc |-> pc, event |-> e]],
         (e = NoEvent /\ pc = "free") \/ (ValidEvent(e) /\ pc # "free")
  PROVE  HookInv'
<1> USE DEF PipeInv, HookInv
<1>1. NoEvent \notin AnyEvent
  BY DEF NoEvent, AnyEvent, Kinds
<1>2. e \in AnyEvent \cup {NoEvent} /\ (e = NoEvent \/ ValidEvent(e)')
  BY DEF ValidEvent
<1>3. /\ hook'[h] = [pc |-> pc, event |-> e]
      /\ \A g \in Hooks \ {h} : hook'[g] = hook[g]
  OBVIOUS
<1>4. hook' \in [Hooks -> [pc : HookPC, event : AnyEvent \cup {NoEvent}]]
  BY <1>2
<1>5. pc # "free" => e # NoEvent
  BY <1>1 DEF ValidEvent
<1>6. ASSUME NEW g \in Hooks
      PROVE  (hook[g].event = NoEvent \/ ValidEvent(hook[g].event))'
  <2>1. PICK x : /\ x = hook'[g].event
                 /\ x = NoEvent \/ ValidEvent(x) \/ ValidEvent(x)'
    <3>1. CASE g = h
      BY <1>2, <1>3, <3>1
    <3>2. CASE g # h
      BY <1>3, <3>2
    <3> QED
      BY <3>1, <3>2
  <2>2. x = NoEvent \/ ValidEvent(x)'
    BY <2>1
  <2> QED
    BY <2>1, <2>2 DEF ValidEvent, NoEvent
<1> QED
  BY <1>3, <1>4, <1>5, <1>6

LEMMA WebhookStep ==
  ASSUME PipeInv, NEW h \in Hooks, HookStep(h) \/ \E e \in outbox : DeliverWebhook(h, e)
  PROVE  PipeInv' /\ [RepoNext]_repoVars
<1>1. UNCHANGED <<repoVars, frontVars, held, attempt, dlq, job>>
  BY DEF HookStep, LookupTransaction, PublishEvent, AnswerWebhook, DeliverWebhook, workerVars, repoVars
<1>2. /\ TypeInv' /\ FrontInv' /\ [RepoNext]_repoVars
      /\ \A e : ValidEvent(e) => ValidEvent(e)'
  BY <1>1, FrontUnchanged
<1>3. WorkerInv'
  BY <1>1, <1>2, WorkersKept
<1>4. hook[h].pc # "free" => ValidEvent(hook[h].event) /\ hook[h].event \in AnyEvent
  BY DEF PipeInv, HookInv, ValidEvent
<1>5. HookInv'
  <2>1. CASE hook' = [hook EXCEPT ![h] = FreeHook]
    BY <1>2, <2>1, HookSet DEF FreeHook, HookPC
  <2>2. ASSUME NEW e \in outbox, DeliverWebhook(h, e)
        PROVE  HookInv'
    <3>1. ValidEvent(e)
      BY DEF PipeInv, OutsideInv
    <3> QED
      BY <1>2, <2>2, <3>1, HookSet DEF DeliverWebhook, HookPC
  <2>3. ASSUME NEW pc \in {"publish", "respond"}, hook[h].pc # "free",
               hook' = [hook EXCEPT ![h] = [pc |-> pc, event |-> hook[h].event]]
        PROVE  HookInv'
    BY <1>2, <1>4, <2>3, HookSet DEF HookPC
  <2>4. CASE LookupTransaction(h)
    BY <2>1, <2>3, <2>4 DEF LookupTransaction, Respond200
  <2>5. CASE PublishEvent(h)
    BY <2>1, <2>3, <2>5 DEF PublishEvent, Respond500
  <2>6. CASE AnswerWebhook(h)
    BY <2>1, <2>6 DEF AnswerWebhook, Respond200
  <2> QED
    BY <2>2, <2>4, <2>5, <2>6 DEF HookStep
<1>6. OutsideInv'
  <2>1. /\ outbox' \subseteq outbox
        /\ \A e \in acked' \cup lost' : e \in acked \cup lost \/ ValidEvent(e)
    <3>1. CASE LookupTransaction(h)
      BY <1>4, <3>1 DEF LookupTransaction, Respond200, Lose
    <3>2. CASE PublishEvent(h)
      BY <3>2 DEF PublishEvent, Respond500, workerVars
    <3>3. CASE \E e \in outbox : DeliverWebhook(h, e)
      BY <3>3 DEF DeliverWebhook, workerVars
    <3>4. CASE AnswerWebhook(h)
      BY <1>4, <3>4 DEF AnswerWebhook, Respond200, workerVars
    <3> QED
      BY <3>1, <3>2, <3>3, <3>4 DEF HookStep
  <2> QED
    BY <1>1, <1>2, <2>1 DEF PipeInv, OutsideInv
<1>7. QueueInv'
  <2>1. CASE UNCHANGED queue
    BY <1>2, <2>1 DEF PipeInv, QueueInv, QueuedEvents
  <2>2. CASE PublishEvent(h)
    <3> DEFINE e == hook[h].event
    <3>1. /\ e \in AnyEvent /\ ValidEvent(e) /\ queue \in Seq(AnyEvent)
          /\ queue' \in {queue, Append(queue, e), Append(Append(queue, e), e)}
      BY <1>4, <2>2 DEF PublishEvent, Published, PublishFailed, PipeInv, QueueInv
    <3>2. queue' \in Seq(AnyEvent) /\ Elements(queue') \subseteq Elements(queue) \cup {e}
      <4> HIDE DEF e
      <4>1. /\ Append(queue, e) \in Seq(AnyEvent)
            /\ Elements(Append(queue, e)) = Elements(queue) \cup {e}
        BY <3>1, AppendElements
      <4>2. /\ Append(Append(queue, e), e) \in Seq(AnyEvent)
            /\ Elements(Append(Append(queue, e), e)) = Elements(Append(queue, e)) \cup {e}
        BY <3>1, <4>1, AppendElements
      <4> QED
        BY <3>1, <4>1, <4>2
    <3>3. \A x \in Elements(queue) : ValidEvent(x)
      BY QueuedAre DEF PipeInv, QueueInv
    <3> QED
      BY <1>2, <3>1, <3>2, <3>3, QueuedAre DEF QueueInv
  <2> QED
    BY <2>1, <2>2 DEF HookStep, LookupTransaction, AnswerWebhook, DeliverWebhook
<1> QED
  BY <1>2, <1>3, <1>5, <1>6, <1>7 DEF PipeInv
-----------------------------------------------------------------------------
(* The worker.                                                             *)

LEMMA TryTakes ==
  ASSUME PipeInv, NEW k \in Workers, NEW e, ValidEvent(e), Try(k, e)
  PROVE  /\ TakeEvent(k)
         /\ \A m \in Workers \ {k} : job'[m] = job[m]
         /\ JobEvent(k)' = e
<1>1. /\ e \in AnyEvent /\ e.kind \in Kinds /\ e.deposit \in Deposits /\ e.amount \in Payable
      /\ e.amount = request[e.deposit].amount /\ request[e.deposit].stage = "answered"
  BY DEF ValidEvent, AnyEvent
<1>2. deposits[e.deposit].amount = e.amount
  BY <1>1 DEF PipeInv, FrontInv, RequestSound
<1>3. TakeEvent(k)
  BY <1>1, <1>2 DEF Try, TakeEvent
<1>4. job' = [job EXCEPT ![k] = JobAt("read", [kind |-> e.kind, deposit |-> e.deposit,
                                               amount |-> e.amount], 0, "none")]
  BY DEF Try, StartJob
<1>5. job \in [Workers -> WorkerJob]
  BY DEF PipeInv, TypeInv, TypeOK
<1>6. /\ job'[k].kind = e.kind /\ job'[k].deposit = e.deposit /\ job'[k].amount = e.amount
      /\ \A m \in Workers \ {k} : job'[m] = job[m]
  BY <1>4, <1>5 DEF JobAt
<1>7. e = [kind |-> e.kind, deposit |-> e.deposit, amount |-> e.amount]
  BY <1>1 DEF AnyEvent
<1> QED
  BY <1>3, <1>6, <1>7 DEF JobEvent

(* A job that is taken changes no row.                                     *)
LEMMA FrontOfTake ==
  ASSUME PipeInv, NEW k \in Workers, TakeEvent(k), UNCHANGED frontVars
  PROVE  /\ TypeInv' /\ FrontInv' /\ [RepoNext]_repoVars
         /\ \A e : ValidEvent(e) => ValidEvent(e)'
<1>1. [RepoNext]_repoVars
  BY DEF RepoNext
<1>2. UNCHANGED <<deposits, request, gateway>>
  BY DEF TakeEvent, StartJob, frontVars
<1>3. TypeInv'
  BY <1>1, TypeStep DEF PipeInv
<1>4. FrontInv'
  BY <1>2 DEF PipeInv, FrontInv, FrontTypes, RequestSound, RowsTrue
<1>5. \A e : ValidEvent(e) => ValidEvent(e)'
  BY <1>2, EventsStay
<1> QED
  BY <1>1, <1>3, <1>4, <1>5

(* Worker k holds the event e and runs it.                                 *)
LEMMA WorkerSet ==
  ASSUME PipeInv, \A e : ValidEvent(e) => ValidEvent(e)',
         NEW k \in Workers, NEW e, ValidEvent(e),
         \A m \in Workers \ {k} : job'[m] = job[m],
         JobEvent(k)' = e,
         held' = [held EXCEPT ![k] = e],
         attempt' \in [Workers -> 0 .. MaxRetries]
  PROVE  WorkerInv'
<1> USE DEF PipeInv, WorkerInv
<1>1. held' \in [Workers -> AnyEvent \cup {NoEvent}]
  BY DEF ValidEvent
<1>2. /\ held'[k] = e
      /\ \A m \in Workers \ {k} : held'[m] = held[m]
  OBVIOUS
<1>3. ASSUME NEW m \in Workers
      PROVE  (held[m] = NoEvent \/ ValidEvent(held[m]))'
  <2>1. PICK x : x = held'[m] /\ (x = NoEvent \/ ValidEvent(x) \/ ValidEvent(x)')
    <3>1. CASE m = k
      BY <1>2, <3>1
    <3>2. CASE m # k
      BY <1>2, <3>2
    <3> QED
      BY <3>1, <3>2
  <2>2. x = NoEvent \/ ValidEvent(x)'
    BY <2>1
  <2> QED
    BY <2>1, <2>2 DEF ValidEvent, NoEvent
<1>4. ASSUME NEW m \in Workers, job'[m].pc # "idle"
      PROVE  ValidEvent(JobEvent(m))'
  <2>1. PICK x : x = JobEvent(m)' /\ ValidEvent(x)
    <3>1. CASE m = k
      BY <3>1
    <3>2. CASE m # k
      BY <1>4, <3>2 DEF JobEvent
    <3> QED
      BY <3>1, <3>2
  <2>2. ValidEvent(x)'
    BY <2>1
  <2> QED
    BY <2>1, <2>2 DEF ValidEvent
<1> QED
  BY <1>1, <1>3, <1>4

LEMMA PopStep ==
  ASSUME PipeInv, NEW k \in Workers, PopEvent(k)
  PROVE  PipeInv' /\ [RepoNext]_repoVars
<1>1. PICK e : e = Head(queue) /\ ValidEvent(e) /\ queue \in Seq(AnyEvent)
              /\ queue' = Tail(queue) /\ queue # <<>>
  <2>1. queue \in Seq(AnyEvent) /\ queue # <<>> /\ queue' = Tail(queue)
    BY DEF PopEvent, PipeInv, QueueInv
  <2>2. Head(queue) \in QueuedEvents
    BY <2>1, PopElements, QueuedAre
  <2> QED
    BY <2>1, <2>2 DEF PipeInv, QueueInv
<1>2. Try(k, e) /\ UNCHANGED <<frontVars, webhookVars, dlq, lost>>
      /\ held' = [held EXCEPT ![k] = e] /\ attempt' = [attempt EXCEPT ![k] = 1]
  BY <1>1 DEF PopEvent
<1>3. /\ TakeEvent(k)
      /\ \A m \in Workers \ {k} : job'[m] = job[m]
      /\ JobEvent(k)' = e
  BY <1>1, <1>2, TryTakes
<1>4. /\ TypeInv' /\ FrontInv' /\ [RepoNext]_repoVars
      /\ \A x : ValidEvent(x) => ValidEvent(x)'
  BY <1>2, <1>3, FrontOfTake
<1>5. attempt' \in [Workers -> 0 .. MaxRetries]
  BY <1>2, PipelineAssumption DEF PipeInv, WorkerInv
<1>6. WorkerInv'
  BY <1>1, <1>2, <1>3, <1>4, <1>5, WorkerSet
<1>7. QueueInv'
  <2>1. Tail(queue) \in Seq(AnyEvent) /\ Elements(Tail(queue)) \subseteq Elements(queue)
    BY <1>1, PopElements
  <2>2. \A x \in Elements(queue) : ValidEvent(x)
    BY QueuedAre DEF PipeInv, QueueInv
  <2> QED
    BY <1>1, <1>4, <2>1, <2>2, QueuedAre DEF QueueInv
<1>8. HookInv'
  BY <1>2, <1>4 DEF PipeInv, HookInv, webhookVars
<1>9. OutsideInv'
  BY <1>2, <1>4 DEF PipeInv, OutsideInv, webhookVars
<1> QED
  BY <1>4, <1>6, <1>7, <1>8, <1>9 DEF PipeInv

(* Only the reply of BLPOP is lost, and with it the event.                 *)
LEMMA PopReplyLostStep ==
  ASSUME PipeInv, NEW k \in Workers, PopReplyLost(k)
  PROVE  PipeInv' /\ [RepoNext]_repoVars
<1>1. /\ queue \in Seq(AnyEvent) /\ queue # <<>> /\ queue' = Tail(queue)
      /\ \A x \in Elements(queue) : ValidEvent(x)
      /\ UNCHANGED <<repoVars, frontVars, outbox, acked, hook, held, attempt, dlq, job>>
      /\ Lose({Head(queue)})
  BY QueuedAre DEF PopReplyLost, PipeInv, QueueInv, webhookVars, repoVars
<1>2. /\ TypeInv' /\ FrontInv' /\ [RepoNext]_repoVars
      /\ \A x : ValidEvent(x) => ValidEvent(x)'
  BY <1>1, FrontUnchanged
<1>3. /\ ValidEvent(Head(queue)) /\ Tail(queue) \in Seq(AnyEvent)
      /\ Elements(Tail(queue)) \subseteq Elements(queue)
  BY <1>1, PopElements
<1>4. QueueInv'
  BY <1>1, <1>2, <1>3, QueuedAre DEF QueueInv
<1>5. OutsideInv'
  <2>1. \A e \in lost' : e \in lost \/ ValidEvent(e)
    BY <1>1, <1>3 DEF Lose
  <2> QED
    BY <1>1, <1>2, <2>1 DEF PipeInv, OutsideInv
<1>6. HookInv' /\ WorkerInv'
  BY <1>1, <1>2, WorkersKept DEF PipeInv, HookInv
<1> QED
  BY <1>2, <1>4, <1>5, <1>6 DEF PipeInv

LEMMA RetryStep ==
  ASSUME PipeInv, NEW k \in Workers, RetryEvent(k)
  PROVE  PipeInv' /\ [RepoNext]_repoVars
<1>1. PICK e : e = held[k] /\ ValidEvent(e)
  BY DEF RetryEvent, Returned, PipeInv, WorkerInv
<1>2. Try(k, e) /\ UNCHANGED <<frontVars, webhookVars, queue, held, dlq, lost>>
      /\ attempt' = [attempt EXCEPT ![k] = attempt[k] + 1] /\ attempt[k] < MaxRetries
  BY <1>1 DEF RetryEvent
<1>3. /\ TakeEvent(k)
      /\ \A m \in Workers \ {k} : job'[m] = job[m]
      /\ JobEvent(k)' = e
  BY <1>1, <1>2, TryTakes
<1>4. /\ TypeInv' /\ FrontInv' /\ [RepoNext]_repoVars
      /\ \A x : ValidEvent(x) => ValidEvent(x)'
  BY <1>2, <1>3, FrontOfTake
<1>5. attempt' \in [Workers -> 0 .. MaxRetries]
  BY <1>2, PipelineAssumption DEF PipeInv, WorkerInv
<1>6. held' = [held EXCEPT ![k] = e]
  BY <1>1, <1>2 DEF PipeInv, WorkerInv
<1>7. WorkerInv'
  BY <1>1, <1>3, <1>4, <1>5, <1>6, WorkerSet
<1>8. QueueInv'
  BY <1>2, <1>4 DEF PipeInv, QueueInv, QueuedEvents
<1>9. HookInv' /\ OutsideInv'
  BY <1>2, <1>4 DEF PipeInv, HookInv, OutsideInv, webhookVars
<1> QED
  BY <1>4, <1>7, <1>8, <1>9 DEF PipeInv

(* The worker lets go of an event: it is done, or on the dead letter queue *)
(* or lost.                                                                *)
LEMMA LetGoStep ==
  ASSUME PipeInv, NEW k \in Workers, FinishEvent(k) \/ MoveToDLQ(k)
  PROVE  PipeInv' /\ [RepoNext]_repoVars
<1>1. PICK e : e = held[k] /\ ValidEvent(e)
  BY DEF FinishEvent, MoveToDLQ, Returned, PipeInv, WorkerInv
<1>2. /\ UNCHANGED <<repoVars, frontVars, webhookVars, queue, job>> /\ LetGo(k)
      /\ dlq' \cup lost' \subseteq dlq \cup lost \cup {e}
  BY <1>1 DEF FinishEvent, MoveToDLQ, PushToDLQ, Lose, repoVars
<1>3. /\ TypeInv' /\ FrontInv' /\ [RepoNext]_repoVars
      /\ \A x : ValidEvent(x) => ValidEvent(x)'
  BY <1>2, FrontUnchanged
<1>4. OutsideInv'
  BY <1>1, <1>2, <1>3 DEF PipeInv, OutsideInv, webhookVars
<1>5. QueueInv' /\ HookInv'
  BY <1>2, <1>3 DEF PipeInv, QueueInv, QueuedEvents, HookInv, webhookVars
<1>6. WorkerInv'
  <2>1. /\ held' = [held EXCEPT ![k] = NoEvent] /\ attempt' = [attempt EXCEPT ![k] = 0]
        /\ UNCHANGED job
    BY <1>2 DEF LetGo
  <2>2. /\ held' \in [Workers -> AnyEvent \cup {NoEvent}]
        /\ attempt' \in [Workers -> 0 .. MaxRetries]
        /\ \A m \in Workers : held'[m] = NoEvent \/ held'[m] = held[m]
    BY <2>1, PipelineAssumption DEF PipeInv, WorkerInv
  <2> QED
    BY <1>3, <2>1, <2>2 DEF PipeInv, WorkerInv, JobEvent
<1> QED
  BY <1>3, <1>4, <1>5, <1>6 DEF PipeInv

(* A statement of the job that the worker runs.  Only its COMMIT touches a *)
(* row, and writes the status that its event tells of.                     *)
LEMMA JobWrites ==
  ASSUME PipeInv, NEW k \in Workers, JobStep(k)
  PROVE  /\ job' \in [Workers -> WorkerJob]
         /\ \A m \in Workers : JobEvent(m)' = JobEvent(m)
         /\ job[k].pc # "idle" /\ \A m \in Workers \ {k} : job'[m] = job[m]
         /\ \/ UNCHANGED deposits
            \/ /\ job[k].deposit \in Deposits
               /\ deposits[job[k].deposit].status # "ABSENT"
               /\ deposits' = [deposits EXCEPT ![job[k].deposit] =
                    WithStatus(@, IF job[k].kind = "charge.success" THEN "SUCCESS" ELSE "FAILED")]
<1>1. /\ job \in [Workers -> WorkerJob] /\ job[k].kind \in Kinds
  BY DEF PipeInv, TypeInv, TypeOK, WorkerJob
<1>2. \E pc, after, result : job' = [job EXCEPT ![k] = JobAt(pc, job[k], after, result)]
  BY DEF JobStep, ReadTransaction, CreditWallet, MarkTransaction, CommitJob, JobError, Return
<1>3. PICK pc, after, result : job' = [job EXCEPT ![k] = JobAt(pc, job[k], after, result)]
  BY <1>2
<1>4. /\ job'[k] = JobAt(pc, job[k], after, result)
      /\ \A m \in Workers \ {k} : job'[m] = job[m]
  BY <1>1, <1>3
<1>5. \A m \in Workers : JobEvent(m)' = JobEvent(m)
  BY <1>4 DEF JobEvent, JobAt
<1>6. job[k].pc # "idle"
  BY DEF JobStep, ReadTransaction, CreditWallet, MarkTransaction, CommitJob, JobError
<1>7. TypeInv'
  BY TypeJobStep DEF PipeInv
<1>8. CASE CommitJob(k)
  <2>1. job[k].deposit \in Deposits /\ deposits[job[k].deposit].status # "ABSENT"
    BY <1>8 DEF CommitJob, PipeInv, TypeInv, JobsNamed
  <2>2. deposits' = [deposits EXCEPT ![job[k].deposit] =
          WithStatus(@, IF job[k].kind = "charge.success" THEN "SUCCESS" ELSE "FAILED")]
    BY <1>8 DEF CommitJob
  <2> QED
    BY <1>4, <1>5, <1>6, <1>7, <2>1, <2>2 DEF TypeInv, TypeOK
<1>9. CASE ~CommitJob(k)
  <2>1. UNCHANGED deposits
    BY <1>9 DEF JobStep, ReadTransaction, CreditWallet, MarkTransaction, JobError
  <2> QED
    BY <1>4, <1>5, <1>6, <1>7, <2>1 DEF TypeInv, TypeOK
<1> QED
  BY <1>8, <1>9

LEMMA RunJobStep ==
  ASSUME PipeInv, NEW k \in Workers, RunJob(k)
  PROVE  PipeInv' /\ [RepoNext]_repoVars
<1>1. JobStep(k) /\ UNCHANGED <<request, gateway, webhookVars, queue, held, attempt, dlq, lost>>
  BY DEF RunJob, frontVars, workerVars
<1>2. [RepoNext]_repoVars
  BY <1>1 DEF RepoNext
<1>3. TypeInv'
  BY <1>2, TypeStep DEF PipeInv
<1>4. /\ \A m \in Workers : JobEvent(m)' = JobEvent(m)
      /\ job[k].pc # "idle" /\ \A m \in Workers \ {k} : job'[m] = job[m]
      /\ \/ UNCHANGED deposits
         \/ /\ job[k].deposit \in Deposits
            /\ deposits[job[k].deposit].status # "ABSENT"
            /\ deposits' = [deposits EXCEPT ![job[k].deposit] =
                 WithStatus(@, IF job[k].kind = "charge.success" THEN "SUCCESS" ELSE "FAILED")]
  BY <1>1, JobWrites
<1>5. \A e : ValidEvent(e) => ValidEvent(e)'
  BY <1>1, EventsStay
<1>6. FrontInv'
  <2>1. CASE UNCHANGED deposits
    BY <1>1, <2>1 DEF PipeInv, FrontInv, FrontTypes, RequestSound, RowsTrue
  <2>2. CASE ~UNCHANGED deposits
    <3> DEFINE c == job[k].deposit
               s == IF job[k].kind = "charge.success" THEN "SUCCESS" ELSE "FAILED"
    <3>1. /\ c \in Deposits /\ deposits[c].status # "ABSENT" /\ s \in {"SUCCESS", "FAILED"}
          /\ deposits' = [deposits EXCEPT ![c] = WithStatus(deposits[c], s)]
      BY <1>4, <2>2
    <3>2. gateway[c] \in IF s = "SUCCESS" THEN {"paid"} ELSE AfterDecline
      <4>1. ValidEvent(JobEvent(k))
        BY <1>4 DEF PipeInv, WorkerInv
      <4> QED
        BY <4>1 DEF ValidEvent, JobEvent
    <3> HIDE DEF c, s
    <3>3. deposits \in [Deposits -> DepositRow]
      BY DEF PipeInv, TypeInv, TypeOK
    <3>4. /\ deposits'[c] = [status |-> s, wallet |-> deposits[c].wallet, amount |-> deposits[c].amount]
          /\ \A b \in Deposits \ {c} : deposits'[b] = deposits[b]
      BY <3>1, <3>3 DEF WithStatus
    <3>5. \A b \in Deposits : RequestSound(b)'
      BY <1>1, <3>1, <3>4 DEF PipeInv, FrontInv, RequestSound
    <3>6. RowsTrue'
      BY <1>1, <3>1, <3>2, <3>4 DEF PipeInv, FrontInv, RowsTrue
    <3> QED
      BY <1>1, <3>5, <3>6 DEF PipeInv, FrontInv, FrontTypes
  <2> QED
    BY <2>1, <2>2
<1>7. WorkerInv'
  <2>1. ASSUME NEW m \in Workers, job'[m].pc # "idle"
        PROVE  ValidEvent(JobEvent(m))'
    <3>1. job[m].pc # "idle"
      BY <1>4, <2>1
    <3>2. PICK x : x = JobEvent(m)' /\ ValidEvent(x)
      BY <1>4, <3>1 DEF PipeInv, WorkerInv
    <3>3. ValidEvent(x)'
      BY <1>5, <3>2
    <3> QED
      BY <3>2, <3>3 DEF ValidEvent
  <2> QED
    BY <1>1, <1>5, <2>1 DEF PipeInv, WorkerInv
<1>8. OutsideInv' /\ HookInv'
  BY <1>1, <1>5 DEF PipeInv, OutsideInv, HookInv, webhookVars
<1>9. QueueInv'
  BY <1>1, <1>5 DEF PipeInv, QueueInv, QueuedEvents
<1> QED
  BY <1>2, <1>3, <1>6, <1>7, <1>8, <1>9 DEF PipeInv
-----------------------------------------------------------------------------
(* Transfers share the wallets with the deposits, and nothing else.        *)

LEMMA RunTransferStep ==
  ASSUME PipeInv, NEW t \in Transfers, RunTransfer(t)
  PROVE  PipeInv' /\ [RepoNext]_repoVars
<1>1. /\ RequestTransfer(t) \/ TransferStep(t)
      /\ UNCHANGED <<request, gateway, webhookVars, queue, held, attempt, dlq, lost>>
  BY DEF RunTransfer, frontVars, workerVars
<1>2. UNCHANGED <<deposits, job>>
  BY <1>1 DEF RequestTransfer, TransferRequest, TransferStep, DebitSender, InsufficientBalance,
     CreditRecipient, InsertRecords, CommitTransfer, AnswerTransfer, TransferError, DeadlockVictim
<1>3. [RepoNext]_repoVars
  BY <1>1 DEF RepoNext
<1>4. TypeInv'
  BY <1>3, TypeStep DEF PipeInv
<1>5. \A e : ValidEvent(e) => ValidEvent(e)'
  BY <1>1, EventsStay
<1>6. FrontInv'
  BY <1>1, <1>2 DEF PipeInv, FrontInv, FrontTypes, RequestSound, RowsTrue
<1>7. OutsideInv' /\ QueueInv' /\ HookInv' /\ WorkerInv'
  BY <1>1, <1>2, <1>5, PlacesKept DEF webhookVars, workerVars
<1> QED
  BY <1>3, <1>4, <1>6, <1>7 DEF PipeInv

(* The server dies.  Only what is in memory is gone.                       *)
LEMMA CrashServerStep ==
  ASSUME PipeInv, CrashServer
  PROVE  PipeInv' /\ [RepoNext]_repoVars
<1>1. /\ Crash /\ UNCHANGED <<gateway, outbox, acked, queue, dlq>>
      /\ UNCHANGED deposits
      /\ job' = [k \in Workers |-> NoJob]
  BY DEF CrashServer, Crash, CrashRepo
<1>2. [RepoNext]_repoVars
  BY <1>1 DEF RepoNext
<1>3. TypeInv'
  BY <1>2, TypeStep DEF PipeInv
<1>4. \A d \in Deposits :
        \/ request'[d] = request[d]
        \/ /\ request[d].stage \in {"calling", "inserting"}
           /\ request'[d] = [stage |-> "failed", wallet |-> request[d].wallet,
                             amount |-> request[d].amount]
  BY DEF CrashServer
<1>5. \A e : ValidEvent(e) => ValidEvent(e)'
  BY <1>1, <1>4, EventsStay
<1>6. FrontInv'
  <2>1. request' \in [Deposits ->
          [stage : Stages, wallet : Wallets \cup {None}, amount : Payable \cup {0}]]
    BY <1>4 DEF CrashServer, PipeInv, FrontInv, FrontTypes, Stages
  <2>2. ASSUME NEW d \in Deposits
        PROVE  RequestSound(d)'
    <3>1. RequestSound(d) /\ deposits'[d] = deposits[d] /\ gateway'[d] = gateway[d]
      BY <1>1 DEF PipeInv, FrontInv
    <3>2. CASE request'[d] = request[d]
      BY <3>1, <3>2 DEF RequestSound
    <3>3. CASE /\ request[d].stage \in {"calling", "inserting"}
               /\ request'[d].stage = "failed"
               /\ request'[d].wallet = request[d].wallet
               /\ request'[d].amount = request[d].amount
      BY <3>1, <3>3 DEF RequestSound
    <3>4. \/ request'[d] = request[d]
          \/ /\ request[d].stage \in {"calling", "inserting"}
             /\ request'[d] = [stage |-> "failed", wallet |-> request[d].wallet,
                               amount |-> request[d].amount]
      BY <1>4
    <3> QED
      BY <3>2, <3>3, <3>4
  <2> QED
    BY <1>1, <2>1, <2>2 DEF PipeInv, FrontInv, FrontTypes, RowsTrue
<1>7. OutsideInv'
  <2>1. \A e \in lost' : e \in lost \/ ValidEvent(e)
    <3>1. ASSUME NEW e \in lost', e \notin lost
          PROVE  ValidEvent(e)
      <4>1. PICK k \in Workers : e = held[k] /\ e.kind = "charge.success"
        BY <3>1 DEF CrashServer, Lose
      <4> QED
        BY <4>1 DEF PipeInv, WorkerInv, NoEvent
    <3> QED
      BY <3>1
  <2> QED
    BY <1>1, <1>5, <2>1 DEF PipeInv, OutsideInv
<1>8. QueueInv'
  BY <1>1, <1>5 DEF PipeInv, QueueInv, QueuedEvents
<1>9. HookInv'
  BY DEF CrashServer, HookInv, FreeHook, HookPC
<1>10. WorkerInv'
  BY <1>1, PipelineAssumption DEF CrashServer, WorkerInv, NoJob
<1> QED
  BY <1>2, <1>3, <1>6, <1>7, <1>8, <1>9, <1>10 DEF PipeInv
-----------------------------------------------------------------------------
(* The invariant, and what follows from it.                                *)

LEMMA PipeStep == PipeInv /\ [PipelineNext]_pipelineVars => PipeInv' /\ [RepoNext]_repoVars
<1> SUFFICES ASSUME PipeInv, [PipelineNext]_pipelineVars
             PROVE  PipeInv' /\ [RepoNext]_repoVars
  OBVIOUS
<1>1. CASE UNCHANGED pipelineVars
  <2>1. UNCHANGED <<repoVars, frontVars, webhookVars, queue, workerVars, job>>
    BY <1>1 DEF pipelineVars, repoVars
  <2>2. /\ TypeInv' /\ FrontInv' /\ [RepoNext]_repoVars
        /\ \A e : ValidEvent(e) => ValidEvent(e)'
    BY <2>1, FrontUnchanged
  <2>3. OutsideInv' /\ QueueInv' /\ HookInv' /\ WorkerInv'
    BY <2>1, <2>2, PlacesKept DEF webhookVars
  <2> QED
    BY <2>2, <2>3 DEF PipeInv
<1>2. ASSUME NEW d \in Deposits, RequestStep(d) \/ GatewayStep(d)
      PROVE  PipeInv' /\ [RepoNext]_repoVars
  BY <1>2, RequestHandlerStep, GatewayActionStep
<1>3. ASSUME NEW h \in Hooks, HookStep(h) \/ \E e \in outbox : DeliverWebhook(h, e)
      PROVE  PipeInv' /\ [RepoNext]_repoVars
  BY <1>3, WebhookStep
<1>4. ASSUME NEW k \in Workers, WorkerStep(k)
      PROVE  PipeInv' /\ [RepoNext]_repoVars
  BY <1>4, PopStep, PopReplyLostStep, RunJobStep, RetryStep, LetGoStep DEF WorkerStep
<1>5. ASSUME NEW t \in Transfers, RunTransfer(t)
      PROVE  PipeInv' /\ [RepoNext]_repoVars
  BY <1>5, RunTransferStep
<1>6. CASE CrashServer
  BY <1>6, CrashServerStep
<1> QED
  BY <1>1, <1>2, <1>3, <1>4, <1>5, <1>6 DEF PipelineNext, PipelineStep

LEMMA PipeAlways == PipelineSpec => []PipeInv
<1>1. PipeInv /\ [PipelineNext]_pipelineVars => PipeInv'
  BY PipeStep
<1> QED
  BY <1>1, PipeInitial, PTL DEF PipelineSpec

(* The handlers, the webhook and the worker use the repository only as     *)
(* WalletRepo allows.                                                      *)
THEOREM PipelineImplementsRepo == PipelineSpec => ImplementsRepo
<1>1. PipelineInit => RepoInit
  BY DEF PipelineInit
<1>2. PipeInv /\ [PipelineNext]_pipelineVars => [RepoNext]_repoVars
  BY PipeStep
<1> QED
  BY <1>1, <1>2, PipeAlways, PTL DEF PipelineSpec, ImplementsRepo

(* Events, rows and requests keep their types, and an event always carries *)
(* the amount of its own deposit.                                          *)
THEOREM PipelineTypeCorrect == PipelineSpec => []PipelineTypeOK
<1>1. PipeInv => PipelineTypeOK
  <2> SUFFICES ASSUME PipeInv PROVE PipelineTypeOK
    OBVIOUS
  <2>1. \A e : ValidEvent(e) => e \in Events
    <3>1. ASSUME NEW e, ValidEvent(e)
          PROVE  e \in Events
      <4>1. /\ e \in AnyEvent /\ e.deposit \in Deposits /\ e.amount = request[e.deposit].amount
        BY <3>1 DEF ValidEvent, AnyEvent
      <4>2. e \in EventsOf(e.deposit)
        BY <4>1 DEF EventsOf, AnyEvent
      <4> QED
        BY <4>1, <4>2 DEF Events
    <3> QED
      BY <3>1
  <2>2. outbox \cup acked \cup dlq \cup lost \cup QueuedEvents \subseteq Events
    BY <2>1 DEF PipeInv, OutsideInv, QueueInv
  <2>3. hook \in [Hooks -> [pc : HookPC, event : Events \cup {NoEvent}]]
    <3>1. \A h \in Hooks : hook[h].event \in Events \cup {NoEvent}
      BY <2>1 DEF PipeInv, HookInv
    <3>2. hook \in [Hooks -> [pc : HookPC, event : AnyEvent \cup {NoEvent}]]
      BY DEF PipeInv, HookInv
    <3> QED
      BY <3>1, <3>2
  <2>4. held \in [Workers -> Events \cup {NoEvent}]
    BY <2>1 DEF PipeInv, WorkerInv
  <2> QED
    BY <2>2, <2>3, <2>4 DEF PipelineTypeOK, PipeInv, FrontInv, FrontTypes, WorkerInv
<1> QED
  BY <1>1, PipeAlways, PTL

(* A charge that was paid or declined has its row, with the wallet and the *)
(* amount of the request that opened it.                                   *)
THEOREM PaymentsNotOrphaned == PipelineSpec => []NoOrphanPayment
<1>1. PipeInv => NoOrphanPayment
  BY DEF PipeInv, FrontInv, RequestSound, NoOrphanPayment
<1> QED
  BY <1>1, PipeAlways, PTL

(* SUCCESS is only written for a charge that was paid, FAILED for one that *)
(* was declined, for any number of webhook goroutines and workers.         *)
THEOREM StatusesMatchGateway == PipelineSpec => []StatusMatchesGateway
<1>1. PipeInv => StatusMatchesGateway
  BY RowsTrueSuffices DEF PipeInv, FrontInv
<1> QED
  BY <1>1, PipeAlways, PTL

LEMMA PipelineRunsRepo == PipelineSpec => RepoSpec
  BY PipelineImplementsRepo DEF ImplementsRepo, RepoSpec

(* While jobs are apart, and so with one worker (OneIsApart), a charge     *)
(* that goes through the whole pipeline pays its wallet exactly when its   *)
(* row turns SUCCESS.                                                      *)
THEOREM PipelineCreditsOnce == PipelineSpec /\ []JobsApart => []CreditedOnce
  BY PipelineRunsRepo, CreditedOnceWhileApart, PTL

(* The gateway, the webhook, the list and the worker leave of the ledger   *)
(* only its atomic operations, whatever they lose, repeat or retry.        *)
THEOREM PipelineImplementsLedger == PipelineSpec /\ []JobsApart => ImplementsLedger
  BY PipelineRunsRepo, LedgerWhileApart, PTL

(* Rows that say SUCCESS stay so.                                          *)
LEMMA RowsStaySuccess == PipelineSpec /\ []JobsApart => SuccessIsFinal
  BY PipelineRunsRepo, SuccessFinalWhileApart, PTL
-----------------------------------------------------------------------------
(* Acknowledged payments.  A row that says SUCCESS stays so while jobs are *)
(* apart, and a worker lets go of a payment without an error only when its *)
(* row says SUCCESS.                                                       *)

HeldInv ==
  \A k \in Workers :
    held[k] # NoEvent =>
      /\ job[k].pc # "idle" /\ JobEvent(k) = held[k]
      /\ (job[k].pc = "returned" /\ job[k].result = "ok" /\ held[k].kind = "charge.success")
           => deposits[held[k].deposit].status = "SUCCESS"

SuccessKept ==
  \A d \in Deposits : deposits[d].status = "SUCCESS" => deposits'[d].status = "SUCCESS"

Accounted(e) ==
  e.kind = "charge.success" =>
    deposits[e.deposit].status = "SUCCESS" \/ InFlight(e) \/ e \in dlq \cup lost

LEMMA HeldOther ==
  ASSUME HeldInv, SuccessKept, PipeInv, NEW m \in Workers,
         held'[m] = held[m], job'[m] = job[m]
  PROVE  held'[m] # NoEvent =>
           /\ job'[m].pc # "idle" /\ JobEvent(m)' = held'[m]
           /\ (job'[m].pc = "returned" /\ job'[m].result = "ok" /\ held'[m].kind = "charge.success")
                => deposits'[held'[m].deposit].status = "SUCCESS"
<1>1. held[m] # NoEvent => held[m].deposit \in Deposits
  BY DEF PipeInv, WorkerInv, AnyEvent
<1> QED
  BY <1>1 DEF HeldInv, SuccessKept, JobEvent

LEMMA HeldStep ==
  ASSUME HeldInv, PipeInv, SuccessKept, [PipelineNext]_pipelineVars
  PROVE  HeldInv'
<1>a. /\ job \in [Workers -> WorkerJob]
      /\ held \in [Workers -> AnyEvent \cup {NoEvent}]
  BY DEF PipeInv, TypeInv, TypeOK, WorkerInv
<1>1. CASE UNCHANGED <<held, job>>
  BY <1>1, HeldOther DEF HeldInv, NoEvent
<1>2. ASSUME NEW k \in Workers, WorkerStep(k)
      PROVE  HeldInv'
  <2>1. SUFFICES ASSUME NEW m \in Workers, held'[m] # NoEvent
                 PROVE  /\ job'[m].pc # "idle" /\ JobEvent(m)' = held'[m]
                        /\ (job'[m].pc = "returned" /\ job'[m].result = "ok"
                             /\ held'[m].kind = "charge.success")
                             => deposits'[held'[m].deposit].status = "SUCCESS"
    BY DEF HeldInv, NoEvent
  <2>2. CASE PopEvent(k) \/ RetryEvent(k)
    <3>1. PICK e : /\ held' = [held EXCEPT ![k] = e]
                   /\ job' = [job EXCEPT ![k] = JobAt("read",
                        [kind |-> e.kind, deposit |-> e.deposit, amount |-> e.amount], 0, "none")]
                   /\ e \in AnyEvent
      <4>1. CASE PopEvent(k)
        <5>1. queue \in Seq(AnyEvent) /\ queue # <<>>
          BY <4>1 DEF PopEvent, PipeInv, QueueInv
        <5>2. Head(queue) \in AnyEvent
          BY <5>1, PopElements
        <5> QED
          BY <4>1, <5>2 DEF PopEvent, Try, StartJob
      <4>2. CASE RetryEvent(k)
        BY <1>a, <4>2 DEF RetryEvent, Returned, Try, StartJob
      <4> QED
        BY <2>2, <4>1, <4>2
    <3>2. CASE m = k
      <4>1. /\ held'[m] = e
            /\ job'[m].pc = "read" /\ job'[m].kind = e.kind
            /\ job'[m].deposit = e.deposit /\ job'[m].amount = e.amount
        BY <1>a, <3>1, <3>2 DEF JobAt
      <4> QED
        BY <3>1, <4>1 DEF JobEvent, AnyEvent
    <3>3. CASE m # k
      BY <1>a, <2>1, <3>1, <3>3, HeldOther
    <3> QED
      BY <3>2, <3>3
  <2>3. CASE FinishEvent(k) \/ MoveToDLQ(k)
    <3>1. held' = [held EXCEPT ![k] = NoEvent] /\ UNCHANGED job
      BY <2>3 DEF FinishEvent, MoveToDLQ, LetGo, repoVars
    <3>2. m # k
      BY <1>a, <2>1, <3>1
    <3> QED
      BY <1>a, <2>1, <3>1, <3>2, HeldOther
  <2>4. CASE RunJob(k)
    <3>1. JobStep(k) /\ UNCHANGED held
      BY <2>4 DEF RunJob, workerVars
    <3>2. /\ job' \in [Workers -> WorkerJob]
          /\ JobEvent(m)' = JobEvent(m)
          /\ job[k].pc # "idle" /\ \A l \in Workers \ {k} : job'[l] = job[l]
      BY <3>1, JobWrites
    <3>3. CASE m # k
      BY <2>1, <3>1, <3>2, <3>3, HeldOther
    <3>4. CASE m = k
      <4> DEFINE d == job[k].deposit
      <4>1. /\ held[k] # NoEvent /\ held'[k] = held[k] /\ JobEvent(k) = held[k]
            /\ held[k].kind = job[k].kind /\ held[k].deposit = d
        BY <2>1, <3>1, <3>4 DEF HeldInv, JobEvent
      <4>2. /\ d \in Deposits
            /\ deposits \in [Deposits -> DepositRow]
        BY <3>2 DEF PipeInv, TypeInv, TypeOK, JobsNamed
      <4>3. /\ job'[k].pc # "idle"
            /\ (job'[k].pc = "returned" /\ job'[k].result = "ok" /\ job[k].kind = "charge.success")
                 => deposits'[d].status = "SUCCESS"
        <5>1. CASE ReadTransaction(k)
          BY <1>a, <4>2, <5>1 DEF ReadTransaction, Return, JobAt, StopsAt
        <5>2. CASE CreditWallet(k) \/ MarkTransaction(k) \/ JobError(k)
          BY <1>a, <5>2 DEF CreditWallet, MarkTransaction, JobError, Return, JobAt
        <5>3. CASE CommitJob(k)
          BY <1>a, <4>2, <5>3 DEF CommitJob, Return, JobAt, WithStatus
        <5> QED
          BY <3>1, <5>1, <5>2, <5>3 DEF JobStep
      <4> QED
        BY <3>2, <3>4, <4>1, <4>3
    <3> QED
      BY <3>3, <3>4
  <2>5. CASE PopReplyLost(k)
    BY <2>1, <2>5, HeldOther DEF PopReplyLost, repoVars
  <2> QED
    BY <1>2, <2>2, <2>3, <2>4, <2>5 DEF WorkerStep
<1>3. CASE CrashServer
  BY <1>3 DEF CrashServer, HeldInv, NoEvent
<1>4. CASE UNCHANGED pipelineVars
  BY <1>1, <1>4 DEF pipelineVars, repoVars, workerVars
<1>5. ASSUME NEW d \in Deposits, RequestStep(d) \/ GatewayStep(d)
      PROVE  HeldInv'
  BY <1>1, <1>5 DEF RequestStep, WalletDeposit, GatewayReplies, InsertPending, CreateTransaction,
     GatewayStep, OpenCharge, CustomerPays, CustomerDeclined, repoVars, workerVars
<1>6. ASSUME NEW h \in Hooks, HookStep(h) \/ \E e \in outbox : DeliverWebhook(h, e)
      PROVE  HeldInv'
  BY <1>1, <1>6 DEF HookStep, LookupTransaction, PublishEvent, AnswerWebhook, DeliverWebhook,
     repoVars, workerVars
<1>7. ASSUME NEW t \in Transfers, RunTransfer(t)
      PROVE  HeldInv'
  BY <1>1, <1>7 DEF RunTransfer, RequestTransfer, TransferRequest, TransferStep, DebitSender,
     InsufficientBalance, CreditRecipient, InsertRecords, CommitTransfer, AnswerTransfer, TransferError,
     DeadlockVictim, workerVars
<1> QED
  BY <1>2, <1>3, <1>4, <1>5, <1>6, <1>7 DEF PipelineNext, PipelineStep

(* What is accounted for stays so, whoever moves.                          *)
LEMMA AccountedStays ==
  ASSUME PipeInv, HeldInv, SuccessKept, [PipelineNext]_pipelineVars,
         NEW e, ValidEvent(e), Accounted(e)
  PROVE  Accounted(e)'
<1>a. e \in AnyEvent /\ e.deposit \in Deposits /\ e # NoEvent
  BY DEF ValidEvent, AnyEvent, NoEvent, Kinds
<1>b. held \in [Workers -> AnyEvent \cup {NoEvent}]
  BY DEF PipeInv, WorkerInv
<1>0. SUFFICES ASSUME e.kind = "charge.success", InFlight(e)
               PROVE  Accounted(e)'
  <2>1. dlq \cup lost \subseteq dlq' \cup lost'
    BY DEF PipelineNext, PipelineStep, RequestStep, WalletDeposit, GatewayReplies, InsertPending,
       GatewayStep, OpenCharge, CustomerPays, CustomerDeclined, HookStep, LookupTransaction,
       PublishEvent, AnswerWebhook, DeliverWebhook, WorkerStep, PopEvent, PopReplyLost, RunJob,
       FinishEvent, RetryEvent, MoveToDLQ, PushToDLQ, RunTransfer, CrashServer, Lose, pipelineVars, workerVars
  <2> QED
    BY <1>a, <2>1 DEF Accounted, SuccessKept
<1>1. CASE held' = held /\ QueuedEvents \subseteq QueuedEvents'
  BY <1>0, <1>1 DEF Accounted, InFlight
<1>2. ASSUME NEW h \in Hooks, HookStep(h) \/ \E x \in outbox : DeliverWebhook(h, x)
      PROVE  held' = held /\ QueuedEvents \subseteq QueuedEvents'
  <2>1. held' = held
    BY <1>2 DEF HookStep, LookupTransaction, PublishEvent, AnswerWebhook, DeliverWebhook, workerVars
  <2>2. CASE PublishEvent(h)
    <3> DEFINE x == hook[h].event
    <3>1. x \in AnyEvent /\ queue \in Seq(AnyEvent)
      BY <2>2 DEF PublishEvent, PipeInv, HookInv, ValidEvent, QueueInv
    <3>2. queue' \in {queue, Append(queue, x), Append(Append(queue, x), x)}
      BY <2>2 DEF PublishEvent, Published, PublishFailed
    <3> HIDE DEF x
    <3>3. /\ Append(queue, x) \in Seq(AnyEvent)
          /\ Elements(Append(queue, x)) = Elements(queue) \cup {x}
      BY <3>1, AppendElements
    <3>4. Elements(Append(Append(queue, x), x)) = Elements(Append(queue, x)) \cup {x}
      BY <3>1, <3>3, AppendElements
    <3> QED
      BY <2>1, <3>2, <3>3, <3>4, QueuedAre
  <2>3. CASE ~PublishEvent(h)
    BY <1>2, <2>1, <2>3 DEF HookStep, LookupTransaction, AnswerWebhook, DeliverWebhook, QueuedEvents
  <2> QED
    BY <2>2, <2>3
<1>3. ASSUME NEW k \in Workers, PopEvent(k)
      PROVE  InFlight(e)'
  <2>1. /\ queue \in Seq(AnyEvent) /\ queue # <<>> /\ queue' = Tail(queue)
        /\ held[k] = NoEvent /\ held' = [held EXCEPT ![k] = Head(queue)]
    BY <1>3 DEF PopEvent, PipeInv, QueueInv
  <2>2. QueuedEvents = {Head(queue)} \cup QueuedEvents'
    BY <2>1, PopElements, QueuedAre
  <2>3. held'[k] = Head(queue) /\ \A m \in Workers \ {k} : held'[m] = held[m]
    BY <1>b, <2>1
  <2> QED
    BY <1>0, <1>a, <2>1, <2>2, <2>3 DEF InFlight
<1>4. ASSUME NEW k \in Workers, FinishEvent(k) \/ MoveToDLQ(k)
      PROVE  Accounted(e)'
  <2>1. /\ QueuedEvents' = QueuedEvents
        /\ \A m \in Workers \ {k} : held'[m] = held[m]
    BY <1>4, <1>b DEF FinishEvent, MoveToDLQ, LetGo, QueuedEvents
  <2>2. CASE held[k] = e /\ FinishEvent(k)
    BY <1>0, <1>a, <2>2 DEF FinishEvent, Returned, HeldInv, SuccessKept, Accounted
  <2>3. CASE held[k] = e /\ MoveToDLQ(k)
    BY <1>0, <2>3 DEF MoveToDLQ, PushToDLQ, Lose, Accounted
  <2>4. CASE held[k] # e
    BY <1>0, <2>1, <2>4 DEF InFlight, Accounted
  <2> QED
    BY <1>4, <2>2, <2>3, <2>4
<1>5. CASE CrashServer
  <2>1. QueuedEvents' = QueuedEvents
    BY <1>5 DEF CrashServer, QueuedEvents
  <2>2. (\E k \in Workers : held[k] = e) => e \in lost'
    BY <1>0, <1>5 DEF CrashServer, Lose
  <2> QED
    BY <1>0, <2>1, <2>2 DEF InFlight, Accounted
<1>6. ASSUME NEW k \in Workers, WorkerStep(k)
      PROVE  Accounted(e)'
  <2>1. CASE RunJob(k) \/ RetryEvent(k)
    BY <1>1, <2>1 DEF RunJob, RetryEvent, QueuedEvents, workerVars
  <2>2. CASE PopReplyLost(k)
    <3>1. /\ queue \in Seq(AnyEvent) /\ queue # <<>> /\ queue' = Tail(queue)
          /\ held' = held /\ Lose({Head(queue)})
      BY <2>2 DEF PopReplyLost, PipeInv, QueueInv
    <3>2. QueuedEvents = {Head(queue)} \cup QueuedEvents'
      BY <3>1, PopElements, QueuedAre
    <3>3. e = Head(queue) => e \in lost'
      BY <1>0, <3>1 DEF Lose
    <3> QED
      BY <1>0, <3>1, <3>2, <3>3 DEF InFlight, Accounted
  <2> QED
    BY <1>3, <1>4, <1>6, <2>1, <2>2 DEF WorkerStep, Accounted
<1>7. ASSUME NEW d \in Deposits, RequestStep(d) \/ GatewayStep(d)
      PROVE  held' = held /\ QueuedEvents' = QueuedEvents
  BY <1>7 DEF RequestStep, WalletDeposit, GatewayReplies, InsertPending, GatewayStep, OpenCharge,
     CustomerPays, CustomerDeclined, QueuedEvents, workerVars
<1>8. ASSUME NEW t \in Transfers, RunTransfer(t)
      PROVE  held' = held /\ QueuedEvents' = QueuedEvents
  BY <1>8 DEF RunTransfer, QueuedEvents, workerVars
<1>9. CASE UNCHANGED pipelineVars
  BY <1>1, <1>9 DEF pipelineVars, QueuedEvents, workerVars
<1> QED
  BY <1>1, <1>2, <1>5, <1>6, <1>7, <1>8, <1>9 DEF PipelineNext, PipelineStep

(* The events that the webhook has acknowledged, or will: their push on    *)
(* the list has succeeded, while the worker may be done with them already. *)
Responding(h) == hook[h].pc = "respond"
Promised(e) == e \in acked \/ \E h \in Hooks : Responding(h) /\ hook[h].event = e

(* What the webhook promises is accounted for.                             *)
LEMMA NewlyPromised ==
  ASSUME PipeInv, [PipelineNext]_pipelineVars, NEW e, Promised(e)', ~Promised(e)
  PROVE  Accounted(e)'
<1>a. hook \in [Hooks -> [pc : HookPC, event : AnyEvent \cup {NoEvent}]]
  BY DEF PipeInv, HookInv
<1>b. ~UNCHANGED <<acked, hook>>
  BY DEF Promised, Responding
<1>c. ~CrashServer
  BY DEF CrashServer, FreeHook, Promised, Responding
<1>1. \E h \in Hooks : HookStep(h) \/ \E x \in outbox : DeliverWebhook(h, x)
  BY <1>b, <1>c DEF PipelineNext, PipelineStep, RequestStep, WalletDeposit, GatewayReplies,
     InsertPending, GatewayStep, OpenCharge, CustomerPays, CustomerDeclined,
     WorkerStep, PopEvent, PopReplyLost, RunJob, FinishEvent, RetryEvent, MoveToDLQ,
     RunTransfer, pipelineVars, webhookVars
<1>2. PICK h \in Hooks : HookStep(h) \/ \E x \in outbox : DeliverWebhook(h, x)
  BY <1>1
<1>3. hook[h].pc # "free" =>
        ValidEvent(hook[h].event) /\ hook[h].event \in AnyEvent /\ hook[h].event.deposit \in Deposits
  BY DEF PipeInv, HookInv, ValidEvent, AnyEvent
<1>4. ASSUME NEW pc \in {"free", "lookup", "publish"}, NEW x, acked' = acked,
             hook' = [hook EXCEPT ![h] = [pc |-> pc, event |-> x]]
      PROVE  FALSE
  BY <1>a, <1>4 DEF Promised, Responding
<1>5. ~\E x \in outbox : DeliverWebhook(h, x)
  <2>1. ASSUME NEW x \in outbox, DeliverWebhook(h, x) PROVE FALSE
    BY <1>4, <2>1 DEF DeliverWebhook
  <2> QED
    BY <2>1
<1>6. ~AnswerWebhook(h)
  <2>1. AnswerWebhook(h) => \A x : Promised(x)' => Promised(x)
    BY <1>a DEF AnswerWebhook, Respond200, Promised, Responding, FreeHook
  <2> QED
    BY <2>1
<1>7. CASE LookupTransaction(h)
  <2>1. Respond200(h)
    BY <1>4, <1>7 DEF LookupTransaction
  <2>2. e = hook[h].event
    BY <1>a, <2>1 DEF Respond200, Promised, Responding, FreeHook
  <2>3. UNCHANGED deposits
    BY <1>7 DEF LookupTransaction, repoVars
  <2>4. hook'[h] = FreeHook
    BY <1>a, <2>1 DEF Respond200
  <2>5. deposits[e.deposit].status = "SUCCESS" \/ Lose({e})
    BY <1>a, <1>7, <2>2, <2>4 DEF LookupTransaction, FreeHook
  <2> QED
    BY <2>3, <2>5 DEF Lose, Accounted
<1>8. CASE PublishEvent(h)
  <2>1. /\ hook' = [hook EXCEPT ![h] = [pc |-> "respond", event |-> hook[h].event]]
        /\ acked' = acked /\ queue' \in Published(hook[h].event)
    <3>1. ~Respond500(h)
      BY <1>4 DEF Respond500, FreeHook
    <3> QED
      BY <1>8, <3>1 DEF PublishEvent
  <2>2. e = hook[h].event
    BY <1>a, <2>1 DEF Promised, Responding
  <2>3. queue \in Seq(AnyEvent) /\ e \in AnyEvent /\ ValidEvent(e)
    BY <1>3, <1>8, <2>2 DEF PublishEvent, PipeInv, QueueInv
  <2>4. queue' \in {Append(queue, e), Append(Append(queue, e), e)}
    BY <2>1, <2>2 DEF Published
  <2>5. /\ Append(queue, e) \in Seq(AnyEvent)
        /\ Elements(Append(queue, e)) = Elements(queue) \cup {e}
    BY <2>3, AppendElements
  <2>6. Elements(Append(Append(queue, e), e)) = Elements(Append(queue, e)) \cup {e}
    BY <2>3, <2>5, AppendElements
  <2>7. e \in Elements(queue')
    BY <2>4, <2>5, <2>6
  <2> QED
    BY <2>7, QueuedAre DEF Accounted, InFlight
<1> QED
  BY <1>2, <1>5, <1>6, <1>7, <1>8 DEF HookStep

AccountInv == PipeInv /\ HeldInv /\ \A e : Promised(e) => Accounted(e)

LEMMA AccountStep ==
  ASSUME AccountInv, [PipelineNext]_pipelineVars, SuccessKept
  PROVE  AccountInv'
<1>1. PipeInv' /\ HeldInv'
  BY PipeStep, HeldStep DEF AccountInv
<1>2. ASSUME NEW e, Promised(e)'
      PROVE  Accounted(e)'
  <2>1. CASE Promised(e)
    <3>1. ValidEvent(e) /\ Accounted(e)
      BY <2>1 DEF AccountInv, PipeInv, OutsideInv, HookInv, Promised, Responding
    <3> QED
      BY <3>1, AccountedStays DEF AccountInv
  <2>2. CASE ~Promised(e)
    BY <1>2, <2>2, NewlyPromised DEF AccountInv
  <2> QED
    BY <2>1, <2>2
<1>3. (\A e : Promised(e) => Accounted(e))'
  BY <1>2
<1> QED
  BY <1>1, <1>3 DEF AccountInv

LEMMA KeptRows == [\A d \in Deposits : RowKept(d)]_repoVars => SuccessKept
  BY DEF RowKept, SuccessKept, repoVars

LEMMA AccountAlways == PipelineSpec /\ []JobsApart => []AccountInv
<1>1. PipelineInit => AccountInv
  <2>1. PipelineInit => HeldInv /\ \A e : ~Promised(e)
    BY DEF PipelineInit, HeldInv, Promised, Responding, FreeHook
  <2> QED
    BY <2>1, PipeInitial DEF AccountInv
<1>2. AccountInv /\ [PipelineNext]_pipelineVars /\ [\A d \in Deposits : RowKept(d)]_repoVars
        => AccountInv'
  BY KeptRows, AccountStep
<1> QED
  BY <1>1, <1>2, RowsStaySuccess, PTL DEF PipelineSpec, SuccessIsFinal

(* While jobs are apart, and as long as Redis keeps its lists, no          *)
(* acknowledged payment disappears in any other way than those the code    *)
(* has, whatever retries, crashes and faults happen.                       *)
THEOREM AckedPaymentsAccounted == PipelineSpec /\ []JobsApart => []AckedPaymentAccounted
<1>1. AccountInv => AckedPaymentAccounted
  BY DEF AccountInv, Promised, Accounted, AckedPaymentAccounted
<1> QED
  BY <1>1, AccountAlways, PTL

(* The five ways in which the code lets go of a payment: the webhook's     *)
(* lookup fails, a charge that was declined is paid after all, the reply   *)
(* to BLPOP is lost, the push on the dead letter queue fails, and the      *)
(* process dies.                                                           *)
LosingFaults == {"lookup", "repay", "pop", "dlq", "crash"}

LEMMA NothingLost ==
  ASSUME LosingFaults \cap Faults = {}, PipeInv, lost = {}, [PipelineNext]_pipelineVars
  PROVE  lost' = {}
<1>a. ~May("lookup") /\ ~May("repay") /\ ~May("pop") /\ ~May("dlq") /\ ~May("crash")
  BY DEF LosingFaults, May
<1>1. ASSUME NEW h \in Hooks, LookupTransaction(h)
      PROVE  lost' = {}
  <2> DEFINE e == hook[h].event
  <2>1. ValidEvent(e) /\ e.deposit \in Deposits
    BY <1>1 DEF LookupTransaction, PipeInv, HookInv, ValidEvent, AnyEvent
  <2>2. deposits[e.deposit].status # "ABSENT"
    BY <2>1 DEF ValidEvent, PipeInv, FrontInv, RequestSound
  <2>3. e.kind = "charge.success" => deposits[e.deposit].status # "FAILED"
    BY <1>a, <2>1 DEF ValidEvent, AfterDecline, PipeInv, FrontInv, RowsTrue
  <2> QED
    BY <1>1, <1>a, <2>2, <2>3 DEF LookupTransaction, Lose
<1>2. ASSUME NEW k \in Workers, MoveToDLQ(k)
      PROVE  lost' = {}
  BY <1>2, <1>a DEF MoveToDLQ, PushToDLQ
<1>3. ~CrashServer
  BY <1>a DEF CrashServer, Crash, May
<1>4. \A k \in Workers : ~PopReplyLost(k)
  BY <1>a DEF PopReplyLost
<1> QED
  BY <1>1, <1>2, <1>3, <1>4 DEF PipelineNext, PipelineStep, RequestStep, WalletDeposit, GatewayReplies,
     InsertPending, GatewayStep, OpenCharge, CustomerPays, CustomerDeclined, HookStep,
     PublishEvent, AnswerWebhook, DeliverWebhook, WorkerStep, PopEvent, RunJob, FinishEvent, RetryEvent,
     RunTransfer, pipelineVars, workerVars

(* "Event Processed", as docs/swagger.yaml has it, is kept as long as none *)
(* of those five happens and Redis keeps its lists, although statements of *)
(* the worker fail, pushes on the list fail or are repeated,               *)
(* acknowledgements get lost and the retries run out: no other step of the *)
(* pipeline has to be repaired.                                            *)
THEOREM AckedPaymentsKept ==
  ASSUME LosingFaults \cap Faults = {}
  PROVE  PipelineSpec /\ []JobsApart => []AckedPaymentKept
<1>1. PipelineInit => lost = {}
  BY DEF PipelineInit
<1>2. PipeInv /\ lost = {} /\ [PipelineNext]_pipelineVars => (lost = {})'
  BY NothingLost
<1>3. AckedPaymentAccounted /\ lost = {} => AckedPaymentKept
  BY DEF AckedPaymentAccounted, AckedPaymentKept
<1> QED
  BY <1>1, <1>2, <1>3, PipeAlways, AckedPaymentsAccounted, PTL DEF PipelineSpec
=============================================================================
