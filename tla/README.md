# TLA+ models of go-paystack-wallet

A wallet service: users log in with Google, open a wallet, deposit money through
Paystack, transfer it to each other, and let other programs act for them with API
keys. The modules here model its Go code (`src/internal`, `src/pkg`, `src/cmd`,
`src/migrations`), TLC checks them on small instances, and TLAPS proves the
properties that matter most for every instance. `PROJECT.json` lists runs, mutants,
hazards, theorems and, for every definition, the lines of code it stands for.

    tlc -config repo_safety.cfg MCWalletRepo     # any run of PROJECT.json
    tlapm WalletRepoProofs.tla                   # and the other proof modules, see below

## 1. Inventory

One server process runs the HTTP server (a goroutine for each request) and one
webhook worker (`cmd/server/main.go`). Its state is in Postgres and Redis; in memory
there are only the rate limiter's map and the event that the worker holds. Paystack
and Google are external.

| Component | State | Operations | Talks to |
|---|---|---|---|
| Wallet repository (`wallet/repository.go`, migrations 3, 4) | tables `wallets`, `transactions` | TransferFunds, ProcessDeposit, ProcessFailedTransaction, CreateTransaction, CreateWallet, look-ups, history | Postgres, called by handlers and worker |
| Transfer handler (`wallet/handler.go`) | none | Handler.TransferFunds | repository |
| Deposit handler and webhook (`wallet/handler.go`) | none | WalletDeposit, PaystackWebhook | Paystack, repository, Redis |
| Deposit status (`wallet/handler.go`) | none | GetDepositStatus, verifyPaystackStatus | repository, Paystack |
| Webhook worker (`wallet/worker.go`) | the event in hand, attempts | pop, process, retry, dead letter queue | Redis, repository |
| Redis lists (`events/redis.go`) | `webhook_events`, `failed_webhook_events` | PublishEvent, PushToDLQ (RPUSH), and the worker's BLPOP | webhook and worker |
| Process (`cmd/server/main.go`) | - | start, shutdown, crash | all |
| API keys (`key/*`) | table `api_keys` | create, roll over, revoke | Postgres |
| Authentication (`auth/middleware.go`) | none | admission by key or token, permissions | `api_keys`, `users` |
| Login (`auth/handler.go`, `user/*`) | table `users` | GoogleCallback | Google, Postgres |
| Wallet handlers (`wallet/handler.go`) | table `wallets` | CreateWallet, GetWallet, GetWalletBalance | Postgres |
| Rate limiter (`middleware/ratelimit.go`) | map address -> limiter, under a mutex | getVisitor, Allow, clean-up loop | every request |
| History (`wallet/handler.go`, `utils/pagination.go`) | none | GetTransactions | `transactions` |

What is hard here, and hence what the properties are about (each at its line under
`hazards` in `PROJECT.json`):

- **Statements of different goroutines interleave.** TransferFunds and the worker are
  database transactions at READ COMMITTED that rely on row locks; ProcessDeposit reads
  without a lock and writes by what it read; the handlers for keys, wallets and users
  look and then insert without a transaction.
- **Things fail half-way.** Any statement may fail, the reply to a COMMIT, an RPUSH or a
  BLPOP may be lost, the process may die between any two steps, also between a COMMIT and
  the answer that tells of it, Paystack may open a charge whose row is never inserted.
- **Delivery is unreliable.** Paystack notifies until it is acknowledged, notifications
  overlap, Redis events are duplicated, BLPOP forgets an event before it is processed.
- **Everybody may wait for everybody.** Transfers lock the sender's row and then the
  recipient's, in no global order.
- **Copies go stale.** The key that the middleware admitted is revoked, or the token
  expires, while its request runs; a limiter is used after the mutex is released.
- **Answers are put together from readings of different times.** A status poll answers
  the row it read before it asked Paystack; a page of the history and the number of
  pages are two queries, and rows appear in between.

## 2. Modules

| Module | Models |
|---|---|
| `FundsLedger` | Abstract: money as atomic operations |
| `WalletRepo` | Repository and transfer handler, statement by statement; any order of events for the workers |
| `WalletRepoInv` | The inductive invariants of `WalletRepo` |
| `DepositPipeline` | Extends `WalletRepo` by the deposit handler, Paystack, webhook, Redis lists, worker loop and process |
| `DepositStatus` | Extends `DepositPipeline` by the customer who polls the status |
| `APIKeys` | Key handlers and admission by key |
| `IdentityRegistry` | Abstract: who is who, for ever |
| `Accounts` | Login, admission by token, and the wallet's row |
| `TokenBucket` | Abstract: a bucket for each address, for ever |
| `RateLimiter` | The limiter's map, its clean-up, and `rate.Limiter` |
| `TransactionHistory` | A client that walks through pages while rows appear |
| `WalletBooks` | The balance that the rows of the ledger add up to |
| `MC...` | Instances for TLC: the functions that a configuration cannot write, and symmetry |
| `WalletRepoProofs` | Theorems of `WalletRepo`: types, locks and money, the ledger, standstills |
| `PipelineProofs`, `StatusProofs` | Theorems of `DepositPipeline` and `DepositStatus` |
| `BookProofs` | Theorems of the books, of `WalletRepo` and `DepositPipeline`, and of the answers to transfers |
| `APIKeysProofs`, `AccountsProofs`, `RateLimiterProofs`, `HistoryProofs` | Theorems and proofs of the others |

`DepositPipeline` EXTENDS `WalletRepo`, composes its actions with those in front of
the queue, and uses them only as `RepoNext` allows (`ImplementsRepo`); `WalletRepo`
implements `FundsLedger` (`ImplementsLedger`). Both are checked and proved, so what is
proved of the repository for any sequence of events holds in the pipeline, and a step
of the pipeline is a step of the ledger or a stutter. `DepositStatus` EXTENDS
`DepositPipeline` and adds readers that change none of its state. `Accounts`
implements `IdentityRegistry`, `RateLimiter` implements `TokenBucket`.

### WalletRepo

A transfer's goroutine is a `call`, a worker's database transaction a `job`. An action
is one statement. Postgres is modelled by what the code relies on: an UPDATE waits
while another transaction holds the row (`Locked`), then sees the latest committed
row; what it computed is kept in the call (`fromAfter`, `toAfter`, `after`) and COMMIT
publishes it. So if locks did not exclude, a lost update would happen in the model,
and with the mutants that drop a lock it does. A SELECT takes no lock
(`ReadTransaction`), a WHERE clause that no row satisfies locks nothing
(`InsufficientBalance`), the unique index makes an INSERT wait for a writer of the
same reference, BIGINT overflow is an error, and one transaction of a cycle of lock
waits is aborted (`DeadlockVictim`). The two INSERTs of a transfer are one step: their
references are the same reading of the clock with the suffixes "-debit" and
"-credit", so that both collide or neither does, and nothing is visible before
COMMIT. The handler's reads
before the transaction are one step with its first statement, because they only
decide by columns that never change; the balance it reads is not used. COMMIT
(`CommitTransfer`) and the answer of the handler (`AnswerTransfer`) are two steps: a
crash between them leaves both rows and nobody who was told (`Unanswered`). An error of
COMMIT ends the call at once (`TransferError`), with the writes or without them: which of
the two, Postgres is taken to have settled by the time the client goes on. Every answer
of the handler is in `answer`; `credited` is a history variable.

The locks that the foreign key takes on the wallet's row (KEY SHARE) do not conflict
with an UPDATE of the balance, and are left out. Left out too: `Repository.CreditWallet`, `DebitWallet`, `UpdateTransactionStatus`, which
nothing calls. `Faults` says what may fail: "db" (any statement, or the reply to a
COMMIT), "crash".

### DepositPipeline

`request` is the handler of a deposit (calling Paystack, inserting, answered, failed),
`gateway` the charge, `outbox` the notifications that Paystack still delivers, `hook`
the webhook's goroutines, `queue` and `dlq` the Redis lists, `held` and `attempt` the
worker's loop. The customer can pay only when the handler has answered the URL. RPUSH
(`PublishEvent`) and the 200 of the webhook (`AnswerWebhook`) are two steps, so that the
worker may be done before the webhook has answered, and a crash between them makes
Paystack notify again. More faults: "paystack", "repay", "ack", "lookup", "redis", "pop",
"dlq" (explained in the module). "pop" is a BLPOP whose reply is lost: Redis has removed
the event and no worker ever had it (`PopReplyLost`). Redis itself keeps its lists.
A webhook that is refused (signature, JSON, rate limit) or of another type changes
nothing and is left out. The dead letter queue is a set because nothing reads it.
Shutdown is a crash for the worker: `main` waits for the HTTP server only.

### DepositStatus

`poll` is the request of a customer and what the last one told him. A row that is
final is answered as it is; when it is PENDING, Paystack is asked, and the answer has
the row's status of before that call together with what Paystack said. Of Paystack's
words only "success" is told apart from the others and from no answer.

### APIKeys

One action per query; `req` is what a handler remembers between its queries; the clock
is read by each query anew. Names of permissions are folded to upper case before they
are looked up (`Normalized`), a new key gets an identifier nobody has (`Fresh`).
`unfit` is a history: the request's key had been revoked, or, for a call, had expired,
before the request began. A route requires one permission, or none (`RouteRequires`):
POST /wallet/create is not wrapped in RequirePermission, so any valid key, also one
without permissions, opens a wallet for its user; what CreateWallet then does is in
`Accounts`. The three comparisons with the time of expiry (`>` in
CountActiveKeys, `After` in the middleware, `Before` in the rollover) are kept as they
are: at the instant of expiry a key is admitted, is not counted and may be rolled over.

### Accounts

Look-up and insert of the login and of CreateWallet, and in between the token: it is
issued for a row, expires, and the middleware reads the row again (`ValidateJWT`).
Every error of the login's look-up leads to an insert, the error of the wallet's look-up
is ignored; the unique indexes are those of the migrations (none on `wallets.user_id`).
`GetWalletByUserID` is `First`: of several wallets the one with the smallest id, which
is why ids of wallets are numbers here. `google` and `fresh` in a request are histories.
The registry is seen in `Accounts` as: an account whose row exists is owned by the row's
user, and it has acted as every user that its tokens and its requests name.

### RateLimiter

getVisitor under the mutex, Allow after it, the sweep at any time. The assumption
`Capacity + Stall <= ExpireAfter` is what the code relies on and does not check: three
minutes fill a bucket (with RATE_LIMIT and RATE_BURST as in the example configuration,
10 per second and a burst of 2, they do), and no goroutine sleeps as long between two
statements. With a configuration that refills more slowly, an address that pauses for
three minutes gets a full bucket it has not waited for.

### TransactionHistory

A page is two statements, the rows and their number; rows appear before, between and
after them, and not in the order of `created_at`. Rows with equal `created_at` come in
any order. The largest int is `MaxInt`, beyond which it wraps; a negative offset is left out of the
query. A client asks for the next page until the last page of "meta" (style "total"),
until a page is not full ("short"), or asks for any page ("jump"). The count may fail
(`misled`): then it is 0.

## 3. Runs

| Run | Question | Bounds, and why they are enough |
|---|---|---|
| `repo_safety` | Is money neither made nor lost, is a deposit credited once, is the inductive invariant one, and does the code implement the ledger? | Two wallets, two concurrent transfers in either direction, two deposits, a worker that takes any event any number of times; amounts below, at and above the minimum; MaxBalance 3 and an opening balance of 1, so that overdraft and overflow both happen; one reference, so that references collide. |
| `repo_deadlock` | Is every transfer answered when transfers lock each other's rows? | Three wallets and three transfers: cycles of two and of three. |
| `repo_lost_reply` (violation) | Does "Transfer failed" mean that nothing moved? | One transfer is enough. |
| `pipe_safety` | With all faults: no payment without a row, no row that says what did not happen, no payment lost in other ways than those named, and is the repository used as proved? | One deposit, two overlapping webhook goroutines, three attempts as in the code, a list of two events. Deposits share nothing but the worker; `repo_safety` has two. |
| `pipe_liveness` | Does a customer who has paid and goes on asking learn SUCCESS, unless the payment is on the dead letter queue or one of the named faults lost it? Is he never told what is not so, or taken back what he was told? | One deposit, its poll, and a transfer that competes for the wallet's row. Failing statements, look-ups and pushes on the dead letter queue, lost replies to BLPOP, and crashes, which must cease at last. Notifications and events are not duplicated here; `pipe_safety` does that, and `StatusProofs` has all faults. |
| `pipe_ack_lookup` (violation) | Is an acknowledged payment kept? | One deposit. |
| `keys_lifecycle` | How far can the limit be exceeded; does revocation bind; do rollovers grant only what was granted? | Two requests at a time, maximum one, three keys: a rollover of a rollover, and the race. Calls go to a route with a permission and to one without. Keys live one tick of two, so that requests meet their expiry at every step. |
| `keys_limit` (violation) | Is the maximum of active keys kept? | As above. |
| `accounts_login` | Is a Google account always the same user, from the login to the handler behind the middleware? How many wallets can a user get, and does the one that is used change? | Three accounts, two with the same address, two racing requests; tokens expire within the run. Failing logins; a failing look-up of the wallet has no bound and is left out. |
| `accounts_wallet` (violation) | Has a user one wallet? | Two requests. |
| `limiter` | Does an address get what one bucket gives, although limiters are dropped? | Two addresses, two requests; the clock runs for three times the time of expiry. Four limiter objects are as many as can be in use. |
| `history` | Does a walk through the pages see all that was there? When does a client find a row twice? | Up to five rows, two of one time, at most four a page; invalid, small and too large page sizes. An int of six bits (`MaxInt` 31), so that the offsets of pages 9 and 18 wrap below zero and back to a real page. |

Symmetry is used for safety runs only, on sets whose elements are interchangeable (in
`repo_safety` also wallets and deposits: all wallets open with one balance).
Deadlock is not checked in the `pipe_*` runs, `repo_deadlock` and `history`: their
requests are finite, so they end.

### Fairness

- Goroutines keep running and Postgres answers: weak fairness of a step that no one
  else can disable.
- Statements that wait for a row lock, webhook goroutines and deliveries: strong
  fairness, because Postgres serves a lock's waiters in order, and a goroutine slot or
  room in the model's bounded list is only missing while others use it.
- Postgres checks for deadlocks after a while: weak fairness of `DeadlockVictim`.
- Paystack notifies until acknowledged: strong fairness of delivery.
- The customer of `pipe_liveness` goes on asking: weak fairness of his poll. Crashes cease:
  the premise of `PayerLearns`, for a process that dies before every step does nothing.
- Nothing else is assumed of customers and clients, and of the faults only that the code
  meets them (a statement may fail every time: then the event ends on the dead letter
  queue, which is why the property has that alternative).

## 4. What the runs found

Properties hold except for the four below, each a run that TLC finds violated. For each
of them a theorem says under which condition it does hold, so that nothing else breaks it.

1. `FailedMeansNothingMoved`: a transfer is answered 500 "Transfer failed" although it was
   applied, when the reply to COMMIT is lost. A client that tries again pays twice, for a
   request has no idempotency key. `FailedMovesNothing`: it holds when no database error
   occurs and no two transfers under way have the same reading of the clock - refused
   statements, aborted deadlocks and crashes leave nothing behind.
2. `AckedPaymentKept`: a database error in the webhook's look-up is answered 200 and the
   payment is dropped. A crash or a shutdown while the worker holds the event, a
   payment after a declined attempt, and a BLPOP whose reply is lost, lose it as well.
   `AckedPaymentAccounted` says that besides these and a failing push on the dead letter
   queue there is no other way, and `AckedPaymentsKept` that no payment is lost without
   these five faults (`LosingFaults`), whatever the other faults do. Both suppose that
   Redis keeps its lists: the configuration of Redis is not in this repository.
3. `AtMostMaxActiveKeys`: two requests count before either inserts. By how much the limit
   can be exceeded is `OvershootBounded`, which is proved; `LimitHoldsUnraced`: not at
   all when a user has at most one request between count and INSERT.
4. `OneWalletPerUser`: two requests look before either inserts, or a look-up fails.
   `OneWalletUnraced`: it holds when neither happens.

## 5. Proofs

TLAPS checks these for any number of wallets, transfers, deposits, webhook goroutines,
workers, users, keys, addresses, rows and requests, with all faults where nothing else is
said, from the constants' assumptions in the modules. Conditions of single theorems:

| Condition | Of | Why the code justifies it, or what it costs |
|---|---|---|
| `JobsApart`: no two workers are between SELECT and COMMIT of the same deposit | all about SUCCESS and credits | `main.go` starts one worker (`OneWorker`), and `OneIsApart` shows that one worker meets it. With several processes nothing in the code ensures it. |
| `ExactCharges`: Paystack charges the amount it was asked to | the books | Its side of the contract; the worker credits the event's amount and does not compare. |
| `IsFiniteSet(Transfers)` | `StandstillsHaveVictims` | Finitely many connections. |
| `"lookup" \notin Faults` | wallets of a user | Without it there is no bound: the finding. |
| `LosingFaults`, `"db"`, `RefsDistinct`, `AtOnce(1)` absent or given | the four theorems of section 4 | They delimit the findings. |

`WalletRepoProofs`, money: `TypeCorrect` and `NoOverdraft` (`BalancesInRange`).
`BalancesInRange` is not inductive: COMMIT writes a balance computed
three statements before. `MoneyInv` adds that what an open transaction has computed is
still the committed balance plus or minus its amount (`DebitCurrent`, `CreditCurrent`,
`JobCurrent`), which rests on Postgres' locks (`LocksExclusive`), and both on `TypeInv`
(an open transfer has two different wallets and a payable amount).

`WalletRepoProofs`, the ledger: while `JobsApart` holds, `RepoInvWhileApart` (`RepoInv`),
`CreditedOnceWhileApart` (`CreditedOnce`), `SuccessFinalWhileApart` (`SuccessIsFinal`) and
`LedgerWhileApart` (`ImplementsLedger`); under `OneWorker` they hold always
(`RepoInvAlways`, `DepositsCreditedOnce`, `SuccessStaysFinal`, `RepoImplementsLedger`).
`RepoInv` adds to `MoneyInv` that the status a job has read is still that of the row when
it commits (`StatusStillRead`), and that the reference of a transfer about to commit is
unused (`ReferencesFresh`). `StatusStillRead` is where `JobsApart` is needed: the read
takes no lock and the UPDATE does not look at the status, so two server processes with a
worker each could credit one deposit twice if its event is queued twice. The theorem says
that this is the only way: jobs of different deposits never disturb each other. The
refinement mapping is the identity on the committed tables: only the COMMITs, and
CreateTransaction, are steps of the ledger.

`WalletRepoProofs`, locks: `StandstillsHaveVictims` (`StandstillHasVictim`). A session
waits for a row of `wallets` or `transactions`, or for the writer of its reference. The
argument: a worker that waits for a deposit's row waits for a worker that is about to
commit, which waits for nobody, and a worker that waits for a wallet holds nothing yet;
so whoever waits in a standstill waits for a transfer. The transfers in it, being
finitely many, have a smallest set that only waits inside itself, and in a smallest one
everybody is waited for as well, or he could be taken out: that is what Postgres
detects. Postgres looks at all its sessions, `Deadlocked` only at transfers: the theorem
is why that is enough. That the victim is aborted and its client answered is liveness
(`repo_deadlock`).

`PipelineProofs`: `PipelineImplementsRepo` (`ImplementsRepo`), `PipelineTypeCorrect`,
`PaymentsNotOrphaned` (`NoOrphanPayment`), `StatusesMatchGateway`
(`StatusMatchesGateway`), and while `JobsApart` holds `PipelineCreditsOnce`
(`CreditedOnce`), `PipelineImplementsLedger` (`ImplementsLedger`), `AckedPaymentsAccounted`
(`AckedPaymentAccounted`) and `AckedPaymentsKept` (`AckedPaymentKept`). The invariant
behind them, `PipeInv`, says that an event, wherever it is - with Paystack, in a webhook
goroutine, in a list, in the worker's hands, in an open database transaction - is valid:
its charge was paid (or declined), its row exists and has its amount. That is what makes
each step of the worker a step of `RepoNext`, and what makes it write no status that the
charge does not have. `AccountInv` adds that the worker's job is the job for the event it
holds, and that a job for a payment that returned without an error has left the row at
SUCCESS; that it is still so when the worker looks is `SuccessIsFinal`, inherited from the
repository. And it speaks of the events that the webhook has acknowledged or is about to
(`Promised`): from the RPUSH on the worker may take the event and lose it, while the 200
is still to come. `AckedPaymentsKept` adds that nothing is ever let go of, for which the row of
a charge that is not paid after a decline must not be FAILED (`RowsTrue`,
`AfterDecline`): otherwise the webhook would drop the payment.

`BookProofs`, the books: `BalancesMatchLedger` and `PipelineBalancesMatch`
(`BalanceMatchesLedger`). The sum over the rows is a fold, of which the proofs need only
that one more row changes it by its amount; that the fold has this property for every
finite set comes from a least counterexample by cardinality. Besides `RepoInv` the
invariant says that a job credits the amount of its row (`ChargeInv`) and that the sum is
defined, because there are finitely many rows (`BooksInv`).

`BookProofs`, the answers: `AnswersAreTruthful` (`TransferAnswerTruthful`), for any number
of workers. It rests on `ReferencesFresh`: a COMMIT adds the two rows of its own transfer,
under a reference no other row has, so that no later one can touch them. `AnswerInv` says
it from the COMMIT on, before anybody is answered (`CommittedApart`), and for the rows:
each belongs to a transfer that committed, or whose answer says that it may have
(`RowsOfTransfers`), which a lost reply to COMMIT and a crash after it both leave behind.
`FailedMovesNothing` needs more when no database error occurs, that no row belongs to a
transfer that was refused (`RowsNotRefused`).

`StatusProofs`, while `JobsApart` holds: `PollsAreTruthful` (`AnswerTruthful`) and
`SuccessStaysTold` (`SuccessToldForEver`). `StatusInv`: what a customer was told was so
and is so still, which rests on `SuccessIsFinal`, on `StatusMatchesGateway` and on the
gateway not undoing a payment; and only a customer who has not been told SUCCESS is in
the branch that asks Paystack.

`APIKeysProofs`: `KeysTypeCorrect`, `RaceIsBounded` (`OvershootBounded`),
`LimitHoldsUnraced` (`AtMostMaxActiveKeys`), `RevokedKeysAreDead`
(`RevocationIsEffective`), `ChainsGrantNothing` (`ServedAsGranted`) and
`RolledOverKeysAreDead` (`OldKeyIsUnusable`). `WithinLimit(n)` counts the keys that are
active together with the requests that have passed the check, when those never are more
than n; it is inductive with the types: a request passes the check only below the maximum,
and an insert turns a request into a key. `OvershootBounded` is the case of all requests,
`AtMostMaxActiveKeys` the case of one. `RevocationIsEffective` needs `UnfitFor`: what a
request found revoked or expired when it began is so still, because no step undoes either.
`GrantInv` says that a key has the owner of the first key of its chain and no more
permissions (`ChainSound`), and that a request knows its key's row (`ActsByKey`); owner,
permissions and expiry of a row never change, so the copy in the request stays right.

`AccountsProofs`: `AccountsTypeCorrect`, `OneUserPerAccount` (`LoginIdentity`),
`ServesWhoLoggedIn` (`ServedWhoLoggedIn`) and `AccountsImplementRegistry`
(`ImplementsRegistry`). The invariant `IdentityInv`: no two rows have one id or one
subject, and every token and every admitted request names the row with its subject.
With look-ups of wallets that do not fail, `WalletRaceIsBounded` (`WalletsWithinRace`),
`OneWalletUnraced` (`OneWalletPerUser`) and `WalletsSettle` (`WalletSettles`): a step
raises the number of a user's wallets and of those about to insert one only while there
is no wallet (`Raced`). That First finds a wallet when there is one needs a least number
of a set, from the library's theorem on well-founded sets.

`RateLimiterProofs`: `LimiterTypeCorrect`, `LimiterStaysCurrent` (`LimiterIsCurrent`) and
`LimiterImplementsTokenBucket` (`ImplementsTokenBucket`). `LimiterInv` adds that a
request holds the limiter of its address for at most `Stall`, and that an address'
limiter was used for the last time at most `Stall` after the visitor was last seen; so a
visitor that the sweep drops has had time to fill its bucket (`Capacity + Stall <=
ExpireAfter`), and a new limiter is worth what the dropped one is.

`HistoryProofs`: `HistoryTypeCorrect` (`TypeOK`), `WalksAreComplete` (`WalkSeesAll`) and
`SecondPagesHaveReason` (`SecondPageHasReason`). A row's rank is the number of rows that
are newer; a row without an equal is on the page that its rank falls into, however the
tied rows are arranged, and new rows only raise a rank. `WalkInv`: a row that was there at the start
and was not seen yet is still ahead, on the page that comes next or later; so at the last
page nothing is left, also when the count is taken after the page. `PlacesInv`: while
nothing newer has come, the pages a row was seen on are those of its one rank.

Model-checked only: liveness (`TransfersAnswered`, `PayerLearns`), which is out of the
prover's reach. Every safety property of the runs is proved.

## 6. Not modelled

The signature of tokens, Google's OAuth exchange, hashing and key generation (libraries;
their results are inputs here). GoogleLogin, a redirect; `APIKeyMiddleware`, which no
route uses; ListAPIKeys, which shows rows; `Repository.CreditWallet`, `DebitWallet` and
`UpdateTransactionStatus`, which nothing calls. Routing, logging, JSON helpers, the
connection pool, and the configuration, whose values are constants of the modules:
the code does not refuse a MIN_TRANSACTION_AMOUNT of zero or below, the models assume
that it is positive.

## 7. Plan

Done: all components that change state, the refinements, and a proof of every safety
property. Left:

1. The safety half of the two liveness properties: that a transfer which waits always has
   somebody to wait for, and that a payment on its way always has a step to take.
2. What MIN_TRANSACTION_AMOUNT of zero or below would do, as a run of its own instead of
   an assumption.
