# NexusPay: a TLA+ verification project

These modules model the NexusPay payment platform (Fastify API, BullMQ workers,
PostgreSQL through Prisma, RabbitMQ, Redis, a few Python services). TLC checks
them on small instances; TLAPS proves the main safety results for all values of
the constants. Paths below are relative to the repository's root.

## 1. The system

Two Node processes share one PostgreSQL database and one Redis: the API
(`src/server.ts`) and the worker (`src/worker.ts`). All coordination goes
through rows, BullMQ jobs and, for events, RabbitMQ. The code takes no locks
and uses no conditional updates. Almost every operation is *read, decide,
await, write by id*. That makes interleaving the main source of trouble here,
followed by calls that fail between two steps.

| Component | State | Operations | What makes it correct |
|---|---|---|---|
| Payment lifecycle (`services/payment.service.ts`) | `payments.status`, idempotency keys, outbox and audit rows | create, processPayment, cancel | one payment per key; an answer only after the commit; SUCCESS recorded with its event; nothing stuck |
| Payment queue and worker (`workers/payment.worker.ts`, `queues/bullmq.ts`) | BullMQ jobs, five slots | add, take, complete, retry, recover a stalled job | at-least-once delivery does no harm |
| Reconciliation (`workers/scheduler.worker.ts`) | none of its own | hourly scan, one update per payment | only payments that are really stale fail |
| Refunds (`services/refund.service.ts`) | refund rows, `payments.status` | create | never more than was paid; REFUNDED exactly when all is given back |
| Outbox publisher (`workers/outbox.worker.ts`, `schedulers/index.ts`) | `outbox_events` | claim, publish, settle, retry or give up | every committed event is published, duplicates bounded |
| RabbitMQ connection (`queues/rabbitmq.ts`) | `connection`, `channel` | connect, reconnect, publish, close | a channel returns after an outage; no connection leaks |
| Authentication (`services/auth.service.ts`, `middleware/auth.ts`, `repositories/user.repository.ts`) | users, refresh token families, sessions, reset tokens, blacklist | register, login, refresh, logout, change/forgot/reset password | one live token per family; logout is final; lockout after five failures |
| Browser client (`frontend/js/api.js`, `auth.js`, `auth-guard.js`) | tokens in local storage, shared by tabs; per page a cached token and the refresh in flight | request, retry after 401, login, logout, load | never refreshes twice with one token; every waiting call is resumed; a logout sticks |
| Merchants page (`frontend/js/merchants.js`) | the modal, `_editingId`, the form, the button | open, edit, submit, close | no merchant saved with another's values; the form stays usable |
| Service calls (`integrations/*.ts`) | a circuit breaker per service, shared by all payments | fire, time out, fall back | callers always get an answer; one payment's trouble does no harm to another |
| Notifications (`workers/notification.worker.ts`) | `notifications.status` | send, retry | DELIVERED means delivered |
| Merchants, customers (`services/merchant.service.ts`, `services/customer.service.ts`) | rows with soft delete | create, update, activate, suspend, rotate keys, delete | deleted stays deleted; e-mail unique |
| Reports, other scheduled jobs | `reports.status`, audit rows | create, count, clean up | a requested report is finished |
| Computations (`services/*/services/*.py`, `utils/pagination.ts`) | none | fraud score, tax, conversion, pages | the score decides what the payment path does |
| Startup and shutdown (`server.ts`, `worker.ts`) | open connections, timers | start, drain, exit | nothing is cut off half done |

How they interact: `create` commits the key, the payment, an outbox event and an
audit row in one transaction, then adds a BullMQ job. The worker process runs
`processPayment` for the job, which calls the fraud, tax and currency services
and writes SUCCESS with another event, or FAILED. `cancel`, the reconciliation
and refunds write the same status column. The worker process also runs a cron
that publishes outbox events to RabbitMQ. BullMQ may hand a job out again when a
run throws, when its process dies or when its lock is not renewed. The browser
presents an access token with each request and exchanges its refresh token when
that is refused; the server keeps the refresh tokens in PostgreSQL and the
revoked access tokens in Redis.

Hard behaviours, each listed with its line under `hazards` in `PROJECT.json`:
check-then-act over an await (cancel, refunds, reconciliation, the idempotency
lookup), partial failure around a transaction (addJob after the commit, a commit
that reports an error), redelivery of jobs, overlapping publisher runs,
a crash between claim and publish, unconfirmed messages, token rotation races
between tabs and against a logout, counters decided on stale reads, doubled
reconnects, a breaker one payment opens for another, answers that fill a form
after the user has gone on. No route validates its body (the schemas in the
routes are tags, `validators/` is attached to none), so amounts, metadata and
the columns an update writes are whatever a client sends.

## 2. The modules

### Payments

One variable per column or table the code touches, and the control point of each
concurrent activity. Request `r` inserts payment `r`, so a payment is named by
its request.

| Code | Model |
|---|---|
| `create`: idempotency lookup / transaction / addJob and answer | `CreateCheck` / `CreateCommit` / `Enqueue`; `CreateFails` is the rejection of either call, or the API's death, with or without the effect |
| `cancel`: read and check / write | `CancelCheck` / `CancelWrite` |
| `processPayment`: read / PROCESSING / services / REJECT / success transaction / catch | `FindPayment` / `MarkProcessing` / `Assess` / `Reject` / `CommitSuccess` / `CatchError` |
| `updateStatus`, by id and unconditional | `UpdateStatus`, `FailedUpdate` |
| BullMQ: take, complete, retry, stalled check, lost lock | `Take`, `JobReturns`, `JobThrows`, `RecoverStalled`, `LoseLock` (external) |
| `runPaymentReconciliation`: findMany / one update | `ReconcileScan` / `ReconcileWrite`; `Age` is thirty minutes passing |
| death and restart of the worker | `WorkerCrash` |

A `$transaction` is one step. The idempotency key and its payment commit
together, so the two reads of the lookup are one step too. The fraud service's
verdict is nondeterministic; REVIEW is treated as the code treats it, as an
approval. The scheduled queue runs one reconciliation at a time in the model,
and `take: 100` is never reached.

`IdempotentCreate` is what a client may rely on: under each key at most one
payment is accepted and every answer is that payment. `Payments!KeepsContract`
says that `Payments` implements it, with the payments of a key mapped from the
rows.

### Refunds

`CheckPayment`, `SumRefunds` and `CommitRefund` are the three database calls of
`RefundService.create`. `StatusWritten` stands for every other writer of the
status: the payment worker, a cancel and the reconciliation write by id, without
a look at it, so it has no guard. No code sets a refund to REJECTED, so a
payment's refunds enter only through their sum.

`POST /refunds` validates nothing, so an amount is any integer of the column's
unit, negative ones included, and it is `exact` or not. An inexact one is a
numeric string, which `+` appends to the sum as text, or a number the column
rounds; text the column refuses makes the transaction fail. `Compared` is what
`totalRefunded + input.amount` may compare as: doubles order sums that differ by
a unit, but a sum equal to the payment's amount may come out on either side, and
a sum with an inexact amount compares in any way. Both comparisons of the code
(`>` and `>=`) are of the same number, so the request keeps the one outcome.

The history `met` records the circumstances of each payment: two requests held a
sum at once (`overlap`), another component wrote the status (`rewritten`), an
inexact amount was stored (`inexact`), a negative one was stored under REFUNDED
or under a sum another request held (`lowered`), a refund that filled the
payment compared as less (`rounded`).

### Outbox

`Tick` is one run of the cron job reading its batch with the attempts of each
event. `Claim`, `Publish`, `Settle` and `Catch` are the steps of the loop for the
oldest event left. Events are numbered by `createdAt` and may commit in any
order. `channel` is `null`, `open`, or `broken`: the connection is gone and
amqplib has not reported it. `publish` to a broken channel returns normally and
the message is lost.

`Connects` says whether the process that hosts the publisher opens a channel. In
the repository it does not: `worker.ts` starts the schedulers, only `server.ts`
calls `connectRabbitMQ`. The run `outbox_unconnected` checks the program as it
is. The other outbox runs set `Connects = TRUE` and so say what `outbox.worker.ts`
and `rabbitmq.ts` do once that call is made; the theorems hold for both values.

### Sessions and Browser

`Sessions` is the server's side for one user. A token pair is a number: pair *n*
is access token *n* and refresh token *n*. A request slot holds one request at a
time, and each Prisma or Redis call of its handler is a step.

| Code | Model |
|---|---|
| `authenticate` | `Authenticate`, `Accepted` |
| `refreshTokens`: findUnique / revoke the family / rotate | `RefreshFind` / `RefreshReuse` / `RefreshRotate` |
| `generateTokenPair`; `session.create` of a login | `GenerateTokenPair`, `NewPair`; `CreateSession` |
| `logout`: setex / updateMany | `LogoutBlacklist` / `LogoutRevoke` |
| a call that rejects, fifteen minutes | `CallFails`, `ExpireAccess` |

`Browser` EXTENDS it: a call of a tab *is* a request slot. `store` is
`localStorage`, shared by the tabs; `cached` is `NexusAPI._token` and
`refreshing` is `NexusAPI._refreshing`, both of one page and lost by a `Load`.
`Send`, `Answered`, `TryRefresh`, `RefreshDone` and `RefreshFailed` are
`request` and `_tryRefresh` between their awaits; `CallEnds` holds the logout
button's handler. `AnswerLost` is a network error: the server may go on. A tab
whose page is being left (`leaving`) can still hear its answers until `Load`.

### Accounts

One e-mail address with the requests of `auth.service.ts` that read or write its
row. Passwords are numbers, the *n*-th the account has had; 0 is a wrong guess.
`LoginFind` reads the row, decides on the lock and the password, and remembers
the count for `LoginCount`, which increments the column and decides the lock by
what it remembers. `WritePassword` and `ResetMark` are two calls, as in
`resetPassword`. The row is never deleted (nothing calls `softDelete`).

### Broker

The connection of one process with the process around it. `connection` and
`channel` are the variables of `rabbitmq.ts`, shared by every running
`connectRabbitMQ`; `attempt` holds where each of those waits. `Configure` stands
for the declarations after `createChannel` and the two `on` calls; they use the
*variables*, so an overlapping attempt may put its listeners on another's
connection. `Break(c, event)` runs the listeners of `c`: two events when it is
an error, one when the broker closes. An error event without a listener and a
rejected `reconnect` end the process, and Docker starts it again. `Forget` is
`connection = null; channel = null`, with which `reconnect` begins and
`closeRabbitMQ` ends.

### Services

The breakers as opossum runs them, from the options in `createBreaker`: every
`fire` counts into the rolling window, a failure opens the breaker when the
window has enough calls and too many failures, thirty seconds later one call is
let through. `Assess(p)` is one payment in `processPayment`; `After` is its
control flow. A service that works may still refuse a call for its contents
(`Refuses`): a currency without a rate, or metadata the fraud service cannot
read. One that is `down` lets a call hang (`TimeOut`) or fails it at once
(`Errs`). The breaker counts all of these alike; `broke` records the services
that failed a call because they were down. `Score` and `Recommendation` are the two functions of
`fraud_service.py`; `Counted` is the query of the fraud threshold scan. The
scan's fifteen minutes are left out, which only adds payments it might count.

### Registry and MerchantsPage

`Registry` is the two services over their repositories. Both have the same
shape, so one set of actions serves both kinds of record; only merchants are
activated and suspended. A row keeps its status, `deletedAt`, its e-mail and
`data`, the record whose values it was last saved with. Create and update write
the body they get (`Written`), so the body of another client may carry a
`status` or a `deletedAt`, set or null; `Shapes` are the combinations of fields
such bodies have. Only a new merchant's status is not the body's. The history
`loose` holds the records that were deleted by a body, or by DELETE while
another request was about to write their status. `SessionOver` is a 401 whose
refresh fails: `NexusAPI.request` answers null, which `handleSubmit` takes for a
success while the page leaves. `MerchantsPage` EXTENDS
it with one open page: `ClickEdit` sends the request, `AnswerEdit` is the rest
of `openEditModal`, `Submit` and `SubmitDone` are `handleSubmit` before and after its await, with `_editingId`
and the form read before. Other clients work on the same rows (`Other`).

### Mutants

A definition whose comment begins with "Mutant of" is a variant with a plausible
bug (a lost guard, an event outside its transaction, an uncounted attempt). No
action uses it. Put in place of the definition it follows the name of, it makes
TLC find one property violated; `PROJECT.json` lists which. This guards against
properties that nothing could break.

## 3. The runs

| Run | Instance | Shows |
|---|---|---|
| `payments_safety` | 3 create requests, 2 keys, 1 cancel, 2 slots, 1 fault | types, the idempotency contract, answers recorded, success recorded with its event, the causes of a duplicate or lost success |
| `payments_liveness` | 1 request, 1 cancel, 2 slots, 3 faults | every payment leaves PROCESSING; a queued payment is settled unless BullMQ gave its job up |
| `refunds_safety` | 3 refunds of -3, 1, 2 or 3 units or an inexact 2 on a payment of 3, 2 faults | what REFUNDED means; too much is refunded only by overlapping requests or inexact amounts |
| `refunds_over` | the same with refunds of 1 to 3 units only | **violation** of `NeverOverRefunded` |
| `outbox_safety` | 2 events, 2 runs, batches of 2, 3 attempts, 1 fault, 1 outage | giving up, counting, reaching the broker, the causes of a duplicate |
| `outbox_liveness` | 2 events, 2 runs, batches of 1, 2 attempts, no fault, 1 outage | a pending event is published or given up, a claimed one is not forgotten |
| `outbox_unconnected` | `Connects = FALSE` | **violation** of `EventIsPublished` |
| `auth` | 2 tabs with 2 calls and 1, 3 token pairs, 4 clicks, 1 fault | live tokens per family, reuse only after two tabs or a lost answer, logout, the shared refresh |
| `accounts` | 2 requests, lock after 3, 1 reset token, 5 passwords, 1 fault | one account per e-mail, the lock's delay, the reset token's uses |
| `broker` | 3 connections, 4 attempts at once, 3 outages | leaked connections, silent loss of the channel, recovery |
| `services` | 3 payments in 3 mixes, breaker at 2 calls and 50 %, 1 outage | wrong rates, rejected payments let through, the scan, termination |
| `registry` | any two of 2 merchants and 1 customer, 2 e-mails, 2 requests, bodies of 4 shapes, the page | unique e-mails, deletion, the modal against late answers |

**Bounds.** Two slots, two publisher runs and a payment are enough for any
pairwise race; three create requests are the fewest with a shared key and a
foreign one; three refunds are the fewest in which one is alone while two
overlap, with a negative amount as large as the payment and one that is
inexact. `Attempts = 2` and `MaxStalls = 1` (BullMQ's default) let a job be
retried, recovered and given up. `MaxFaults` bounds failed calls, crashes and
lost locks together; `MaxOutages` bounds broken connections. Three attempts in
`outbox_safety` (five in the code) separate the first, a middle and the last
one. In `auth`, two calls of one tab are the fewest that share a refresh, a
second tab the fewest that does not see it, and three token pairs the fewest
with a rotation and a race for it; `MaxClicks` bounds what the user does. In
`accounts`, a limit of three (five in the code) leaves a count that is neither
zero nor the last. In `broker`, three connections and four attempts are one more
than an error and its close event start. In `services`, the volume threshold is
two (five in the code) so that two refused payments open the breaker for a
third; the mixes put two refused payments next to one that could be converted,
two next to one that should be rejected, and two that should be rejected next to
one that should not. In `registry`, `MaxRows = 2` lets any two of the three
records exist: two merchants are the fewest that can be confused, a merchant and
a customer the fewest of both kinds.
Symmetry is used in safety runs only.

The two violations are explained under `findings` in `PROJECT.json`. In short:

* Two refunds that read the same sum give back more than was paid.
* The worker process publishes nothing, since it never connects to RabbitMQ.

**What holds, with its limits.** Most properties name the situations in which
something goes wrong, and TLC shows that there are no others:

* A fault between the commit of `create` and `addJob` leaves a payment that no
  job will process. The retry is answered with it, and stays answered with a
  PENDING payment: `QueuedIsSettled` speaks of queued payments only.
* A cancelled payment is processed all the same, as its job stays queued.
  SUCCESS is overwritten in exactly the situations `SuccessLostOnlyToRaces`
  names; each of its four disjuncts is needed. A duplicated `payment.success`
  needs a redelivered job (`DuplicateSuccessNeedsRedelivery`).
* Refund requests that do not overlap never refund too much, with negative
  amounts and commits that report an error too (`OverRefundNeedsOverlap`); an
  amount sent as text can. Overlap cannot make a payment REFUNDED too early, and
  neither can negative refunds one at a time (`RefundedIsCovered`). It takes one
  stored when the payment is REFUNDED already (its request had read SUCCESS), or
  under a sum another request holds. The status otherwise follows the sum
  (`StatusFollowsSum`).
* The stale attempt count of the publisher errs only towards more attempts
  (`FailedWasTried`). An event whose run is cut off after the claim stays
  PROCESSING for ever; `ClaimedIsResolved` says that nothing else does that, and
  a run with faults and without its last disjunct finds the state.
* A family of refresh tokens has a second live token, or one after its
  revocation, only when a refresh had read its token before (`OneLiveToken`).
  The page never provokes the reuse detection by itself (`NoReuseByAccident`):
  two tabs that refresh at once do, and so does an answer that is lost.
* A logout sticks unless a refresh or login was on its way (`LogoutSticks`).
* *n* concurrent requests put the lock off by at most *n* - 1 failures
  (`LockoutBound`), and use a reset token at most *n* times, plus once per
  failed marking (`ResetBound`).
* A connection error starts two reconnects. Then a connection may leak
  (`OneConnection`) or the channel die unnoticed (`LossIsNoticed`); a process
  that connected once, and not without a broker at its start, always recovers,
  if need be through a crash (`LossIsRepaired`).
* Payments in a currency without a rate open the breaker for the others, which
  are then stored at rate 1.0 (`WrongRateNeedsCause`); a payment that would be
  rejected passes while the fraud service is out, or while enough payments with
  metadata it cannot read keep its breaker open (`RejectableNeedsCause`). The
  fraud threshold scan can never find anything (`ScanCountsNothing`).
* An activate, a suspend or an update with a status that had found its row
  reopens it after a delete, and a body that sets `deletedAt` deletes without
  closing (`DeletedStaysClosed`); nothing else does. A deleted record's e-mail
  stays taken.
* The merchants page never saves one merchant's values under another
  (`SavedWithItsOwn`), in whatever order answers arrive. After its first
  submit that succeeds, or is taken for a success, the button stays disabled until a reload
  (`BlockedOnlyBySubmit`).

**Deadlock** checking is on in `broker`, where something can always happen, and
off elsewhere: a system whose requests are all answered and whose queues are
empty may rest.

**Fairness.** `Payments!FairSpec` assumes that a started request and a job's run
go on (`Creating`, `Run`, `CancelWrite`: each awaits a call that settles, or
fails as a fault), that BullMQ hands out a waiting job and finds a lost one
(`Take`, `RecoverStalled`), that time passes (`Age`) and that the hourly job runs
(`ReconcileScan`, `ReconcileWrite`). Nothing obliges a client to send anything,
and no fault is obliged to happen or to stop other than by its bound. Weak
fairness is enough: none of these steps is disabled again and again by others.
`Outbox!FairSpec` assumes that the cron ticks, a run goes on, amqplib notices a
closed connection and the reconnect five seconds later succeeds.
`Broker!FairSpec` assumes that timers fire, amqplib settles its promises, Docker
restarts the process, a shutdown ends and the broker comes back; it does not
assume that a reconnect succeeds. `Services!FairSpec` assumes only that a
payment in progress goes on, be it by the breaker's timeout: services need not
answer, breakers need not close.

## 4. The proofs

| Module | Theorems |
|---|---|
| `PaymentsProofs` | `TypeCorrect`, `AnsweredIsRecordedCorrect`, `KeepsContractCorrect`, `SuccessIsRecordedCorrect`, `DuplicateSuccessCorrect`, `SuccessLostOnlyToRacesCorrect` |
| `RefundsProofs` | `TypeCorrect`, `RefundedIsCoveredCorrect`, `OverRefundNeedsOverlapCorrect`, `StatusFollowsSumCorrect` |
| `OutboxProofs` | `TypeCorrect`, `FailedWasTriedCorrect`, `SentIsCountedCorrect`, `PublishedReachedBrokerCorrect`, `DuplicateNeedsOverlapOrFaultCorrect` |
| `BrowserProofs` (with `Sessions`) | `TypeCorrect`, `OneLiveTokenCorrect`, `NoReuseByAccidentCorrect`, `LogoutSticksCorrect`, `SharedRefreshIsRunningCorrect` |
| `AccountsProofs` | `TypeCorrect`, `LockoutBoundCorrect`, `ResetBoundCorrect` |
| `BrokerProofs` | `TypeCorrect`, `OneConnectionCorrect`, `LossIsNoticedCorrect` |
| `ServicesProofs` | `TypeCorrect`, `WrongRateNeedsCauseCorrect`, `RejectableNeedsCauseCorrect`, `ScanCountsNothingCorrect` |
| `MerchantsPageProofs` (with `Registry`) | `TypeCorrect`, `DeletedStaysClosedCorrect`, `SavedWithItsOwnCorrect`, `BlockedOnlyBySubmitCorrect` |

Every invariant and both action properties of the passing runs are theorems.
They assume only the named ASSUMEs of the modules: the constants have their
types (the amounts of payments and refunds are any integers); limits are
positive; publisher runs, payments of a service,
requests of an account, connections and attempts to connect are finitely many.
Nothing is assumed about how many requests, slots, tabs, events or faults there
are, and each bound of a run (`MaxTokens`, `MaxClicks`, `MaxOutages`, ...) may be
any number.

Each module with an inductive invariant `Inv` proves three facts: it holds at
first, every action keeps it (`Invariance` puts these together), and it implies
the properties. TLC checked the longer ones on the runs' instances before they
were proved. The arguments:

* **Rows and the contract** (`RowInv`). What a request may have done at each
  control point: before its commit it has no row; a row is announced; two rows
  have different keys; an answer names a row of its key. The last two are the
  contract. They are not inductive alone, since a commit is harmless only
  because a request at `insert` has no row yet. The refinement theorem maps
  `CreateCommit` (and a `CreateFails` that did commit) to `Accept`,
  `CreateCheck` and `Enqueue` to `Answer`, all else to a stutter.
* **Success** (`SuccessInv`). For a payment whose job was never handed out
  again, at most one run has it, that run holds the job's lock, and it has not
  announced success before its own commit. A second announcement would
  need a second run, hence a redelivery.
* **Refunds** (`RefundInv`). A sum that a request holds never exceeds the sum in
  the database (`HeldSums`), unless a negative refund was stored under it: that
  is why `lowered` names the ones stored while another request holds a sum, and
  why it is enough. With it a request that compared equal covers the payment,
  which gives `RefundedIsCovered`. Without overlap at most one request holds a
  sum and it is still the current one (`Alone`), which gives the others. The
  comparison enters only through `ComparedFacts`: not above means within, and
  equal means equal, for exact amounts.
* **Giving up** (`SeenInv`). The attempts read with a batch never exceed those in
  the row.
* **Counting** (`CountInv`). Messages sent plus runs about to send never exceed
  the attempts counted. It needs the cardinality of the set of such runs.
* **Reaching the broker** (`ReachInv`), **duplicates** (`Undisturbed`). While an
  event was in one batch only and nothing failed, one run has it, and it has
  been sent only if that run is about to mark it.
* **One live token** (`OneHolder`). A rotation takes the old token in one call
  and inserts the new one in another. In between the family has no valid token,
  so `OneLiveToken` alone says too little to survive the insertion. The
  invariant counts the request at `create` as a holder too: a family has one
  holder, a valid token or such a request, and a dead family has none. A request
  about to rotate either finds its token valid or knows that it was overtaken.
* **No reuse by accident** (`Unraced`, `ResultsDistinct`). While no refresh was
  duplicated or abandoned, one refresh is in progress in all tabs together, its
  page hears of it, and the token it presents is valid or of a dead family. The
  stored token is as good whenever no refresh runs; a pair that was returned and
  not stored yet is nobody else's. `LogoutSticks` rests on `SignedOutClean` (no
  refresh in progress after a clean sign-out), `SharedRefreshIsRunning` on
  `RefreshShared` (`_refreshing` names the call that all others wait for).
* **Lockout** (`CountBound`). While nothing locked the account, the failures in
  the row plus the requests about to count one and not lock are within the
  bound. A request joins that set only when it read a count below the limit;
  counting moves it from the set to the row.
* **Reset tokens** (`WriteBound`). Each write of an unused token has its mark
  still to come, or lost to a fault. Once a token is marked, its writes and the
  requests still about to write it are within the bound, and no request joins
  those.
* **The connection** (`Single`, `Listened`). A process that never connected twice
  at once has one attempt at a time, which works on the connection that the
  variable names and starts when none is open; when it is done, the channel is
  of that connection, which is listened to. So `Break` starts a reconnect
  exactly when one is needed. Both fail as soon as an error and its close event
  each start one, hence `doubled` in the properties.
* **Breakers** (`Serves`, `OneTrial`, `ResultsInOrder`). Until a service breaks
  down under a call, the failures its breaker counts are no more than the
  payments it refused, so the breaker leaves the closed state, and costs a
  payment it would not refuse its result, only on enough refusals. A payment
  with a score of 70 met the rule about the country, so its metadata was read
  and it is none of the refused (`RejectedReads`). A score let past is below 70
  (`Recommendation`), and the fallback's is 50, so nothing in SUCCESS has 80.
* **Rows and the modal** (`RequestsCarry`, `WritesFound`, `FormIsEdited`). A
  request that saves a record carries that record's values, one about to write
  found its row, and the form shows the merchant that `_editingId` names. A status
  is about to be written over a deletion only if the record is in `loose`: a DELETE
  looks for such requests, and none can find the row afterwards unless a body
  clears `deletedAt`, which ends the deletion.

The proofs found four places where the models were wrong or said less than
meant, and they were changed to follow the source: `LoginFind` and
`Authenticate` decided with overlapping CASE guards, whose value TLA+ leaves
open; the number of passwords could be zero, with which no account has one;
`Shutdown` kept the two variables of `rabbitmq.ts` when the connection had no
listener, while `closeRabbitMQ` always sets them to null.

Only model-checked: the liveness properties (`ProcessingEnds`,
`QueuedIsSettled`, `PendingIsSettled`, `ClaimedIsResolved`, `LossIsRepaired`,
`AssessmentEnds`), as liveness under fairness is out of the prover's reach. The
two violations are TLC's as well.

## 5. Not modelled, and why

* Amounts, taxes and converted amounts: no decision of the payment path depends
  on them. Of floating point in refunds the model keeps only that doubles may
  take a sum equal to the amount for another. That fits payments up to about
  10^11 in their currency; beyond, doubles do not tell neighbouring units of the
  Decimal(20, 4) columns apart.
* The fields of unvalidated bodies that the model's state does not have: an `id`
  chosen by the client, a customer's `merchantId`, writes to related rows.
* The merchant, request hash and expiry of an idempotency key, which the lookup
  ignores: with one merchant and anonymous requests there is nothing to confuse.
* The unroutable `payment.success` (no queue is bound to it): the outbox ends at
  the broker.
* Notifications: nothing in the repository adds a notification job or creates a
  notification, so the worker has no run. If it had, `sendNotification` would
  hide every failure and its retry branch could not be reached.
* A requested report is stored PENDING and no code reads it again. The daily
  report, merchant summary and revenue check only log.
* API keys of merchants (`rotateKeys`), roles, and the user statuses nothing sets.
* The seven days of a refresh token and the rows of `sessions`, which nothing
  reads.
* The restart of the worker within `Broker`: the worker never connects.
* Read-only routes, pages that only display, logging, metrics, telemetry,
  dashboards, deployment.

## 6. Plan

Types and safety of every module are proved. What is left:

1. An abstract payment lifecycle that names the transitions the code can make,
   implemented by `Payments` and `Refunds` over one status column, so that the
   real writers replace `StatusWritten`.
2. An abstract token rotation (one holder per family) that `Sessions` implements
   while nobody is overtaken, and an at-least-once delivery that `Outbox`
   implements.
3. `Outbox` checked against `Broker` instead of its own view of the channel.
