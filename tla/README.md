# A verification of digital-wallet-system in TLA+

This directory models the wallet backend and the pages that use it in TLA+, checks the models with TLC on small
instances and proves the main safety properties with TLAPS for instances of every size. Paths below are relative to
the repository; `walletController.js` and the like are under `backend/controllers/`.

## 1. The system

A React frontend talks to an Express backend that keeps everything in MongoDB (mongoose) and uses Redis for the
transfer lock, the balance cache and the rate limiter, BullMQ for delayed jobs and notifications, and Razorpay for
payments. Several backend pods run the same code; within a pod the event loop interleaves requests at every `await`.

| Component | State | Operations | Correct when |
|---|---|---|---|
| Wallet transfers (`walletController.js`) | `Wallet.balance`, `escrowHeld`, `status`; `Transaction`; `LedgerEntry` | `transferMoney`; read-only handlers | no overdraft, money conserved, one debit per idempotency key, true answers, ledger agrees |
| Distributed lock (`utils/distributedLock.js`) | one Redis key per sender, 5 s TTL | `acquireLock` with retries, `releaseLock` by script | exclusive while Redis is calm, released by nobody else, never for ever |
| Disputes and escrow (`disputeController.js`) | `Dispute`, reversal `Transaction`, `escrowHeld` | raise, resolve, reject | refunded once, escrow equals open disputes, verdict agrees with the money |
| Payments (`paymentController.js`) | PENDING/SUCCESS/FAILED `Transaction`, `PaymentWebhookEvent` | create order, verify, webhook | credited exactly when SUCCESS, once, and not lost |
| Wallet freeze (`adminController.js`) | `Wallet.status` | freeze, unfreeze | see the hazard on the stale status |
| Balance cache (`utils/balanceCache.js`) | `balance:<user>` in Redis, 30 s TTL | read-through in `getWalletBalance`, invalidation after a transfer, dispute or scheduled job | no stale value for longer than the TTL |
| Scheduled transfers (`scheduledController.js`, `workers/scheduledWorker.js`) | `ScheduledTransfer`, BullMQ job | create, cancel, run, reschedule | each period is paid at most once |
| Accounts and tokens (`authController.js`, the sign-in pages) | `User`, `Wallet`, OTP, reset link, refresh token | register, verify, resend, login, forgot, reset, refresh, logout | nobody is in unverified or without a wallet; the newest mail works; sign-outs have a reason |
| KYC (`authController.js`, `adminController.js`) | `KYCDocument`, `kycTier` | submit, queue, review | the tier is what was approved |
| Rate limiter (`middleware/rateLimiter.js`) | sorted set per client | admit or refuse | at most `max` per window |
| Notifications (`utils/notificationQueue.js`, `workers/notificationWorker.js`) | BullMQ queue, preferences | enqueue, look up, send, retry | one mail, none that is switched off |
| Frontend session (`frontend/src/utils/api.js`, `context/AuthContext.js`) | tokens in storage, refresh queue | refresh on 401, logout | one refresh at a time, no request lost |
| Wallet pages (`AddMoney.js`, `Dashboard.js`, `Transactions.js`, `SendMoney.js`, `SocketContext.js`) | what they show and have asked for | submit, fetch, filter, search, events | one payment per visit; what is shown last is what was asked for last |
| Audit log, HTTP surface, other pages, deployment | | | not modelled, see section 7 |

Transfers, disputes, payments and scheduled jobs meet in the same `Wallet` documents, written with `$inc`. A transfer
holds the sender's Redis lock and, when MongoDB offers it, a session with a transaction; a dispute holds neither; a
payment only a session. After a commit a transfer invalidates the cache, writes the audit log, releases the lock,
emits socket events and enqueues notifications, all best-effort.

What is hard here: two requests at any two awaits; the switch of a running transfer from a transaction to plain writes;
a Redis that fails open; a lock that expires under its holder; crashes between plain writes; webhooks delivered again.
`PROJECT.json` lists each hazard at its line.

## 2. Modules

| Module | Models | Uses |
|---|---|---|
| `DistributedLock` | `acquireLock`/`releaseLock` and Redis' entry with its TTL | |
| `WalletBook` | the abstract promise of a transfer about money: take once, guarded, give once | |
| `Transfer` | `transferMoney`, `freezeWallet`, `unfreezeWallet` | refines `WalletBook` and `DistributedLock` |
| `Dispute` | `raiseDispute`, `resolveDispute`, `rejectDispute` | |
| `OrderBook` | the abstract promise about Razorpay orders: put on record once, paid only when on record, settled once | |
| `Payment` | `verifyPayment`, `handleWebhook` | refines `OrderBook` |
| `Session` | refresh-token rotation: the interceptors of `utils/api.js` in several tabs against `authenticateToken`, `login`, `refreshToken`, `logout` | |
| `Scheduled` | `createScheduledTransfer`, `cancelScheduledTransfer`, the BullMQ queue and the worker | |
| `Account` | register, verify, resend, login, forgot, reset, with the five pages, `AuthContext` and `ProtectedRoute` | `AccountState` |
| `AddMoney` | the page `AddMoney` and `createPaymentOrder`, mock credits included | `AddMoneyState`; refines `OrderBook` |
| `Profile` | KYC submits and reviews, notification preferences, the notification queue and its worker | `ProfileState` |
| `Views` | `balanceCache`, `getWalletBalance`, `getTransactionHistory`, socket events, Dashboard, Transactions, SendMoney's search | |
| `AccountState`, `ProfileState`, `AddMoneyState` | the variables of these three modules and the properties stated over them, apart from the actions | |
| `MC...` | instances for TLC | |
| `DistributedLock_proofs`, `Transfer_proofs`, `Payment_proofs`, `Dispute_proofs`, `Scheduled_proofs`, `Session_proofs`, `Views_proofs` | the theorems about each module; `Payment_proofs` holds those about `AddMoney` too, `Session_proofs` those about `Account` and `Profile` | `Transfer_proofs` uses those about the lock |
| `SumTheorems` | what a sum over a finite set is: empty, with an element more or less, changed at one element | |

### DistributedLock

`store[k]` is the token under the lock key of `k`, `phase` where each caller stands, `attempt` its retries. `SetNX`,
`Busy` and `Contention` are the three outcomes of one `SET NX PX` in `acquireLock`'s loop; `SetFails` is the caller's
catch (`walletController.js:288`), which goes on without the lock whether or not the SET took effect; `Release` is the
compare-and-delete script; `Expire` is the TTL. The history variable `calm` becomes false when a Redis command fails
or an entry expires under a caller that is still in its section. Mutual exclusion is claimed only while `calm`: the
code chooses availability otherwise.

### Transfer

One action per await of `transferMoney`. `pc[r]` names the await request `r` stands at: `outer` (idempotency check),
`wallet` (status, early balance, per-transfer limit), `limits` (daily total), `lock`, then the loop: `attempt` (session
and inner idempotency check), `receiver`, `ensureFrom`/`ensureTo` (wallet upserts), `debit`, `credit`, `fetch`,
`record`, `ledger`, `commit`, and `release`. `moved[r]` says how far the attempt has moved the money, `txn[r]` whether
a transaction buffers it, `forced[r]` is `forceNoTransaction`.

MongoDB is modelled as the code meets it. `Mongo = "replica"`: a transaction buffers its writes, takes its snapshot at
its first statement, and fails with a WriteConflict on a document that others hold or have written since.
`isTransactionUnsupportedError` matches any message with the word "transaction", so a WriteConflict, and a duplicate
key in the collection `transactions`, send the request into its second attempt without a session. `MongoError` is a failure inside the `try`: abort, release, 500. `LoseRequest` is one
outside it: the reads at lines 174, 205, 256 and 263 and `startSessionSafe` at 312 are awaited in an Express 4 handler with
nothing to catch them, so the rejection is logged (`server.js:182`), the request is never answered (`out` is `lost`) and a lock
it had stays to the TTL.
`Mongo = "standalone"` (what `docker-compose.yml` deploys): `startTransaction` succeeds and the first statement fails.
`"nosession"`: `startSessionSafe` falls back by itself. `Faults` says which failures may happen, `troubles` records
which have: `redis` (a command fails or its reply is lost), `slow` (a transfer outlives the TTL), `crash`, `mongo`.
Several properties hold only until some of these strike, and say so with `troubles`; the others hold whatever happens.

Abstractions. Amounts are small integers; `acquireLock`'s retries are stuttering; both wallets of `fetch` are read in
one step; the wallets exist (`verifyOTP` creates them), so the upserts only touch them; what follows the commit (cache, audit,
sockets, notifications) changes nothing a transfer reads. `held` is `escrowHeld`: `MoveHold` sets it as disputes do, at any
time and above the balance if they like (`disputeController.js:82` looks at none), to one of `HoldLevels`; how disputes
come to their sums is `Dispute`. `suspended` is set by nothing in the code and is left out.

### WalletBook

Balances, holds, which requests have taken and what each has in flight. `Take` is a guarded debit, `Give` its credit, `Move` both
at once, `Hold` any change of the holds by disputes.

### Dispute

A dispute is named by the request that created it, its reversal by the dispute; a reversal is a SUCCESS transaction
whose sender may dispute it in turn, and the model lets him. There is no session and no lock, so each `await` that writes
is a step, and `Stop` leaves a request for ever where it stands (crash or failed write, which the code does not undo).
Two history variables name what the properties except. `overlapped`: disputes on which a review began while another was at
work. `retaken`: disputes a review took up after an earlier one had released the hold and stopped short of its verdict.
A review that is tried again after one that stopped before the release is neither.
The age limit of 24 hours and a wrong caller appear as a refusal that may always happen. Audit log, notification and
cache invalidation are left out.

### Payment

`status[o]` is the order's `Transaction.status` as committed, `event[o]` its webhook event. A verification takes its
snapshot with its first read (`snap`), a delivery with its first session write. `outdated` holds the sessions whose
snapshot of the wallet or order has been overtaken. `OtherTraffic` is any other writer of the same wallet.
`disturbed` is history: orders that met other traffic on their wallet, a forged signature or a fault. Orders start as
PENDING, as `AddMoney` leaves them; events other than `payment.captured`, unknown orders and requests with
wrong ids change no order and are left out.

### OrderBook

The orders by what is recorded of them (`opened`, `paid`, `failed`) and those whose money Razorpay has (`captured`), with no
key, session, webhook or page. `Payment` maps `status` to the first three; it starts with orders that are open. `AddMoney`
maps to them the orders of all Transactions with a status, whichever key they are under, so an order on two
Transactions, a client that pays one of which nothing is recorded, or an order that is settled again is a
step the book does not have. The book is what the two modules have in common, though each abstracts from the other: `AddMoney`
settles a paid order in one step, `Payment` has the orders made already.

### Session

`hash` is the one `refreshTokenHash` of the user document, `access` and `refresh` the browser's localStorage, shared by
its tabs; `isRefreshing` and `subscribers` are each tab's module variables. `state[q]` says where an API call of a page
stands, `call[q]` its refresh call. A token is the second it was signed in: `generateTokens` adds nothing random, so
two tokens of one second are equal. `CheckRefresh` (read and compare) and `SaveRefresh` (the unconditional `save`) are
two steps. `Lose` is a lost call, a lost answer or a failing database, all of which the page sees as a failed refresh;
`Reload` drops what a tab had under way while the backend goes on; a sign-out is a request like any other (`SignOut`,
`LogoutSave`), refreshed and replayed when it is refused, and the page removes the tokens when it is settled; `MaxMishaps` bounds these, sign-outs and sign-ins
elsewhere. `disturbed` is history: refresh calls overlapped, or one of these happened. Refresh tokens do not expire,
accounts stay active, and the legacy plain `refreshToken` field is left out.

### Scheduled

A request of the owner (`front[s]`) and an attempt of the worker (`pc[j]`) take one step per await. `docs` holds the
documents, `records` the Transactions by their unique key, `job`, `tries`, `stalled` and `marks` what BullMQ keeps: a job
whose attempt throws waits until it has had `MaxTries` (attempts that stalled do not count), a job whose worker died comes back
once as stalled, and after every throw the failed handler (`Mark`) runs on its own. `Lapse` is a live worker that does not renew
its lock on the job for 30 seconds: the job is given back as stalled, and the attempt goes on beside the next one as a
stray, which BullMQ hears nothing of. `Spend` is a transfer of the same sender, `MoveHold` a dispute of his. The worker compares
funds before it takes the lock and debits with a bare `$inc`; `drift[j]` is history, what others have taken from the wallet
or put on hold since attempt `j` read it, and `ShortByWhatOthersTook` says that this is all a debit may be short of.
`BooksAgree` asks for exact books only from schedules none of whose attempts broke off after its debit (`late`): those are paid
again by the retry, and every further Transaction fails on the taken key. A recurring plan without `recurringIntervalDays`
(`interval`) goes back to pending and gets no further job, as at `scheduledWorker.js:129`.

### Account

Each handler is `findOne`, its checks, and a save of the paths it changed, in that order; codes and links are numbered
as they are made, and `inbox` is what mail has brought. The pages are one variable, `page`; `waits` are the requests
whose page still spins, and an answer may arrive at a page that has been left, which then navigates all the same.
`crossed` is history: kinds of mail whose requests overlapped or were not delivered. The resend countdown is left out:
any time may be late enough.

### AddMoney

`doc[k]` is the Transaction under idempotency key `k`; every request without a key has the same entry of the compound
index, so `NoKey` is a key like others. `credits` counts mock credits, `made` and `collected` Razorpay's side. `point[r]` is the
await a request stands at, `answer[r]` what it is told, `overtaken` the transactions whose wallet was written since. A mock
payment runs in a transaction or, on a standalone server or after an error whose message mentions one, without. `busy` is the
submit that disabled the button. `TimeOut` is axios giving a request up after 15 seconds (`utils/api.js:9`): the button is
enabled while the server still works on it (`dropped`), and what comes of it is shown to nobody.
`crossed` is history: keys used at once, by something else, or struck by a fault half-way; for these the code credits
without a record (see section 3).

### Profile

Three independent actors on one user document. KYC: `tier`, `docs`; a submit looks before it creates, a review saves
the verdict and then the tier, so two of either may cross (`irregular`). Preferences: each tab's `form` replaces all
of `prefs` at a save; `blind` are tabs that show something else than what is stored. Notifications: a job is enqueued,
looked up and mailed with up to `MaxTries` attempts, unless its enqueueing failed (`lost`: there is no job then). `unheard`
counts mails whose sending failed all the same, `stalls` the times BullMQ took the job for stalled: the first gives it back, the
second fails it (`maxStalledCount` 1). `stage[j][k]` is where an attempt stands: number 0 has the lock on the job, 1 and 2 are
those a stall has left running beside it. `muted` and `wanted` are history: jobs whose event has been off, or on, since it
happened.

### Views

The wallet is the number of its transactions so far (`version`), so a balance is the version it was read at. A transfer
empties the cache and then emits, a payment only emits, a scheduled transfer (and an upheld dispute) only empties. A request has a
balance part (cache, wallet, fill) and a list part (find, count). A list request with dates or amounts is never answered with
rows (`Refused`): `fetchTransactions` appends each range twice, the server gets arrays and `find` fails to cast them; page 0
is refused by `validatePagination`. `want` is what the page asks for, `shown` what it shows
and the answer it came with; every answer is shown, whatever came before it. `latest` and `by` are history: the last
request sent and the one shown. `raced` is history: the cache was filled behind a writer, not emptied by a payment,
or not reached by the writer's command. An event's way through the socket is part of the time until `Deliver`, and
`Lose` is a socket that is not connected. The balance in an event may be an older one, as `walletController.js:413` reads it
outside the transaction; the dashboard shows it until its own request is answered.

## 3. Runs

| Run | Question and bounds | Result |
|---|---|---|
| `MCDistributedLock` | 3 callers, 2 keys, 2 retries, every failure, fair | holds |
| `MCTransfer_replica` | 2 requests drawn from 5 payloads (same key, same sender, crossing, self, stranger), balances 3, disputes holding 0 or 2 of one sender at any time, every failure | holds |
| `MCTransfer_standalone` | 2 requests from 3 payloads, crossing or equal or without a key, no session support, freeze and unfreeze, daily limit 1, crashes, Redis and MongoDB failures, fair | holds |
| `MCTransfer_x_keyless` | 2 keyless requests of one sender | violated |
| `MCDispute` | 2 dispute requests, 3 reviews, 2 transfers and their reversals, stops | holds |
| `MCPayment` | 2 orders on one wallet, 2 verifications, 2 deliveries, forgery, other traffic, crashes, MongoDB errors | holds |
| `MCSession` | 3 requests in 2 tabs, tokens expire twice, 1 mishap, fair | holds |
| `MCScheduled` | 1 single and 1 recurring schedule of one sender, 2 jobs, 2 tries, 2 attempts at a time, 1 mishap (a lapsed job lock included), 1 other transfer or changed hold (0 or 2); after both (`FewWhenFailing`) no second schedule is created | holds |
| `MCAccount` | 3 requests, 2 codes or links, 1 mishap, an account that is new, registered or verified | holds |
| `MCAddMoney` | 3 requests by the page or with a shared key or none, both gateways, both deployments, 1 mishap (a client's timeout included), after which (`FewWhenFailing`) at most 2 of the requests are explored | holds |
| `MCProfile` | 2 submits, 2 admins, 2 tabs, 1 job of 2 tries that may stall twice, 2 events, 4 calls in all, 1 failed call | holds |
| `MCViews` | 2 requests, 2 transactions of any kind, 3 filters, 2 queries, pages of 1, 1 mishap | holds |

Why these bounds. Every race in `transferMoney` is between two requests of one sender, or between two requests that share a
wallet; two requests from `Mixed` give each of them, with each failure at each point. Three reviews let two overlap on one
dispute while a third comes later, or be tried again after two that stopped; two disputes let one be about the other's reversal. Two verifications and two deliveries
give every pairing on one order, and with two orders a neighbour on the same wallet. Two requests in one tab let one wait for
the other's refresh while a second tab refreshes on its own. Two jobs let a recurring transfer have a successor, or two
schedules of one sender meet at its lock; two tries are one retry. Three account requests are two that overlap and one after
them; two codes are an old and a new one. Three top-ups with one key are a winner, a loser and a later repetition. Two tries and two stalls of a mail are every way
its job can end, and one stall leaves an attempt beside the next. Two
requests of a page are one that is overtaken by another; a page that is opened while another loads is such a pair too, and so
is an event that arrives while the dashboard loads. With two transactions and pages of one there is a next page. One mishap
at any point is enough for each of the exceptions the properties make; the replica and dispute runs do not bound failures.
Requests are interchangeable, so they form symmetry sets, except in the runs with liveness.

What the passing runs show (the type invariants and the inductive invariants of section 5 hold in the same instances):

- `MutualExclusion`, `OnlyOwnerOrTTLRemoves`, `EntryAlwaysGoesAway`: the lock excludes while Redis is calm and is never lost.
- `NoOverdraft`, `MoneyFollowsBook`: with the lock lost, expired or ignored, a transfer cut off at any
  point and disputes placing holds between its checks, its debit and its commit, no debit that becomes visible takes what is held
  by then, and wallets change only by guarded debits and matching credits, at most once per request.
- `DebitOncePerKey`, `KeyedAnswersAreTrue`: requests with one key debit once and are told the truth, until a fault strikes
  (`troubles`); with transactions, until Redis fails. With Redis down or plain writes cut off the code gives no such promise.
- `NothingStranded`: money is conserved, and a transfer that stayed in its transaction never leaves it between two wallets.
- `OneTransferPerSender`, `LockFollowsProtocol`: the lock is used as designed on each return path.
- `PlainLedgerShowsPostDebit`: outside a transaction the ledger's balances are the ones after the movement.
- `EveryTransferAnswered`: with crashes, Redis and MongoDB failures every request is answered, unless its process dies or MongoDB
  fails at one of the awaits outside the `try`, where the code answers nobody.
- `MoneyMatchesReversals`: a dispute's money is given back at most once and taken at most once, and only with its reversal
  record, however reviews overlap, repeat or stop (one that stops half-way leaves its record and moves the rest never).
- `EscrowMatchesOpen`, `VerdictMatchesMoney`, `VerdictIsFinal`: hold, sums and verdicts agree wherever requests and
  reviews stop and are tried again. Two kinds of disputes are excepted, because there the code does break them: those two
  reviews work on at once (resolve against reject), and, but for the finality of verdicts, those that are taken up again
  after a review had released the hold and stopped before its verdict.
- `MoneyMatchesOrders`, `SuccessIsTold`: one credit per captured payment, exactly with SUCCESS.
- `OrdersFollowBook`, `TopUpsFollowBook`: from the submit to the webhook an order goes by `OrderBook`; a FAILED one is not paid
  later, a SUCCESS stays one, and no order is on two Transactions.
- `RaceHasAWinner`: verification and webhook can fail each other, but not both.
- `OneRefreshPerTab`: the flag, the queue and the calls of a tab agree at every step, reloads included.
- `StaysSignedIn`: rotation never signs a user out unless refresh calls overlapped, something failed or the user acted.
- `RequestsSettle`: every request of a page is answered or rejected, however the refresh it waits for ends.
- `BooksAgree`, `ShortByWhatOthersTook`, `ProcessingIsAttended`, `QuietCancelHolds`: executions, records and money of a schedule
  agree unless an attempt breaks off after its debit; its debit leaves the sender short of what disputes hold by no more than
  others took or held since the attempt's check; a schedule is never left in a status its owner cannot leave; a
  cancelled one is not paid unless a failed attempt writes over the cancellation.
- `SignedInIsReady`, `NewestMailWorks`, `LinkIsUsedOnce`: no page, answered late or not, lets an unverified user in, and mails
  and the document agree unless requests for one kind of mail overlap.
- `CreditMatchesRecord`, `AnswersAreTrue`, `OneTopUpPerVisit`: a mock payment credits and records alike, no answer speaks of
  another document than the key's, and the button keeps a visit to one order at a time; a request given up after 15 seconds goes
  on beside the next, and its order is never shown or paid.
- `TierMatchesVerdicts`, `OnlyClickedChanges`, `MailedOnce`: no tier is skipped, a save touches only what was clicked; a
  job mails at most once more than it lost answers and stalled, never about an event that has been off, completes without
  a mail only if its event was off at some time, and is given up only after its tries or its second stall.
- `CacheIsFresh`, `EventsAreShown`, `LatestIsChosen`: a stale balance comes only from the races named in `raced`, an event is
  never followed by an older answer to the request it causes, and the answer to the last request, when it is shown, is one to
  the filter, page and query that are chosen.

What the violated run shows: **keyless transfers** (`Transaction.js:79`). The index is compound, so a null key is indexed with
the user. The second transfer without a key moves its money in the fallback and then fails on the index.

What the models contain besides, and the properties except by name:

- `walletController.js:413` reads the ledger's balances without the session: inside a transaction they predate the debit,
  though line 441 calls the balance post-debit.
- `walletController.js:174`, `:205`, `:256`, `:263` and `:312` are awaited outside every `try`: if MongoDB fails there the client
  waits for ever, and after line 278 the sender is refused until the TTL.
- `disputeController.js:270-275`: a rejection that stops between its two writes leaves the dispute open with its hold released;
  the next one releases it again, and `escrowHeld` may go below zero. `:203-213`: a resolution that stops after the refund leaves
  the dispute open; no second resolution gets past the reversal's key, and a rejection files it as rejected though refunded.
- `disputeController.js:61` finds and then creates, with no unique index: one transfer may get two disputes.
- `paymentController.js:508`: an event whose first delivery failed is later acknowledged as a duplicate. On a standalone
  server neither `verifyPayment` nor the webhook can succeed at all.
- `paymentController.js:161-167`: a duplicate key's message names the collection `transactions`, so a mock payment that lost
  the race for a key (or a second one without a key) is tried again without a transaction, credits and then fails.
- `authController.js:385`: the old hash is compared in memory and not in the update, so two calls with one token are both
  granted, against `README.md:933`.
- `scheduledWorker.js:94` calls its two bare `$inc` an "Atomic debit + credit" in the pattern of the main transfer; they are neither
  atomic, as a retry after a failure in between debits again, nor guarded, as a dispute's hold (`disputeController.js:82`) or another
  debit between the check at line 65 and line 95 takes the sender below its holds or below zero.
- `scheduledWorker.js:142`: a job whose lock lapses under a live attempt runs a second time beside it; both may debit, and the
  one that records second fails after its debit.
- `scheduledWorker.js:129`: a recurring transfer without `recurringIntervalDays`, which `scheduledController.js:43` stores as null,
  is pending for ever after its first run.
- `scheduledWorker.js:148`: the failed handler writes over a cancellation, and the retry then pays. A recurring transfer whose
  last step fails after its successor was queued starts a second chain.
- `balanceCache.js:44` says the cache is emptied "after every debit/credit"; no payment does so, and a reader that was
  overtaken fills it with an old balance for up to 30 seconds.
- `README.md:779` gives a notification up "after 3 failures": a second stall fails its job with tries left.
- `notificationWorker.js:32-33` calls the look-up fail-open; an error in it throws, and after three of them the mail is lost.
  `README.md:429` promises a KYC notification and `README.md:779` a dead-letter queue; the code has neither.
- `NotificationPreferences.js`: after a failed load the page shows defaults as if stored, the first click on an unset box
  changes nothing that is shown, and a save replaces all that was stored.
- `utils/api.js:9` gives a submit up after 15 seconds and `AddMoney.js:159` enables the button while the server goes on: a mock
  payment submitted again has a new key and is credited again.
- `Transactions.js:46-53` sends every range twice, so a list with dates or amounts always fails, though the export, which
  sends them once, works; a page number 0 is answered with 400 (`validation.js:161`).
- `walletController.js:413`: the balance an event carries may be the one before the transfer.
- `Transactions.js:150-159`: clicking the filter or page number that is already chosen starts loading and fetches nothing.

Every property of a passing run comes with a mutant, a definition of the same module that errs in a plausible way
(a dropped guard, a missing release, an update without its session) and makes TLC report the property violated.

## 4. Fairness

`Transfer!FairSpec` gives each request that has arrived weak fairness of its steps (the event loop resumes a handler
whose reply is there; MongoDB answers) and each lock entry weak fairness of its TTL. Arrivals, admins, crashes and
failures are not fair. No step needs strong fairness: a plain write that waits for a transaction waits for one whose own
steps are fair. `DistributedLock!FairSpec` is the same for the lock alone. `Session!FairSpec` lets browser and backend
react to what has arrived; the user, the clock and losses are free.

## 5. Proofs

TLAPS checks the following for every value of the constants, from their ASSUMEs only. Those say what the constants are;
the ones that are about size ask that `Users`, `Requests`, `Orders` and `Raises` are finite, without which a sum over them
means nothing. Every safety property of every passing run is a theorem. Three modules are proved about where they belong and not in
modules of their own: `Payment_proofs` instantiates `AddMoney`, from which its orders come, and `Session_proofs`
instantiates `Account` and `Profile`, which are about the same user. As an instance has no assumptions, what these modules
assume of their constants is the hypothesis of each theorem (`AddMoneyAssumption`, `AccountAssumption`,
`ProfileAssumption`); it says what the values are and that sets of different actors are disjoint, and the runs evaluate it.
The proofs modules extend `AddMoneyState`, `AccountState` and `ProfileState`, as the instantiated modules do, so each theorem
states the very definition the run checks. For that the names of one proofs module must differ, which is why `Payment` has `pc`,
`captured` and `outdated` where `AddMoney` has `point`, `collected` and `overtaken`. A state of the two modules together is not
meant: nothing relates the variables of the one to those of the other.

| Module | Theorem | Property | Rests on |
|---|---|---|---|
| `DistributedLock_proofs` | `LockExcludes`, `NobodyElseReleases` | `MutualExclusion`, `OnlyOwnerOrTTLRemoves` | `EntryOwned`, types |
| `Transfer_proofs` | `NeverOverdrawn`, `ImplementsBook` | `NoOverdraft`, `MoneyFollowsBook` | `MoneyInv` |
| | `UsesLockProtocol` | `LockFollowsProtocol` | types |
| | `SenderIsExclusive` | `OneTransferPerSender` | `UsesLockProtocol` and `LockExcludes` |
| | `MoneyIsConserved` | `NothingStranded` | `TraceInv`, `Balanced`, `SumTheorems` |
| | `OneDebitPerKey`, `AnswersMatchRecords` | `DebitOncePerKey`, `KeyedAnswersAreTrue` | `KeyInv`, `TraceInv`, `SenderIsExclusive` |
| | `LedgerIsPostDebit` | `PlainLedgerShowsPostDebit` | `SightInv`, `TraceInv` |
| `Payment_proofs` | `NoFalseSuccess` | `SuccessIsTold` | `OrderInv` |
| | `EachPaymentOnce` | `MoneyMatchesOrders` | `OrderInv`, `SumTheorems` |
| | `RaceIsWon` (`Mongo = "replica"`) | `RaceHasAWinner` | `OrderInv`, `RaceInv` |
| | `CreditedForGood`, `OrdersAreSettledOnce` | `SuccessIsFinal` (which the book implies), `OrdersFollowBook` | `OrderInv` |
| | `TopUpsGoByTheBook` | `TopUpsFollowBook` | `AddMoneyInv`, `UniqueInv` |
| | `MockIsCreditedOnce` | `CreditMatchesRecord` | `AddMoneyInv`: `AloneInv`, `CommitInv`, `CreditInv` |
| | `ClientsAreToldTheTruth`, `OneOrderAtATime` | `AnswersAreTrue`, `OneTopUpPerVisit` | `AddMoneyInv`: `OrdersInv`, `AnswersInv` |
| `Dispute_proofs` | `VerdictIsTrue`, `VerdictStays` | `VerdictMatchesMoney`, `VerdictIsFinal` | `DisputeInv`: `WorkInv`, `ReviewInv` |
| | `RefundedOnce`, `EscrowIsExact` | `MoneyMatchesReversals`, `EscrowMatchesOpen` | `DisputeInv`, `SumTheorems` |
| `Scheduled_proofs` | `CancelledStaysUnpaid` | `QuietCancelHolds` | `QueueInv`, `QuietIsCancelled` |
| | `NoneIsLeftProcessing` | `ProcessingIsAttended` | `QueueInv`, `ProcessingAttended` |
| | `ShortfallIsOthers` | `ShortByWhatOthersTook` | `QueueInv`, `CoverInv` |
| | `ScheduledBooksAgree` | `BooksAgree` | `QueueInv`, `Books`, `SeenIsBehind` |
| `Session_proofs` | `OneCallPerTab` | `OneRefreshPerTab` | `FlagInv`, `QueueInv` |
| | `NobodyIsSignedOut` | `StaysSignedIn` | `TokenInv` |
| | `NobodyIsLetInEarly` | `SignedInIsReady` | `AccountInv`: `ReadyInv`, `WaitsInv` |
| | `MailIsNotOutdated`, `NoLinkIsUsedTwice` | `NewestMailWorks`, `LinkIsUsedOnce` | `AccountInv`: `SecretsInv`, `CodeInv`, `LinkInv` |
| | `NoTierIsSkipped` | `TierMatchesVerdicts` | `ProfileInv`: `TierInv`, `CountInv` |
| | `NobodyIsMailedTwice`, `NothingElseIsSaved` | `MailedOnce`, `OnlyClickedChanges` | `ProfileInv`: `MailInv`, `FormInv` |
| `Views_proofs` | `CacheStaysFresh` | `CacheIsFresh` | `CacheInv` |
| | `EventsShow` | `EventsAreShown` | `CacheInv`, `ToldInv`, `DashboardInv` |
| | `LatestIsShown` | `LatestIsChosen` | `ChoiceInv`, `LoadingInv` |

Each module proves its type invariant too, by itself or as the first conjunct of its inductive invariant. The
inductive invariants are there because the properties are not inductive:

- **Money of a transfer.** A buffered debit passes the guard when it is written and changes the balance only at the
  commit. `MoneyInv` carries what happens in between: how far the money has moved at each point (`MovedByPoint`), that a
  transaction is open only inside an attempt (`TxnByPoint`), that the receiver is another existing wallet
  (`ReceiverChecked`), that no two open transactions hold one wallet (`HoldsAlone`), and therefore that a buffered debit
  stays affordable (`BufferedAffordable`): a hold, too, waits for the transaction that has written the wallet. With it every step is a `WalletBook` step or a stutter: a plain debit is `Take`,
  a plain credit `Give`, a commit `Move`, a dispute `Hold`. `NoOverdraft` is an action property, since a hold alone may leave a
  wallet with less than is held.
- **The lock of a transfer.** `LockPhase` maps the points of a request to the phases of a caller of the lock. Every step of
  `Transfer` is shown to be a step of `DistributedLock` or a stutter, so `LockExcludes` holds of the transfers, and with the
  phases back in terms of points it is `OneTransferPerSender`.
- **Keys.** A second request with a key must find the record of the first. `TraceInv` says what each point has left
  behind (debit, credit, record, ledger entries, buffered or visible); `KeyInv` that a key has one record, that money
  which has left is recorded or about to be, and that what the check inside the lock saw stays true while the lock is
  held. That last part needs `OneTransferPerSender`, hence the order of the proofs.
- **Sums.** `SumFunctionOnSet` is a recursive function on finite sets. The library's induction theorems take a predicate
  as a parameter, which the provers cannot instantiate, so `SumTheorems` argues by a smallest counterexample in a set of
  subsets. Conservation (`Balanced`: wallets and money in flight add up), `MoneyMatchesOrders`, `MoneyMatchesReversals` and
  `EscrowMatchesOpen` change at most two elements of a sum at each step.
- **Payments.** `OrderInv`: one open session has written an order (`OrderHeldAlone`), so its status cannot change under it
  (`HeldIsOpen`), and a snapshot is what the order says or is marked as overtaken (`SnapshotHolds`). `RaceInv` adds that an
  undisturbed order which handlers have come for is SUCCESS or has one that still tries (`SomeoneTries`): a handler is
  failed only by a commit or by somebody who holds the order, and that one goes on.
- **Top-ups.** An undisturbed key has one request past its `findOne`, and no document until that one writes it
  (`AloneInv`); only then does "credited once" survive the step that credits before it records (`CreditInv`). A
  transaction about to commit holds its key alone (`CommitInv`), so a document somebody was answered from is not written over
  (`AnswersInv`); orders are among those that were made, so only those can be paid (`OrdersInv`).
- **The book of orders.** A status changes only by a commit of the one session that holds the order (`OrderInv`), and what it
  commits was decided on a PENDING or FAILED order, so each step of `Payment` is `Succeed`, `Reject`, `Capture` or a stutter.
  For `AddMoney` the hard part is that an order lies on one document only: between `orders.create` and the
  insert it lies on none and with one request (`UniqueInv`). `OrderMove` lists the few things a step may do to
  orders and documents, `OrderMoves` shows that nothing else happens, and `TopUpBookStep` maps each of them to the book; that a
  checkout's order is on record comes from `AnswersInv`.
- **Accounts.** A request past its check relies on what it checked: `ReadyInv` says that no step takes it away. A code
  that is being sent is the document's before it is in the inbox (`CodeInv`), a link until it is used (`LinkInv`), and a
  code or link that has not been made is held by nobody (`SecretsInv`).
- **Tiers, mails and preferences.** `TierInv`: whoever asks for a tier or is about to grant one follows somebody who was
  granted each tier below, which is more than the tier itself says. `CountInv`: undisturbed, one document at a time is pending or
  being granted. `FormInv`: an untouched event of a page that is not blind is what is stored. `MailInv`: the mails of a
  job and those its strays may still send are within what lost answers and stalls allow; a muted job's attempts never come as far
  as sending; a job has tries left while it waits (`JobInv`).
- **Disputes.** `WorkInv`: a review past the reversal is alone with its dispute (`OneReversal`), a verdict is that of a
  review that ended (`VerdictIsGiven`). `ReviewInv`: unless a dispute is overlapped, one live review is at work on it and nobody
  closes it meanwhile; unless it is retaken too, no review follows one that stopped with the hold released, and so a hold is
  released once (`OneRelease`).
- **Schedules.** `QueueInv`: a job is active exactly while an attempt is under way, and has tries left while it waits.
  `Books` relates, for each schedule, what was debited, given, recorded and counted with the jobs under way, and every
  step moves these in one of a few ways; that a stray takes over the number of an attempt is one of them (`Passes`).
  `CoverInv`: what an attempt has checked is short by at most its `drift`.
- **Refresh.** `FlagInv`: a call whose page waits for it belongs to the one refreshing request of a tab whose flag is up.
  `TokenInv`: undisturbed, the one call that is out carries the expected token until it is saved and brings it back then.
- **Views.** `CacheIsFresh` says too little: `CacheInv` says that each transaction an unraced cache misses has a writer yet
  to empty it, and that a fill writes a balance the wallet had. As an event comes after its writer has emptied the cache
  (`ToldInv`), what the dashboard's latest request reads is as new as the events (`DashboardInv`). `ChoiceInv` says that the latest
  request asks for what is chosen; on SendMoney it needs that the page's first request is out alone until a
  search is typed.

Only model-checked: liveness (`EntryAlwaysGoesAway`, `EveryTransferAnswered`, `RequestsSettle`), since
fairness and ENABLED are beyond the prover. No model declares a RECURSIVE operator.

## 6. Plan

1. One module of `AddMoney` and `Payment` together. Both go by `OrderBook`, which says what an order may go through, but that the
   wallet's balance is the sum of mock credits and paid orders is proved in each for its own part only.
2. A model of the rate limiter, if it comes to decide more than to refuse.

## 7. Not modelled

- Statistics, analytics, export and receipts: they read and format.
- The rate limiter: it refuses a request before its handler and shares no state with it; a refusal looks like a failed call.
- The audit log: insert-only, errors swallowed, read by no decision.
- Routing, validation, error formatting: the payload sets carry what they let through.
- The pages `Disputes`, `ScheduledTransfers`, `QRCode`, `ScanQR`, `AuditLog` and those of the admins but `KYCQueue`: lists and
  forms of one request each.
- SendMoney's submit: it is the arrival of a request in `Transfer`. It makes a new key for every submit, so a user who submits
  again after a lost answer pays twice, as the model of a request with another key does.
- Kubernetes and Docker files: the standalone server and restarting pods appear as `Mongo` and `Faults`.
- The daily limit and a freeze under concurrency: `CheckDailyLimit` and `CheckWallet` read before the lock and nobody reads
  again, so two transfers may pass one limit and a wallet frozen in between is debited. The models contain these
  behaviours; no property claims otherwise.
