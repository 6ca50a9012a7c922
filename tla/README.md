# TLA+ models of xy2api

xy2api is a gateway in front of AI model providers: it sells balance and
subscriptions to users, forwards their requests to pooled upstream accounts,
meters what they use, and is operated through an admin API. It runs as several
server processes over one PostgreSQL database and one Redis, so nearly all of
its correctness rests on conditional UPDATEs, unique indexes and leases, and
nearly all of its hard bugs are races between request handlers, sweeps and
retries.

This directory models the parts in which money, credentials and irreversible
operations are at stake: fulfillment and refund of payment orders, the billing of
usage with its in-flight reservations, the holds and the queue of image batches,
the refresh of OAuth tokens, the caches that authenticate API keys, the
idempotency records that protect admin and user writes, and the lock of the system
operations.
`PROJECT.json` lists components, runs, mutants, the map from definitions to
source lines, findings, hazards and theorems.

All paths below are relative to `src/backend/internal/` unless they start with
`src/`.

## 1. Inventory

| Component | State it keeps | Operations | Hard behaviour | What makes it correct |
|---|---|---|---|---|
| Payment orders (`service/payment_order.go`, `payment_order_lifecycle.go`) | `payment_orders` row: status, paid_at, completed_at, updated_at, payment details | create, cancel, verify, reconcile sweep, expiry sweep | provider call between two writes; payment during cancellation; FAILED written over any status | nothing is granted without money; a paid order is settled |
| Payment fulfillment (`service/payment_fulfillment.go`, `redeem_service.go`) | lease in `updated_at`, redeem code row, audit rows, balance, subscription, rebate | notification, confirmation, claim of the lease, credit or assignment, rebate, completion, admin retry | duplicate and late webhooks, lease takeover, crash between credit and completion | granted once, rebated once, completed only when granted, acknowledged only when settled |
| Payment refund (`service/payment_refund.go`) | order status, REFUND_* audit rows, balance | request, prepare, execute, rollback, query and finalize | two admins, lost gateway answers, failed rollbacks, usage billing meanwhile | deducted once, shown as refunded only when paid out, never enriched or overdrawn |
| Idempotency coordinator (`service/idempotency.go`, `repository/idempotency_repo.go`) | one `idempotency_records` row per scope and key: fingerprint, status, locked_until, expires_at, stored response | create, read, reclaim, execute, mark, cleanup | reclaim races, results that cannot be stored, expiry | one execution at a time, replay only of one's own success, keys freed |
| System operation lock (`service/system_operation_lock_service.go`, `handler/admin/system_handler.go`) | one row of the same table, a renewal goroutine per owner | acquire, renew, release | 30 s lease under a 15 min operation, crash, failed release | live owners are not displaced, the lock is freed |
| Stripe hosted checkout and refund (`service/payment_stripe_hosted*.go`) | hosted session rows, leases, the same orders | create, webhook, reconcile, refund | a second machine over the same orders | as payment fulfillment |
| Usage billing (`repository/usage_billing_repo.go`, `usage_billing_intents.go`, `service/billing_inflight_reservation.go`) | intents, dedup table and archive, usage rows, balance; in Redis the cached balance and the reservations | reserve, persist the intent, settle, drop the cached balance, record failures, recover, archive | retries of the same request, lost commit answers, a recovery beside the handler, archived claims | charged once and at the price persisted first, settled intents are paid, checkpoints honest, every intent settled or left for review |
| Concurrency slots (`service/concurrency_service.go`, `repository/concurrency_cache.go`) | Redis sorted sets of slots and wait counters | acquire, release, wait, clean up | crashed holders, slot expiry | bound on slots, slots come back |
| Usage record worker pool (`service/usage_record_worker_pool.go`) | bounded queue, worker count, counters | submit, overflow policy, scale, stop | submit against stop, full queue | no record is lost silently |
| Scheduler snapshot and outbox (`service/scheduler_snapshot_service.go`) | versioned snapshots in Redis, outbox watermark | rebuild, apply events, fall back | event order, concurrent rebuild | a stale snapshot does not win |
| OAuth token refresh (`service/oauth_refresh_api.go`, `token_refresh_service.go`, `repository/account_repo.go`) | the account's credentials and status, the refresh lock in Redis, the provider's view of the token | lock, re-read, refresh, compare-and-set, quarantine; edit, re-authorize and refresh by hand | refresh tokens that may be used once, stalls past the lock, admins who write whole rows | the stored token is live or about to be replaced, only dead tokens are quarantined as revoked, new authorizations stay |
| Auth cache invalidation (`service/api_key_auth_cache_impl.go`, `auth_cache_invalidation_outbox.go`) | two local caches per server, one entry in Redis, outbox rows | look up, change, invalidate, publish, claim, two delivery passes | lookups that store an old version late, lost messages, crashed workers, expired leases | a change is final in every cache once its row is gone, and every row goes |
| Batch image jobs (`service/batch_image_public.go`, `batch_image_worker.go`, `batch_image_processor.go`, `batch_image_settlement.go`, `batch_image_billing_recovery.go`) | job row, hold in the users row, claims, queue entries and lock in Redis, the upstream job | submit, cancel, recover, reserve and process an entry, index, capture, release | crash between any two of database, provider and queue; two workers on one batch | the frozen balance is exactly what is on hold, work is backed by a hold, refunded jobs get it back, a queued batch ends |
| Leader lock, protocol conversion, gateway forwarding, frontend | - | - | I/O and data conversion | not modelled, see section 8 |

How they interact: webhooks, users, sweeps and admins all end in the same
fulfillment code, on the same order row; refund starts from COMPLETED orders and
shares the balance with usage billing, and batch images freeze part of the same
balance through the same dedup table; system operations run inside an
idempotent request and then take the system lock, both in the table
`idempotency_records`; every request of a user passes the auth cache, and the
account that serves it is one whose token the refresh keeps alive.

## 2. Modules

| Module | Models |
|---|---|
| `PaymentFulfillment` | one order from `CreateOrder` to COMPLETED, any number of handlers |
| `PaymentLedger` | the abstract promise of a payment: pay, grant, decide the rebate, settle, each once and in this order |
| `PaymentFulfillmentProofs` | theorems about `PaymentFulfillment`, including that it implements `PaymentLedger` |
| `PaymentRefund`, `PaymentRefundProofs` | the refund of one completed balance order; theorems |
| `IdempotencyRecords` | one row of `idempotency_records` and the SQL statements on it; shared by the next two |
| `IdempotencyCoordinator`, `IdempotencyCoordinatorProofs` | `Execute` for one key, cleanup; theorems |
| `SystemOperationLock`, `SystemOperationLockProofs` | acquire, renewal and release of the system lock; theorems |
| `UsageBilling`, `UsageBillingProofs` | one user's requests from the reservation to the settled intent, recovery and archive; theorems |
| `UsageLedger` | the abstract promise of usage billing: a price is fixed once and paid at most once |
| `BatchImageHold` | the three money transactions of one batch: reserve, capture, release |
| `BatchImageQueue` | one batch in the Redis work queue: its Lua scripts and its lock |
| `BatchImageJobs`, `BatchImageJobsProofs` | the composition of both with the job row and the upstream job: submit, cancel, recovery, workers; theorems |
| `AuthCache`, `AuthCacheProofs` | the caches of one API key, lookups, invalidation and outbox; theorems |
| `OAuthRefresh`, `OAuthRefreshProofs` | the credentials of one account, refreshers and admins; theorems |
| `MC*` | model values and symmetry sets for TLC |

### Payment fulfillment

Every handler runs on a worker and is split at each database, Redis or provider
call; `pc[w]` names the call it makes next. The correspondence of steps and code:

- `CreatePayment`, `StoreDetails`, `CreateFailed`: `CreateOrder` after its
  transaction. An error writes FAILED over any status.
- `StartNotify`, `VerifyOrderByOutTradeNo`, `ReconcilePendingPaymentOrders`,
  `ExpireTimedOutOrders`, `CancelOrder`, `RetryFulfillment`: the six ways in.
  `QueryProvider`, `ClosePayment`, `BackfillTradeNo`, `CancelPending` are the
  provider query that the middle four share.
- `ConfirmPayment`, `ToPaid`, `AlreadyProcessed`, `ExecuteFulfillment`,
  `AcquireLease`, `LeaseLost`, `ReloadLease`: from the notification to the lease.
- `LookupCode`, `CreateCode`, `RedeemChecks`, `RedeemTx` (balance orders) or
  `AssignSubscription`, then `ApplyAffiliateRebate`, `MarkCompleted`,
  `CompletionLost`, `MarkFailed`: the grant and its end.
- `ErrorReturned`, `ErrorInGrant`, `Crash`: each call may fail and each worker
  may stop between any two calls, bounded by `MaxFaults`. A statement whose error is
  reported although it was applied is modelled where later steps can tell.

Abstractions: `updated_at` is the version of the lease and the clock of two five
minute windows. The model keeps the two comparisons made with it: `fresh` (it lies
within the window) and `holders` (the workers whose lease version equals it).
Audit rows are a set, because the table has a unique index on order and action.
The amount comparison is whether a notification fits (`StartBadNotify` is one that
does not). The Redis lock around redeem is left out: it is best effort, so the
database must be enough. Refunds of the order are one action (`RefundWrites`), the
interface to the module below. `AdminChangesGroup` switches the group of a subscription
order off and on; while it is off, `AssignSubscription` fails and the order is FAILED.

### Payment refund

`PrepareRefund` reads and plans, `ClaimRefund` claims by conditional update,
`DeductForRefund` takes the balance, `GatewayRefund` asks the gateway (`AskGateway`) or, for
an order without a trade number, reports a success without asking (`SkipGateway`); then
`MarkRefundOk`, or a rollback and `MarkRefundPending` or `MarkRefundFailed`.
`QueryAndFinalizeRefund` with `QueryGateway`, `FinalizeSuccess`, `FinalizeFailed` is
the later finalization. `UserSpends` is usage billing on the same balance,
`GatewayDecides` a pending refund that the gateway concludes. `Failures` names what may
go wrong in a run: the deduction, the gateway call or its answer, the rollback, the
audit row, the final status, a crash, and a deduction or rollback that was made but is
reported as an error (`ack`). The gateway keys a refund by order and amount,
as the Stripe, WeChat and EasyPay providers do. Three history variables, which no
action reads: `taken` is what the refunds of this order took off the balance, net of
rollbacks; `stuck` says that one of them was left in place by a rollback that failed, a
request that stopped or a lost answer; `reopened` that a late `FinalizeFailed` took the order
out of a refund in progress or done.

### Idempotency records, coordinator and lock

Times are kept as what they are compared with: `until` is `null`, `past` or
`future` (locked_until), `expired` says that expires_at is past. A call compares both
with the time at which *it* started, so a time that passed since is still to come for
that call; `late[w]` records those. This is what decides the reclaim races. Row ids
are told apart by one bit, because no call outlives two rows of a key. A lease that `TryReclaim`
writes is `future` although it is computed from the start of the call (idempotency.go:249): the
assumption is that the few statements between the start of a call and its reclaim take less than
the lease (30 s). The same assumption is stated in the module.

`IdempotencyCoordinator` follows `Execute`: create, read, reclaim of an expired
row, second read, reclaim of a failed row, the operation, and one of the two final
statements. `done` counts the successful executions of each payload since the row
last expired. `Fails` covers failed statements, crashes and, for the final
statements, clients that hang up (they run in the request's context).

`SystemOperationLock` follows `Acquire`, `renewLoop` and `Release`. A renewal is not an
action, since it only keeps `until` in the future; what counts is when it stops:
`RenewLoopEnds` when a tick finds no row with status processing and the owner's
operation id, `OperationEnds` at release, `Fails` in a crash. `LeasePasses` is possible
only when nobody renews. Assumptions, also in the module: one of the three renewals in
each lease reaches the database; the release statement (2 s) is faster than the rest
of the lease; an operation (15 min) is shorter than the row's time to live (1 h).

### Usage billing

A handler reads the balance through the cache (`GetUserBalance`, with the queued
write `SetBalanceCache`), reserves its estimate (`ReserveInflight`), forwards the
request (`Forward`) and bills it. Billing is the same for a handler and for a
recovery service that claimed the intent (`ClaimBillingRecovery`):
`PrepareBillingIntent` persists the command, `ApplySettlement` is the transaction that
claims the key, takes the money, writes the usage row and settles the intent,
`RecordBillingIntentFailure` what follows an error, `InvalidateCaches` and
`CompleteBillingCacheInvalidation` the end. `CleanupUsageBillingDedup` moves a claim to
the archive. `Failures` names what may go wrong: the prepare, the transaction, the
answer to its commit (`ack`), the record of a failure, the cache, the renewal of a
reservation, a crash. The upstream account plays no part: it is deleted softly, and
`incrementUsageBillingAccountQuota` does not look at `deleted_at`, so a settlement goes through.

A command is its cost: the fingerprint is a hash over all its amounts. A legacy key is
one whose claim is older than intents.

### Batch images

`BatchImageHold` keeps the claimed request ids in their order, because the order of
hold and release decides whether money stays frozen. `BatchImageQueue` keeps, for one
batch, the inflight key and where its entries are. `BatchImageJobs` runs four kinds of
actors over both: `Submit` (create, reserve, items, upload, provider, attach, enqueue),
`Cancel`, `Recover` and the queue's workers (`Work`), each split at every database,
provider and queue call. `cost` is what the indexed output costs; a cost above the
hold stands for an output that cannot be settled. The heartbeat of the job lock is left
out; what counts is when it fails (`HeartbeatsLost`), after which the lock expires under
a running worker. `Failures` tells two kinds of lost answers apart: `ack`, after which the code
tries again or leaves the batch to the queue (capture, release, status changes), and `lost`, after
which it forgets about the hold (`Reserve`, `CancelTransition`, the recovery's `FailStale`).
`AccountChanges` makes the job's provider or account unresolvable and resolvable again, which sends
the worker's `ProcessProvider` back to the queue without counting; `AbortOrphan` is the cancel of an
upstream job that could not be attached, which may fail too.

### Auth cache

Versions stand for what the key says: 0 at first, one more with each change, one of them
possibly deletion. `GetAuthCacheEntry`, `LoadAuthCacheEntry`, `SetAuthCache` are a lookup,
which may store what it read long ago; `Change` is the write of the key with the row its
trigger inserts; `InvalidateAuthCacheByKey` what the request then does itself, ignoring
every error; `Claim`, `InvalidateLocal`, `DeleteFromRedis`, `Publish`, `Finish`, `Retry` a
worker on an outbox row. `DelayPasses` is the safety delay before the second pass: it
outlasts every lookup that began before the first pass ended (assumption: a lookup
takes less than the 30 s of the delay).

### OAuth refresh

A token is its grant and its generation; the provider accepts one generation of each
grant, and answers a use with the next. `AcquireRefreshLock` or `DegradeToUnlocked` (Redis
does not answer), `RereadAccount`, `Refresh`, `Persist` (compare-and-set on the
credentials), `TryRecoverFromRefreshRace`, `Quarantine` and `ReleaseRefreshLock` are one
attempt. `why` is what a refused attempt has learnt: the token is spent (`revoked`), or
`ProviderDenies` the account - access_denied, subscription required, an entitlement - without
touching the token (`denied`). `RequestFindsUnusable` is the request path, which quarantines through
`SetGrokCredentialErrorIfMatch` an account whose proxy or credentials are missing or whose token
endpoint answered with an entitlement label (`unusable`); its condition is that the credentials, and
what was missing, are as they were. The row's status keeps the reason. `AdminStarts` with `AdminRefreshes`, `AdminReads`, `AdminWrites`, `AdminClears`
are an admin's request: an edit, an authorization or a refresh by hand, each of which
reads the whole row and writes it back. `Stall` lets the lock of a slow refresher expire.
`conf` stands for the rest of the credentials, which the compare-and-set compares too.
`mishaps` records the events whose consequences the code does not prevent (section 6);
no action reads it, and each property names the ones it excepts.

## 3. Runs

| Run | Bounds | Result |
|---|---|---|
| `Fulfillment` | 2 workers, 1 fault, rebate on, codes may be expired, the group switched off and on | passes (1,368k states): `GrantedAtMostOnce`, `RebatedAtMostOnce`, `CompletedIsGranted`, `AckedIsSettled`, `NeverReopened`, `ImplementsLedger`, `PaidIsSettled` |
| `FulfillmentDelete` | 1 fault, codes may be deleted | violation of `GrantedAtMostOnce` |
| `RefundNoQuery` | 2 admins (symmetric), amounts 1 and 2, 3 attempts, 2 faults, provider without refund query, with or without a trade number | passes (340k): `DeductedAtMostOnce`, `RefundIsExclusive`, `DoneIsFinal` |
| `RefundQuery` | 2 admins (symmetric), amounts 1 and 2, 3 attempts, 2 faults of 7 kinds (lost answers included), provider with refund query, overdrawn balances | passes (4,576k): `TypeOK`, `DeductedTwiceOnlyIfStuck`, `RefundedIsPaidOut`, `NeverEnriched`, `NeverOverdrawn` |
| `IdempotencyKey` | 2 requests, 2 payloads, 2 faults | passes (59k): `KeyIsExclusive`, `SucceededIsDone`, `KeyIsFreed` |
| `LockRenewed` | 3 operations, 1 fault | passes: `RenewedLockIsRespected`, `LockIsFreed` |
| `LockReclaimed` | 2 operations, no faults | violation of `OperationsAreExclusive` |
| `UsageBillingDurable` | 2 handlers, 1 recovery service, 1 key, costs 2 and 3, balance 5, 1 fault of 7 kinds | passes (688k): `ChargedOnceAsFrozen`, `SettledIsPaid`, `CheckpointIsHonest`, `ReservedWithinBalance`, `ImplementsUsageLedger`, `IntentsAreSettled` |
| `BatchImageSettled` | 2 workers, 2 settlement attempts, 1 fault of 9 kinds, provider and account resolvable or not | passes (951k): `TypeOK`, `FrozenIsHeld`, `WorkIsBacked`, `HoldIsReturned`, `InflightIsQueued`, `NeverRevived`, `QueuedIsFinished` |
| `BatchImageFrozen` | 1 worker, no faults | violation of `NothingStaysFrozen` |
| `AuthCacheConverges` | 2 servers, the key is deleted, 1 fault | passes (315k): `DrainedIsFresh`, `Converges` |
| `OAuthRefreshed` | 2 refreshers, 2 requests of an admin, 1 expiry by time, 1 fault or finding | passes (2,486k): `TokenIsKept`, `RevokedIsDead`, `ReauthorizedIsKept`, `DueIsSettled` |

Why the bounds are enough. Rows of different orders, keys, codes, batches or accounts
share no state, so one of each shows every race; what a user's requests and batches do
share is the balance, so usage billing has two handlers with costs that the balance
covers together or not, and a batch has the hold of others (`Others`) beside it. The
races found and excluded are between two actors on one row; a third adds only
repetitions, and where that is not obvious the theorems of section 5 have no bound.
One fault is enough to interrupt a sequence between any two of its calls; refunds and
idempotent requests, whose recovery can itself fail in a way that costs money, have
two. Three attempts let a refund be retried after a retry. Amounts 1 and 2 tell a
partial from a full refund and let a second refund be of another amount than the pending one, balances on both sides of them a covered from a partly
covered deduction. Costs 2 and 3 for one key let a repeated request arrive with
another price. In `AuthCacheConverges` one change is enough for a lookup to hold the
older version; the theorem covers changes that overlap. In `OAuthRefreshed` two requests of an
admin are what makes one undo the other; the invariants were also checked with two
admins at a time.

`CHECK_DEADLOCK FALSE` is set for the payment, usage and batch runs, because an order, a
request or a batch may come to rest; the others always have a next request, lookup or
tick and are checked for deadlock.

Every property of a passing run has a mutant in `PROJECT.json`: a plausible slip in one
definition (a dropped condition of an UPDATE, a skipped check) with which TLC finds
the property violated. They stand beside the definitions they mutate and are marked
*Mutant*.

## 4. Fairness

- `PaymentFulfillment!FairSpec`: running handlers continue and time passes (weak
  fairness), and the provider goes on delivering until it is acknowledged (strong fairness:
  a delivery that finds every worker busy is repeated) - which is what providers
  document and what the webhook handler's non-2xx answers rely on. Nothing is assumed
  of users, admins or the sweeps; `PaidIsSettled` is therefore stated for behaviours in which the
  group in the end stays active (`<>[]groupActive`).
- `IdempotencyCoordinator!FairSpec`: requests continue, time passes, the cleanup
  service runs (a ticker, started with the server).
- `SystemOperationLock!FairSpec`: operations end (systemUpdateContext limits them to 15
  minutes), renewal ticks, leases pass. No fairness for new requests or cleanup.

- `UsageBilling!FairSpec`: only the recovery services go on (a ticker in every server).
  Handlers may stop anywhere, so `IntentsAreSettled` is about what recovery achieves alone.
- `BatchImageJobs!FairSpec`: the request that submits, the workers and the recovery go on, delays and
  leases pass, and the upstream job comes to an end. Nothing is assumed of cancels, nor of who
  repairs an account: `QueuedIsFinished` is stated under `<>[]resolvable`.
- `AuthCache!FairSpec`: lookups end, the subscriber of each server takes its messages, local
  entries expire, workers claim and process, delays pass. Expiry of the entry in Redis is not
  assumed: the outbox has to do it.
- `OAuthRefresh!FairSpec`: attempts of each refresher go on and are begun again (tickers, and a
  time limit on each attempt), and the lock expires (its TTL). Nothing is assumed of admins. A
  provider that fails every attempt without saying anything about the account (a 403 without a
  label, a broken shared configuration) is a fault, so it does so only finitely often in
  `DueIsSettled`.

Faults are never fair, and are bounded.

## 5. Proofs

All theorems are about the unbounded specification: any set of workers, servers,
refreshers or admins, any bound on the number of faults, except where a hypothesis is named.

**Fulfillment** (`PaymentFulfillmentProofs`): `TypeCorrect`, `FulfillmentIsSafe` with
its parts `RebateIsSafe`, `CompletionIsSafe` and `GrantIsPaidFor`, `AcknowledgementIsSafe`,
`OrdersAreNeverReopened`, `FulfillmentImplementsLedger`. All but the first and
`OrdersAreNeverReopened` assume that admins do not delete payment codes
(`"delete" \notin CodeAdmin`); the run `FulfillmentDelete` shows that this is needed. "Granted
at most once" is not inductive: whether a worker may credit depends on what it read
earlier. The inductive invariant says what the durable markers and each step stand for:

- `GrantMarked`: the used redeem code (or the audit row of a subscription) exists exactly
  when the grant happened - the marker is written in the transaction of the grant;
- `RebateMarked`: a rebate leaves its audit row, and both come after the grant;
- `StepKnows`: what a worker at a step may rely on (at `rebate` and `complete`: granted;
  at `complete`: the rebate is decided);
- `CompletedKnown`: COMPLETED and refund statuses imply grant and rebate decision;
- `MoneyFirst`, `PaidKnown`: no step behind confirmation is reached without money;
- `AckedIsSettled` with `AckKnows`: what holds when a handler returns nil.

The lease is *not* part of it: exclusive leases are not needed for any of this, the
marker alone carries safety. The refinement maps `paid` to the provider's state, `granted` and
`rebated` to the effects and `settled` to completed_at; each step is a ledger step or a
stutter.

**Coordinator** (`IdempotencyCoordinatorProofs`): `KeyIsSafe`, `ReplayIsSafe`,
`CoordinatorTypeCorrect`. The key part is `StaleReadIsBlocked`: a request that read the row in
the hands of a dead owner cannot reclaim it from the next owner, whose lock ends after
the reader's call began. `OwnerHasRow` and `ReadIsOwn` tie the executing and the reclaiming
requests to the row and its fingerprint.

**Lock** (`SystemOperationLockProofs`): `LockTypeCorrect`, `RenewedLockIsSafe`, from
`HeldIsLocked`: an owner whose renewals find the row still has a lease in the future.

**Usage billing** (`UsageBillingProofs`): `UsageTypeCorrect`, `UsageIsChargedOnce`,
`SettledUsageIsPaid`, `CheckpointIsSafe`, `SettledUsageIsFinal`,
`UsageBillingImplementsLedger`, `ReservationsAreCovered`. That a request is charged once is not inductive: it
rests on what the claim means. The invariant is `TypeOK`, `Plans` and `Books`:

- `Frozen`: a key has a command exactly when it has an intent, which only settlement
  closes;
- `Plans`: a worker beyond the prepare carries the persisted command, not the one it
  came with, and drops the cached balance before it clears the checkpoint;
- `Archived`: while a claim is both in the table and in the archive, they agree;
- `ClaimsArePaid`: a claim not older than intents was charged for - in either table;
- the three properties themselves.

The refinement maps the price of `UsageLedger` to the persisted command; balance and
charges are the same variables.

`ReservationsAreCovered` is about the sum of the reservations of all handlers. Its invariant
`Covered` adds that no cached, queued or remembered balance exceeds the one the
user started with. What the proof needs of sums (they exist, they are natural numbers, and a
change at one handler changes the sum by as much) is shown for the community operator
`MapThenSumSet` over any finite set: a set on which it failed would have a smallest subset on which
it fails, and taking one element away from that leaves a smaller one.

**Auth cache** (`AuthCacheProofs`): `AuthTypeCorrect`, `DrainedChangeIsFresh`. Why two
passes are enough is in `SecondPassIsLate` (when the second pass is due, nobody is
storing an older version any more) and `SecondPassDeleted` (who owns a row in the second pass
and has deleted the entry leaves nothing older behind); `OwnedIsDue` and `RowsAreBehind`
tie claims to rows that are due and rows to changes that happened.

**OAuth refresh** (`OAuthRefreshProofs`): `OAuthTypeCorrect`, `RefreshTokenIsKept`,
`QuarantineIsSound`, `AuthorizationIsKept`. None of the three properties is inductive; beside
them the invariant has

- `Held`: no token that was read anywhere is newer than the provider's (`Below`), a successor that a
  refresher or an admin has in hand is the live one and was read by nobody (`Fresh`), and no two
  actors have the same one (`Apart`);
- `DocKnown`: a refresher whose token is still stored meets the document it read, or an
  edit overlapped;
- `ManualKnown`, `Guarded`: which steps are possible only after a refresh by hand, or without the lock;
- `RefusedIsDead`: a refresher that was refused for a revoked token used one that is spent, and
  nobody who has the lock to himself has its successor. Nothing is claimed of a refresher that was
  denied, or found the account unusable.

The proof first shows what each helper changes, then classifies every step of the system as one
of six kinds (nothing about tokens changes, a token is spent by a refresher or by hand, a
successor is stored by a refresher or by an admin, an authorization starts), and then proves each part
of the invariant once per kind instead of once per action.

**Refund** (`PaymentRefundProofs`), for any admins, amounts, tries and failures:

| Theorem | Property | Hypothesis |
|---|---|---|
| `RefundTypeCorrect` | `TypeOK` | none |
| `RefundNeverEnriches` | `NeverEnriched` | none |
| `RefundNeverOverdraws` | `NeverOverdrawn` | none |
| `RefundDoneIsPaidOut` | `RefundedIsPaidOut` | none |
| `RefundDeductsTwiceOnlyIfStuck` | `DeductedTwiceOnlyIfStuck` | none |
| `RefundClaimIsExclusive` | `RefundIsExclusive` | no refund query |
| `RefundDoneIsFinal` | `DoneIsFinal` | no refund query |
| `RefundDeductsAtMostOnce` | `DeductedAtMostOnce` | no refund query, the audit log does not fail, no answer of a deduction or rollback is lost |

The two properties of the middle rows name what the code leaves open instead of excluding it: a
refund may be recorded as done when the order has no trade number, or when the first pending refund
was paid out and not the recorded one; and it may deduct twice after a deduction was left
behind (`stuck`) or a late failure reopened the order (`reopened`). The restriction to providers
without query is needed in the last rows, since `finalizeRefundFailed` takes orders out of any
status. So is the audit log in the last one: the row REFUND_ROLLBACK_FAILED is all that `ExecuteRefund`
has to know of a deduction left behind. The invariants say where the money of a deduction is:

- `Covers`: what the requests under way have taken and could give back (`Placed`), added up, was
  taken before. Without it `NeverEnriched` is not inductive, since several requests may roll back.
- `PaidOut`: which answer of the gateway a request at `ok` or `final` has in hand, and about
  which amount - its own or that of the REFUND_PENDING row;
- `Exclusive`, `OwedUnlessStuck`: until the order is reopened, one request works on the refund; and
  until then, or until a deduction is left behind, what was taken is exactly what that request
  has in place;
- `OwedOrLogged`: the same for `DeductedAtMostOnce`, where the audit row stands for the
  deduction left behind.

**Batch images** (`BatchImageJobsProofs`), for any workers, holds, retries and faults:

| Theorem | Property | Hypothesis |
|---|---|---|
| `BatchTypeCorrect` | `TypeOK` | none |
| `InflightIsAlwaysQueued` | `InflightIsQueued` | none |
| `BatchNeverRevived` | `NeverRevived` | none |
| `BatchWorkIsBacked` | `WorkIsBacked` | heartbeats are not lost |
| `BatchFrozenIsHeld` | `FrozenIsHeld` | heartbeats are not lost, fewer faults than settlement retries |
| `BatchHoldIsReturned` | `HoldIsReturned` | heartbeats are not lost, Redis does not fail |

`TypeOK` already has content here: no balance goes below zero and no request id is claimed twice.
The hypotheses: a goroutine beside the worker keeps the entry active and extends the lock
(`runJobHeartbeat`); losing it for a whole lease takes a Redis that is away or a process that stands
still, and two workers may then be at one batch. The code retries a settlement five times
(`batchImageSettlementMaxRetries`, batch_image_settlement.go:21); with as many faults as retries TLC
finds `FrozenIsHeld` violated by a capture whose answers are lost (section 6). A release that fails leaves the
batch to the queue; when Redis fails too, only a further request of the user comes back to it, and TLC
finds `HoldIsReturned` violated with these two faults. The property itself excepts a crash and the
lost answers of a reservation or a refunding transition: the code has no step that comes back to the
hold then (section 6). Errors of the database that were not carried out, and lost answers of captures,
releases and other status changes, are covered in any number. The run `BatchImageSettled` covers lost heartbeats
and Redis errors with one fault. The invariant has two parts:

- `OneEntry`: the batch is in the queue once - ready, delayed or active - and a worker at it has it
  active, so at most one worker is at it;
- `ClaimPhase` with `SubmitPhase`, `WorkerPhase`, `RetryPhase`, `Retries`: in which order hold, capture
  and release may have been claimed, given the status of the job and the steps of those at work.
  There are seven orders; `HeldLate` (release before hold) is finding 3, and `EndedTwice` is
  what `FrozenIsHeld` excludes.

`Frozen` then reads the frozen balance off the order, and `Answered` says that a refunded job whose hold
is outstanding is still in the queue or in somebody's hands.

The inductive invariants were checked with TLC before they were proved, those of batch
images also with more faults than the run has. Every safety property of a passing run is
now stated by a theorem. Only model-checked: the liveness properties `PaidIsSettled`, `KeyIsFreed`,
`LockIsFreed`, `IntentsAreSettled`, `QueuedIsFinished`, `Converges` and `DueIsSettled` (fairness and
ENABLED are out of the prover's reach); the batch properties under lost heartbeats; and the three
runs that show a violation.

## 6. Findings

1. `FulfillmentDelete`: the admin service deletes used redeem codes; a retry of the
   order then credits again (service/admin_user.go:1322, against
   redeem_service.go:661).
2. `LockReclaimed`: `TryReclaim` leaves `request_fingerprint` as it was. From the second system
   operation on (until cleanup deletes the row) renewal never matches, the lock lapses
   after 30 seconds, and another update may start beside the one that is running.
3. `BatchImageFrozen`: a release that finds no hold claims its request id all the same. A
   job cancelled, or failed as stale, between its creation and its reservation is then held and
   can never be released: the balance stays frozen, against
   batch_image_billing_recovery.go:76.

Further observations, made while modelling and not kept as runs; where a property
holds only beside one of them, its definition names the exit.

Payments and refunds:

- `confirmPayment` and `alreadyProcessed` return nil when their read of the order fails
  (payment_fulfillment.go:85, against the comment at :23): the webhook answers 2xx and the
  provider stops, although nothing was granted (`swallowed` in `AckedIsSettled`).
- `acquirePaymentFulfillmentLease` claims with one statement and reads the version with
  another (payment_fulfillment.go:303): a delayed worker can hold the next owner's version. Both
  then believe to own the lease; the theorems show that money is safe regardless.
- The paid amount is compared with a tolerance in floating point
  (payment_fulfillment.go:109).
- A payment more than five minutes after expiry is only logged as PAYMENT_AFTER_EXPIRY, while
  `src/docs/PAYMENT.md:260` describes such payments as reconciled.
- An order that `CreateOrder` left FAILED without paid_at is fulfilled when its notification
  arrives, but when the credit then fails `RetryFulfillment` refuses it, while
  `src/docs/PAYMENT.md:252` says "admin can retry".
- The audit table holds one REFUND_PENDING row per order, so the failed rollback of a later attempt
  is not seen by finalization, which deducts again (payment_refund.go:573, against
  :310). `DeductedTwiceOnlyIfStuck` is what does hold: the history variable `stuck` names such a
  rollback.
- `finalizeRefundFailed` writes REFUND_FAILED unconditionally (payment_refund.go:568), also over the
  REFUNDING of a new attempt and over REFUNDED. With two pending refunds of different amounts a late
  failure of the one reopens the order whose other refund was paid out, and a further refund
  deducts again with no rollback having failed (`reopened` in `DeductedTwiceOnlyIfStuck`).
- `gwRefund` returns success without calling the gateway when the order has no trade number
  (payment_refund.go:357): the order is REFUNDED and nothing is paid out (`~tradeNo` in
  `RefundedIsPaidOut`).
- A deduction that was committed but reported as an error restores the status and gives nothing
  back; the next attempt deducts again. A rollback that was committed but reported as an error
  is recorded as failed, so the next attempt deducts nothing (`ack`).
- After a second pending refund of another amount, finalization asks the gateway about the
  first one (payment_refund.go:574) and records the second as paid out (the second case of
  `RefundedIsPaidOut`).
- Nothing leads out of REFUNDING after a crash.
- A paid subscription order whose group was deactivated or deleted is FAILED on every attempt
  (payment_fulfillment.go:550) until the group is active again.
- A refund's rollback goes through `UpdateBalance`, which counts it as recharge
  (repository/user_repo.go:831). The Alipay refund number is taken from the clock
  (payment/provider/alipay.go:345), so a repeated refund is a new one for the gateway.

Idempotency:

- `TryReclaim` does not compare `expires_at` (idempotency_repo.go:119). Of two requests that read the
  same expired, succeeded row, the slower one reclaims it after the faster one has
  executed and succeeded: the operation runs twice.
- A stored response longer than the limit is cut and cannot be replayed (idempotency.go:442).
- `DeleteExpired` selects and deletes by id in one statement; a row reclaimed in between is left to
  what READ COMMITTED re-checks (idempotency_repo.go:222).

Usage billing:

- A reservation compares with the balance that was read before it
  (billing_inflight_reservation.go:267). A request that reads, waits until another has been
  billed and released, and then reserves, is let in on the old balance: the overdraft that
  config.go:953 describes as prevented is bounded by this window, not excluded.
  `ReservedWithinBalance` is what does hold.
- A balance queued for the cache before an invalidation is written after it, and stays until it expires.

Batch images:

- When the answer to a capture is lost and further errors use up the settlement attempts, the
  hold is released on top of its capture, out of what other batches have frozen; one fault
  does not get there (`FrozenIsHeld`).
- A crash in the recovery between failing the job and releasing its hold leaves the hold. So does a
  reservation whose commit was applied and reported as an error: the submission fails and hides the
  job and neither releases nor enqueues (batch_image_public.go:312, :545). And so does a transition
  to cancelled, or the recovery's to failed, that was applied and reported as an error
  (batch_image_public.go:776): its caller returns before the release (`"lost"` in `HoldIsReturned`).
- A queued batch whose provider or account cannot be resolved - the account was deleted, say - is
  requeued for ever, with no retry counted (batch_image_processor.go:75), and its hold stays
  frozen: a cancel of the user needs the account too (`<>[]resolvable` in `QueuedIsFinished`).
- A crash or a Redis error between the provider's answer and the queue leaves a batch that waits for the
  client to ask again, or an upstream job nobody knows of.
- A worker that lost its lock can, with a second fault, fail a job that its successor is settling,
  and its `Ack` removes the other's entry (`mishaps` in `QueuedIsFinished`).

Auth cache: columns that the trigger does not watch (quotas, rate limits) are invalidated only by the
request that changes them, which ignores errors.

OAuth refresh:

- An admin's edit writes back the whole row it read (account_repo.go:639). One that overlaps a
  refresh restores the spent token, or makes the compare-and-set miss so that the new
  one is dropped; the account is then lost until it is authorized again (`"edited"`).
- A refresh by hand takes no lock and does not clear the error, so a background refresh that is refused
  meanwhile can quarantine an account whose new token is about to be stored (`"manual"`).
- An account is put into error with a refresh token that the provider would still accept when the
  provider denies the account (token_refresh_service.go:1409) or the request path finds it
  unusable (grok_credential_failure.go:342). Only an authorization or an admin's clearing of
  the error brings it back; `RevokedIsDead` is therefore about the reason `revoked` alone.
- The lock is deleted without comparing its owner, and a Redis error degrades to no lock (`"unlocked"`); a
  failed `ClearError` is only logged (`"uncleared"`); an answer that times out takes the new token with
  it (`"lost"`).

## 7. Plan

Done: fulfillment with its ledger, refund, idempotency records with coordinator and lock,
usage billing with its ledger, batch images, auth cache and OAuth refresh, each with
proofs of its safety properties.

Next, in this order:

1. Batch images under lost heartbeats: which of `WorkIsBacked` and `FrozenIsHeld` survive how many
   faults, and the proof of it; an abstract specification of a hold that `BatchImageJobs` implements.
2. `ConcurrencySlots`: slots, wait counters and process leases; bound on slots, slots of dead
   processes come back. Proof: the bound.
3. `UsageRecordWorkerPool`: queue at its limit, overflow policies, scaling, stop; every
   submitted record is run, dropped by policy or refused.
4. `StripeHosted`: hosted sessions over the same orders, composed with
   `PaymentFulfillment!RefundWrites` and the grant of `PaymentLedger`.
5. `SchedulerSnapshot`; the OAuth refresh of the other platforms, which store without
   compare-and-set.
6. The lease renewal of batch requests in the coordinator (`renewProcessingLease`), which uses
   the same `ExtendProcessingLock`.

## 8. Not modelled

- Input validation, quotas, provider selection and load balancing before an order exists;
  signatures and bodies of webhooks; e-mails; floating point amounts.
- Subscription deductions in refunds; Stripe hosted orders (planned).
- Observe-only mode, requests without a key, metrics and the size limit of stored responses in
  the coordinator; what PostgreSQL re-checks inside the one statement of `DeleteExpired`.
- Subscriptions, key and account quotas in usage billing, which are taken in the same transaction as
  the balance; estimates that differ from the cost.
- Validation, pricing, items and download of image batches; several batches of a user other than as
  a fixed hold.
- Lookup limits and metrics of the auth cache; lookups slower than the safety delay.
- What hides a failed or deleted batch from its user (`MarkBatchImageJobUserDeleted`): no other step reads it.
- OAuth: a provider that revokes a grant by itself; the error that the inference path sets
  (`SetError`), and `SetGrokOAuthErrorIfCredentialsUnchanged`, which is only reached with a blank
  refresh token; denials and unusable findings beyond the bound on faults (the theorems have none);
  the containment of a persistent 403 or of a broken shared configuration
  (token_refresh_service.go:970-983), which is a bounded fault here.
- OAuth: platforms other than Grok, the cooldown after exhausted retries, the cache of access tokens,
  the mutex inside a process (it only excludes more); a provider that does not rotate refresh tokens.
- Concurrency slots, the usage record worker pool and the scheduler snapshot (planned).
- The leader lock: the sweeps are modelled as if any number ran at a time, which is what the
  code must survive when the lock fails.
- Protocol conversion (`pkg/apicompat`), gateway forwarding and streaming, the frontend:
  data conversion, I/O and presentation without shared state of their own.
