------------------------- MODULE PaymentFulfillment -------------------------
(***************************************************************************)
(* One payment order of the gateway, from CreateOrder to COMPLETED, under  *)
(* every handler that may touch it: provider webhooks, user verification,  *)
(* the periodic reconcile and expiry sweeps, cancellation and the admin's  *)
(* retry.  Each handler runs on a worker (a request goroutine of some      *)
(* server instance) and is split at every database, Redis or provider call *)
(* it makes, so that the handlers interleave as they do in the code.       *)
(*                                                                         *)
(* Orders do not share rows, so one order with several workers shows every *)
(* race.  The order is not a Stripe hosted one (those take the paths of    *)
(* payment_stripe_hosted.go), hence its status is never PROCESSING.        *)
(*                                                                         *)
(* updated_at is both the lease version and the clock of the two five      *)
(* minute windows (expiry grace, lease duration); every UPDATE of the row  *)
(* renews it.  The model keeps what the code compares it with: fresh says  *)
(* that it lies inside the window, holders is the set of workers whose     *)
(* lease.version equals it.                                                *)
(***************************************************************************)
EXTENDS Naturals, FiniteSets

CONSTANTS
  Workers,    \* request goroutines that may be running at the same time
  MaxFaults,  \* bound: errors and crashes in one behaviour
  HasRebate,  \* an affiliate service is configured and the base is positive
  CodeAdmin   \* redeem code operations the admin uses on payment codes

ASSUME WorkersAssumption == IsFiniteSet(Workers)
ASSUME FaultsAssumption == MaxFaults \in Nat
ASSUME RebateAssumption == HasRebate \in BOOLEAN
ASSUME CodeAdminAssumption == CodeAdmin \subseteq {"delete", "expire"}

VARIABLES
  \* the payment_orders row
  orderType, status, paidAt, completedAt, fresh, holders, payUrl,
  \* the group that a subscription order buys is there and active
  groupActive,
  \* the redeem_codes row of the order and its payment_audit_logs rows
  code, audit,
  \* the effects: balance credits or subscription assignments, rebates
  grants, rebates,
  \* the payment provider, and what it knows of its notification
  provider, acked,
  \* the CreateOrder request and the other handlers
  creator, pc, op,
  \* bookkeeping of the model: a read error that a handler turned into
  \* success, and the number of errors and crashes so far
  swallowed, faults

row == <<status, fresh, holders>>
columns == <<orderType, paidAt, completedAt, payUrl, groupActive>>
effects == <<code, audit, grants, rebates>>
outside == <<provider, acked, creator>>
ghosts == <<swallowed, faults>>
vars == <<orderType, status, paidAt, completedAt, fresh, holders, payUrl, groupActive,
          code, audit, grants, rebates, provider, acked, creator, pc, op,
          swallowed, faults>>

-----------------------------------------------------------------------------
\* The six statuses of psIsRefundStatus are one here: the payment path does
\* not tell them apart.
RefundStatuses == {"REFUND"}

Fulfillable == {"PAID", "FAILED", "RECHARGING"}

Statuses == {"PENDING", "CANCELLED", "EXPIRED", "COMPLETED"}
              \cup Fulfillable \cup RefundStatuses

\* Audit actions the code reads back, and the two that give up a payment.  The
\* table has a unique index on (order_id, action): a set of actions is the
\* whole of it, and writing an action twice changes nothing.
AuditActions == {"SUBSCRIPTION_ASSIGNED", "AFFILIATE_REBATE",
                 "FULFILLMENT_FAILED", "PAYMENT_AFTER_EXPIRY"}

\* What the running handler was called for, as far as later steps ask: to
\* answer the provider, to cancel or expire the order, or just to do the rest.
Ops == {"none", "notify", "badNotify", "cancel", "expire", "call"}

\* Where a worker is.  Steps that only end in an error return, steps of
\* doBalance and doSub (whose errors go to markFailed), and the rest.
PlainSteps == {"toPaid", "execute", "lease", "leaseLost", "reload", "fail", "cancel"}
GrantSteps == {"lookup", "create", "redeem", "redeemTx", "assign", "rebate",
               "complete", "completeLost"}
Steps == {"idle", "query", "close", "backfill", "confirm", "already"}
           \cup PlainSteps \cup GrantSteps

Init ==
  /\ orderType \in {"balance", "subscription"}
  /\ status = "PENDING" /\ paidAt = FALSE /\ completedAt = FALSE
  /\ fresh = TRUE /\ holders = {} /\ payUrl = FALSE /\ groupActive = TRUE
  /\ code = "none" /\ audit = {} /\ grants = 0 /\ rebates = 0
  /\ provider = "none" /\ acked = FALSE /\ creator = "invoke"
  /\ pc = [w \in Workers |-> "idle"] /\ op = [w \in Workers |-> "none"]
  /\ swallowed = FALSE /\ faults = 0

-----------------------------------------------------------------------------
(* Building blocks of the actions. *)

\* Every UPDATE of the order sets updated_at to the current time.
Write(s) == status' = s /\ fresh' = TRUE /\ holders' = {}

At(w, step) == pc[w] = step
Goto(w, step) == pc' = [pc EXCEPT ![w] = step] /\ UNCHANGED op
Leave(w) == pc' = [pc EXCEPT ![w] = "idle"] /\ op' = [op EXCEPT ![w] = "none"]

\* A handler returns.  The webhook endpoint answers 2xx exactly when
\* HandlePaymentNotification returned nil; the provider then stops sending.
Return(w, ok) ==
  /\ Leave(w)
  /\ acked' = (acked \/ (ok /\ op[w] = "notify"))

\* The worker's lease value goes out of scope.
Drop(w) == holders' = holders \ {w} /\ UNCHANGED <<status, fresh>>

Start(w, entry, step) ==
  /\ At(w, "idle")
  /\ pc' = [pc EXCEPT ![w] = step] /\ op' = [op EXCEPT ![w] = entry]
  /\ UNCHANGED <<row, columns, effects, outside, ghosts>>

Fault == faults < MaxFaults /\ faults' = faults + 1

-----------------------------------------------------------------------------
(* CreateOrder after its transaction: call the provider, store the payment *)
(* details, and on any error write FAILED over whatever the status is.     *)

CreatePayment ==
  /\ creator = "invoke"
  /\ \/ provider' = "open" /\ creator' = "details" /\ UNCHANGED faults
     \/ Fault /\ provider' \in {"none", "open"} /\ creator' = "failing"
  /\ UNCHANGED <<row, columns, effects, acked, pc, op, swallowed>>

\* The update may be reported as failed and be applied all the same.
StoreDetails ==
  /\ creator = "details"
  /\ \/ /\ payUrl' = TRUE /\ Write(status)
        /\ \/ creator' = "done" /\ UNCHANGED faults
           \/ creator' = "failing" /\ Fault
     \/ Fault /\ creator' = "failing" /\ UNCHANGED <<payUrl, row>>
  /\ UNCHANGED <<orderType, paidAt, completedAt, groupActive, effects, provider,
                 acked, pc, op, swallowed>>

CreateFailed ==
  /\ creator = "failing"
  /\ creator' = "done"
  /\ \/ Write("FAILED") /\ UNCHANGED faults
     \/ Fault /\ UNCHANGED row
  /\ UNCHANGED <<columns, effects, provider, acked, pc, op, swallowed>>

-----------------------------------------------------------------------------
(* The world outside. *)

\* The user pays; the payment page is known once its URL is stored.
UserPays ==
  /\ provider = "open" /\ payUrl
  /\ provider' = "paid"
  /\ UNCHANGED <<row, columns, effects, acked, creator, pc, op, ghosts>>

\* Five minutes pass since the last update of the row.  Only the guards on
\* EXPIRED and RECHARGING orders look at it, and entering either renews it.
WindowPasses ==
  /\ fresh /\ status \in {"EXPIRED", "RECHARGING"}
  /\ fresh' = FALSE
  /\ UNCHANGED <<status, holders, columns, effects, outside, pc, op, ghosts>>

\* The refund handlers (module PaymentRefund) move a completed order between
\* COMPLETED and the refund statuses.
RefundWrites ==
  /\ completedAt
  /\ \E s \in RefundStatuses \cup {"COMPLETED"} : Write(s)
  /\ UNCHANGED <<columns, effects, outside, pc, op, ghosts>>

\* The admin's redeem code page: DeleteRedeemCode deletes a code in any
\* state, ExpireRedeemCode writes status expired over any state.
AdminChangesCode ==
  /\ code # "none"
  /\ \E act \in CodeAdmin : code' = IF act = "delete" THEN "none" ELSE "expired"
  /\ UNCHANGED <<row, columns, audit, grants, rebates, outside, pc, op, ghosts>>

\* The admin's group page switches a group off and on, or deletes it.
AdminChangesGroup ==
  /\ orderType = "subscription" /\ groupActive' = ~groupActive
  /\ UNCHANGED <<row, orderType, paidAt, completedAt, payUrl, effects, outside, pc, op, ghosts>>

-----------------------------------------------------------------------------
(* Entry points. *)

\* A notification of the payment, delivered any number of times.
StartNotify(w) == provider = "paid" /\ Start(w, "notify", "confirm")

\* A notification whose provider, merchant or amount does not fit the order.
StartBadNotify(w) == provider = "open" /\ payUrl /\ Start(w, "badNotify", "confirm")

VerifyOrderByOutTradeNo(w) == status \in {"PENDING", "EXPIRED"} /\ Start(w, "call", "query")

\* The periodic sweeps.  An order is reconciled before its expires_at and
\* expired after it; when that is, the model leaves open.
ReconcilePendingPaymentOrders(w) == status = "PENDING" /\ Start(w, "call", "query")

ExpireTimedOutOrders(w) == status = "PENDING" /\ Start(w, "expire", "query")

CancelOrder(w) == status = "PENDING" /\ Start(w, "cancel", "query")

RetryFulfillment(w) == paidAt /\ status \in Fulfillable /\ Start(w, "call", "execute")

-----------------------------------------------------------------------------
(* checkPaidWithOptions and cancelCore. *)

Cancels(w) == op[w] \in {"cancel", "expire"}

\* What follows when the provider did not say "paid".
NotPaid(w) ==
  IF Cancels(w) THEN Goto(w, "cancel") /\ UNCHANGED acked ELSE Return(w, TRUE)

\* Once the provider says "paid" the caller is told so and cancels nothing.
QueryProvider(w) ==
  /\ At(w, "query")
  /\ \/ /\ provider = "paid"
        /\ \E next \in {"backfill", "confirm"} : pc' = [pc EXCEPT ![w] = next]
        /\ op' = [op EXCEPT ![w] = "call"]
        /\ UNCHANGED <<acked, faults>>
     \/ /\ provider # "paid"
        /\ IF Cancels(w) THEN Goto(w, "close") /\ UNCHANGED acked
                         ELSE Return(w, TRUE)
        /\ UNCHANGED faults
     \/ Fault /\ NotPaid(w)
  /\ UNCHANGED <<row, columns, effects, provider, creator, swallowed>>

\* CancelPayment is best effort: its error is ignored.
ClosePayment(w) ==
  /\ At(w, "close")
  /\ \/ UNCHANGED provider
     \/ provider = "open" /\ provider' = "closed"
  /\ Goto(w, "cancel")
  /\ UNCHANGED <<row, columns, effects, acked, creator, ghosts>>

\* The upstream trade number is stored whatever the status is by now.
BackfillTradeNo(w) ==
  /\ At(w, "backfill")
  /\ Goto(w, "confirm")
  /\ \/ Write(status) /\ UNCHANGED faults
     \/ Fault /\ UNCHANGED row
  /\ UNCHANGED <<columns, effects, outside, swallowed>>

CancelPending(w) ==
  /\ At(w, "cancel")
  /\ IF status = "PENDING"
       THEN Write(IF op[w] = "expire" THEN "EXPIRED" ELSE "CANCELLED")
       ELSE UNCHANGED row
  /\ Return(w, TRUE)
  /\ UNCHANGED <<columns, effects, provider, creator, ghosts>>

-----------------------------------------------------------------------------
(* HandlePaymentNotification, confirmPayment, toPaid, alreadyProcessed. *)

\* Mutant: the amount of the notification is not compared.
ConfirmAnyPayment(w) ==
  /\ At(w, "confirm") /\ Goto(w, "toPaid")
  /\ UNCHANGED <<row, columns, effects, outside, ghosts>>

\* The checks of confirmPayment; a rejected notification is answered 500.
\* An error of the first read of the order is returned, one of confirmPayment's
\* own read is reported as success, as is one of the webhook's read of the
\* order's provider.
ConfirmPayment(w) ==
  /\ At(w, "confirm")
  /\ \/ op[w] # "badNotify" /\ Goto(w, "toPaid") /\ UNCHANGED <<acked, swallowed, faults>>
     \/ op[w] = "badNotify" /\ Return(w, FALSE) /\ UNCHANGED <<swallowed, faults>>
     \/ Fault /\ Return(w, FALSE) /\ UNCHANGED swallowed
     \/ Fault /\ Return(w, TRUE) /\ swallowed' = TRUE
  /\ UNCHANGED <<row, columns, effects, provider, creator>>

Payable == status \in {"PENDING", "CANCELLED"} \/ (status = "EXPIRED" /\ fresh)

ToPaid(w) ==
  /\ At(w, "toPaid")
  /\ IF Payable
       THEN Write("PAID") /\ paidAt' = TRUE /\ Goto(w, "execute")
       ELSE Goto(w, "already") /\ UNCHANGED <<row, paidAt>>
  /\ UNCHANGED <<orderType, completedAt, payUrl, groupActive, effects, outside, ghosts>>

\* A failed read of the order is reported as success, and a failed write of
\* the audit row goes unnoticed.
AlreadyProcessed(w) ==
  /\ At(w, "already")
  /\ \/ /\ status \in Fulfillable
        /\ Goto(w, "execute")
        /\ UNCHANGED <<audit, acked, swallowed, faults>>
     \/ /\ status = "EXPIRED"
        /\ Return(w, TRUE)
        /\ audit' = audit \cup {"PAYMENT_AFTER_EXPIRY"}
        /\ UNCHANGED <<swallowed, faults>>
     \/ /\ status \notin Fulfillable \cup {"EXPIRED"}
        /\ Return(w, TRUE)
        /\ UNCHANGED <<audit, swallowed, faults>>
     \/ Fault /\ Return(w, TRUE) /\ swallowed' = TRUE /\ UNCHANGED audit
  /\ UNCHANGED <<row, columns, code, grants, rebates, provider, creator>>

-----------------------------------------------------------------------------
(* executeFulfillment: status check, lease, grant, rebate, completion. *)

ExecuteFulfillment(w) ==
  /\ At(w, "execute")
  /\ IF status \in Fulfillable
       THEN Goto(w, "lease") /\ UNCHANGED acked
       ELSE Return(w, status = "COMPLETED")
  /\ UNCHANGED <<row, columns, effects, provider, creator, ghosts>>

\* Mutant: a lease never expires.
ClaimableOnce == status \in {"PAID", "FAILED"}

Claimable == status \in {"PAID", "FAILED"} \/ (status = "RECHARGING" /\ ~fresh)

\* Mutant: the claim trusts the status that executeFulfillment read.
AcquireLeaseBlindly(w) ==
  /\ At(w, "lease") /\ Write("RECHARGING") /\ Goto(w, "reload")
  /\ UNCHANGED <<columns, effects, outside, ghosts>>

AcquireLease(w) ==
  /\ At(w, "lease")
  /\ IF Claimable
       THEN Write("RECHARGING") /\ Goto(w, "reload")
       ELSE Goto(w, "leaseLost") /\ UNCHANGED row
  /\ UNCHANGED <<columns, effects, outside, ghosts>>

\* Mutant: an order that another worker fulfils counts as handled.
LeaseLostIsSuccess(w) ==
  /\ At(w, "leaseLost") /\ Return(w, TRUE)
  /\ UNCHANGED <<row, columns, effects, provider, creator, ghosts>>

LeaseLost(w) ==
  /\ At(w, "leaseLost")
  /\ Return(w, status = "COMPLETED")
  /\ UNCHANGED <<row, columns, effects, provider, creator, ghosts>>

\* The version of the lease is read back in a second query.
ReloadLease(w) ==
  /\ At(w, "reload")
  /\ IF status = "RECHARGING"
       THEN /\ holders' = holders \cup {w}
            /\ Goto(w, IF orderType = "balance" THEN "lookup" ELSE "assign")
            /\ UNCHANGED <<status, fresh, acked>>
       ELSE Return(w, FALSE) /\ UNCHANGED row
  /\ UNCHANGED <<columns, effects, provider, creator, ghosts>>

\* Mutant: a redeemed code is taken to mean that the rebate was paid too.
LookupCodeSkipsRebate(w) ==
  /\ At(w, "lookup")
  /\ \/ code = "none" /\ Goto(w, "create")
     \/ code = "unused" /\ Goto(w, "redeem")
     \/ code = "used" /\ Goto(w, "complete")
     \/ code = "expired" /\ Goto(w, "fail")
  /\ UNCHANGED <<row, columns, effects, outside, ghosts>>

\* doBalance: resolveRedeemAction and validatePaymentRedeemCode.
LookupCode(w) ==
  /\ At(w, "lookup")
  /\ \/ code = "none" /\ Goto(w, "create")
     \/ code = "unused" /\ Goto(w, "redeem")
     \/ code = "used" /\ Goto(w, "rebate")
     \/ code = "expired" /\ Goto(w, "fail")
  /\ UNCHANGED <<row, columns, effects, outside, ghosts>>

\* The code column is unique.
CreateCode(w) ==
  /\ At(w, "create")
  /\ IF code = "none"
       THEN code' = "unused" /\ Goto(w, "redeem")
       ELSE Goto(w, "fail") /\ UNCHANGED code
  /\ UNCHANGED <<row, columns, audit, grants, rebates, outside, ghosts>>

\* redeem: the checks before the transaction.  The Redis lock around it may
\* be missing, expired or ignored, so it restrains nobody here.
RedeemChecks(w) ==
  /\ At(w, "redeem")
  /\ Goto(w, IF code = "unused" THEN "redeemTx" ELSE "fail")
  /\ UNCHANGED <<row, columns, effects, outside, ghosts>>

\* Mutant: the code is marked used without the condition on its status.
RedeemTxUnconditional(w) ==
  /\ At(w, "redeemTx")
  /\ code' = "used" /\ grants' = grants + 1 /\ Goto(w, "rebate")
  /\ UNCHANGED <<row, columns, audit, rebates, outside, ghosts>>

\* redeem: mark the code used and credit the balance in one transaction; the
\* read after the commit may still fail.
RedeemTx(w) ==
  /\ At(w, "redeemTx")
  /\ IF code = "unused"
       THEN /\ code' = "used" /\ grants' = grants + 1
            /\ \/ Goto(w, "rebate") /\ UNCHANGED faults
               \/ Goto(w, "fail") /\ Fault
       ELSE Goto(w, "fail") /\ UNCHANGED <<code, grants, faults>>
  /\ UNCHANGED <<row, columns, audit, rebates, outside, swallowed>>

\* doSub: a group that is gone or inactive ends in markFailed, also for an
\* order that was assigned before.  Otherwise assign and record in one
\* transaction; the cache invalidation after the commit may fail.
AssignSubscription(w) ==
  /\ At(w, "assign")
  /\ IF groupActive
       THEN /\ audit' = audit \cup {"SUBSCRIPTION_ASSIGNED"}
            /\ grants' = IF "SUBSCRIPTION_ASSIGNED" \in audit THEN grants ELSE grants + 1
            /\ \/ Goto(w, "rebate") /\ UNCHANGED faults
               \/ Goto(w, "fail") /\ Fault
       ELSE Goto(w, "fail") /\ UNCHANGED <<audit, grants, faults>>
  /\ UNCHANGED <<row, columns, code, rebates, outside, swallowed>>

\* Mutant: the rebate is accrued without claiming the audit row.
RebateUnclaimed(w) ==
  /\ At(w, "rebate") /\ Goto(w, "complete")
  /\ audit' = audit \cup {"AFFILIATE_REBATE"} /\ rebates' = rebates + 1
  /\ UNCHANGED <<row, columns, code, grants, outside, ghosts>>

\* The claim row, the accrual and the final audit action are one transaction;
\* a rebate of zero is recorded as skipped.
ApplyAffiliateRebate(w) ==
  /\ At(w, "rebate")
  /\ Goto(w, "complete")
  /\ IF HasRebate /\ "AFFILIATE_REBATE" \notin audit
       THEN /\ audit' = audit \cup {"AFFILIATE_REBATE"}
            /\ rebates' \in {rebates, rebates + 1}
       ELSE UNCHANGED <<audit, rebates>>
  /\ UNCHANGED <<row, columns, code, grants, outside, ghosts>>

HoldsLease(w) == status = "RECHARGING" /\ w \in holders

MarkCompleted(w) ==
  /\ At(w, "complete")
  /\ IF HoldsLease(w)
       THEN Write("COMPLETED") /\ completedAt' = TRUE /\ Return(w, TRUE)
       ELSE Goto(w, "completeLost") /\ UNCHANGED <<row, completedAt, acked>>
  /\ UNCHANGED <<orderType, paidAt, payUrl, groupActive, effects, provider, creator, ghosts>>

CompletionLost(w) ==
  /\ At(w, "completeLost")
  /\ IF status = "COMPLETED"
       THEN Return(w, TRUE) /\ Drop(w)
       ELSE Goto(w, "fail") /\ UNCHANGED <<row, acked>>
  /\ UNCHANGED <<columns, effects, provider, creator, ghosts>>

MarkFailed(w) ==
  /\ At(w, "fail")
  /\ Return(w, FALSE)
  /\ IF HoldsLease(w)
       THEN Write("FAILED") /\ audit' = audit \cup {"FULFILLMENT_FAILED"}
       ELSE Drop(w) /\ UNCHANGED audit
  /\ UNCHANGED <<columns, code, grants, rebates, provider, creator, ghosts>>

-----------------------------------------------------------------------------
(* Errors of the database or Redis, and crashes of the server. *)

ErrorReturned(w) ==
  /\ pc[w] \in PlainSteps
  /\ Fault /\ Return(w, FALSE) /\ Drop(w)
  /\ UNCHANGED <<columns, effects, provider, creator, swallowed>>

ErrorInGrant(w) ==
  /\ pc[w] \in GrantSteps
  /\ Fault /\ Goto(w, "fail")
  /\ UNCHANGED <<row, columns, effects, outside, swallowed>>

Crash(w) ==
  /\ pc[w] # "idle"
  /\ Fault /\ Leave(w) /\ Drop(w)
  /\ UNCHANGED <<columns, effects, outside, swallowed>>

-----------------------------------------------------------------------------
Begin(w) ==
  \/ StartNotify(w) \/ StartBadNotify(w)
  \/ VerifyOrderByOutTradeNo(w) \/ ReconcilePendingPaymentOrders(w)
  \/ CancelOrder(w) \/ ExpireTimedOutOrders(w) \/ RetryFulfillment(w)

Run(w) ==
  \/ QueryProvider(w) \/ ClosePayment(w) \/ BackfillTradeNo(w) \/ CancelPending(w)
  \/ ConfirmPayment(w) \/ ToPaid(w) \/ AlreadyProcessed(w)
  \/ ExecuteFulfillment(w) \/ AcquireLease(w) \/ LeaseLost(w) \/ ReloadLease(w)
  \/ LookupCode(w) \/ CreateCode(w) \/ RedeemChecks(w) \/ RedeemTx(w)
  \/ AssignSubscription(w) \/ ApplyAffiliateRebate(w)
  \/ MarkCompleted(w) \/ CompletionLost(w) \/ MarkFailed(w)

Break(w) == ErrorReturned(w) \/ ErrorInGrant(w) \/ Crash(w)

Creation == CreatePayment \/ StoreDetails \/ CreateFailed

World == UserPays \/ WindowPasses \/ RefundWrites \/ AdminChangesCode \/ AdminChangesGroup

Next ==
  \/ Creation \/ World
  \/ \E w \in Workers : Begin(w) \/ Run(w) \/ Break(w)

Spec == Init /\ [][Next]_vars

\* Scheduling.  A handler that runs goes on running (errors and crashes are
\* actions of their own, bounded by MaxFaults); time passes; the provider
\* repeats a notification until it is acknowledged, so an unacknowledged one
\* keeps finding a free worker.  Nothing is assumed of users and admins.
Redelivery == ~acked /\ \E w \in Workers : StartNotify(w)

Fairness ==
  /\ \A w \in Workers : WF_vars(Run(w))
  /\ WF_vars(WindowPasses)
  /\ SF_vars(Redelivery)

FairSpec == Spec /\ Fairness

-----------------------------------------------------------------------------
(* Properties. *)

TypeData ==
  /\ orderType \in {"balance", "subscription"} /\ status \in Statuses
  /\ holders \subseteq Workers
  /\ code \in {"none", "unused", "used", "expired"} /\ audit \subseteq AuditActions
  /\ grants \in Nat /\ rebates \in Nat
  /\ provider \in {"none", "open", "paid", "closed"}
  /\ creator \in {"invoke", "details", "failing", "done"}
  /\ pc \in [Workers -> Steps] /\ op \in [Workers -> Ops]
  /\ faults \in 0..MaxFaults

TypeFlags ==
  /\ paidAt \in BOOLEAN /\ completedAt \in BOOLEAN /\ fresh \in BOOLEAN
  /\ payUrl \in BOOLEAN /\ groupActive \in BOOLEAN /\ acked \in BOOLEAN /\ swallowed \in BOOLEAN

\* The variables have the types of the columns and locals they stand for, and
\* the bound on errors and crashes is kept.
TypeOK == TypeData /\ TypeFlags

Granted == grants > 0

\* However often the payment is notified, verified and retried, and whatever
\* fails in between, doBalance credits the balance, or doSub assigns the
\* subscription, at most once for the order.
GrantedAtMostOnce == grants <= 1

\* The affiliate rebate of the order is accrued at most once, and only for an
\* order whose user got what was paid for.
RebatedAtMostOnce == rebates <= 1 /\ (rebates > 0 => Granted)

\* An order that was ever marked COMPLETED (and so may be refunded) was
\* granted, and its rebate was decided.
CompletedIsGranted ==
  (completedAt \/ status = "COMPLETED" \/ status \in RefundStatuses) =>
    Granted /\ (HasRebate => "AFFILIATE_REBATE" \in audit)

\* Nothing is granted, and no order leaves for the fulfillment statuses with
\* paid_at set, before the provider has the user's money.
GrantedOnlyIfPaid == (Granted \/ paidAt) => provider = "paid"

\* The webhook is acknowledged, after which the provider stays silent, only
\* for an order that was granted - but for the two exits that the code has:
\* a payment after the expiry grace, which it logs, and a failed read of the
\* order in confirmPayment or alreadyProcessed (or of its provider in the
\* webhook), which it reports as success.
AckedIsSettled == acked => Granted \/ swallowed \/ "PAYMENT_AFTER_EXPIRY" \in audit

\* No handler of the payment path reopens an order that is COMPLETED or in
\* refund, even one that took its lease long ago; only the error path of
\* CreateOrder, which writes FAILED unconditionally, is not held to it.
Closed(s) == s = "COMPLETED" \/ s \in RefundStatuses
NeverReopened == [][Closed(status) /\ creator' = creator => Closed(status')]_vars

\* A payment that the provider has, and whose webhook it goes on delivering,
\* is granted in the end - or takes one of the two exits of AckedIsSettled, or
\* an admin expires the code that would grant it.  The subscription of a group
\* that admins switch off is granted once the group stays active again.
PaidIsSettled ==
  <>[]groupActive =>
    (provider = "paid" ~>
      (Granted \/ swallowed \/ "PAYMENT_AFTER_EXPIRY" \in audit \/ code = "expired"))

\* The handlers together implement the ledger.
Ledger == INSTANCE PaymentLedger WITH
  paid <- provider = "paid", granted <- Granted,
  rebated <- "AFFILIATE_REBATE" \in audit, settled <- completedAt

ImplementsLedger == Ledger!Spec
=============================================================================
