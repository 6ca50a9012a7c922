---------------------------- MODULE PaymentRefund ----------------------------
(***************************************************************************)
(* The refund of one completed balance order: the user's request, the      *)
(* admins' refunds (PrepareRefund then ExecuteRefund, two requests at a    *)
(* time or more) and the finalization of a refund that the gateway left    *)
(* pending (QueryAndFinalizeRefund).  A refund takes the amount off the    *)
(* user's balance and asks the gateway to pay it back; every database and  *)
(* gateway call is a step of its own.                                      *)
(*                                                                         *)
(* Not here: Stripe hosted orders (payment_stripe_hosted_refund.go) and    *)
(* subscription orders, whose deduction shortens a subscription.           *)
(***************************************************************************)
EXTENDS Integers, FiniteSets, FiniteSetsExt

CONSTANTS
  Admins,         \* refund requests that may be running at the same time
  Amount,         \* the amount of the order
  Amounts,        \* refund amounts that admins choose
  MaxDeficit,     \* bound: how far usage billing may overdraw the balance
  MaxBalance,     \* bound: the user's balance at the start
  SupportsQuery,  \* the provider implements RefundQueryProvider
  Failures,       \* what may go wrong, see below
  MaxFaults,      \* bound: how often
  MaxAttempts     \* bound: refunds that admins start

ASSUME AdminsAssumption == IsFiniteSet(Admins)
ASSUME AmountAssumption == Amount \in Nat \ {0} /\ Amounts \subseteq 1..Amount
ASSUME BoundsAssumption ==
  {MaxDeficit, MaxBalance, MaxFaults, MaxAttempts} \subseteq Nat
ASSUME QueryAssumption == SupportsQuery \in BOOLEAN
ASSUME FailuresAssumption ==
  Failures \subseteq {"deduct", "gateway", "rollback", "audit", "mark", "crash", "ack"}

VARIABLES
  \* the payment_orders row, and whether it has the gateway's trade number
  status, refundAmount, tradeNo,
  \* the payment_audit_logs rows of the order; the REFUND_PENDING row keeps the
  \* outcome of the rollback and the gateway's id of the refund, which is the
  \* amount: the gateways key a refund by order and amount
  audit, pendingRow,
  \* the users row
  balance,
  \* history: what this order's refunds took off the balance so far, whether one
  \* of them stopped or failed before it gave back what it took, and whether a
  \* late failure took the order out of a refund in progress or done
  taken, stuck, reopened,
  \* the gateway's refund for each amount
  gateway,
  \* the running requests: step, plan (status when read, amount, deduction),
  \* and the outcome of the rollback
  pc, plan, rolledBack,
  attempts, faults

vars == <<status, refundAmount, tradeNo, audit, pendingRow, balance, taken, stuck, reopened,
          gateway, pc, plan, rolledBack, attempts, faults>>
order == <<status, refundAmount>>
logs == <<audit, pendingRow>>
user == <<balance, taken, stuck, reopened>>
provider == <<tradeNo, gateway>>
request == <<pc, plan, rolledBack, attempts>>

-----------------------------------------------------------------------------
\* Mutant: a partly refunded order may be refunded again.
RefundableAgain ==
  {"COMPLETED", "REFUND_REQUESTED", "REFUND_PENDING", "REFUND_FAILED", "PARTIALLY_REFUNDED"}

Refundable == {"COMPLETED", "REFUND_REQUESTED", "REFUND_PENDING", "REFUND_FAILED"}
Done == {"REFUNDED", "PARTIALLY_REFUNDED"}
Statuses == Refundable \cup Done \cup {"REFUNDING"}
AuditActions == {"REFUND_ROLLBACK_FAILED", "REFUND_PENDING", "REFUND_SUCCESS"}

\* Steps of ExecuteRefund that follow its claim, and of QueryAndFinalizeRefund.
ExecuteSteps == {"deduct", "restore", "gateway", "ok", "pending", "markPending",
                 "gwFail", "markFailed"}
InProgress(w) == pc[w] \in ExecuteSteps
FinalizeSteps == {"query", "final", "finalFail"}
Steps == {"idle", "claim"} \cup ExecuteSteps \cup FinalizeSteps

NoPlan == [from |-> "COMPLETED", amount |-> 0, deduct |-> 0]
NoRow == [rollbackOK |-> TRUE, id |-> 0]

\* Other spending may have used up part of what the order credited, and other
\* orders may have added to it.  A notification without a trade number leaves
\* the order's empty (toPaid).
Init ==
  /\ status = "COMPLETED" /\ refundAmount = 0
  /\ audit = {} /\ pendingRow = NoRow
  /\ balance \in 0..MaxBalance /\ taken = 0 /\ stuck = FALSE /\ reopened = FALSE
  /\ tradeNo \in BOOLEAN
  /\ gateway = [a \in 1..Amount |-> "none"]
  /\ pc = [w \in Admins |-> "idle"] /\ plan = [w \in Admins |-> NoPlan]
  /\ rolledBack = [w \in Admins |-> TRUE]
  /\ attempts = 0 /\ faults = 0

At(w, step) == pc[w] = step
Goto(w, step) == pc' = [pc EXCEPT ![w] = step] /\ UNCHANGED <<plan, rolledBack, attempts>>

Return(w) ==
  /\ pc' = [pc EXCEPT ![w] = "idle"]
  /\ plan' = [plan EXCEPT ![w] = NoPlan]
  /\ rolledBack' = [rolledBack EXCEPT ![w] = TRUE]
  /\ UNCHANGED attempts

Fails(kind) == kind \in Failures /\ faults < MaxFaults /\ faults' = faults + 1
Works == UNCHANGED faults

\* writeAuditLog: the insert of an action that is there already violates the
\* unique index, and every insert error is only logged.
WriteAudit(action) ==
  \/ audit' = audit \cup {action} /\ Works
  \/ action \notin audit /\ UNCHANGED audit /\ Fails("audit")

\* The updates by id alone whose error is ignored.
SetStatus(s) ==
  \/ status' = s /\ Works
  \/ UNCHANGED status /\ Fails("mark")

\* DeductAvailableBalance takes what there is, up to the amount.
Available(amount) == Min({amount, Max({balance, 0})})

Take(amount) ==
  /\ balance' = balance - amount
  /\ taken' = taken + amount
  /\ UNCHANGED reopened

FinalStatus(amount) == IF amount < Amount THEN "PARTIALLY_REFUNDED" ELSE "REFUNDED"

-----------------------------------------------------------------------------
(* The user asks for a refund; the balance is read before the conditional  *)
(* update, but only the update shows.  The user spends: usage billing takes *)
(* its due from the balance even when that overdraws it.                   *)

RequestRefund ==
  /\ status = "COMPLETED" /\ balance >= Amount
  /\ status' = "REFUND_REQUESTED" /\ refundAmount' = Amount
  /\ UNCHANGED <<logs, user, provider, request, faults>>

UserSpends ==
  /\ balance > -MaxDeficit
  /\ balance' = balance - 1
  /\ UNCHANGED <<order, logs, taken, stuck, reopened, provider, request, faults>>

-----------------------------------------------------------------------------
(* PrepareRefund and ExecuteRefund. *)

\* Mutant: the deduction is not limited to the refund.
PrepareRefundOfAll(w, amount, force, deduct) ==
  /\ At(w, "idle") /\ status \in Refundable
  /\ attempts < MaxAttempts /\ attempts' = attempts + 1
  /\ plan' = [plan EXCEPT ![w] = [from |-> status, amount |-> amount, deduct |-> balance]]
  /\ pc' = [pc EXCEPT ![w] = "claim"]
  /\ UNCHANGED <<order, logs, user, provider, rolledBack, faults>>

\* Without force the balance must cover the refund; the admin may also choose
\* to deduct nothing.
PrepareRefund(w, amount, force, deduct) ==
  /\ At(w, "idle") /\ status \in Refundable
  /\ attempts < MaxAttempts /\ attempts' = attempts + 1
  /\ deduct /\ ~force => balance >= amount
  /\ plan' = [plan EXCEPT ![w] =
       [from |-> status, amount |-> amount,
        deduct |-> IF deduct THEN Available(amount) ELSE 0]]
  /\ pc' = [pc EXCEPT ![w] = "claim"]
  /\ UNCHANGED <<order, logs, user, provider, rolledBack, faults>>

\* Mutant: the claim trusts the status that PrepareRefund read.
ClaimRefundBlindly(w) ==
  /\ At(w, "claim") /\ status' = "REFUNDING" /\ Goto(w, "deduct")
  /\ UNCHANGED <<refundAmount, logs, user, provider, faults>>

ClaimRefund(w) ==
  /\ At(w, "claim")
  /\ IF status \in Refundable
       THEN status' = "REFUNDING" /\ Goto(w, "deduct")
       ELSE Return(w) /\ UNCHANGED status
  /\ UNCHANGED <<refundAmount, logs, user, provider, faults>>

\* Mutant: the audit log is not asked whether the deduction is still in place.
DeductEveryTime(w) ==
  /\ At(w, "deduct")
  /\ LET d == Available(plan[w].deduct)
     IN Take(d) /\ UNCHANGED stuck /\ plan' = [plan EXCEPT ![w].deduct = d]
  /\ pc' = [pc EXCEPT ![w] = "gateway"]
  /\ UNCHANGED <<order, logs, provider, rolledBack, attempts, faults>>

\* Mutant: the deduction takes what PrepareRefund found, there or not.
DeductBlindly(w) ==
  /\ At(w, "deduct") /\ Goto(w, "gateway")
  /\ Take(plan[w].deduct) /\ UNCHANGED stuck
  /\ UNCHANGED <<order, logs, provider, faults>>

\* Mutant: the plan keeps the deduction it planned, not the one it got.
DeductAsPlanned(w) ==
  /\ At(w, "deduct") /\ Goto(w, "gateway")
  /\ Take(Available(plan[w].deduct)) /\ UNCHANGED stuck
  /\ UNCHANGED <<order, logs, provider, faults>>

\* The deduction is skipped when an earlier one could not be rolled back;
\* hasAuditLog takes an error of its query for an absent row.  A deduction that
\* was made but reported as an error is not given back.
DeductForRefund(w) ==
  /\ At(w, "deduct")
  /\ \/ /\ plan[w].deduct > 0
        /\ \/ "REFUND_ROLLBACK_FAILED" \notin audit /\ Works
           \/ "REFUND_ROLLBACK_FAILED" \in audit /\ Fails("audit")
        /\ LET d == Available(plan[w].deduct)
           IN Take(d) /\ UNCHANGED stuck /\ plan' = [plan EXCEPT ![w].deduct = d]
        /\ pc' = [pc EXCEPT ![w] = "gateway"]
        /\ UNCHANGED <<rolledBack, attempts>>
     \/ /\ plan[w].deduct > 0 /\ "REFUND_ROLLBACK_FAILED" \notin audit
        /\ Goto(w, "restore")
        /\ \/ Fails("deduct") /\ UNCHANGED user
           \/ Fails("ack") /\ Take(Available(plan[w].deduct)) /\ stuck' = TRUE
     \/ /\ plan[w].deduct = 0 \/ "REFUND_ROLLBACK_FAILED" \in audit
        /\ plan' = [plan EXCEPT ![w].deduct = 0]
        /\ pc' = [pc EXCEPT ![w] = "gateway"]
        /\ UNCHANGED <<rolledBack, attempts, user>> /\ Works
  /\ UNCHANGED <<order, logs, provider>>

RestoreStatus(w) ==
  /\ At(w, "restore")
  /\ SetStatus(IF plan[w].from = "REFUND_REQUESTED" THEN "REFUND_REQUESTED" ELSE "COMPLETED")
  /\ Return(w)
  /\ UNCHANGED <<refundAmount, logs, user, provider>>

\* The gateway refuses, or creates the refund, or finds the one it has for the
\* amount, and then may repeat its first answer.  Every created refund that is
\* not a success is reported as pending.  The answer may be lost.
AskGateway(w) ==
  /\ At(w, "gateway") /\ tradeNo
  /\ LET a == plan[w].amount
         known == gateway[a] # "none" IN
     \E s \in IF known THEN {gateway[a]} ELSE {"none", "pending", "success"} :
       /\ gateway' = [gateway EXCEPT ![a] = s]
       /\ \/ s = "success" /\ Goto(w, "ok") /\ Works
          \/ s \in {"pending", "failed"} /\ Goto(w, "pending") /\ Works
          \/ s = "success" /\ known /\ Goto(w, "pending") /\ Works
          \/ s = "none" /\ Goto(w, "gwFail") /\ Works
          \/ s # "none" /\ Fails("gateway") /\ Goto(w, "gwFail")
  /\ UNCHANGED <<order, tradeNo, logs, user>>

\* Without a trade number there is nothing to ask for: "skipped" is a success.
SkipGateway(w) ==
  /\ At(w, "gateway") /\ ~tradeNo
  /\ Goto(w, "ok")
  /\ UNCHANGED <<order, logs, user, provider, faults>>

GatewayRefund(w) == AskGateway(w) \/ SkipGateway(w)

\* markRefundOk: the order is written whatever its status is by now.
MarkRefundOk(w) ==
  /\ At(w, "ok")
  /\ Return(w)
  /\ \/ /\ status' = FinalStatus(plan[w].amount) /\ refundAmount' = plan[w].amount
        /\ WriteAudit("REFUND_SUCCESS")
     \/ Fails("mark") /\ UNCHANGED <<order, audit>>
  /\ UNCHANGED <<pendingRow, user, provider>>

GiveBack(amount) ==
  /\ balance' = balance + amount
  /\ taken' = taken - amount
  /\ UNCHANGED <<stuck, reopened>>

\* RollbackRefund gives the deduction back, or records that it could not - also
\* when it did and only the answer was lost.
RollbackRefund(w, onSuccess, onFailure) ==
  \/ /\ GiveBack(plan[w].deduct)
     /\ pc' = [pc EXCEPT ![w] = onSuccess]
     /\ UNCHANGED <<plan, rolledBack, attempts, audit>> /\ Works
  \/ /\ plan[w].deduct > 0
     /\ \/ Fails("rollback") /\ stuck' = TRUE /\ UNCHANGED <<balance, taken, reopened>>
        \/ Fails("ack") /\ GiveBack(plan[w].deduct)
     /\ \/ audit' = audit \cup {"REFUND_ROLLBACK_FAILED"}
        \/ "audit" \in Failures /\ UNCHANGED audit
     /\ pc' = [pc EXCEPT ![w] = onFailure]
     /\ rolledBack' = [rolledBack EXCEPT ![w] = FALSE]
     /\ UNCHANGED <<plan, attempts>>

\* Mutant: the deduction stays in place while the refund is pending.
KeepDeductionPending(w) ==
  /\ At(w, "pending") /\ Goto(w, "markPending")
  /\ UNCHANGED <<order, logs, user, provider, faults>>

RollbackPending(w) ==
  /\ At(w, "pending")
  /\ RollbackRefund(w, "markPending", "markPending")
  /\ UNCHANGED <<order, pendingRow, provider>>

RollbackFailed(w) ==
  /\ At(w, "gwFail")
  /\ RollbackRefund(w, "restore", "markFailed")
  /\ UNCHANGED <<order, pendingRow, provider>>

\* markRefundPending: the status, then the audit row with what finalization
\* needs to know - which is inserted only the first time.
MarkRefundPending(w) ==
  /\ At(w, "markPending")
  /\ Return(w)
  /\ \/ /\ status' = "REFUND_PENDING" /\ refundAmount' = plan[w].amount
        /\ WriteAudit("REFUND_PENDING")
        /\ pendingRow' = IF "REFUND_PENDING" \in audit' \ audit
                           THEN [rollbackOK |-> rolledBack[w], id |-> plan[w].amount]
                           ELSE pendingRow
     \/ Fails("mark") /\ UNCHANGED <<order, logs>>
  /\ UNCHANGED <<user, provider>>

MarkRefundFailed(w) ==
  /\ At(w, "markFailed")
  /\ Return(w)
  /\ SetStatus("REFUND_FAILED")
  /\ UNCHANGED <<refundAmount, logs, user, provider>>

-----------------------------------------------------------------------------
(* QueryAndFinalizeRefund. *)

QueryAndFinalizeRefund(w) ==
  /\ SupportsQuery
  /\ At(w, "idle") /\ status = "REFUND_PENDING"
  /\ plan' = [plan EXCEPT ![w] = [from |-> status, amount |-> refundAmount, deduct |-> 0]]
  /\ pc' = [pc EXCEPT ![w] = "query"]
  /\ UNCHANGED <<order, logs, user, provider, rolledBack, attempts, faults>>

\* latestRefundPendingDetail, whose error counts as an absent row.
PendingDetail(detail) ==
  \/ detail = pendingRow /\ Works
  \/ detail = NoRow /\ detail # pendingRow /\ Fails("audit")

\* Mutant: whatever the gateway answers but a failure is final.
QueryGatewayIgnoresPending(w) ==
  /\ At(w, "query") /\ gateway[plan[w].amount] # "failed" /\ Goto(w, "final")
  /\ UNCHANGED <<order, logs, user, provider, faults>>

\* The refund id of the row, or the recorded amount, names the refund.  On
\* success the recorded amount is deducted, unless the row says that the first
\* deduction is still in place.
QueryGateway(w) ==
  /\ At(w, "query")
  /\ \E detail \in {pendingRow, NoRow} :
       LET id == IF detail.id > 0 THEN detail.id ELSE plan[w].amount IN
       /\ PendingDetail(detail)
       /\ \/ /\ gateway[id] = "success"
             /\ pc' = [pc EXCEPT ![w] = "final"]
             /\ plan' = [plan EXCEPT ![w].deduct =
                           IF detail.rollbackOK THEN plan[w].amount ELSE 0]
             /\ UNCHANGED <<rolledBack, attempts>>
          \/ gateway[id] = "failed" /\ Goto(w, "finalFail")
          \/ gateway[id] \in {"none", "pending"} /\ Return(w)
  /\ UNCHANGED <<order, logs, user, provider>>

\* One transaction; the insert of a second REFUND_SUCCESS row undoes it.
FinalizeSuccess(w) ==
  /\ At(w, "final")
  /\ Return(w)
  /\ IF status = "REFUND_PENDING" /\ "REFUND_SUCCESS" \notin audit
       THEN /\ status' = FinalStatus(plan[w].amount) /\ refundAmount' = plan[w].amount
            /\ audit' = audit \cup {"REFUND_SUCCESS"}
            /\ Take(Available(plan[w].deduct)) /\ UNCHANGED stuck
       ELSE UNCHANGED <<order, audit, user>>
  /\ UNCHANGED <<pendingRow, provider, faults>>

\* finalizeRefundFailed: no condition on the status.
FinalizeFailed(w) ==
  /\ At(w, "finalFail")
  /\ Return(w)
  /\ SetStatus("REFUND_FAILED")
  /\ reopened' = (reopened \/ (status \in Done \cup {"REFUNDING"} /\ status' # status))
  /\ UNCHANGED <<refundAmount, logs, balance, taken, stuck, provider>>

-----------------------------------------------------------------------------
\* The gateway decides a pending refund.
GatewayDecides ==
  /\ \E a \in 1..Amount, s \in {"success", "failed"} :
       gateway[a] = "pending" /\ gateway' = [gateway EXCEPT ![a] = s]
  /\ UNCHANGED <<order, tradeNo, logs, user, request, faults>>

\* The server stops, or a statement whose error is simply returned fails.
Crash(w) ==
  /\ pc[w] # "idle"
  /\ Fails("crash") /\ Return(w)
  /\ stuck' = (stuck \/ (pc[w] \in {"gateway", "pending", "gwFail"} /\ plan[w].deduct > 0))
  /\ UNCHANGED <<order, logs, balance, taken, reopened, provider>>

Execute(w) ==
  \/ \E amount \in Amounts, force, deduct \in BOOLEAN : PrepareRefund(w, amount, force, deduct)
  \/ ClaimRefund(w) \/ DeductForRefund(w) \/ RestoreStatus(w) \/ GatewayRefund(w)
  \/ MarkRefundOk(w) \/ RollbackPending(w) \/ RollbackFailed(w)
  \/ MarkRefundPending(w) \/ MarkRefundFailed(w)

Finalize(w) ==
  \/ QueryAndFinalizeRefund(w) \/ QueryGateway(w)
  \/ FinalizeSuccess(w) \/ FinalizeFailed(w)

Next ==
  \/ RequestRefund \/ UserSpends \/ GatewayDecides
  \/ \E w \in Admins : Execute(w) \/ Finalize(w) \/ Crash(w)

Spec == Init /\ [][Next]_vars

-----------------------------------------------------------------------------
(* Properties. *)

\* The rows and the plans of the running requests are well typed: no amount is
\* more than that of the order, no more attempts and faults than allowed.
TypeOK ==
  /\ status \in Statuses /\ refundAmount \in 0..Amount
  /\ audit \subseteq AuditActions
  /\ pendingRow \in [rollbackOK : BOOLEAN, id : 0..Amount]
  /\ balance \in Int /\ taken \in Int
  /\ stuck \in BOOLEAN /\ reopened \in BOOLEAN /\ tradeNo \in BOOLEAN
  /\ gateway \in [1..Amount -> {"none", "pending", "success", "failed"}]
  /\ pc \in [Admins -> Steps]
  /\ plan \in [Admins -> [from : Refundable, amount : 0..Amount, deduct : 0..Amount]]
  /\ rolledBack \in [Admins -> BOOLEAN]
  /\ attempts \in 0..MaxAttempts /\ faults \in 0..MaxFaults

\* However often a refund is tried, the order costs the user no more than its
\* amount: "Skip balance deduction on retry if previous attempt already
\* deducted but failed to roll back" (ExecuteRefund).
DeductedAtMostOnce == taken <= Amount

\* Refunds of an order, of whatever amounts, take more than the order's amount
\* only when a deduction was left in place, by a rollback that failed, a request
\* that stopped or a lost answer of the deduction, or when a late
\* finalizeRefundFailed reopened an order whose refund was in progress or done:
\* it writes REFUND_FAILED whatever the status is by then.  Finalization itself
\* deducts again only what was given back before, and only once.
DeductedTwiceOnlyIfStuck == taken > Amount => stuck \/ reopened

\* Rollbacks give back what was taken and never more, also when the balance
\* covered only part of the planned deduction, and whatever fails.
NeverEnriched == taken >= 0

\* A refund takes only what is there when it takes it, not what was there when
\* it was prepared: it neither causes nor deepens an overdraft.
NeverOverdrawn == [][taken' > taken => balance' >= 0]_vars

\* A refund that is shown as done was paid out by the gateway, in the recorded
\* amount or in that of the order's first pending refund, whose id the audit
\* row keeps and finalization asks for - unless the order has no trade number,
\* for which gwRefund reports a success without asking the gateway.
RefundedIsPaidOut ==
  LET PaidOutIn(a) == a > 0 /\ gateway[a] = "success"
  IN status \in Done => ~tradeNo \/ PaidOutIn(refundAmount) \/ PaidOutIn(pendingRow.id)

\* While a request works on the refund the order is REFUNDING ("Refund in
\* progress"), so no second request starts on it.
RefundIsExclusive ==
  /\ \A w \in Admins : InProgress(w) => status = "REFUNDING"
  /\ \A v, w \in Admins : InProgress(v) /\ InProgress(w) => v = w

\* A refund that was paid out and is shown as done stays so.
DoneIsFinal == [][(status \in Done) => UNCHANGED status]_vars
=============================================================================
