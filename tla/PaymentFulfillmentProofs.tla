---------------------- MODULE PaymentFulfillmentProofs ----------------------
(***************************************************************************)
(* Proofs, for any set of workers and any number of errors and crashes,    *)
(* that an order is granted and rebated at most once, only when paid, and  *)
(* always before it is completed; and that the handlers implement the      *)
(* ledger of PaymentLedger.  The one thing assumed of the admin is that    *)
(* the redeem codes of orders are not deleted.                             *)
(***************************************************************************)
EXTENDS PaymentFulfillment, TLAPS

-----------------------------------------------------------------------------
(* The inductive invariant. *)

\* The durable marker of the grant: the used (later perhaps expired) code of
\* a balance order, the audit row of a subscription order.
GrantMarked ==
  /\ grants \in {0, 1}
  /\ orderType = "balance" =>
       /\ code = "used" => grants = 1
       /\ grants = 1 => code \in {"used", "expired"}
  /\ orderType = "subscription" => (grants = 1 <=> "SUBSCRIPTION_ASSIGNED" \in audit)

RebateDecided == HasRebate => "AFFILIATE_REBATE" \in audit

\* The durable marker of the rebate, set only after the grant.
RebateMarked ==
  /\ rebates \in {0, 1}
  /\ rebates = 1 => "AFFILIATE_REBATE" \in audit
  /\ "AFFILIATE_REBATE" \in audit => grants = 1

\* What a worker knows from the step it has reached.
BalanceSteps == {"lookup", "create", "redeem", "redeemTx"}

StepKnows(w) ==
  /\ pc[w] \in BalanceSteps => orderType = "balance"
  /\ pc[w] = "assign" => orderType = "subscription"
  /\ pc[w] \in {"rebate", "complete", "completeLost"} => grants = 1
  /\ pc[w] \in {"complete", "completeLost"} => RebateDecided

\* Steps that are reached only with the provider's word that it was paid.
PaidSteps == {"backfill", "toPaid", "already", "execute", "lease", "leaseLost", "reload"}
               \cup GrantSteps

PaidKnown(w) ==
  /\ pc[w] \in PaidSteps => provider = "paid"
  /\ pc[w] = "confirm" /\ op[w] # "badNotify" => provider = "paid"

MoneyFirst ==
  /\ creator = "invoke" => provider = "none"
  /\ paidAt => provider = "paid"
  /\ grants = 1 => provider = "paid"

CompletedKnown ==
  (completedAt \/ status = "COMPLETED" \/ status \in RefundStatuses) => grants = 1 /\ RebateDecided

GrantInv ==
  /\ GrantMarked
  /\ RebateMarked
  /\ \A v \in Workers : StepKnows(v)
  /\ CompletedKnown

MoneyInv ==
  /\ MoneyFirst
  /\ \A v \in Workers : PaidKnown(v)

\* A handler that answers the provider with success has a reason.
AckKnows(w) ==
  /\ pc[w] = "already" => status \notin {"PENDING", "CANCELLED"}
  /\ pc[w] \in {"query", "close", "cancel"} => op[w] # "notify"

AckInv == AckedIsSettled /\ \A v \in Workers : AckKnows(v)

IInv == TypeOK /\ GrantInv /\ MoneyInv /\ AckInv

-----------------------------------------------------------------------------
(* Type correctness. *)

\* The initial values are typed.
LEMMA TypeInit == Init => TypeOK
<1> SUFFICES ASSUME Init PROVE TypeOK
  OBVIOUS
<1>1. TypeData
  BY FaultsAssumption DEF Init, TypeData, Statuses, Ops, Steps
<1>2. TypeFlags
  BY DEF Init, TypeFlags
<1> QED
  BY <1>1, <1>2 DEF TypeOK

\* Every step keeps the types of statuses, sets, counters and steps.
LEMMA TypeDataStep == TypeData /\ [Next]_vars => TypeData'
<1> SUFFICES ASSUME TypeData, [Next]_vars PROVE TypeData'
  OBVIOUS
<1> USE FaultsAssumption DEF TypeData, row, columns, effects, outside, ghosts,
      Statuses, Fulfillable, RefundStatuses, AuditActions, Ops, Steps, PlainSteps, GrantSteps,
      Write, At, Goto, Leave, Return, Drop, Start, Fault
<1>1. CASE CreatePayment
  BY <1>1 DEF CreatePayment
<1>2. CASE StoreDetails
  BY <1>2 DEF StoreDetails
<1>3. CASE CreateFailed
  BY <1>3 DEF CreateFailed
<1>4. CASE UserPays
  BY <1>4 DEF UserPays
<1>5. CASE WindowPasses
  BY <1>5 DEF WindowPasses
<1>6. CASE RefundWrites
  BY <1>6 DEF RefundWrites
<1>7. CASE AdminChangesCode
  BY <1>7 DEF AdminChangesCode
<1>g. CASE AdminChangesGroup
  BY <1>g DEF AdminChangesGroup
<1>8. ASSUME NEW w \in Workers, StartNotify(w) PROVE TypeData'
  BY <1>8 DEF StartNotify
<1>9. ASSUME NEW w \in Workers, StartBadNotify(w) PROVE TypeData'
  BY <1>9 DEF StartBadNotify
<1>10. ASSUME NEW w \in Workers, VerifyOrderByOutTradeNo(w) PROVE TypeData'
  BY <1>10 DEF VerifyOrderByOutTradeNo
<1>11. ASSUME NEW w \in Workers, ReconcilePendingPaymentOrders(w) PROVE TypeData'
  BY <1>11 DEF ReconcilePendingPaymentOrders
<1>12. ASSUME NEW w \in Workers, CancelOrder(w) PROVE TypeData'
  BY <1>12 DEF CancelOrder
<1>13. ASSUME NEW w \in Workers, ExpireTimedOutOrders(w) PROVE TypeData'
  BY <1>13 DEF ExpireTimedOutOrders
<1>14. ASSUME NEW w \in Workers, RetryFulfillment(w) PROVE TypeData'
  BY <1>14 DEF RetryFulfillment
<1>15. ASSUME NEW w \in Workers, QueryProvider(w) PROVE TypeData'
  BY <1>15 DEF QueryProvider, NotPaid, Cancels
<1>16. ASSUME NEW w \in Workers, ClosePayment(w) PROVE TypeData'
  BY <1>16 DEF ClosePayment
<1>17. ASSUME NEW w \in Workers, BackfillTradeNo(w) PROVE TypeData'
  BY <1>17 DEF BackfillTradeNo
<1>18. ASSUME NEW w \in Workers, CancelPending(w) PROVE TypeData'
  BY <1>18 DEF CancelPending
<1>19. ASSUME NEW w \in Workers, ConfirmPayment(w) PROVE TypeData'
  BY <1>19 DEF ConfirmPayment
<1>20. ASSUME NEW w \in Workers, ToPaid(w) PROVE TypeData'
  BY <1>20 DEF ToPaid, Payable
<1>21. ASSUME NEW w \in Workers, AlreadyProcessed(w) PROVE TypeData'
  <2>1. audit' \subseteq AuditActions
    BY <1>21 DEF AlreadyProcessed
  <2>2. pc' \in [Workers -> Steps] /\ op' \in [Workers -> Ops]
    BY <1>21 DEF AlreadyProcessed
  <2> QED
    BY <1>21, <2>1, <2>2 DEF AlreadyProcessed
<1>22. ASSUME NEW w \in Workers, ExecuteFulfillment(w) PROVE TypeData'
  BY <1>22 DEF ExecuteFulfillment
<1>23. ASSUME NEW w \in Workers, AcquireLease(w) PROVE TypeData'
  BY <1>23 DEF AcquireLease, Claimable
<1>24. ASSUME NEW w \in Workers, LeaseLost(w) PROVE TypeData'
  BY <1>24 DEF LeaseLost
<1>25. ASSUME NEW w \in Workers, ReloadLease(w) PROVE TypeData'
  BY <1>25 DEF ReloadLease
<1>26. ASSUME NEW w \in Workers, LookupCode(w) PROVE TypeData'
  BY <1>26 DEF LookupCode
<1>27. ASSUME NEW w \in Workers, CreateCode(w) PROVE TypeData'
  BY <1>27 DEF CreateCode
<1>28. ASSUME NEW w \in Workers, RedeemChecks(w) PROVE TypeData'
  BY <1>28 DEF RedeemChecks
<1>29. ASSUME NEW w \in Workers, RedeemTx(w) PROVE TypeData'
  BY <1>29 DEF RedeemTx
<1>30. ASSUME NEW w \in Workers, AssignSubscription(w) PROVE TypeData'
  <2>1. /\ pc' \in [Workers -> Steps] /\ op' = op
        /\ UNCHANGED <<row, columns, code, rebates, outside>>
    BY <1>30 DEF AssignSubscription
  <2>2. /\ audit' \in {audit, audit \cup {"SUBSCRIPTION_ASSIGNED"}}
        /\ grants' \in {grants, grants + 1} /\ (faults' = faults \/ Fault)
    BY <1>30 DEF AssignSubscription
  <2> QED
    BY <2>1, <2>2
<1>31. ASSUME NEW w \in Workers, ApplyAffiliateRebate(w) PROVE TypeData'
  <2>1. audit' \subseteq AuditActions
    BY <1>31 DEF ApplyAffiliateRebate
  <2>2. pc' \in [Workers -> Steps] /\ op' \in [Workers -> Ops]
    BY <1>31 DEF ApplyAffiliateRebate
  <2> QED
    BY <1>31, <2>1, <2>2 DEF ApplyAffiliateRebate
<1>32. ASSUME NEW w \in Workers, MarkCompleted(w) PROVE TypeData'
  BY <1>32 DEF MarkCompleted, HoldsLease
<1>33. ASSUME NEW w \in Workers, CompletionLost(w) PROVE TypeData'
  BY <1>33 DEF CompletionLost
<1>34. ASSUME NEW w \in Workers, MarkFailed(w) PROVE TypeData'
  BY <1>34 DEF MarkFailed, HoldsLease
<1>35. ASSUME NEW w \in Workers, ErrorReturned(w) PROVE TypeData'
  BY <1>35 DEF ErrorReturned
<1>36. ASSUME NEW w \in Workers, ErrorInGrant(w) PROVE TypeData'
  BY <1>36 DEF ErrorInGrant
<1>37. ASSUME NEW w \in Workers, Crash(w) PROVE TypeData'
  BY <1>37 DEF Crash
<1>38. CASE UNCHANGED vars
  BY <1>38 DEF vars
<1> QED
  BY <1>1, <1>2, <1>3, <1>4, <1>5, <1>6, <1>7, <1>g, <1>8, <1>9, <1>10, <1>11, <1>12, <1>13,
     <1>14, <1>15, <1>16, <1>17, <1>18, <1>19, <1>20, <1>21, <1>22, <1>23, <1>24, <1>25, <1>26,
     <1>27, <1>28, <1>29, <1>30, <1>31, <1>32, <1>33, <1>34, <1>35, <1>36, <1>37, <1>38
  DEF Next, Creation, World, Begin, Run, Break

\* Every step keeps the flags Boolean.
LEMMA TypeFlagsStep == TypeFlags /\ [Next]_vars => TypeFlags'
<1> SUFFICES ASSUME TypeFlags, [Next]_vars PROVE TypeFlags'
  OBVIOUS
<1> USE DEF TypeFlags, row, columns, effects, outside, ghosts,
      Write, At, Goto, Leave, Return, Drop, Start, Fault
<1>1. CASE CreatePayment
  BY Zenon, <1>1 DEF CreatePayment
<1>2. CASE StoreDetails
  BY Zenon, <1>2 DEF StoreDetails
<1>3. CASE CreateFailed
  BY Zenon, <1>3 DEF CreateFailed
<1>4. CASE UserPays
  BY Zenon, <1>4 DEF UserPays
<1>5. CASE WindowPasses
  BY Zenon, <1>5 DEF WindowPasses
<1>6. CASE RefundWrites
  BY Zenon, <1>6 DEF RefundWrites
<1>7. CASE AdminChangesCode
  BY Zenon, <1>7 DEF AdminChangesCode
<1>g. CASE AdminChangesGroup
  BY Zenon, <1>g DEF AdminChangesGroup
<1>8. ASSUME NEW w \in Workers, StartNotify(w) PROVE TypeFlags'
  BY Zenon, <1>8 DEF StartNotify
<1>9. ASSUME NEW w \in Workers, StartBadNotify(w) PROVE TypeFlags'
  BY Zenon, <1>9 DEF StartBadNotify
<1>10. ASSUME NEW w \in Workers, VerifyOrderByOutTradeNo(w) PROVE TypeFlags'
  BY Zenon, <1>10 DEF VerifyOrderByOutTradeNo
<1>11. ASSUME NEW w \in Workers, ReconcilePendingPaymentOrders(w) PROVE TypeFlags'
  BY Zenon, <1>11 DEF ReconcilePendingPaymentOrders
<1>12. ASSUME NEW w \in Workers, CancelOrder(w) PROVE TypeFlags'
  BY Zenon, <1>12 DEF CancelOrder
<1>13. ASSUME NEW w \in Workers, ExpireTimedOutOrders(w) PROVE TypeFlags'
  BY Zenon, <1>13 DEF ExpireTimedOutOrders
<1>14. ASSUME NEW w \in Workers, RetryFulfillment(w) PROVE TypeFlags'
  BY Zenon, <1>14 DEF RetryFulfillment
<1>15. ASSUME NEW w \in Workers, QueryProvider(w) PROVE TypeFlags'
  BY Zenon, <1>15 DEF QueryProvider, NotPaid, Cancels
<1>16. ASSUME NEW w \in Workers, ClosePayment(w) PROVE TypeFlags'
  BY Zenon, <1>16 DEF ClosePayment
<1>17. ASSUME NEW w \in Workers, BackfillTradeNo(w) PROVE TypeFlags'
  BY Zenon, <1>17 DEF BackfillTradeNo
<1>18. ASSUME NEW w \in Workers, CancelPending(w) PROVE TypeFlags'
  BY Zenon, <1>18 DEF CancelPending
<1>19. ASSUME NEW w \in Workers, ConfirmPayment(w) PROVE TypeFlags'
  BY Zenon, <1>19 DEF ConfirmPayment
<1>20. ASSUME NEW w \in Workers, ToPaid(w) PROVE TypeFlags'
  BY Zenon, <1>20 DEF ToPaid, Payable
<1>21. ASSUME NEW w \in Workers, AlreadyProcessed(w) PROVE TypeFlags'
  BY Zenon, <1>21 DEF AlreadyProcessed
<1>22. ASSUME NEW w \in Workers, ExecuteFulfillment(w) PROVE TypeFlags'
  BY Zenon, <1>22 DEF ExecuteFulfillment
<1>23. ASSUME NEW w \in Workers, AcquireLease(w) PROVE TypeFlags'
  BY Zenon, <1>23 DEF AcquireLease, Claimable
<1>24. ASSUME NEW w \in Workers, LeaseLost(w) PROVE TypeFlags'
  BY Zenon, <1>24 DEF LeaseLost
<1>25. ASSUME NEW w \in Workers, ReloadLease(w) PROVE TypeFlags'
  BY Zenon, <1>25 DEF ReloadLease
<1>26. ASSUME NEW w \in Workers, LookupCode(w) PROVE TypeFlags'
  BY Zenon, <1>26 DEF LookupCode
<1>27. ASSUME NEW w \in Workers, CreateCode(w) PROVE TypeFlags'
  BY Zenon, <1>27 DEF CreateCode
<1>28. ASSUME NEW w \in Workers, RedeemChecks(w) PROVE TypeFlags'
  BY Zenon, <1>28 DEF RedeemChecks
<1>29. ASSUME NEW w \in Workers, RedeemTx(w) PROVE TypeFlags'
  BY Zenon, <1>29 DEF RedeemTx
<1>30. ASSUME NEW w \in Workers, AssignSubscription(w) PROVE TypeFlags'
  BY Zenon, <1>30 DEF AssignSubscription
<1>31. ASSUME NEW w \in Workers, ApplyAffiliateRebate(w) PROVE TypeFlags'
  BY Zenon, <1>31 DEF ApplyAffiliateRebate
<1>32. ASSUME NEW w \in Workers, MarkCompleted(w) PROVE TypeFlags'
  BY Zenon, <1>32 DEF MarkCompleted, HoldsLease
<1>33. ASSUME NEW w \in Workers, CompletionLost(w) PROVE TypeFlags'
  BY Zenon, <1>33 DEF CompletionLost
<1>34. ASSUME NEW w \in Workers, MarkFailed(w) PROVE TypeFlags'
  BY Zenon, <1>34 DEF MarkFailed, HoldsLease
<1>35. ASSUME NEW w \in Workers, ErrorReturned(w) PROVE TypeFlags'
  BY Zenon, <1>35 DEF ErrorReturned
<1>36. ASSUME NEW w \in Workers, ErrorInGrant(w) PROVE TypeFlags'
  BY Zenon, <1>36 DEF ErrorInGrant
<1>37. ASSUME NEW w \in Workers, Crash(w) PROVE TypeFlags'
  BY Zenon, <1>37 DEF Crash
<1>38. CASE UNCHANGED vars
  BY Zenon, <1>38 DEF vars
<1> QED
  BY <1>1, <1>2, <1>3, <1>4, <1>5, <1>6, <1>7, <1>g, <1>8, <1>9, <1>10, <1>11, <1>12, <1>13,
     <1>14, <1>15, <1>16, <1>17, <1>18, <1>19, <1>20, <1>21, <1>22, <1>23, <1>24, <1>25, <1>26,
     <1>27, <1>28, <1>29, <1>30, <1>31, <1>32, <1>33, <1>34, <1>35, <1>36, <1>37, <1>38
  DEF Next, Creation, World, Begin, Run, Break

\* Type correctness of the specification.
THEOREM TypeCorrect == Spec => []TypeOK
<1>1. TypeOK /\ [Next]_vars => TypeOK'
  BY TypeDataStep, TypeFlagsStep DEF TypeOK
<1> QED
  BY <1>1, TypeInit, PTL DEF Spec

-----------------------------------------------------------------------------
(* The grant and the rebate. *)

\* Nothing is granted at the start, and no worker claims to know that it is.
LEMMA GrantInit == Init => GrantInv
BY DEF Init, GrantInv, GrantMarked, RebateMarked, RebateDecided, StepKnows, BalanceSteps,
       CompletedKnown, RefundStatuses

\* No step grants without its marker, or moves on without what it must know.
LEMMA GrantStep ==
  ASSUME "delete" \notin CodeAdmin, TypeData, GrantInv, [Next]_vars
  PROVE  GrantInv'
<1> USE FaultsAssumption DEF TypeData, row, columns, effects, outside, ghosts,
      Statuses, Fulfillable, RefundStatuses, AuditActions, Ops, Steps, PlainSteps, GrantSteps,
      Write, At, Goto, Leave, Return, Drop, Start, Fault
<1> USE DEF GrantInv, GrantMarked, RebateMarked, RebateDecided, StepKnows, BalanceSteps, CompletedKnown
<1>1. CASE CreatePayment
  BY <1>1 DEF CreatePayment
<1>2. CASE StoreDetails
  BY <1>2 DEF StoreDetails
<1>3. CASE CreateFailed
  BY <1>3 DEF CreateFailed
<1>4. CASE UserPays
  BY <1>4 DEF UserPays
<1>5. CASE WindowPasses
  BY <1>5 DEF WindowPasses
<1>6. CASE RefundWrites
  BY <1>6 DEF RefundWrites
<1>7. CASE AdminChangesCode
  BY <1>7 DEF AdminChangesCode
<1>g. CASE AdminChangesGroup
  BY <1>g DEF AdminChangesGroup
<1>8. ASSUME NEW w \in Workers, StartNotify(w) PROVE GrantInv'
  BY <1>8 DEF StartNotify
<1>9. ASSUME NEW w \in Workers, StartBadNotify(w) PROVE GrantInv'
  BY <1>9 DEF StartBadNotify
<1>10. ASSUME NEW w \in Workers, VerifyOrderByOutTradeNo(w) PROVE GrantInv'
  BY <1>10 DEF VerifyOrderByOutTradeNo
<1>11. ASSUME NEW w \in Workers, ReconcilePendingPaymentOrders(w) PROVE GrantInv'
  BY <1>11 DEF ReconcilePendingPaymentOrders
<1>12. ASSUME NEW w \in Workers, CancelOrder(w) PROVE GrantInv'
  BY <1>12 DEF CancelOrder
<1>13. ASSUME NEW w \in Workers, ExpireTimedOutOrders(w) PROVE GrantInv'
  BY <1>13 DEF ExpireTimedOutOrders
<1>14. ASSUME NEW w \in Workers, RetryFulfillment(w) PROVE GrantInv'
  BY <1>14 DEF RetryFulfillment
<1>15. ASSUME NEW w \in Workers, QueryProvider(w) PROVE GrantInv'
  BY <1>15 DEF QueryProvider, NotPaid, Cancels
<1>16. ASSUME NEW w \in Workers, ClosePayment(w) PROVE GrantInv'
  BY <1>16 DEF ClosePayment
<1>17. ASSUME NEW w \in Workers, BackfillTradeNo(w) PROVE GrantInv'
  BY <1>17 DEF BackfillTradeNo
<1>18. ASSUME NEW w \in Workers, CancelPending(w) PROVE GrantInv'
  BY <1>18 DEF CancelPending
<1>19. ASSUME NEW w \in Workers, ConfirmPayment(w) PROVE GrantInv'
  BY <1>19 DEF ConfirmPayment
<1>20. ASSUME NEW w \in Workers, ToPaid(w) PROVE GrantInv'
  BY <1>20 DEF ToPaid, Payable
<1>21. ASSUME NEW w \in Workers, AlreadyProcessed(w) PROVE GrantInv'
  BY <1>21 DEF AlreadyProcessed
<1>22. ASSUME NEW w \in Workers, ExecuteFulfillment(w) PROVE GrantInv'
  BY <1>22 DEF ExecuteFulfillment
<1>23. ASSUME NEW w \in Workers, AcquireLease(w) PROVE GrantInv'
  BY <1>23 DEF AcquireLease, Claimable
<1>24. ASSUME NEW w \in Workers, LeaseLost(w) PROVE GrantInv'
  BY <1>24 DEF LeaseLost
<1>25. ASSUME NEW w \in Workers, ReloadLease(w) PROVE GrantInv'
  BY <1>25 DEF ReloadLease
<1>26. ASSUME NEW w \in Workers, LookupCode(w) PROVE GrantInv'
  BY <1>26 DEF LookupCode
<1>27. ASSUME NEW w \in Workers, CreateCode(w) PROVE GrantInv'
  BY <1>27 DEF CreateCode
<1>28. ASSUME NEW w \in Workers, RedeemChecks(w) PROVE GrantInv'
  BY <1>28 DEF RedeemChecks
<1>29. ASSUME NEW w \in Workers, RedeemTx(w) PROVE GrantInv'
  BY <1>29 DEF RedeemTx
<1>30. ASSUME NEW w \in Workers, AssignSubscription(w) PROVE GrantInv'
  BY <1>30 DEF AssignSubscription
<1>31. ASSUME NEW w \in Workers, ApplyAffiliateRebate(w) PROVE GrantInv'
  BY <1>31 DEF ApplyAffiliateRebate
<1>32. ASSUME NEW w \in Workers, MarkCompleted(w) PROVE GrantInv'
  BY <1>32 DEF MarkCompleted, HoldsLease
<1>33. ASSUME NEW w \in Workers, CompletionLost(w) PROVE GrantInv'
  BY <1>33 DEF CompletionLost
<1>34. ASSUME NEW w \in Workers, MarkFailed(w) PROVE GrantInv'
  BY <1>34 DEF MarkFailed, HoldsLease
<1>35. ASSUME NEW w \in Workers, ErrorReturned(w) PROVE GrantInv'
  BY <1>35 DEF ErrorReturned
<1>36. ASSUME NEW w \in Workers, ErrorInGrant(w) PROVE GrantInv'
  BY <1>36 DEF ErrorInGrant
<1>37. ASSUME NEW w \in Workers, Crash(w) PROVE GrantInv'
  BY <1>37 DEF Crash
<1>38. CASE UNCHANGED vars
  BY <1>38 DEF vars
<1> QED
  BY <1>1, <1>2, <1>3, <1>4, <1>5, <1>6, <1>7, <1>g, <1>8, <1>9, <1>10, <1>11, <1>12, <1>13,
     <1>14, <1>15, <1>16, <1>17, <1>18, <1>19, <1>20, <1>21, <1>22, <1>23, <1>24, <1>25, <1>26,
     <1>27, <1>28, <1>29, <1>30, <1>31, <1>32, <1>33, <1>34, <1>35, <1>36, <1>37, <1>38
  DEF Next, Creation, World, Begin, Run, Break

-----------------------------------------------------------------------------
(* The money comes first. *)

\* No worker starts with the provider's word.
LEMMA MoneyInit == Init => MoneyInv
BY DEF Init, MoneyInv, MoneyFirst, PaidKnown, PaidSteps, GrantSteps

\* The steps behind confirmation are reached with the money only.
LEMMA MoneyStep ==
  ASSUME TypeData, MoneyInv, [Next]_vars
  PROVE  MoneyInv'
<1> USE FaultsAssumption DEF TypeData, row, columns, effects, outside, ghosts,
      Statuses, Fulfillable, RefundStatuses, AuditActions, Ops, Steps, PlainSteps, GrantSteps,
      Write, At, Goto, Leave, Return, Drop, Start, Fault
<1> USE DEF MoneyInv, MoneyFirst, PaidKnown, PaidSteps
<1>1. CASE CreatePayment
  BY <1>1 DEF CreatePayment
<1>2. CASE StoreDetails
  BY <1>2 DEF StoreDetails
<1>3. CASE CreateFailed
  BY <1>3 DEF CreateFailed
<1>4. CASE UserPays
  BY <1>4 DEF UserPays
<1>5. CASE WindowPasses
  BY <1>5 DEF WindowPasses
<1>6. CASE RefundWrites
  BY <1>6 DEF RefundWrites
<1>7. CASE AdminChangesCode
  BY <1>7 DEF AdminChangesCode
<1>g. CASE AdminChangesGroup
  BY <1>g DEF AdminChangesGroup
<1>8. ASSUME NEW w \in Workers, StartNotify(w) PROVE MoneyInv'
  BY <1>8 DEF StartNotify
<1>9. ASSUME NEW w \in Workers, StartBadNotify(w) PROVE MoneyInv'
  BY <1>9 DEF StartBadNotify
<1>10. ASSUME NEW w \in Workers, VerifyOrderByOutTradeNo(w) PROVE MoneyInv'
  BY <1>10 DEF VerifyOrderByOutTradeNo
<1>11. ASSUME NEW w \in Workers, ReconcilePendingPaymentOrders(w) PROVE MoneyInv'
  BY <1>11 DEF ReconcilePendingPaymentOrders
<1>12. ASSUME NEW w \in Workers, CancelOrder(w) PROVE MoneyInv'
  BY <1>12 DEF CancelOrder
<1>13. ASSUME NEW w \in Workers, ExpireTimedOutOrders(w) PROVE MoneyInv'
  BY <1>13 DEF ExpireTimedOutOrders
<1>14. ASSUME NEW w \in Workers, RetryFulfillment(w) PROVE MoneyInv'
  BY <1>14 DEF RetryFulfillment
<1>15. ASSUME NEW w \in Workers, QueryProvider(w) PROVE MoneyInv'
  BY <1>15 DEF QueryProvider, NotPaid, Cancels
<1>16. ASSUME NEW w \in Workers, ClosePayment(w) PROVE MoneyInv'
  BY <1>16 DEF ClosePayment
<1>17. ASSUME NEW w \in Workers, BackfillTradeNo(w) PROVE MoneyInv'
  BY <1>17 DEF BackfillTradeNo
<1>18. ASSUME NEW w \in Workers, CancelPending(w) PROVE MoneyInv'
  BY <1>18 DEF CancelPending
<1>19. ASSUME NEW w \in Workers, ConfirmPayment(w) PROVE MoneyInv'
  BY <1>19 DEF ConfirmPayment
<1>20. ASSUME NEW w \in Workers, ToPaid(w) PROVE MoneyInv'
  BY <1>20 DEF ToPaid, Payable
<1>21. ASSUME NEW w \in Workers, AlreadyProcessed(w) PROVE MoneyInv'
  BY <1>21 DEF AlreadyProcessed
<1>22. ASSUME NEW w \in Workers, ExecuteFulfillment(w) PROVE MoneyInv'
  BY <1>22 DEF ExecuteFulfillment
<1>23. ASSUME NEW w \in Workers, AcquireLease(w) PROVE MoneyInv'
  BY <1>23 DEF AcquireLease, Claimable
<1>24. ASSUME NEW w \in Workers, LeaseLost(w) PROVE MoneyInv'
  BY <1>24 DEF LeaseLost
<1>25. ASSUME NEW w \in Workers, ReloadLease(w) PROVE MoneyInv'
  BY <1>25 DEF ReloadLease
<1>26. ASSUME NEW w \in Workers, LookupCode(w) PROVE MoneyInv'
  BY <1>26 DEF LookupCode
<1>27. ASSUME NEW w \in Workers, CreateCode(w) PROVE MoneyInv'
  BY <1>27 DEF CreateCode
<1>28. ASSUME NEW w \in Workers, RedeemChecks(w) PROVE MoneyInv'
  BY <1>28 DEF RedeemChecks
<1>29. ASSUME NEW w \in Workers, RedeemTx(w) PROVE MoneyInv'
  BY <1>29 DEF RedeemTx
<1>30. ASSUME NEW w \in Workers, AssignSubscription(w) PROVE MoneyInv'
  BY <1>30 DEF AssignSubscription
<1>31. ASSUME NEW w \in Workers, ApplyAffiliateRebate(w) PROVE MoneyInv'
  BY <1>31 DEF ApplyAffiliateRebate
<1>32. ASSUME NEW w \in Workers, MarkCompleted(w) PROVE MoneyInv'
  BY <1>32 DEF MarkCompleted, HoldsLease
<1>33. ASSUME NEW w \in Workers, CompletionLost(w) PROVE MoneyInv'
  BY <1>33 DEF CompletionLost
<1>34. ASSUME NEW w \in Workers, MarkFailed(w) PROVE MoneyInv'
  BY <1>34 DEF MarkFailed, HoldsLease
<1>35. ASSUME NEW w \in Workers, ErrorReturned(w) PROVE MoneyInv'
  BY <1>35 DEF ErrorReturned
<1>36. ASSUME NEW w \in Workers, ErrorInGrant(w) PROVE MoneyInv'
  BY <1>36 DEF ErrorInGrant
<1>37. ASSUME NEW w \in Workers, Crash(w) PROVE MoneyInv'
  BY <1>37 DEF Crash
<1>38. CASE UNCHANGED vars
  BY <1>38 DEF vars
<1> QED
  BY <1>1, <1>2, <1>3, <1>4, <1>5, <1>6, <1>7, <1>g, <1>8, <1>9, <1>10, <1>11, <1>12, <1>13,
     <1>14, <1>15, <1>16, <1>17, <1>18, <1>19, <1>20, <1>21, <1>22, <1>23, <1>24, <1>25, <1>26,
     <1>27, <1>28, <1>29, <1>30, <1>31, <1>32, <1>33, <1>34, <1>35, <1>36, <1>37, <1>38
  DEF Next, Creation, World, Begin, Run, Break


-----------------------------------------------------------------------------
(* The acknowledgement. *)

\* Nothing is acknowledged at the start.
LEMMA AckInit == Init => AckInv
BY DEF Init, AckInv, AckedIsSettled, AckKnows

\* A handler returns success only for what is settled.
LEMMA AckStep ==
  ASSUME TypeData, GrantInv, AckInv, [Next]_vars
  PROVE  AckInv'
<1> USE FaultsAssumption DEF TypeData, row, columns, effects, outside, ghosts,
      Statuses, Fulfillable, RefundStatuses, AuditActions, Ops, Steps, PlainSteps, GrantSteps,
      Write, At, Goto, Leave, Return, Drop, Start, Fault
<1> USE DEF GrantInv, GrantMarked, StepKnows, CompletedKnown, AckInv, AckedIsSettled, AckKnows, Granted
<1>1. CASE CreatePayment
  BY <1>1 DEF CreatePayment
<1>2. CASE StoreDetails
  BY <1>2 DEF StoreDetails
<1>3. CASE CreateFailed
  BY <1>3 DEF CreateFailed
<1>4. CASE UserPays
  BY <1>4 DEF UserPays
<1>5. CASE WindowPasses
  BY <1>5 DEF WindowPasses
<1>6. CASE RefundWrites
  BY <1>6 DEF RefundWrites
<1>7. CASE AdminChangesCode
  BY <1>7 DEF AdminChangesCode
<1>g. CASE AdminChangesGroup
  BY <1>g DEF AdminChangesGroup
<1>8. ASSUME NEW w \in Workers, StartNotify(w) PROVE AckInv'
  BY <1>8 DEF StartNotify
<1>9. ASSUME NEW w \in Workers, StartBadNotify(w) PROVE AckInv'
  BY <1>9 DEF StartBadNotify
<1>10. ASSUME NEW w \in Workers, VerifyOrderByOutTradeNo(w) PROVE AckInv'
  BY <1>10 DEF VerifyOrderByOutTradeNo
<1>11. ASSUME NEW w \in Workers, ReconcilePendingPaymentOrders(w) PROVE AckInv'
  BY <1>11 DEF ReconcilePendingPaymentOrders
<1>12. ASSUME NEW w \in Workers, CancelOrder(w) PROVE AckInv'
  BY <1>12 DEF CancelOrder
<1>13. ASSUME NEW w \in Workers, ExpireTimedOutOrders(w) PROVE AckInv'
  BY <1>13 DEF ExpireTimedOutOrders
<1>14. ASSUME NEW w \in Workers, RetryFulfillment(w) PROVE AckInv'
  BY <1>14 DEF RetryFulfillment
<1>15. ASSUME NEW w \in Workers, QueryProvider(w) PROVE AckInv'
  BY <1>15 DEF QueryProvider, NotPaid, Cancels
<1>16. ASSUME NEW w \in Workers, ClosePayment(w) PROVE AckInv'
  BY <1>16 DEF ClosePayment
<1>17. ASSUME NEW w \in Workers, BackfillTradeNo(w) PROVE AckInv'
  BY <1>17 DEF BackfillTradeNo
<1>18. ASSUME NEW w \in Workers, CancelPending(w) PROVE AckInv'
  BY <1>18 DEF CancelPending
<1>19. ASSUME NEW w \in Workers, ConfirmPayment(w) PROVE AckInv'
  <2>1. AckedIsSettled'
    <3>1. CASE acked
      BY <1>19, <3>1 DEF ConfirmPayment
    <3>2. CASE ~acked
      BY <1>19, <3>2 DEF ConfirmPayment
    <3> QED
      BY <3>1, <3>2
  <2>2. ASSUME NEW v \in Workers PROVE AckKnows(v)'
    BY <1>19, <2>2 DEF ConfirmPayment
  <2> QED
    BY <2>1, <2>2
<1>20. ASSUME NEW w \in Workers, ToPaid(w) PROVE AckInv'
  BY <1>20 DEF ToPaid, Payable
<1>21. ASSUME NEW w \in Workers, AlreadyProcessed(w) PROVE AckInv'
  BY <1>21 DEF AlreadyProcessed
<1>22. ASSUME NEW w \in Workers, ExecuteFulfillment(w) PROVE AckInv'
  <2>1. AckedIsSettled'
    <3>1. CASE acked
      BY <1>22, <3>1 DEF ExecuteFulfillment
    <3>2. CASE status = "COMPLETED"
      <4>1. grants = 1 /\ grants' = grants
        BY <1>22, <3>2 DEF ExecuteFulfillment
      <4> QED
        BY <4>1
    <3>3. CASE ~acked /\ status # "COMPLETED"
      <4>1. ~acked'
        BY ONLY <1>22, <3>3, Zenon DEF ExecuteFulfillment, Return, Goto, Leave, Fulfillable
      <4> QED
        BY <4>1
    <3> QED
      BY <3>1, <3>2, <3>3
  <2>2. ASSUME NEW v \in Workers PROVE AckKnows(v)'
    BY <1>22, <2>2 DEF ExecuteFulfillment
  <2> QED
    BY <2>1, <2>2
<1>23. ASSUME NEW w \in Workers, AcquireLease(w) PROVE AckInv'
  BY <1>23 DEF AcquireLease, Claimable
<1>24. ASSUME NEW w \in Workers, LeaseLost(w) PROVE AckInv'
  <2>1. AckedIsSettled'
    <3>1. CASE acked
      BY <1>24, <3>1 DEF LeaseLost
    <3>2. CASE status = "COMPLETED"
      <4>1. grants = 1 /\ grants' = grants
        BY <1>24, <3>2 DEF LeaseLost
      <4> QED
        BY <4>1
    <3>3. CASE ~acked /\ status # "COMPLETED"
      <4>1. ~acked'
        BY ONLY <1>24, <3>3, Zenon DEF LeaseLost, Return, Goto, Leave, Fulfillable
      <4> QED
        BY <4>1
    <3> QED
      BY <3>1, <3>2, <3>3
  <2>2. ASSUME NEW v \in Workers PROVE AckKnows(v)'
    BY <1>24, <2>2 DEF LeaseLost
  <2> QED
    BY <2>1, <2>2
<1>25. ASSUME NEW w \in Workers, ReloadLease(w) PROVE AckInv'
  BY <1>25 DEF ReloadLease
<1>26. ASSUME NEW w \in Workers, LookupCode(w) PROVE AckInv'
  BY <1>26 DEF LookupCode
<1>27. ASSUME NEW w \in Workers, CreateCode(w) PROVE AckInv'
  BY <1>27 DEF CreateCode
<1>28. ASSUME NEW w \in Workers, RedeemChecks(w) PROVE AckInv'
  BY <1>28 DEF RedeemChecks
<1>29. ASSUME NEW w \in Workers, RedeemTx(w) PROVE AckInv'
  BY <1>29 DEF RedeemTx
<1>30. ASSUME NEW w \in Workers, AssignSubscription(w) PROVE AckInv'
  BY <1>30 DEF AssignSubscription
<1>31. ASSUME NEW w \in Workers, ApplyAffiliateRebate(w) PROVE AckInv'
  BY <1>31 DEF ApplyAffiliateRebate
<1>32. ASSUME NEW w \in Workers, MarkCompleted(w) PROVE AckInv'
  BY <1>32 DEF MarkCompleted, HoldsLease
<1>33. ASSUME NEW w \in Workers, CompletionLost(w) PROVE AckInv'
  BY <1>33 DEF CompletionLost
<1>34. ASSUME NEW w \in Workers, MarkFailed(w) PROVE AckInv'
  BY <1>34 DEF MarkFailed, HoldsLease
<1>35. ASSUME NEW w \in Workers, ErrorReturned(w) PROVE AckInv'
  BY <1>35 DEF ErrorReturned
<1>36. ASSUME NEW w \in Workers, ErrorInGrant(w) PROVE AckInv'
  BY <1>36 DEF ErrorInGrant
<1>37. ASSUME NEW w \in Workers, Crash(w) PROVE AckInv'
  BY <1>37 DEF Crash
<1>38. CASE UNCHANGED vars
  BY <1>38 DEF vars
<1> QED
  BY <1>1, <1>2, <1>3, <1>4, <1>5, <1>6, <1>7, <1>g, <1>8, <1>9, <1>10, <1>11, <1>12, <1>13,
     <1>14, <1>15, <1>16, <1>17, <1>18, <1>19, <1>20, <1>21, <1>22, <1>23, <1>24, <1>25, <1>26,
     <1>27, <1>28, <1>29, <1>30, <1>31, <1>32, <1>33, <1>34, <1>35, <1>36, <1>37, <1>38
  DEF Next, Creation, World, Begin, Run, Break

-----------------------------------------------------------------------------
(* The theorems. *)

\* The conjunction of the parts is an invariant of the specification.
LEMMA Invariance ==
  ASSUME "delete" \notin CodeAdmin
  PROVE  Spec => []IInv
<1>1. Init => IInv
  BY TypeInit, GrantInit, MoneyInit, AckInit DEF IInv
<1>2. IInv /\ [Next]_vars => IInv'
  BY TypeDataStep, TypeFlagsStep, GrantStep, MoneyStep, AckStep DEF IInv, TypeOK
<1> QED
  BY <1>1, <1>2, PTL DEF Spec

\* For every number of workers, errors and crashes: an order is granted and
\* its rebate accrued at most once, nothing is granted before the provider has
\* the money, and what is COMPLETED or refunded was granted and rebated.
THEOREM FulfillmentIsSafe ==
  ASSUME "delete" \notin CodeAdmin
  PROVE  Spec => [](GrantedAtMostOnce /\ RebatedAtMostOnce /\ GrantedOnlyIfPaid /\ CompletedIsGranted)
<1>1. IInv => GrantedAtMostOnce /\ RebatedAtMostOnce /\ GrantedOnlyIfPaid /\ CompletedIsGranted
  BY DEF IInv, GrantInv, MoneyInv, GrantMarked, RebateMarked, MoneyFirst, CompletedKnown,
         RebateDecided, GrantedAtMostOnce, RebatedAtMostOnce, GrantedOnlyIfPaid,
         CompletedIsGranted, Granted
<1> QED
  BY <1>1, Invariance, PTL

\* The claim in the audit log pays the inviter of an order at most once.
THEOREM RebateIsSafe ==
  ASSUME "delete" \notin CodeAdmin
  PROVE  Spec => []RebatedAtMostOnce
  BY FulfillmentIsSafe, PTL

\* An order is marked completed only after its grant.
THEOREM CompletionIsSafe ==
  ASSUME "delete" \notin CodeAdmin
  PROVE  Spec => []CompletedIsGranted
  BY FulfillmentIsSafe, PTL

\* Nothing is granted for an order that the provider was not paid for.
THEOREM GrantIsPaidFor ==
  ASSUME "delete" \notin CodeAdmin
  PROVE  Spec => []GrantedOnlyIfPaid
  BY FulfillmentIsSafe, PTL

\* The webhook is acknowledged only for an order that was granted, that was
\* paid after the expiry grace, or that a handler failed to read.
THEOREM AcknowledgementIsSafe ==
  ASSUME "delete" \notin CodeAdmin
  PROVE  Spec => []AckedIsSettled
<1>1. IInv => AckedIsSettled
  BY DEF IInv, AckInv
<1> QED
  BY <1>1, Invariance, PTL

-----------------------------------------------------------------------------
(* No handler reopens a closed order. *)

\* No statement of the payment path applies to a closed order.
LEMMA StaysClosed ==
  ASSUME Closed(status), creator' = creator, [Next]_vars
  PROVE  Closed(status')
<1> USE DEF Closed, RefundStatuses, row, columns, effects, outside, ghosts,
      Write, At, Goto, Leave, Return, Drop, Start, Fault
<1>1. CASE CreatePayment
  BY <1>1 DEF CreatePayment
<1>2. CASE StoreDetails
  BY <1>2 DEF StoreDetails
<1>3. CASE CreateFailed
  BY <1>3 DEF CreateFailed
<1>4. CASE UserPays
  BY <1>4 DEF UserPays
<1>5. CASE WindowPasses
  BY <1>5 DEF WindowPasses
<1>6. CASE RefundWrites
  BY <1>6 DEF RefundWrites
<1>7. CASE AdminChangesCode
  BY <1>7 DEF AdminChangesCode
<1>g. CASE AdminChangesGroup
  BY <1>g DEF AdminChangesGroup
<1>8. ASSUME NEW w \in Workers, StartNotify(w) PROVE Closed(status')
  BY <1>8 DEF StartNotify
<1>9. ASSUME NEW w \in Workers, StartBadNotify(w) PROVE Closed(status')
  BY <1>9 DEF StartBadNotify
<1>10. ASSUME NEW w \in Workers, VerifyOrderByOutTradeNo(w) PROVE Closed(status')
  BY <1>10 DEF VerifyOrderByOutTradeNo
<1>11. ASSUME NEW w \in Workers, ReconcilePendingPaymentOrders(w) PROVE Closed(status')
  BY <1>11 DEF ReconcilePendingPaymentOrders
<1>12. ASSUME NEW w \in Workers, CancelOrder(w) PROVE Closed(status')
  BY <1>12 DEF CancelOrder
<1>13. ASSUME NEW w \in Workers, ExpireTimedOutOrders(w) PROVE Closed(status')
  BY <1>13 DEF ExpireTimedOutOrders
<1>14. ASSUME NEW w \in Workers, RetryFulfillment(w) PROVE Closed(status')
  BY <1>14 DEF RetryFulfillment
<1>15. ASSUME NEW w \in Workers, QueryProvider(w) PROVE Closed(status')
  BY <1>15 DEF QueryProvider, NotPaid, Cancels
<1>16. ASSUME NEW w \in Workers, ClosePayment(w) PROVE Closed(status')
  BY <1>16 DEF ClosePayment
<1>17. ASSUME NEW w \in Workers, BackfillTradeNo(w) PROVE Closed(status')
  BY <1>17 DEF BackfillTradeNo
<1>18. ASSUME NEW w \in Workers, CancelPending(w) PROVE Closed(status')
  BY <1>18 DEF CancelPending
<1>19. ASSUME NEW w \in Workers, ConfirmPayment(w) PROVE Closed(status')
  BY <1>19 DEF ConfirmPayment
<1>20. ASSUME NEW w \in Workers, ToPaid(w) PROVE Closed(status')
  BY <1>20 DEF ToPaid, Payable
<1>21. ASSUME NEW w \in Workers, AlreadyProcessed(w) PROVE Closed(status')
  BY <1>21 DEF AlreadyProcessed
<1>22. ASSUME NEW w \in Workers, ExecuteFulfillment(w) PROVE Closed(status')
  BY <1>22 DEF ExecuteFulfillment
<1>23. ASSUME NEW w \in Workers, AcquireLease(w) PROVE Closed(status')
  BY <1>23 DEF AcquireLease, Claimable
<1>24. ASSUME NEW w \in Workers, LeaseLost(w) PROVE Closed(status')
  BY <1>24 DEF LeaseLost
<1>25. ASSUME NEW w \in Workers, ReloadLease(w) PROVE Closed(status')
  BY <1>25 DEF ReloadLease
<1>26. ASSUME NEW w \in Workers, LookupCode(w) PROVE Closed(status')
  BY <1>26 DEF LookupCode
<1>27. ASSUME NEW w \in Workers, CreateCode(w) PROVE Closed(status')
  BY <1>27 DEF CreateCode
<1>28. ASSUME NEW w \in Workers, RedeemChecks(w) PROVE Closed(status')
  BY <1>28 DEF RedeemChecks
<1>29. ASSUME NEW w \in Workers, RedeemTx(w) PROVE Closed(status')
  BY <1>29 DEF RedeemTx
<1>30. ASSUME NEW w \in Workers, AssignSubscription(w) PROVE Closed(status')
  BY <1>30 DEF AssignSubscription
<1>31. ASSUME NEW w \in Workers, ApplyAffiliateRebate(w) PROVE Closed(status')
  BY <1>31 DEF ApplyAffiliateRebate
<1>32. ASSUME NEW w \in Workers, MarkCompleted(w) PROVE Closed(status')
  BY <1>32 DEF MarkCompleted, HoldsLease
<1>33. ASSUME NEW w \in Workers, CompletionLost(w) PROVE Closed(status')
  BY <1>33 DEF CompletionLost
<1>34. ASSUME NEW w \in Workers, MarkFailed(w) PROVE Closed(status')
  BY <1>34 DEF MarkFailed, HoldsLease
<1>35. ASSUME NEW w \in Workers, ErrorReturned(w) PROVE Closed(status')
  BY <1>35 DEF ErrorReturned
<1>36. ASSUME NEW w \in Workers, ErrorInGrant(w) PROVE Closed(status')
  BY <1>36 DEF ErrorInGrant
<1>37. ASSUME NEW w \in Workers, Crash(w) PROVE Closed(status')
  BY <1>37 DEF Crash
<1>38. CASE UNCHANGED vars
  BY <1>38 DEF vars
<1> QED
  BY <1>1, <1>2, <1>3, <1>4, <1>5, <1>6, <1>7, <1>g, <1>8, <1>9, <1>10, <1>11, <1>12, <1>13,
     <1>14, <1>15, <1>16, <1>17, <1>18, <1>19, <1>20, <1>21, <1>22, <1>23, <1>24, <1>25, <1>26,
     <1>27, <1>28, <1>29, <1>30, <1>31, <1>32, <1>33, <1>34, <1>35, <1>36, <1>37, <1>38
  DEF Next, Creation, World, Begin, Run, Break

\* An order that is COMPLETED or in refund is never reopened by a handler of
\* the payment path, whatever lease it holds.
THEOREM OrdersAreNeverReopened == Spec => NeverReopened
<1>1. [Next]_vars => [Closed(status) /\ creator' = creator => Closed(status')]_vars
  BY StaysClosed
<1> QED
  BY <1>1, PTL DEF Spec, NeverReopened

-----------------------------------------------------------------------------
(* The handlers implement the ledger. *)

Simulated == [Ledger!Next]_(Ledger!ledger)

\* Every step is a step of the ledger or leaves it alone.
LEMMA LedgerStep ==
  ASSUME "delete" \notin CodeAdmin, IInv, IInv', [Next]_vars
  PROVE  Simulated
<1> USE DEF Simulated, Ledger!Next, Ledger!ledger, Ledger!Pay, Ledger!Grant, Ledger!DecideRebate, Ledger!Settle,
      Granted, IInv, GrantInv, GrantMarked, RebateMarked, StepKnows, RebateDecided,
      MoneyInv, MoneyFirst, PaidKnown, PaidSteps, GrantSteps,
      TypeOK, TypeData,
      row, columns, effects, outside, ghosts,
      Write, At, Goto, Leave, Return, Drop, Start, Fault
<1>1. CASE CreatePayment
  BY <1>1 DEF CreatePayment
<1>2. CASE StoreDetails
  BY <1>2 DEF StoreDetails
<1>3. CASE CreateFailed
  BY <1>3 DEF CreateFailed
<1>4. CASE UserPays
  BY <1>4 DEF UserPays
<1>5. CASE WindowPasses
  BY <1>5 DEF WindowPasses
<1>6. CASE RefundWrites
  BY <1>6 DEF RefundWrites
<1>7. CASE AdminChangesCode
  BY <1>7 DEF AdminChangesCode
<1>g. CASE AdminChangesGroup
  BY <1>g DEF AdminChangesGroup
<1>8. ASSUME NEW w \in Workers, StartNotify(w) PROVE Simulated
  BY <1>8 DEF StartNotify
<1>9. ASSUME NEW w \in Workers, StartBadNotify(w) PROVE Simulated
  BY <1>9 DEF StartBadNotify
<1>10. ASSUME NEW w \in Workers, VerifyOrderByOutTradeNo(w) PROVE Simulated
  BY <1>10 DEF VerifyOrderByOutTradeNo
<1>11. ASSUME NEW w \in Workers, ReconcilePendingPaymentOrders(w) PROVE Simulated
  BY <1>11 DEF ReconcilePendingPaymentOrders
<1>12. ASSUME NEW w \in Workers, CancelOrder(w) PROVE Simulated
  BY <1>12 DEF CancelOrder
<1>13. ASSUME NEW w \in Workers, ExpireTimedOutOrders(w) PROVE Simulated
  BY <1>13 DEF ExpireTimedOutOrders
<1>14. ASSUME NEW w \in Workers, RetryFulfillment(w) PROVE Simulated
  BY <1>14 DEF RetryFulfillment
<1>15. ASSUME NEW w \in Workers, QueryProvider(w) PROVE Simulated
  BY <1>15 DEF QueryProvider, NotPaid, Cancels
<1>16. ASSUME NEW w \in Workers, ClosePayment(w) PROVE Simulated
  BY <1>16 DEF ClosePayment
<1>17. ASSUME NEW w \in Workers, BackfillTradeNo(w) PROVE Simulated
  BY <1>17 DEF BackfillTradeNo
<1>18. ASSUME NEW w \in Workers, CancelPending(w) PROVE Simulated
  BY <1>18 DEF CancelPending
<1>19. ASSUME NEW w \in Workers, ConfirmPayment(w) PROVE Simulated
  BY <1>19 DEF ConfirmPayment
<1>20. ASSUME NEW w \in Workers, ToPaid(w) PROVE Simulated
  BY <1>20 DEF ToPaid, Payable
<1>21. ASSUME NEW w \in Workers, AlreadyProcessed(w) PROVE Simulated
  BY <1>21 DEF AlreadyProcessed
<1>22. ASSUME NEW w \in Workers, ExecuteFulfillment(w) PROVE Simulated
  BY <1>22 DEF ExecuteFulfillment
<1>23. ASSUME NEW w \in Workers, AcquireLease(w) PROVE Simulated
  BY <1>23 DEF AcquireLease, Claimable
<1>24. ASSUME NEW w \in Workers, LeaseLost(w) PROVE Simulated
  BY <1>24 DEF LeaseLost
<1>25. ASSUME NEW w \in Workers, ReloadLease(w) PROVE Simulated
  BY <1>25 DEF ReloadLease
<1>26. ASSUME NEW w \in Workers, LookupCode(w) PROVE Simulated
  BY <1>26 DEF LookupCode
<1>27. ASSUME NEW w \in Workers, CreateCode(w) PROVE Simulated
  BY <1>27 DEF CreateCode
<1>28. ASSUME NEW w \in Workers, RedeemChecks(w) PROVE Simulated
  BY <1>28 DEF RedeemChecks
<1>29. ASSUME NEW w \in Workers, RedeemTx(w) PROVE Simulated
  BY <1>29 DEF RedeemTx
<1>30. ASSUME NEW w \in Workers, AssignSubscription(w) PROVE Simulated
  BY <1>30 DEF AssignSubscription
<1>31. ASSUME NEW w \in Workers, ApplyAffiliateRebate(w) PROVE Simulated
  BY <1>31 DEF ApplyAffiliateRebate
<1>32. ASSUME NEW w \in Workers, MarkCompleted(w) PROVE Simulated
  <2>1. UNCHANGED <<provider, grants, audit>>
    BY <1>32 DEF MarkCompleted
  <2>2. CASE ~HoldsLease(w)
    <3>1. UNCHANGED completedAt
      BY <1>32, <2>2 DEF MarkCompleted
    <3> QED
      BY <2>1, <3>1
  <2>3. CASE HoldsLease(w)
    <3>1. completedAt' = TRUE /\ grants = 1 /\ RebateDecided
      BY <1>32, <2>3 DEF MarkCompleted
    <3>2. CASE completedAt
      <4>1. completedAt = TRUE
        BY <3>2, Zenon DEF TypeFlags
      <4> QED
        BY <2>1, <3>1, <4>1
    <3>3. CASE ~completedAt
      <4>1. Ledger!Settle
        BY <2>1, <3>1, <3>3
      <4> QED
        BY <4>1
    <3> QED
      BY <3>2, <3>3
  <2> QED
    BY <2>2, <2>3
<1>33. ASSUME NEW w \in Workers, CompletionLost(w) PROVE Simulated
  BY <1>33 DEF CompletionLost
<1>34. ASSUME NEW w \in Workers, MarkFailed(w) PROVE Simulated
  BY <1>34 DEF MarkFailed, HoldsLease
<1>35. ASSUME NEW w \in Workers, ErrorReturned(w) PROVE Simulated
  BY <1>35 DEF ErrorReturned
<1>36. ASSUME NEW w \in Workers, ErrorInGrant(w) PROVE Simulated
  BY <1>36 DEF ErrorInGrant
<1>37. ASSUME NEW w \in Workers, Crash(w) PROVE Simulated
  BY <1>37 DEF Crash
<1>38. CASE UNCHANGED vars
  BY <1>38 DEF vars
<1> QED
  BY <1>1, <1>2, <1>3, <1>4, <1>5, <1>6, <1>7, <1>g, <1>8, <1>9, <1>10, <1>11, <1>12, <1>13,
     <1>14, <1>15, <1>16, <1>17, <1>18, <1>19, <1>20, <1>21, <1>22, <1>23, <1>24, <1>25, <1>26,
     <1>27, <1>28, <1>29, <1>30, <1>31, <1>32, <1>33, <1>34, <1>35, <1>36, <1>37, <1>38
  DEF Next, Creation, World, Begin, Run, Break

\* The initial states are initial states of the ledger.
LEMMA LedgerInit == Init => Ledger!Init
BY DEF Init, Ledger!Init, Granted

\* Every behaviour of the handlers is one of the ledger: the order is paid,
\* granted, rebated and settled once each, in that order.
THEOREM FulfillmentImplementsLedger ==
  ASSUME "delete" \notin CodeAdmin
  PROVE  Spec => ImplementsLedger
<1>1. IInv /\ IInv' /\ [Next]_vars => [Ledger!Next]_(Ledger!ledger)
  BY LedgerStep DEF Simulated
<1> QED
  BY <1>1, LedgerInit, Invariance, PTL DEF Spec, ImplementsLedger, Ledger!Spec
=============================================================================
