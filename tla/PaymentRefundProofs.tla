------------------------ MODULE PaymentRefundProofs ------------------------
(***************************************************************************)
(* Proofs about PaymentRefund, for any admins, amounts and number of       *)
(* failures.  What the properties rest on is where the money of a          *)
(* deduction is: in the hands of the request that made it (Placed), until  *)
(* the refund is paid out, or left behind for good (stuck), or released by *)
(* a late finalization that opens the order again (reopened).  The         *)
(* requests are added up by a function over sets of them (AddsUp), which   *)
(* every step changes for at most one request.                             *)
(***************************************************************************)
EXTENDS PaymentRefund, TLAPS

-----------------------------------------------------------------------------
(* The inductive invariant. *)

\* What a request took off the balance and can still give back.
Placed(w) == IF pc[w] \in {"gateway", "pending", "gwFail", "ok"} THEN plan[w].deduct ELSE 0

\* G adds up f over sets of requests.
AddsUp(G, f) ==
  /\ G \in [SUBSET Admins -> Nat]
  /\ \A s \in SUBSET Admins : (\A w \in s : f[w] = 0) => G[s] = 0
  /\ \A s \in SUBSET Admins : \A w \in s : G[s] = G[s \ {w}] + f[w]

InPlace == [w \in Admins |-> Placed(w)]

\* What the requests have in place was taken before.
Covers == \E G : AddsUp(G, InPlace) /\ G[Admins] <= taken

\* What the steps know of the gateway's refund.
Paid(a) == a > 0 /\ gateway[a] = "success"

OkKnown == \A w \in Admins : pc[w] = "ok" => ~tradeNo \/ Paid(plan[w].amount)

FinalKnown ==
  \A w \in Admins : pc[w] = "final" => Paid(plan[w].amount) \/ Paid(pendingRow.id)

AmountsKnown ==
  /\ \A w \in Admins : pc[w] # "idle" => plan[w].amount \in Amounts
  /\ status = "REFUND_PENDING" => refundAmount \in Amounts
  /\ pendingRow.id \in Amounts \cup {0}
  /\ "REFUND_PENDING" \notin audit => pendingRow.id = 0

QueryKnown ==
  /\ \A w \in Admins : pc[w] \in FinalizeSteps => SupportsQuery
  /\ reopened => SupportsQuery

PaidOut == AmountsKnown /\ OkKnown /\ FinalKnown /\ QueryKnown /\ RefundedIsPaidOut

\* One request at a time works on the refund, unless a late finalization
\* reopened the order; until then the order owes what that request has taken.
Exclusive == reopened \/ RefundIsExclusive

Owed ==
  /\ \A w \in Admins : InProgress(w) => taken = Placed(w)
  /\ status \in Refundable => taken = 0
  /\ taken <= Amount

OwedUnlessStuck == stuck \/ reopened \/ Owed

\* Where the audit row of a failed rollback is always written and read, it
\* stands for the deduction that was left behind.
RolledBackInVain == "REFUND_ROLLBACK_FAILED" \in audit

OwedOrLogged ==
  /\ \A w \in Admins : InProgress(w) =>
       IF RolledBackInVain THEN Placed(w) = 0 ELSE taken = Placed(w)
  /\ status \in Refundable => RolledBackInVain \/ taken = 0
  /\ taken <= Amount

-----------------------------------------------------------------------------
(* Operators. *)

\* DeductAvailableBalance takes no more than asked for, and no more than there is.
LEMMA AvailableBounds ==
  ASSUME NEW amount \in Nat, balance \in Int
  PROVE  /\ Available(amount) \in 0..amount
         /\ Available(amount) > 0 => Available(amount) <= balance
<1> DEFINE m == Max({balance, 0})
<1>1. m \in {balance, 0} /\ m >= balance /\ m >= 0
  <2>1. \E x \in {balance, 0} : \A y \in {balance, 0} : x >= y
    <3>1. CASE balance >= 0
      BY <3>1
    <3>2. CASE balance < 0
      BY <3>2
    <3> QED
      BY <3>1, <3>2
  <2> QED
    BY <2>1 DEF Max
<1> HIDE DEF m
<1>2. m \in Nat
  BY <1>1
<1>3. Min({amount, m}) \in {amount, m} /\ Min({amount, m}) <= amount /\ Min({amount, m}) <= m
  <2>1. \E x \in {amount, m} : \A y \in {amount, m} : x =< y
    <3>1. CASE amount <= m
      BY <1>2, <3>1
    <3>2. CASE amount > m
      BY <1>2, <3>2
    <3> QED
      BY <1>2, <3>1, <3>2
  <2> QED
    BY <2>1 DEF Min
<1>4. Available(amount) = Min({amount, m})
  BY DEF Available, m
<1> QED
  BY <1>1, <1>2, <1>3, <1>4

\* A change at one request changes the sum by the same.
LEMMA AddsUpChange ==
  ASSUME NEW f \in [Admins -> Nat], NEW g \in [Admins -> Nat], NEW w \in Admins,
         \A v \in Admins \ {w} : g[v] = f[v],
         NEW G, AddsUp(G, f)
  PROVE  \E H : /\ AddsUp(H, g) /\ H[Admins] = G[Admins] - f[w] + g[w]
                /\ f[w] <= G[Admins] /\ H[Admins] \in Nat
<1> DEFINE H == [s \in SUBSET Admins |-> IF w \in s THEN G[s \ {w}] + g[w] ELSE G[s]]
<1>1. H \in [SUBSET Admins -> Nat]
  BY DEF AddsUp
<1>2. ASSUME NEW s \in SUBSET Admins, \A v \in s : g[v] = 0 PROVE H[s] = 0
  <2>1. CASE w \in s
    <3>1. G[s \ {w}] = 0
      BY <1>2 DEF AddsUp
    <3> QED
      BY <1>2, <2>1, <3>1
  <2>2. CASE w \notin s
    <3>1. G[s] = 0
      BY <1>2, <2>2 DEF AddsUp
    <3> QED
      BY <2>2, <3>1
  <2> QED
    BY <2>1, <2>2
<1>3. ASSUME NEW s \in SUBSET Admins, NEW v \in s PROVE H[s] = H[s \ {v}] + g[v]
  <2>1. s \ {v} \in SUBSET Admins /\ s \ {w} \in SUBSET Admins
    OBVIOUS
  <2>2. CASE v = w
    BY <2>1, <2>2
  <2>3. CASE v # w /\ w \notin s
    <3>1. w \notin s \ {v} /\ g[v] = f[v] /\ G[s] = G[s \ {v}] + f[v]
      BY <2>3 DEF AddsUp
    <3> QED
      BY <2>1, <2>3, <3>1
  <2>4. CASE v # w /\ w \in s
    <3>1. w \in s \ {v} /\ v \in s \ {w} /\ g[v] = f[v] /\ (s \ {w}) \ {v} = (s \ {v}) \ {w}
      BY <2>4
    <3>2. G[s \ {w}] = G[(s \ {w}) \ {v}] + f[v]
      BY <2>1, <3>1 DEF AddsUp
    <3>3. G[(s \ {w}) \ {v}] \in Nat /\ f[v] \in Nat
      BY <3>1 DEF AddsUp
    <3>4. H[s] = G[s \ {w}] + g[w] /\ H[s \ {v}] = G[(s \ {v}) \ {w}] + g[w]
      BY <2>1, <2>4, <3>1
    <3>5. G[(s \ {v}) \ {w}] = G[(s \ {w}) \ {v}] /\ g[v] = f[v]
      BY <3>1
    <3> HIDE DEF H
    <3> QED
      BY <3>2, <3>3, <3>4, <3>5
  <2> QED
    BY <2>2, <2>3, <2>4
<1>4. AddsUp(H, g)
  BY <1>1, <1>2, <1>3 DEF AddsUp
<1>5. G[Admins] = G[Admins \ {w}] + f[w] /\ G[Admins \ {w}] \in Nat
  BY DEF AddsUp
<1>6. H[Admins] = G[Admins \ {w}] + g[w]
  OBVIOUS
<1> HIDE DEF H
<1> QED
  BY <1>4, <1>5, <1>6

-----------------------------------------------------------------------------
(* Types. *)

\* The type invariant in parts.
TypeOrder ==
  /\ status \in Statuses /\ refundAmount \in 0..Amount
  /\ audit \subseteq AuditActions
  /\ pendingRow \in [rollbackOK : BOOLEAN, id : 0..Amount]
TypeMoney ==
  /\ balance \in Int /\ taken \in Int
  /\ stuck \in BOOLEAN /\ reopened \in BOOLEAN /\ tradeNo \in BOOLEAN
  /\ gateway \in [1..Amount -> {"none", "pending", "success", "failed"}]
TypeRequests ==
  /\ pc \in [Admins -> Steps]
  /\ plan \in [Admins -> [from : Refundable, amount : 0..Amount, deduct : 0..Amount]]
  /\ rolledBack \in [Admins -> BOOLEAN]
TypeCounts == attempts \in 0..MaxAttempts /\ faults \in 0..MaxFaults

LEMMA TypeParts == TypeOK <=> TypeOrder /\ TypeMoney /\ TypeRequests /\ TypeCounts
  BY DEF TypeOK, TypeOrder, TypeMoney, TypeRequests, TypeCounts

LEMMA StepTypes ==
  ASSUME TypeOK
  PROVE  /\ \A w \in Admins : /\ pc[w] \in Steps /\ rolledBack[w] \in BOOLEAN
                              /\ plan[w] \in [from : Refundable, amount : 0..Amount, deduct : 0..Amount]
                              /\ plan[w].amount \in 0..Amount /\ plan[w].deduct \in 0..Amount
                              /\ plan[w].from \in Refundable
                              /\ plan[w].deduct \in Nat
         /\ NoPlan \in [from : Refundable, amount : 0..Amount, deduct : 0..Amount]
         /\ 0..Amount \subseteq Nat
  BY AmountAssumption DEF TypeOK, NoPlan, Refundable

LEMMA FinalStatusType == \A amount : FinalStatus(amount) \in Done
  BY DEF FinalStatus, Done

LEMMA InitType == Init => TypeOK
<1> SUFFICES ASSUME Init PROVE TypeOK
  OBVIOUS
<1>1. TypeOrder
  BY AmountAssumption DEF Init, TypeOrder, Statuses, Refundable, NoRow
<1>2. TypeMoney
  <2>1. \A b \in 0..MaxBalance : b \in Int
    BY BoundsAssumption
  <2>2. stuck \in BOOLEAN /\ reopened \in BOOLEAN /\ tradeNo \in BOOLEAN
    BY Zenon DEF Init
  <2>3. balance \in Int /\ taken \in Int /\ gateway \in [1..Amount -> {"none", "pending", "success", "failed"}]
    BY <2>1 DEF Init
  <2> QED
    BY <2>2, <2>3 DEF TypeMoney
<1>3. TypeRequests
  BY AmountAssumption DEF Init, TypeRequests, Steps, NoPlan, Refundable
<1>4. TypeCounts
  BY BoundsAssumption DEF Init, TypeCounts
<1> QED
  BY <1>1, <1>2, <1>3, <1>4, TypeParts

\* A step fails or works within the bound.
LEMMA FaultTypes ==
  ASSUME faults \in 0..MaxFaults, Works \/ \E kind : Fails(kind)
  PROVE  faults' \in 0..MaxFaults
  BY BoundsAssumption DEF Works, Fails

LEMMA GotoTypes ==
  ASSUME TypeRequests, TypeCounts, NEW w \in Admins, NEW step \in Steps, Goto(w, step)
  PROVE  TypeRequests' /\ attempts' = attempts
  BY DEF TypeRequests, Goto

LEMMA ReturnTypes ==
  ASSUME TypeOK, NEW w \in Admins, Return(w)
  PROVE  TypeRequests' /\ attempts' = attempts
  BY TypeParts, StepTypes DEF TypeRequests, Return, Steps

LEMMA TypeStep == TypeOK /\ [Next]_vars => TypeOK'
<1> SUFFICES ASSUME TypeOK, [Next]_vars PROVE TypeOK'
  OBVIOUS
<1> USE TypeParts
<1>t. TypeOrder /\ TypeMoney /\ TypeRequests /\ TypeCounts
  OBVIOUS
<1>1. CASE RequestRefund
  <2>1. TypeOrder'
    BY <1>1, <1>t, AmountAssumption DEF RequestRefund, TypeOrder, Statuses, Refundable, Done, AuditActions,
       order, logs
  <2>2. TypeMoney'
    BY <1>1, <1>t DEF RequestRefund, TypeMoney, user, provider
  <2>3. TypeRequests'
    BY <1>1, <1>t DEF RequestRefund, TypeRequests, Steps, ExecuteSteps, FinalizeSteps, request
  <2>4. TypeCounts'
    BY <1>1, <1>t DEF RequestRefund, TypeCounts, request
  <2> QED
    BY <2>1, <2>2, <2>3, <2>4 DEF TypeOK, TypeOrder, TypeMoney, TypeRequests, TypeCounts
<1>2. CASE UserSpends
  <2>1. TypeOrder'
    BY <1>2, <1>t DEF UserSpends, TypeOrder, Statuses, Refundable, Done, AuditActions, order, logs
  <2>2. TypeMoney'
    BY <1>2, <1>t, BoundsAssumption DEF UserSpends, TypeMoney, user, provider
  <2>3. TypeRequests'
    BY <1>2, <1>t DEF UserSpends, TypeRequests, Steps, ExecuteSteps, FinalizeSteps, request
  <2>4. TypeCounts'
    BY <1>2, <1>t DEF UserSpends, TypeCounts, request
  <2> QED
    BY <2>1, <2>2, <2>3, <2>4 DEF TypeOK, TypeOrder, TypeMoney, TypeRequests, TypeCounts
<1>3. CASE GatewayDecides
  <2>1. TypeOrder'
    BY <1>3, <1>t DEF GatewayDecides, TypeOrder, Statuses, Refundable, Done, AuditActions, order, logs
  <2>2. TypeMoney'
    BY <1>3, <1>t DEF GatewayDecides, TypeMoney, user, provider
  <2>3. TypeRequests'
    BY <1>3, <1>t DEF GatewayDecides, TypeRequests, Steps, ExecuteSteps, FinalizeSteps, request
  <2>4. TypeCounts'
    BY <1>3, <1>t DEF GatewayDecides, TypeCounts, request
  <2> QED
    BY <2>1, <2>2, <2>3, <2>4 DEF TypeOK, TypeOrder, TypeMoney, TypeRequests, TypeCounts
<1>4. ASSUME NEW w \in Admins, NEW amount \in Amounts, NEW force \in BOOLEAN, NEW deduct \in BOOLEAN,
             PrepareRefund(w, amount, force, deduct)
      PROVE  TypeOK'
  <2>1. TypeOrder'
    BY <1>4, <1>t DEF PrepareRefund, TypeOrder, Statuses, Refundable, Done, AuditActions, order, logs
  <2>2. TypeMoney'
    BY <1>4, <1>t DEF PrepareRefund, TypeMoney, user, provider
  <2>3. TypeRequests'
    <3>1. amount \in 0..Amount /\ amount \in Nat
      BY AmountAssumption
    <3>2. Available(amount) \in 0..Amount /\ 0 \in 0..Amount
      BY <1>t, <3>1, AvailableBounds, AmountAssumption DEF TypeMoney
    <3>3. [from |-> status, amount |-> amount, deduct |-> IF deduct THEN Available(amount) ELSE 0]
            \in [from : Refundable, amount : 0..Amount, deduct : 0..Amount]
      BY <1>4, <3>1, <3>2 DEF PrepareRefund
    <3> QED
      BY <1>4, <1>t, <3>3 DEF PrepareRefund, TypeRequests, Steps
  <2>4. TypeCounts'
    BY <1>4, <1>t, BoundsAssumption DEF PrepareRefund, TypeCounts, request
  <2> QED
    BY <2>1, <2>2, <2>3, <2>4 DEF TypeOK, TypeOrder, TypeMoney, TypeRequests, TypeCounts
<1>5. ASSUME NEW w \in Admins, ClaimRefund(w) PROVE TypeOK'
  <2>1. TypeOrder'
    BY <1>5, <1>t DEF ClaimRefund, TypeOrder, Statuses, Refundable, Done, AuditActions, order, logs
  <2>2. TypeMoney'
    BY <1>5, <1>t DEF ClaimRefund, TypeMoney, user, provider
  <2>3. TypeRequests'
    BY <1>5, <1>t, ReturnTypes, GotoTypes DEF ClaimRefund, TypeRequests, Steps, ExecuteSteps, FinalizeSteps,
       request
  <2>4. TypeCounts'
    BY <1>5, <1>t, ReturnTypes, GotoTypes, FaultTypes DEF ClaimRefund, TypeCounts, request, Goto, Return
  <2> QED
    BY <2>1, <2>2, <2>3, <2>4 DEF TypeOK, TypeOrder, TypeMoney, TypeRequests, TypeCounts
<1>6. ASSUME NEW w \in Admins, DeductForRefund(w) PROVE TypeOK'
  <2>1. TypeOrder'
    BY <1>6, <1>t DEF DeductForRefund, Take, TypeOrder, Statuses, Refundable, Done, AuditActions, order, logs
  <2>2. TypeMoney'
    <3>1. plan[w].deduct \in Nat /\ balance \in Int /\ taken \in Int
      BY <1>t, StepTypes DEF TypeMoney
    <3>2. Available(plan[w].deduct) \in Int
      BY <3>1, AvailableBounds
    <3>3. stuck' \in BOOLEAN /\ reopened' = reopened /\ tradeNo' = tradeNo
      BY <1>6, <1>t, Zenon DEF DeductForRefund, Take, TypeMoney, user, provider
    <3>4. balance' \in Int /\ taken' \in Int /\ gateway' = gateway
      BY <1>6, <3>1, <3>2 DEF DeductForRefund, Take, user, provider
    <3> QED
      BY <1>t, <3>3, <3>4 DEF TypeMoney
  <2>3. TypeRequests'
    <3>1. CASE Goto(w, "restore")
      BY <3>1, <1>t, GotoTypes DEF Steps, ExecuteSteps
    <3>2. ASSUME NEW d \in 0..plan[w].deduct, plan' = [plan EXCEPT ![w].deduct = d],
                 pc' = [pc EXCEPT ![w] = "gateway"], UNCHANGED rolledBack
          PROVE  TypeRequests'
      <4>1. [plan[w] EXCEPT !.deduct = d] \in [from : Refundable, amount : 0..Amount, deduct : 0..Amount]
        BY StepTypes, AmountAssumption
      <4> QED
        BY <1>t, <3>2, <4>1 DEF TypeRequests, Steps, ExecuteSteps
    <3>3. Available(plan[w].deduct) \in 0..plan[w].deduct /\ 0 \in 0..plan[w].deduct
      <4>1. plan[w].deduct \in Nat /\ balance \in Int
        BY <1>t, StepTypes DEF TypeMoney
      <4>2. Available(plan[w].deduct) \in 0..plan[w].deduct
        BY <4>1, AvailableBounds
      <4> QED
        BY <4>1, <4>2
    <3> QED
      BY <1>6, <3>1, <3>2, <3>3 DEF DeductForRefund
  <2>4. TypeCounts'
    BY <1>6, <1>t, GotoTypes, FaultTypes DEF DeductForRefund, Take, TypeCounts, request, Goto, Return
  <2> QED
    BY <2>1, <2>2, <2>3, <2>4 DEF TypeOK, TypeOrder, TypeMoney, TypeRequests, TypeCounts
<1>7. ASSUME NEW w \in Admins, RestoreStatus(w) PROVE TypeOK'
  <2>1. TypeOrder'
    BY <1>7, <1>t DEF RestoreStatus, SetStatus, TypeOrder, Statuses, Refundable, Done, AuditActions, order,
       logs
  <2>2. TypeMoney'
    BY <1>7, <1>t DEF RestoreStatus, SetStatus, TypeMoney, user, provider
  <2>3. TypeRequests'
    BY <1>7, <1>t, ReturnTypes DEF RestoreStatus, SetStatus, TypeRequests, Steps, ExecuteSteps,
       FinalizeSteps, request
  <2>4. TypeCounts'
    BY <1>7, <1>t, ReturnTypes, FaultTypes DEF RestoreStatus, SetStatus, TypeCounts, request, Goto, Return
  <2> QED
    BY <2>1, <2>2, <2>3, <2>4 DEF TypeOK, TypeOrder, TypeMoney, TypeRequests, TypeCounts
<1>8. ASSUME NEW w \in Admins, GatewayRefund(w) PROVE TypeOK'
  <2>1. TypeOrder'
    BY <1>8, <1>t DEF GatewayRefund, AskGateway, SkipGateway, TypeOrder, Statuses, Refundable, Done,
          AuditActions, order, logs
  <2>2. TypeMoney'
    BY <1>8, <1>t DEF GatewayRefund, AskGateway, SkipGateway, TypeMoney, user, provider
  <2>3. TypeRequests'
    BY <1>8, <1>t, GotoTypes DEF GatewayRefund, AskGateway, SkipGateway, TypeRequests, Steps, ExecuteSteps,
          FinalizeSteps, request
  <2>4. TypeCounts'
    BY <1>8, <1>t, GotoTypes, FaultTypes DEF GatewayRefund, AskGateway, SkipGateway, TypeCounts, request,
          Goto, Return
  <2> QED
    BY <2>1, <2>2, <2>3, <2>4 DEF TypeOK, TypeOrder, TypeMoney, TypeRequests, TypeCounts
<1>9. ASSUME NEW w \in Admins, MarkRefundOk(w) PROVE TypeOK'
  <2>1. TypeOrder'
    BY <1>9, <1>t, StepTypes, FinalStatusType DEF MarkRefundOk, WriteAudit, TypeOrder, Statuses, Refundable,
       Done, AuditActions, order, logs, Done
  <2>2. TypeMoney'
    BY <1>9, <1>t DEF MarkRefundOk, WriteAudit, TypeMoney, user, provider
  <2>3. TypeRequests'
    BY <1>9, <1>t, ReturnTypes DEF MarkRefundOk, WriteAudit, TypeRequests, Steps, ExecuteSteps,
       FinalizeSteps, request
  <2>4. TypeCounts'
    BY <1>9, <1>t, ReturnTypes, FaultTypes DEF MarkRefundOk, WriteAudit, TypeCounts, request, Goto, Return
  <2> QED
    BY <2>1, <2>2, <2>3, <2>4 DEF TypeOK, TypeOrder, TypeMoney, TypeRequests, TypeCounts
<1>10. ASSUME NEW w \in Admins, RollbackPending(w) PROVE TypeOK'
  <2>1. TypeOrder'
    BY <1>10, <1>t DEF RollbackPending, RollbackRefund, GiveBack, TypeOrder, Statuses, Refundable, Done,
          AuditActions,
       order, logs
  <2>2. TypeMoney'
    <3>1. plan[w].deduct \in Nat /\ balance \in Int /\ taken \in Int
      BY <1>t, StepTypes DEF TypeMoney
    <3>2. stuck' \in BOOLEAN /\ reopened' = reopened /\ tradeNo' = tradeNo
      BY <1>10, <1>t, Zenon DEF RollbackPending, RollbackRefund, GiveBack, TypeMoney, provider
    <3>3. balance' \in Int /\ taken' \in Int /\ gateway' = gateway
      BY <1>10, <3>1 DEF RollbackPending, RollbackRefund, GiveBack, provider
    <3> QED
      BY <1>t, <3>2, <3>3 DEF TypeMoney
  <2>3. TypeRequests'
    BY <1>10, <1>t DEF RollbackPending, RollbackRefund, GiveBack, TypeRequests, Steps, ExecuteSteps, FinalizeSteps,
       request
  <2>4. TypeCounts'
    BY <1>10, <1>t, FaultTypes DEF RollbackPending, RollbackRefund, GiveBack, TypeCounts, request, Goto, Return
  <2> QED
    BY <2>1, <2>2, <2>3, <2>4 DEF TypeOK, TypeOrder, TypeMoney, TypeRequests, TypeCounts
<1>11. ASSUME NEW w \in Admins, RollbackFailed(w) PROVE TypeOK'
  <2>1. TypeOrder'
    BY <1>11, <1>t DEF RollbackFailed, RollbackRefund, GiveBack, TypeOrder, Statuses, Refundable, Done,
          AuditActions,
       order, logs
  <2>2. TypeMoney'
    <3>1. plan[w].deduct \in Nat /\ balance \in Int /\ taken \in Int
      BY <1>t, StepTypes DEF TypeMoney
    <3>2. stuck' \in BOOLEAN /\ reopened' = reopened /\ tradeNo' = tradeNo
      BY <1>11, <1>t, Zenon DEF RollbackFailed, RollbackRefund, GiveBack, TypeMoney, provider
    <3>3. balance' \in Int /\ taken' \in Int /\ gateway' = gateway
      BY <1>11, <3>1 DEF RollbackFailed, RollbackRefund, GiveBack, provider
    <3> QED
      BY <1>t, <3>2, <3>3 DEF TypeMoney
  <2>3. TypeRequests'
    BY <1>11, <1>t DEF RollbackFailed, RollbackRefund, GiveBack, TypeRequests, Steps, ExecuteSteps, FinalizeSteps,
       request
  <2>4. TypeCounts'
    BY <1>11, <1>t, FaultTypes DEF RollbackFailed, RollbackRefund, GiveBack, TypeCounts, request, Goto, Return
  <2> QED
    BY <2>1, <2>2, <2>3, <2>4 DEF TypeOK, TypeOrder, TypeMoney, TypeRequests, TypeCounts
<1>12. ASSUME NEW w \in Admins, MarkRefundPending(w) PROVE TypeOK'
  <2>1. TypeOrder'
    <3>1. plan[w].amount \in 0..Amount /\ rolledBack[w] \in BOOLEAN
      BY StepTypes
    <3>2. [rollbackOK |-> rolledBack[w], id |-> plan[w].amount] \in [rollbackOK : BOOLEAN, id : 0..Amount]
      BY <3>1
    <3> QED
      BY <1>12, <1>t, <3>1, <3>2 DEF MarkRefundPending, WriteAudit, TypeOrder, Statuses, Refundable,
         AuditActions, order, logs
  <2>2. TypeMoney'
    BY <1>12, <1>t DEF MarkRefundPending, WriteAudit, TypeMoney, user, provider
  <2>3. TypeRequests'
    BY <1>12, <1>t, ReturnTypes DEF MarkRefundPending, WriteAudit, TypeRequests, Steps, ExecuteSteps,
       FinalizeSteps, request
  <2>4. TypeCounts'
    BY <1>12, <1>t, ReturnTypes, FaultTypes DEF MarkRefundPending, WriteAudit, TypeCounts, request, Goto,
       Return
  <2> QED
    BY <2>1, <2>2, <2>3, <2>4 DEF TypeOK, TypeOrder, TypeMoney, TypeRequests, TypeCounts
<1>13. ASSUME NEW w \in Admins, MarkRefundFailed(w) PROVE TypeOK'
  <2>1. TypeOrder'
    BY <1>13, <1>t DEF MarkRefundFailed, SetStatus, TypeOrder, Statuses, Refundable, Done, AuditActions,
       order, logs
  <2>2. TypeMoney'
    BY <1>13, <1>t DEF MarkRefundFailed, SetStatus, TypeMoney, user, provider
  <2>3. TypeRequests'
    BY <1>13, <1>t, ReturnTypes DEF MarkRefundFailed, SetStatus, TypeRequests, Steps, ExecuteSteps,
       FinalizeSteps, request
  <2>4. TypeCounts'
    BY <1>13, <1>t, ReturnTypes, FaultTypes DEF MarkRefundFailed, SetStatus, TypeCounts, request, Goto, Return
  <2> QED
    BY <2>1, <2>2, <2>3, <2>4 DEF TypeOK, TypeOrder, TypeMoney, TypeRequests, TypeCounts
<1>14. ASSUME NEW w \in Admins, QueryAndFinalizeRefund(w) PROVE TypeOK'
  <2>1. TypeOrder'
    BY <1>14, <1>t DEF QueryAndFinalizeRefund, TypeOrder, Statuses, Refundable, Done, AuditActions, order,
       logs
  <2>2. TypeMoney'
    BY <1>14, <1>t DEF QueryAndFinalizeRefund, TypeMoney, user, provider
  <2>3. TypeRequests'
    <3>1. [from |-> status, amount |-> refundAmount, deduct |-> 0]
            \in [from : Refundable, amount : 0..Amount, deduct : 0..Amount]
      BY <1>14, <1>t, AmountAssumption DEF QueryAndFinalizeRefund, TypeOrder, Refundable
    <3> QED
      BY <1>14, <1>t, <3>1 DEF QueryAndFinalizeRefund, TypeRequests, Steps, FinalizeSteps
  <2>4. TypeCounts'
    BY <1>14, <1>t, FaultTypes DEF QueryAndFinalizeRefund, TypeCounts, request, Goto, Return
  <2> QED
    BY <2>1, <2>2, <2>3, <2>4 DEF TypeOK, TypeOrder, TypeMoney, TypeRequests, TypeCounts
<1>15. ASSUME NEW w \in Admins, QueryGateway(w) PROVE TypeOK'
  <2>1. TypeOrder'
    BY <1>15, <1>t DEF QueryGateway, PendingDetail, TypeOrder, Statuses, Refundable, Done, AuditActions,
       order, logs
  <2>2. TypeMoney'
    BY <1>15, <1>t DEF QueryGateway, PendingDetail, TypeMoney, user, provider
  <2>3. TypeRequests'
    <3>1. CASE Goto(w, "finalFail")
      BY <3>1, <1>t, GotoTypes DEF Steps, FinalizeSteps
    <3>2. CASE Return(w)
      BY <3>2, ReturnTypes
    <3>3. ASSUME NEW d \in 0..Amount, plan' = [plan EXCEPT ![w].deduct = d],
                 pc' = [pc EXCEPT ![w] = "final"], UNCHANGED rolledBack
          PROVE  TypeRequests'
      <4>1. [plan[w] EXCEPT !.deduct = d] \in [from : Refundable, amount : 0..Amount, deduct : 0..Amount]
        BY StepTypes, AmountAssumption
      <4> QED
        BY <1>t, <3>3, <4>1 DEF TypeRequests, Steps, FinalizeSteps
    <3>4. plan[w].amount \in 0..Amount /\ 0 \in 0..Amount
      BY StepTypes, AmountAssumption
    <3> QED
      BY <1>15, <3>1, <3>2, <3>3, <3>4 DEF QueryGateway
  <2>4. TypeCounts'
    BY <1>15, <1>t, FaultTypes DEF QueryGateway, PendingDetail, TypeCounts, request, PendingDetail, Goto,
       Return
  <2> QED
    BY <2>1, <2>2, <2>3, <2>4 DEF TypeOK, TypeOrder, TypeMoney, TypeRequests, TypeCounts
<1>16. ASSUME NEW w \in Admins, FinalizeSuccess(w) PROVE TypeOK'
  <2>1. TypeOrder'
    BY <1>16, <1>t, StepTypes, FinalStatusType
       DEF FinalizeSuccess, Take, TypeOrder, Statuses, Refundable, Done, AuditActions, order, logs, Done
  <2>2. TypeMoney'
    <3>1. plan[w].deduct \in Nat /\ balance \in Int /\ taken \in Int
      BY <1>t, StepTypes DEF TypeMoney
    <3>2. Available(plan[w].deduct) \in Int
      BY <3>1, AvailableBounds
    <3> QED
      BY <1>16, <1>t, <3>1, <3>2 DEF FinalizeSuccess, Take, TypeMoney, user, provider
  <2>3. TypeRequests'
    BY <1>16, <1>t, ReturnTypes DEF FinalizeSuccess, Take, TypeRequests, Steps, ExecuteSteps, FinalizeSteps,
       request
  <2>4. TypeCounts'
    BY <1>16, <1>t, ReturnTypes, FaultTypes DEF FinalizeSuccess, Take, TypeCounts, request, Goto, Return
  <2> QED
    BY <2>1, <2>2, <2>3, <2>4 DEF TypeOK, TypeOrder, TypeMoney, TypeRequests, TypeCounts
<1>17. ASSUME NEW w \in Admins, FinalizeFailed(w) PROVE TypeOK'
  <2>1. TypeOrder'
    BY <1>17, <1>t DEF FinalizeFailed, SetStatus, TypeOrder, Statuses, Refundable, Done, AuditActions, order,
       logs
  <2>2. TypeMoney'
    BY <1>17, <1>t DEF FinalizeFailed, SetStatus, TypeMoney, user, provider
  <2>3. TypeRequests'
    BY <1>17, <1>t, ReturnTypes DEF FinalizeFailed, SetStatus, TypeRequests, Steps, ExecuteSteps,
       FinalizeSteps, request
  <2>4. TypeCounts'
    BY <1>17, <1>t, ReturnTypes, FaultTypes DEF FinalizeFailed, SetStatus, TypeCounts, request, Goto, Return
  <2> QED
    BY <2>1, <2>2, <2>3, <2>4 DEF TypeOK, TypeOrder, TypeMoney, TypeRequests, TypeCounts
<1>18. ASSUME NEW w \in Admins, Crash(w) PROVE TypeOK'
  <2>1. TypeOrder'
    BY <1>18, <1>t DEF Crash, TypeOrder, Statuses, Refundable, Done, AuditActions, order, logs
  <2>2. TypeMoney'
    BY <1>18, <1>t DEF Crash, TypeMoney, user, provider
  <2>3. TypeRequests'
    BY <1>18, <1>t, ReturnTypes DEF Crash, TypeRequests, Steps, ExecuteSteps, FinalizeSteps, request
  <2>4. TypeCounts'
    BY <1>18, <1>t, ReturnTypes, FaultTypes DEF Crash, TypeCounts, request, Goto, Return
  <2> QED
    BY <2>1, <2>2, <2>3, <2>4 DEF TypeOK, TypeOrder, TypeMoney, TypeRequests, TypeCounts
<1>19. CASE UNCHANGED vars
  BY <1>19 DEF vars, TypeOK
<1> QED
  BY <1>1, <1>2, <1>3, <1>4, <1>5, <1>6, <1>7, <1>8, <1>9, <1>10, <1>11, <1>12, <1>13, <1>14, <1>15, <1>16,
     <1>17, <1>18, <1>19 DEF Next, Execute, Finalize

\* The refund's state is always well typed: no deduction and no refund is more
\* than the order's amount (PrepareRefund, ExecuteRefund, QueryAndFinalizeRefund).
THEOREM RefundTypeCorrect == Spec => []TypeOK
  BY InitType, TypeStep, PTL DEF Spec

-----------------------------------------------------------------------------
(* Money. *)

\* A step moves money at one request: the order's account follows what the
\* request has in place, or the request lets go of its deduction.
Moves(w) ==
  /\ \A v \in Admins \ {w} : Placed(v)' = Placed(v)
  /\ \/ taken' = taken - Placed(w) + Placed(w)'
     \/ taken' >= taken /\ Placed(w)' = 0 /\ (stuck' \/ pc[w] \in {"ok", "final"})

Stays == taken' = taken /\ \A v \in Admins : Placed(v)' = Placed(v)

LEMMA PlacedTypes ==
  ASSUME TypeOK
  PROVE  \A w \in Admins : Placed(w) \in 0..Amount /\ Placed(w) \in Nat
  BY StepTypes, AmountAssumption DEF Placed

LEMMA DeductMoves ==
  ASSUME TypeOK, NEW w \in Admins, DeductForRefund(w)
  PROVE  Moves(w) /\ (Fails("ack") \/ taken' = taken + Placed(w)')
<1>t. pc \in [Admins -> Steps] /\ taken \in Int /\ \A v \in Admins : Placed(v) \in Nat
  BY PlacedTypes DEF TypeOK
<1>p. DOMAIN plan = Admins
  BY DEF TypeOK
<1>b. plan[w].deduct \in Nat /\ taken \in Int /\ balance \in Int
  BY StepTypes DEF TypeOK
<1>0. plan[w].deduct \in Nat /\ taken \in Int /\ Available(plan[w].deduct) \in Int
  BY <1>b, AvailableBounds
<1>1. \A v \in Admins \ {w} : Placed(v)' = Placed(v)
  BY <1>t, <1>p DEF DeductForRefund, Placed, Goto
<1>2. Placed(w) = 0
  BY DEF DeductForRefund, Placed, At
<1>3. CASE Goto(w, "restore") /\ UNCHANGED user
  <2>1. Placed(w)' = 0 /\ taken' = taken
    BY <1>3, <1>t DEF Goto, user, provider, Placed
  <2> QED
    BY <1>0, <1>1, <1>2, <2>1 DEF Moves
<1>4. CASE Goto(w, "restore") /\ Fails("ack") /\ Take(Available(plan[w].deduct)) /\ stuck'
  <2>1. Placed(w)' = 0 /\ taken' >= taken
    BY <1>4, <1>t, <1>0, <1>b, AvailableBounds DEF Goto, Take, Placed
  <2> QED
    BY <1>4, <1>1, <2>1 DEF Moves
<1>5. ASSUME NEW d \in Int, plan' = [plan EXCEPT ![w].deduct = d], pc' = [pc EXCEPT ![w] = "gateway"],
             taken' = taken + d
      PROVE  Moves(w) /\ taken' = taken + Placed(w)'
  <2>1. Placed(w)' = d
    BY <1>5, <1>t, <1>p, StepTypes DEF Placed
  <2> QED
    BY <1>0, <1>1, <1>2, <1>5, <2>1 DEF Moves
<1>6. UNCHANGED user => taken' = taken + 0
  BY <1>0 DEF user, provider
<1>7. \/ Goto(w, "restore") /\ UNCHANGED user
      \/ Goto(w, "restore") /\ Fails("ack") /\ Take(Available(plan[w].deduct)) /\ stuck'
      \/ /\ \E d \in {Available(plan[w].deduct)} : plan' = [plan EXCEPT ![w].deduct = d] /\ Take(d)
         /\ pc' = [pc EXCEPT ![w] = "gateway"]
      \/ plan' = [plan EXCEPT ![w].deduct = 0] /\ pc' = [pc EXCEPT ![w] = "gateway"] /\ UNCHANGED user
  BY Zenon DEF DeductForRefund
<1> QED
  BY <1>0, <1>3, <1>4, <1>5, <1>6, <1>7 DEF Take

LEMMA MoneyStep ==
  ASSUME TypeOK, [Next]_vars
  PROVE  Stays \/ \E w \in Admins : Moves(w)
<1>t. pc \in [Admins -> Steps] /\ taken \in Int /\ \A w \in Admins : Placed(w) \in Nat
  BY PlacedTypes DEF TypeOK
<1>p. DOMAIN plan = Admins
  BY DEF TypeOK
<1>1. CASE RequestRefund
  BY <1>1, <1>t, <1>p DEF RequestRefund, Moves, Stays, Placed, At, Goto, Return, Works, Fails, user,
        provider, request,
     order, logs
<1>2. CASE UserSpends
  BY <1>2, <1>t, <1>p DEF UserSpends, Moves, Stays, Placed, At, Goto, Return, Works, Fails, user, provider,
        request,
     order, logs
<1>3. CASE GatewayDecides
  BY <1>3, <1>t, <1>p DEF GatewayDecides, Moves, Stays, Placed, At, Goto, Return, Works, Fails, user, provider,
     request, order, logs
<1>4. ASSUME NEW w \in Admins, NEW amount \in Amounts, NEW force \in BOOLEAN, NEW deduct \in BOOLEAN,
             PrepareRefund(w, amount, force, deduct)
      PROVE  Moves(w)
  BY <1>4, <1>t, <1>p DEF PrepareRefund, Moves, Stays, Placed, At, Goto, Return, Works, Fails, user,
        provider, request,
     order, logs
<1>5. ASSUME NEW w \in Admins, ClaimRefund(w) PROVE Moves(w)
  BY <1>5, <1>t, <1>p DEF ClaimRefund, Moves, Stays, Placed, At, Goto, Return, Works, Fails, user,
        provider, request,
     order, logs
<1>6. ASSUME NEW w \in Admins, DeductForRefund(w) PROVE Moves(w)
  BY <1>6, <1>t, <1>p, DeductMoves DEF DeductForRefund, Take, Moves, Stays, Placed, At, Goto, Return, Works,
     Fails, user, provider, request, order, logs
<1>7. ASSUME NEW w \in Admins, RestoreStatus(w) PROVE Moves(w)
  BY <1>7, <1>t, <1>p DEF RestoreStatus, SetStatus, Moves, Stays, Placed, At, Goto, Return, Works, Fails,
     user, provider, request, order, logs
<1>8. ASSUME NEW w \in Admins, GatewayRefund(w) PROVE Moves(w)
  BY <1>8, <1>t, <1>p DEF GatewayRefund, AskGateway, SkipGateway, Moves, Stays, Placed, At, Goto, Return,
        Works, Fails, user, provider, request,
     order, logs
<1>9. ASSUME NEW w \in Admins, MarkRefundOk(w) PROVE Moves(w)
  BY <1>9, <1>t, <1>p DEF MarkRefundOk, WriteAudit, FinalStatus, Moves, Stays, Placed, At, Goto, Return,
     Works, Fails, user, provider, request, order, logs
<1>10. ASSUME NEW w \in Admins, RollbackPending(w) PROVE Moves(w)
  <2>0. plan[w].deduct \in Nat /\ taken \in Int
    BY StepTypes DEF TypeOK
  <2>1. plan' = plan /\ \A v \in Admins \ {w} : pc'[v] = pc[v]
    BY <1>10 DEF TypeOK, RollbackPending, RollbackRefund, GiveBack
  <2>2. pc[w] \in {"pending", "gwFail"} /\ pc'[w] \in {"markPending", "restore", "markFailed"}
    BY <1>10 DEF TypeOK, RollbackPending, RollbackRefund, GiveBack, At
  <2>3. taken' = taken - plan[w].deduct \/ (taken' = taken /\ stuck')
    BY <1>10 DEF RollbackPending, RollbackRefund, GiveBack
  <2> QED
    BY <2>0, <2>1, <2>2, <2>3 DEF Moves, Placed
<1>11. ASSUME NEW w \in Admins, RollbackFailed(w) PROVE Moves(w)
  <2>0. plan[w].deduct \in Nat /\ taken \in Int
    BY StepTypes DEF TypeOK
  <2>1. plan' = plan /\ \A v \in Admins \ {w} : pc'[v] = pc[v]
    BY <1>11 DEF TypeOK, RollbackFailed, RollbackRefund, GiveBack
  <2>2. pc[w] \in {"pending", "gwFail"} /\ pc'[w] \in {"markPending", "restore", "markFailed"}
    BY <1>11 DEF TypeOK, RollbackFailed, RollbackRefund, GiveBack, At
  <2>3. taken' = taken - plan[w].deduct \/ (taken' = taken /\ stuck')
    BY <1>11 DEF RollbackFailed, RollbackRefund, GiveBack
  <2> QED
    BY <2>0, <2>1, <2>2, <2>3 DEF Moves, Placed
<1>12. ASSUME NEW w \in Admins, MarkRefundPending(w) PROVE Moves(w)
  BY <1>12, <1>t, <1>p DEF MarkRefundPending, WriteAudit, Moves, Stays, Placed, At, Goto, Return, Works,
     Fails, user, provider, request, order, logs
<1>13. ASSUME NEW w \in Admins, MarkRefundFailed(w) PROVE Moves(w)
  BY <1>13, <1>t, <1>p DEF MarkRefundFailed, SetStatus, Moves, Stays, Placed, At, Goto, Return, Works, Fails,
     user, provider, request, order, logs
<1>14. ASSUME NEW w \in Admins, QueryAndFinalizeRefund(w) PROVE Moves(w)
  BY <1>14, <1>t, <1>p DEF QueryAndFinalizeRefund, Moves, Stays, Placed, At, Goto, Return, Works, Fails,
     user, provider, request, order, logs
<1>15. ASSUME NEW w \in Admins, QueryGateway(w) PROVE Moves(w)
  BY <1>15, <1>t, <1>p DEF QueryGateway, PendingDetail, Moves, Stays, Placed, At, Goto, Return, Works, Fails,
     user, provider, request, order, logs
<1>16. ASSUME NEW w \in Admins, FinalizeSuccess(w) PROVE Moves(w)
  <2>0. plan[w].deduct \in Nat /\ taken \in Int /\ balance \in Int
    BY StepTypes DEF TypeOK
  <2>1. Available(plan[w].deduct) \in Nat
    BY <2>0, AvailableBounds
  <2>2. \A v \in Admins \ {w} : Placed(v)' = Placed(v)
    BY <1>16, <1>t, <1>p DEF FinalizeSuccess, Placed, Return
  <2>3. Placed(w)' = 0 /\ pc[w] = "final"
    BY <1>16, <1>t DEF FinalizeSuccess, Placed, Return, At
  <2>4. taken' >= taken
    BY <1>16, <2>0, <2>1 DEF FinalizeSuccess, Take, user, provider
  <2> QED
    BY <2>2, <2>3, <2>4 DEF Moves
<1>17. ASSUME NEW w \in Admins, FinalizeFailed(w) PROVE Moves(w)
  BY <1>17, <1>t, <1>p DEF FinalizeFailed, SetStatus, Moves, Stays, Placed, At, Goto, Return, Works, Fails,
     user, provider, request, order, logs
<1>18. ASSUME NEW w \in Admins, Crash(w) PROVE Moves(w)
  <2>0. plan[w].deduct \in Nat /\ taken \in Int
    BY StepTypes DEF TypeOK
  <2>1. \A v \in Admins \ {w} : Placed(v)' = Placed(v)
    BY <1>18, <1>t, <1>p DEF Crash, Placed, Return
  <2>2. Placed(w)' = 0 /\ taken' = taken
    BY <1>18, <1>t DEF Crash, Placed, Return
  <2>3. CASE Placed(w) = 0
    BY <2>0, <2>1, <2>2, <2>3 DEF Moves
  <2>4. CASE Placed(w) # 0 /\ pc[w] # "ok"
    <3>0. plan[w].deduct > 0 /\ pc[w] \in {"gateway", "pending", "gwFail"}
      BY <2>0, <2>4 DEF Placed
    <3>1. stuck'
      BY <1>18, <3>0, Zenon DEF Crash
    <3> QED
      BY <2>0, <2>1, <2>2, <3>1 DEF Moves
  <2>5. CASE pc[w] = "ok"
    BY <2>0, <2>1, <2>2, <2>5 DEF Moves
  <2> QED
    BY <2>3, <2>4, <2>5
<1>19. CASE UNCHANGED vars
  BY <1>19, <1>t, <1>p DEF vars, Moves, Stays, Placed, At, Goto, Return, Works, Fails, user, provider,
        request, order,
     logs
<1> QED
  BY <1>1, <1>2, <1>3, <1>4, <1>5, <1>6, <1>7, <1>8, <1>9, <1>10, <1>11, <1>12, <1>13, <1>14, <1>15, <1>16,
     <1>17, <1>18, <1>19 DEF Next, Execute, Finalize

LEMMA InitSum ==
  ASSUME Init
  PROVE  \E G : AddsUp(G, InPlace) /\ G[Admins] = 0
<1> DEFINE G == [s \in SUBSET Admins |-> 0]
<1>1. \A w \in Admins : InPlace[w] = 0
  BY DEF Init, InPlace, Placed
<1>2. AddsUp(G, InPlace) /\ G[Admins] = 0
  BY <1>1 DEF AddsUp
<1> QED
  BY <1>2

LEMMA SumStays ==
  ASSUME Stays
  PROVE  InPlace' = InPlace
  BY DEF Stays, InPlace

LEMMA SumMoves ==
  ASSUME TypeOK, TypeOK', NEW w \in Admins, Moves(w), NEW G, AddsUp(G, InPlace)
  PROVE  \E H : /\ AddsUp(H, InPlace') /\ H[Admins] \in Nat
                /\ H[Admins] = G[Admins] - Placed(w) + Placed(w)'
                /\ Placed(w) <= G[Admins]
<1>1. InPlace \in [Admins -> Nat] /\ InPlace[w] = Placed(w)
  BY PlacedTypes DEF InPlace
<1>2. \A v \in Admins : Placed(v)' \in Nat
  BY StepTypes, AmountAssumption DEF Placed, TypeOK
<1>3. InPlace' \in [Admins -> Nat] /\ InPlace'[w] = Placed(w)'
  BY <1>2 DEF InPlace
<1>4. \A v \in Admins \ {w} : InPlace'[v] = InPlace[v]
  BY DEF Moves, InPlace
<1>5. ASSUME NEW f, NEW g, f = InPlace, g = InPlace'
      PROVE  \E H : /\ AddsUp(H, g) /\ H[Admins] = G[Admins] - f[w] + g[w]
                    /\ f[w] <= G[Admins] /\ H[Admins] \in Nat
  BY <1>1, <1>3, <1>4, <1>5, AddsUpChange
<1>6. \E H : /\ AddsUp(H, InPlace') /\ H[Admins] = G[Admins] - InPlace[w] + InPlace'[w]
             /\ InPlace[w] <= G[Admins] /\ H[Admins] \in Nat
  BY <1>5
<1> QED
  BY <1>1, <1>3, <1>6

LEMMA CoversStep == TypeOK /\ TypeOK' /\ Covers /\ [Next]_vars => Covers'
<1> SUFFICES ASSUME TypeOK, TypeOK', Covers, [Next]_vars PROVE Covers'
  OBVIOUS
<1>1. PICK G : AddsUp(G, InPlace) /\ G[Admins] <= taken
  BY DEF Covers
<1>t. G[Admins] \in Nat /\ taken \in Int /\ \A w \in Admins : Placed(w) \in Nat
  BY <1>1, PlacedTypes DEF AddsUp, TypeOK
<1>2. CASE Stays
  <2>1. AddsUp(G, InPlace') /\ G[Admins] <= taken'
    BY <1>1, <1>2, SumStays DEF Stays
  <2> QED
    BY <2>1 DEF Covers, AddsUp
<1>3. ASSUME NEW w \in Admins, Moves(w) PROVE Covers'
  <2>1. PICK H : /\ AddsUp(H, InPlace') /\ H[Admins] \in Nat
                 /\ H[Admins] = G[Admins] - Placed(w) + Placed(w)'
                 /\ Placed(w) <= G[Admins]
    BY <1>1, <1>3, SumMoves
  <2>2. taken' \in Int /\ Placed(w)' \in Int /\ Placed(w) \in Nat
    BY <1>t, <2>1, PlacedTypes, StepTypes, AmountAssumption DEF TypeOK, Placed
  <2>3. H[Admins] <= taken'
    BY <1>1, <1>3, <1>t, <2>1, <2>2 DEF Moves
  <2> QED
    BY <2>1, <2>3 DEF Covers, AddsUp
<1> QED
  BY <1>2, <1>3, MoneyStep

\* Whatever fails, crashes or interleaves, the rollbacks of an order's refunds
\* never give back more than its refunds took (RollbackRefund).
THEOREM RefundNeverEnriches == Spec => []NeverEnriched
<1>1. Init => Covers
  <2> SUFFICES ASSUME Init PROVE Covers
    OBVIOUS
  <2>1. PICK G : AddsUp(G, InPlace) /\ G[Admins] = 0
    BY InitSum
  <2>2. G[Admins] <= taken
    BY <2>1 DEF Init
  <2> QED
    BY <2>1, <2>2 DEF Covers
<1>2. TypeOK /\ Covers => NeverEnriched
  <2> SUFFICES ASSUME TypeOK, Covers PROVE taken >= 0
    BY DEF NeverEnriched
  <2>1. PICK G : AddsUp(G, InPlace) /\ G[Admins] <= taken
    BY DEF Covers
  <2>2. G[Admins] \in Nat /\ taken \in Int
    BY <2>1 DEF AddsUp, TypeOK
  <2> QED
    BY <2>1, <2>2
<1>3. TypeOK /\ Covers /\ [Next]_vars => Covers'
  BY CoversStep, TypeStep
<1> QED
  BY <1>1, <1>2, <1>3, RefundTypeCorrect, PTL DEF Spec

\* Only the deductions of ExecuteRefund and of the finalization take money.
LEMMA OverdraftStep ==
  ASSUME TypeOK, [Next]_vars, taken' > taken
  PROVE  balance' >= 0
<1>t. taken \in Int /\ balance \in Int
  BY DEF TypeOK
<1>1. CASE RequestRefund
  BY <1>1, <1>t DEF RequestRefund, user, provider
<1>2. CASE UserSpends
  BY <1>2, <1>t DEF UserSpends, user, provider
<1>3. CASE GatewayDecides
  BY <1>3, <1>t DEF GatewayDecides, user, provider
<1>4. ASSUME NEW w \in Admins, NEW amount \in Amounts, NEW force \in BOOLEAN, NEW deduct \in BOOLEAN,
             PrepareRefund(w, amount, force, deduct)
      PROVE  balance' >= 0
  BY <1>4, <1>t DEF PrepareRefund, user, provider
<1>5. ASSUME NEW w \in Admins, ClaimRefund(w) PROVE balance' >= 0
  BY <1>5, <1>t DEF ClaimRefund, user, provider
<1>6. ASSUME NEW w \in Admins, DeductForRefund(w) PROVE balance' >= 0
  <2>1. plan[w].deduct \in Nat
    BY StepTypes
  <2>2. /\ Available(plan[w].deduct) \in Nat
        /\ Available(plan[w].deduct) > 0 => Available(plan[w].deduct) <= balance
    BY <1>t, <2>1, AvailableBounds
  <2> HIDE DEF Available
  <2> QED
    BY <1>6, <1>t, <2>1, <2>2 DEF DeductForRefund, Take, user, provider
<1>7. ASSUME NEW w \in Admins, RestoreStatus(w) PROVE balance' >= 0
  BY <1>7, <1>t DEF RestoreStatus, SetStatus, user, provider
<1>8. ASSUME NEW w \in Admins, GatewayRefund(w) PROVE balance' >= 0
  BY <1>8, <1>t DEF GatewayRefund, AskGateway, SkipGateway, user, provider
<1>9. ASSUME NEW w \in Admins, MarkRefundOk(w) PROVE balance' >= 0
  BY <1>9, <1>t DEF MarkRefundOk, WriteAudit, FinalStatus, user, provider
<1>10. ASSUME NEW w \in Admins, RollbackPending(w) PROVE balance' >= 0
  BY <1>10, <1>t, StepTypes DEF RollbackPending, RollbackRefund, GiveBack, user, provider
<1>11. ASSUME NEW w \in Admins, RollbackFailed(w) PROVE balance' >= 0
  BY <1>11, <1>t, StepTypes DEF RollbackFailed, RollbackRefund, GiveBack, user, provider
<1>12. ASSUME NEW w \in Admins, MarkRefundPending(w) PROVE balance' >= 0
  BY <1>12, <1>t DEF MarkRefundPending, WriteAudit, user, provider
<1>13. ASSUME NEW w \in Admins, MarkRefundFailed(w) PROVE balance' >= 0
  BY <1>13, <1>t DEF MarkRefundFailed, SetStatus, user, provider
<1>14. ASSUME NEW w \in Admins, QueryAndFinalizeRefund(w) PROVE balance' >= 0
  BY <1>14, <1>t DEF QueryAndFinalizeRefund, user, provider
<1>15. ASSUME NEW w \in Admins, QueryGateway(w) PROVE balance' >= 0
  BY <1>15, <1>t DEF QueryGateway, PendingDetail, user, provider
<1>16. ASSUME NEW w \in Admins, FinalizeSuccess(w) PROVE balance' >= 0
  <2>1. plan[w].deduct \in Nat
    BY StepTypes
  <2>2. /\ Available(plan[w].deduct) \in Nat
        /\ Available(plan[w].deduct) > 0 => Available(plan[w].deduct) <= balance
    BY <1>t, <2>1, AvailableBounds
  <2> HIDE DEF Available
  <2> QED
    BY <1>16, <1>t, <2>1, <2>2 DEF FinalizeSuccess, Take, user, provider
<1>17. ASSUME NEW w \in Admins, FinalizeFailed(w) PROVE balance' >= 0
  BY <1>17, <1>t DEF FinalizeFailed, SetStatus, user, provider
<1>18. ASSUME NEW w \in Admins, Crash(w) PROVE balance' >= 0
  BY <1>18, <1>t DEF Crash, user, provider
<1>19. CASE UNCHANGED vars
  BY <1>19, <1>t DEF vars, user, provider
<1> QED
  BY <1>1, <1>2, <1>3, <1>4, <1>5, <1>6, <1>7, <1>8, <1>9, <1>10, <1>11, <1>12, <1>13, <1>14, <1>15, <1>16,
     <1>17, <1>18, <1>19 DEF Next, Execute, Finalize

\* A refund never overdraws the balance, however stale its plan is
\* (DeductAvailableBalance).
THEOREM RefundNeverOverdraws == Spec => NeverOverdrawn
<1>1. TypeOK /\ [Next]_vars => [taken' > taken => balance' >= 0]_vars
  BY OverdraftStep
<1> QED
  BY <1>1, RefundTypeCorrect, PTL DEF Spec, NeverOverdrawn

-----------------------------------------------------------------------------
\* What is left behind stays so, and only a late finalization of a failed refund
\* reopens an order.
History ==
  /\ stuck => stuck'
  /\ reopened => reopened'
  /\ reopened' => reopened \/ \E w \in Admins : pc[w] = "finalFail"

LEMMA HistoryStep ==
  ASSUME TypeOK, [Next]_vars
  PROVE  History
<1> USE Zenon DEF History, user, provider, Take, RollbackRefund, GiveBack
<1>1. CASE RequestRefund
  BY <1>1 DEF RequestRefund
<1>2. CASE UserSpends
  BY <1>2 DEF UserSpends
<1>3. CASE GatewayDecides
  BY <1>3 DEF GatewayDecides
<1>4. ASSUME NEW w \in Admins, NEW amount \in Amounts, NEW force \in BOOLEAN, NEW deduct \in BOOLEAN,
             PrepareRefund(w, amount, force, deduct)
      PROVE  History
  BY <1>4 DEF PrepareRefund
<1>5. ASSUME NEW w \in Admins, ClaimRefund(w) PROVE History
  BY <1>5 DEF ClaimRefund
<1>6. ASSUME NEW w \in Admins, DeductForRefund(w) PROVE History
  <2>1. reopened' = reopened
    BY <1>6 DEF DeductForRefund, Take
  <2>2. stuck => stuck'
    BY <1>6 DEF DeductForRefund, Take
  <2> QED
    BY <2>1, <2>2
<1>7. ASSUME NEW w \in Admins, RestoreStatus(w) PROVE History
  BY <1>7 DEF RestoreStatus, SetStatus
<1>8. ASSUME NEW w \in Admins, GatewayRefund(w) PROVE History
  <2>1. reopened' = reopened
    BY <1>8 DEF GatewayRefund, AskGateway, SkipGateway
  <2>2. stuck => stuck'
    BY <1>8 DEF GatewayRefund, AskGateway, SkipGateway
  <2> QED
    BY <2>1, <2>2
<1>9. ASSUME NEW w \in Admins, MarkRefundOk(w) PROVE History
  BY <1>9 DEF MarkRefundOk, WriteAudit, FinalStatus
<1>10. ASSUME NEW w \in Admins, RollbackPending(w) PROVE History
  <2>1. reopened' = reopened
    BY <1>10 DEF RollbackPending, RollbackRefund, GiveBack
  <2>2. stuck => stuck'
    BY <1>10 DEF RollbackPending, RollbackRefund, GiveBack
  <2> QED
    BY <2>1, <2>2
<1>11. ASSUME NEW w \in Admins, RollbackFailed(w) PROVE History
  <2>1. reopened' = reopened
    BY <1>11 DEF RollbackFailed, RollbackRefund, GiveBack
  <2>2. stuck => stuck'
    BY <1>11 DEF RollbackFailed, RollbackRefund, GiveBack
  <2> QED
    BY <2>1, <2>2
<1>12. ASSUME NEW w \in Admins, MarkRefundPending(w) PROVE History
  BY <1>12 DEF MarkRefundPending, WriteAudit
<1>13. ASSUME NEW w \in Admins, MarkRefundFailed(w) PROVE History
  BY <1>13 DEF MarkRefundFailed, SetStatus
<1>14. ASSUME NEW w \in Admins, QueryAndFinalizeRefund(w) PROVE History
  BY <1>14 DEF QueryAndFinalizeRefund
<1>15. ASSUME NEW w \in Admins, QueryGateway(w) PROVE History
  BY <1>15 DEF QueryGateway, PendingDetail
<1>16. ASSUME NEW w \in Admins, FinalizeSuccess(w) PROVE History
  BY <1>16 DEF FinalizeSuccess, FinalStatus, Take
<1>17. ASSUME NEW w \in Admins, FinalizeFailed(w) PROVE History
  BY <1>17 DEF FinalizeFailed, At
<1>18. ASSUME NEW w \in Admins, Crash(w) PROVE History
  BY <1>18 DEF Crash
<1>19. CASE UNCHANGED vars
  BY <1>19 DEF vars
<1> QED
  BY <1>1, <1>2, <1>3, <1>4, <1>5, <1>6, <1>7, <1>8, <1>9, <1>10, <1>11, <1>12, <1>13, <1>14, <1>15, <1>16,
     <1>17, <1>18, <1>19 DEF Next, Execute, Finalize

-----------------------------------------------------------------------------
(* The gateway's refund. *)

\* The gateway pays once and for all, and the order keeps its trade number.
LEMMA ProviderStays ==
  ASSUME TypeOK, [Next]_vars
  PROVE  /\ \A a \in 1..Amount : gateway[a] = "success" => gateway'[a] = "success"
         /\ tradeNo' = tradeNo
<1>t. gateway \in [1..Amount -> {"none", "pending", "success", "failed"}]
  BY DEF TypeOK
<1> DEFINE Kept == /\ \A a \in 1..Amount : gateway[a] = "success" => gateway'[a] = "success"
                   /\ tradeNo' = tradeNo
<1>1. CASE RequestRefund
  BY <1>1, <1>t DEF RequestRefund, user, provider
<1>2. CASE UserSpends
  BY <1>2, <1>t DEF UserSpends, user, provider
<1>3. CASE GatewayDecides
  BY <1>3, <1>t DEF GatewayDecides, user, provider
<1>4. ASSUME NEW w \in Admins, NEW amount \in Amounts, NEW force \in BOOLEAN, NEW deduct \in BOOLEAN,
             PrepareRefund(w, amount, force, deduct)
      PROVE  Kept
  BY <1>4, <1>t DEF PrepareRefund, user, provider
<1>5. ASSUME NEW w \in Admins, ClaimRefund(w) PROVE Kept
  BY <1>5, <1>t DEF ClaimRefund, user, provider
<1>6. ASSUME NEW w \in Admins, DeductForRefund(w) PROVE Kept
  BY <1>6, <1>t DEF DeductForRefund, Take, user, provider
<1>7. ASSUME NEW w \in Admins, RestoreStatus(w) PROVE Kept
  BY <1>7, <1>t DEF RestoreStatus, SetStatus, user, provider
<1>8. ASSUME NEW w \in Admins, GatewayRefund(w) PROVE Kept
  BY <1>8, <1>t DEF GatewayRefund, AskGateway, SkipGateway, user, provider
<1>9. ASSUME NEW w \in Admins, MarkRefundOk(w) PROVE Kept
  BY <1>9, <1>t DEF MarkRefundOk, WriteAudit, FinalStatus, user, provider
<1>10. ASSUME NEW w \in Admins, RollbackPending(w) PROVE Kept
  BY <1>10, <1>t DEF RollbackPending, RollbackRefund, GiveBack, user, provider
<1>11. ASSUME NEW w \in Admins, RollbackFailed(w) PROVE Kept
  BY <1>11, <1>t DEF RollbackFailed, RollbackRefund, GiveBack, user, provider
<1>12. ASSUME NEW w \in Admins, MarkRefundPending(w) PROVE Kept
  BY <1>12, <1>t DEF MarkRefundPending, WriteAudit, user, provider
<1>13. ASSUME NEW w \in Admins, MarkRefundFailed(w) PROVE Kept
  BY <1>13, <1>t DEF MarkRefundFailed, SetStatus, user, provider
<1>14. ASSUME NEW w \in Admins, QueryAndFinalizeRefund(w) PROVE Kept
  BY <1>14, <1>t DEF QueryAndFinalizeRefund, user, provider
<1>15. ASSUME NEW w \in Admins, QueryGateway(w) PROVE Kept
  BY <1>15, <1>t DEF QueryGateway, PendingDetail, user, provider
<1>16. ASSUME NEW w \in Admins, FinalizeSuccess(w) PROVE Kept
  BY <1>16, <1>t DEF FinalizeSuccess, FinalStatus, Take, user, provider
<1>17. ASSUME NEW w \in Admins, FinalizeFailed(w) PROVE Kept
  BY <1>17, <1>t DEF FinalizeFailed, SetStatus, user, provider
<1>18. ASSUME NEW w \in Admins, Crash(w) PROVE Kept
  BY <1>18, <1>t DEF Crash, user, provider
<1>19. CASE UNCHANGED vars
  BY <1>19, <1>t DEF vars, user, provider
<1> QED
  BY <1>1, <1>2, <1>3, <1>4, <1>5, <1>6, <1>7, <1>8, <1>9, <1>10, <1>11, <1>12, <1>13, <1>14, <1>15, <1>16,
     <1>17, <1>18, <1>19 DEF Next, Execute, Finalize

LEMMA DecisionStays ==
  ASSUME TypeOK, [Next]_vars
  PROVE  \A a \in 1..Amount : gateway[a] = "success" => gateway'[a] = "success"
  BY ProviderStays, Zenon

LEMMA TradeNoStays ==
  ASSUME TypeOK, [Next]_vars
  PROVE  (tradeNo' => tradeNo) /\ (~tradeNo => ~tradeNo')
<1>1. tradeNo' = tradeNo
  BY ProviderStays
<1> QED
  BY <1>1, Zenon

\* A running request goes on with its amount, or starts with one.
LEMMA PlanStep ==
  ASSUME TypeOK, [Next]_vars, NEW v \in Admins, pc'[v] # "idle"
  PROVE  \/ pc[v] # "idle" /\ plan'[v].amount = plan[v].amount
         \/ pc'[v] = "claim" /\ plan'[v].amount \in Amounts
         \/ pc'[v] = "query" /\ status = "REFUND_PENDING" /\ plan'[v].amount = refundAmount /\ SupportsQuery
<1>t. pc \in [Admins -> Steps] /\ plan \in [Admins -> [from : Refundable, amount : 0..Amount, deduct : 0..Amount]]
  BY DEF TypeOK
<1> DEFINE Goal == \/ pc[v] # "idle" /\ plan'[v].amount = plan[v].amount
                   \/ pc'[v] = "claim" /\ plan'[v].amount \in Amounts
                   \/ /\ pc'[v] = "query" /\ status = "REFUND_PENDING"
                      /\ plan'[v].amount = refundAmount /\ SupportsQuery
<1> USE <1>t DEF Goto, Return, At, request
<1>1. CASE RequestRefund
  BY <1>1 DEF RequestRefund
<1>2. CASE UserSpends
  BY <1>2 DEF UserSpends
<1>3. CASE GatewayDecides
  BY <1>3 DEF GatewayDecides
<1>4. ASSUME NEW w \in Admins, NEW amount \in Amounts, NEW force \in BOOLEAN, NEW deduct \in BOOLEAN,
             PrepareRefund(w, amount, force, deduct)
      PROVE  Goal
  BY <1>4 DEF PrepareRefund
<1>5. ASSUME NEW w \in Admins, ClaimRefund(w) PROVE Goal
  BY <1>5 DEF ClaimRefund
<1>6. ASSUME NEW w \in Admins, DeductForRefund(w) PROVE Goal
  BY <1>6 DEF DeductForRefund, Take
<1>7. ASSUME NEW w \in Admins, RestoreStatus(w) PROVE Goal
  BY <1>7 DEF RestoreStatus, SetStatus
<1>8. ASSUME NEW w \in Admins, GatewayRefund(w) PROVE Goal
  BY <1>8 DEF GatewayRefund, AskGateway, SkipGateway
<1>9. ASSUME NEW w \in Admins, MarkRefundOk(w) PROVE Goal
  BY <1>9 DEF MarkRefundOk, WriteAudit, FinalStatus
<1>10. ASSUME NEW w \in Admins, RollbackPending(w) PROVE Goal
  BY <1>10 DEF RollbackPending, RollbackRefund, GiveBack
<1>11. ASSUME NEW w \in Admins, RollbackFailed(w) PROVE Goal
  BY <1>11 DEF RollbackFailed, RollbackRefund, GiveBack
<1>12. ASSUME NEW w \in Admins, MarkRefundPending(w) PROVE Goal
  BY <1>12 DEF MarkRefundPending, WriteAudit
<1>13. ASSUME NEW w \in Admins, MarkRefundFailed(w) PROVE Goal
  BY <1>13 DEF MarkRefundFailed, SetStatus
<1>14. ASSUME NEW w \in Admins, QueryAndFinalizeRefund(w) PROVE Goal
  BY <1>14 DEF QueryAndFinalizeRefund
<1>15. ASSUME NEW w \in Admins, QueryGateway(w) PROVE Goal
  BY <1>15 DEF QueryGateway, PendingDetail
<1>16. ASSUME NEW w \in Admins, FinalizeSuccess(w) PROVE Goal
  BY <1>16 DEF FinalizeSuccess, FinalStatus, Take
<1>17. ASSUME NEW w \in Admins, FinalizeFailed(w) PROVE Goal
  BY <1>17 DEF FinalizeFailed, SetStatus
<1>18. ASSUME NEW w \in Admins, Crash(w) PROVE Goal
  BY <1>18 DEF Crash
<1>19. CASE UNCHANGED vars
  BY <1>19 DEF vars
<1> QED
  BY <1>1, <1>2, <1>3, <1>4, <1>5, <1>6, <1>7, <1>8, <1>9, <1>10, <1>11, <1>12, <1>13, <1>14, <1>15, <1>16,
     <1>17, <1>18, <1>19 DEF Next, Execute, Finalize

LEMMA AmountsStep ==
  ASSUME TypeOK, AmountsKnown, [Next]_vars
  PROVE  AmountsKnown' /\ (pendingRow.id > 0 => pendingRow' = pendingRow)
<1>1. \A v \in Admins : pc'[v] # "idle" => plan'[v].amount \in Amounts
  BY PlanStep DEF AmountsKnown
<1>2. /\ status' = "REFUND_PENDING" => refundAmount' \in Amounts
      /\ pendingRow'.id \in Amounts \cup {0}
      /\ "REFUND_PENDING" \notin audit' => pendingRow'.id = 0
      /\ pendingRow.id > 0 => pendingRow' = pendingRow
  <2> DEFINE Goal == /\ status' = "REFUND_PENDING" => refundAmount' \in Amounts
                     /\ pendingRow'.id \in Amounts \cup {0}
                     /\ "REFUND_PENDING" \notin audit' => pendingRow'.id = 0
                     /\ pendingRow.id > 0 => pendingRow' = pendingRow
  <2>t. gateway \in [1..Amount -> {"none", "pending", "success", "failed"}]
    BY DEF TypeOK
  <2>1. CASE RequestRefund
    BY <2>1, <2>t DEF RequestRefund, AmountsKnown, At, order, logs, user, provider
  <2>2. CASE UserSpends
    BY <2>2, <2>t DEF UserSpends, AmountsKnown, At, order, logs, user, provider
  <2>3. CASE GatewayDecides
    BY <2>3, <2>t DEF GatewayDecides, AmountsKnown, At, order, logs, user, provider
  <2>4. ASSUME NEW w \in Admins, NEW amount \in Amounts, NEW force \in BOOLEAN, NEW deduct \in BOOLEAN,
               PrepareRefund(w, amount, force, deduct)
        PROVE  Goal
    BY <2>4, <2>t DEF PrepareRefund, AmountsKnown, At, order, logs, user, provider
  <2>5. ASSUME NEW w \in Admins, ClaimRefund(w) PROVE Goal
    BY <2>5, <2>t DEF ClaimRefund, AmountsKnown, At, order, logs, user, provider
  <2>6. ASSUME NEW w \in Admins, DeductForRefund(w) PROVE Goal
    BY <2>6, <2>t DEF DeductForRefund, Take, AmountsKnown, At, order, logs, user, provider
  <2>7. ASSUME NEW w \in Admins, RestoreStatus(w) PROVE Goal
    BY <2>7, <2>t DEF RestoreStatus, SetStatus, AmountsKnown, At, order, logs, user, provider
  <2>8. ASSUME NEW w \in Admins, GatewayRefund(w) PROVE Goal
    BY <2>8, <2>t DEF GatewayRefund, AskGateway, SkipGateway, AmountsKnown, At, order, logs, user, provider
  <2>9. ASSUME NEW w \in Admins, MarkRefundOk(w) PROVE Goal
    BY <2>9, <2>t, FinalStatusType DEF MarkRefundOk, WriteAudit, FinalStatus, AmountsKnown, At, order, logs,
       user, provider, Done
  <2>10. ASSUME NEW w \in Admins, RollbackPending(w) PROVE Goal
    BY <2>10, <2>t DEF RollbackPending, RollbackRefund, GiveBack, AmountsKnown, At, order, logs, user, provider
  <2>11. ASSUME NEW w \in Admins, RollbackFailed(w) PROVE Goal
    BY <2>11, <2>t DEF RollbackFailed, RollbackRefund, GiveBack, AmountsKnown, At, order, logs, user, provider
  <2>12. ASSUME NEW w \in Admins, MarkRefundPending(w) PROVE Goal
    BY <2>12, <2>t DEF MarkRefundPending, WriteAudit, AmountsKnown, At, order, logs, user, provider
  <2>13. ASSUME NEW w \in Admins, MarkRefundFailed(w) PROVE Goal
    BY <2>13, <2>t DEF MarkRefundFailed, SetStatus, AmountsKnown, At, order, logs, user, provider
  <2>14. ASSUME NEW w \in Admins, QueryAndFinalizeRefund(w) PROVE Goal
    BY <2>14, <2>t DEF QueryAndFinalizeRefund, AmountsKnown, At, order, logs, user, provider
  <2>15. ASSUME NEW w \in Admins, QueryGateway(w) PROVE Goal
    BY <2>15, <2>t DEF QueryGateway, PendingDetail, AmountsKnown, At, order, logs, user, provider
  <2>16. ASSUME NEW w \in Admins, FinalizeSuccess(w) PROVE Goal
    BY <2>16, <2>t, FinalStatusType DEF FinalizeSuccess, FinalStatus, Take, AmountsKnown, At, order, logs,
       user, provider, Done
  <2>17. ASSUME NEW w \in Admins, FinalizeFailed(w) PROVE Goal
    BY <2>17, <2>t DEF FinalizeFailed, SetStatus, AmountsKnown, At, order, logs, user, provider
  <2>18. ASSUME NEW w \in Admins, Crash(w) PROVE Goal
    BY <2>18, <2>t DEF Crash, AmountsKnown, At, order, logs, user, provider
  <2>19. CASE UNCHANGED vars
    BY <2>19, <2>t DEF vars, AmountsKnown, At, order, logs, user, provider
  <2> QED
    BY <2>1, <2>2, <2>3, <2>4, <2>5, <2>6, <2>7, <2>8, <2>9, <2>10, <2>11, <2>12, <2>13, <2>14, <2>15, <2>16,
       <2>17, <2>18, <2>19 DEF Next, Execute, Finalize
<1> QED
  BY <1>1, <1>2 DEF AmountsKnown

LEMMA OkStep ==
  ASSUME TypeOK, AmountsKnown, AmountsKnown', OkKnown, [Next]_vars
  PROVE  OkKnown'
<1>t. /\ pc \in [Admins -> Steps] /\ gateway \in [1..Amount -> {"none", "pending", "success", "failed"}]
      /\ Amounts \subseteq 1..Amount
  BY AmountAssumption DEF TypeOK
<1> SUFFICES ASSUME NEW v \in Admins, pc'[v] = "ok", tradeNo' PROVE Paid(plan[v].amount)'
  BY DEF OkKnown, Paid
<1>0. pc[v] # "idle" /\ plan'[v].amount = plan[v].amount /\ plan[v].amount \in Amounts
  BY PlanStep DEF AmountsKnown
<1>p. plan[v].amount \in 1..Amount /\ plan[v].amount > 0
  <2>1. plan[v].amount \in 1..Amount
    BY <1>0, <1>t, Zenon
  <2> QED
    BY <2>1, AmountAssumption
<1>n. tradeNo
  BY TradeNoStays
<1>1. CASE pc[v] = "ok"
  BY <1>0, <1>1, <1>p, <1>n, DecisionStays DEF OkKnown, Paid
<1>2. CASE pc[v] # "ok"
  <2>1. GatewayRefund(v)
    <3> DEFINE Goal == GatewayRefund(v)
    <3> USE <1>t, <1>2 DEF Goto, Return, At, request
    <3>1. CASE RequestRefund
      BY <3>1 DEF RequestRefund
    <3>2. CASE UserSpends
      BY <3>2 DEF UserSpends
    <3>3. CASE GatewayDecides
      BY <3>3 DEF GatewayDecides
    <3>4. ASSUME NEW w \in Admins, NEW amount \in Amounts, NEW force \in BOOLEAN, NEW deduct \in BOOLEAN,
                 PrepareRefund(w, amount, force, deduct)
          PROVE  Goal
      BY <3>4 DEF PrepareRefund
    <3>5. ASSUME NEW w \in Admins, ClaimRefund(w) PROVE Goal
      BY <3>5 DEF ClaimRefund
    <3>6. ASSUME NEW w \in Admins, DeductForRefund(w) PROVE Goal
      BY <3>6 DEF DeductForRefund, Take
    <3>7. ASSUME NEW w \in Admins, RestoreStatus(w) PROVE Goal
      BY <3>7 DEF RestoreStatus, SetStatus
    <3>8. ASSUME NEW w \in Admins, GatewayRefund(w) PROVE Goal
      BY <3>8 DEF GatewayRefund, AskGateway, SkipGateway
    <3>9. ASSUME NEW w \in Admins, MarkRefundOk(w) PROVE Goal
      BY <3>9 DEF MarkRefundOk, WriteAudit, FinalStatus
    <3>10. ASSUME NEW w \in Admins, RollbackPending(w) PROVE Goal
      BY <3>10 DEF RollbackPending, RollbackRefund, GiveBack
    <3>11. ASSUME NEW w \in Admins, RollbackFailed(w) PROVE Goal
      BY <3>11 DEF RollbackFailed, RollbackRefund, GiveBack
    <3>12. ASSUME NEW w \in Admins, MarkRefundPending(w) PROVE Goal
      BY <3>12 DEF MarkRefundPending, WriteAudit
    <3>13. ASSUME NEW w \in Admins, MarkRefundFailed(w) PROVE Goal
      BY <3>13 DEF MarkRefundFailed, SetStatus
    <3>14. ASSUME NEW w \in Admins, QueryAndFinalizeRefund(w) PROVE Goal
      BY <3>14 DEF QueryAndFinalizeRefund
    <3>15. ASSUME NEW w \in Admins, QueryGateway(w) PROVE Goal
      BY <3>15 DEF QueryGateway, PendingDetail
    <3>16. ASSUME NEW w \in Admins, FinalizeSuccess(w) PROVE Goal
      BY <3>16 DEF FinalizeSuccess, FinalStatus, Take
    <3>17. ASSUME NEW w \in Admins, FinalizeFailed(w) PROVE Goal
      BY <3>17 DEF FinalizeFailed, SetStatus
    <3>18. ASSUME NEW w \in Admins, Crash(w) PROVE Goal
      BY <3>18 DEF Crash
    <3>19. CASE UNCHANGED vars
      BY <3>19 DEF vars
    <3> QED
      BY <3>1, <3>2, <3>3, <3>4, <3>5, <3>6, <3>7, <3>8, <3>9, <3>10, <3>11, <3>12, <3>13, <3>14, <3>15,
         <3>16, <3>17, <3>18, <3>19 DEF Next, Execute, Finalize
  <2> QED
    BY <2>1, <1>0, <1>2, <1>p, <1>n, <1>t DEF GatewayRefund, AskGateway, SkipGateway, Goto, Paid
<1> QED
  BY <1>1, <1>2

LEMMA QueryStep ==
  ASSUME TypeOK, AmountsKnown, QueryKnown, FinalKnown, [Next]_vars
  PROVE  QueryKnown' /\ FinalKnown'
<1>t. /\ pc \in [Admins -> Steps] /\ gateway \in [1..Amount -> {"none", "pending", "success", "failed"}]
      /\ plan \in [Admins -> [from : Refundable, amount : 0..Amount, deduct : 0..Amount]]
      /\ Amounts \subseteq 1..Amount /\ Amount \in Nat /\ pendingRow.id \in Amounts \cup {0}
  BY AmountAssumption DEF TypeOK, AmountsKnown
<1>r. reopened' => SupportsQuery
  BY HistoryStep DEF QueryKnown, FinalizeSteps, History
<1> SUFFICES ASSUME NEW v \in Admins, pc'[v] \in FinalizeSteps
             PROVE  /\ SupportsQuery
                    /\ pc'[v] = "final" => Paid(plan[v].amount)' \/ Paid(pendingRow.id)'
  BY <1>r DEF QueryKnown, FinalKnown, FinalizeSteps, Paid
<1>0. /\ pc'[v] # "query" => pc[v] # "idle" /\ plan'[v].amount = plan[v].amount /\ plan[v].amount \in Amounts
      /\ pc[v] = "idle" => SupportsQuery
  BY PlanStep DEF AmountsKnown, FinalizeSteps
<1>p. pc'[v] # "query" => plan[v].amount \in 1..Amount
  BY <1>0, <1>t
<1>i. pendingRow.id > 0 => pendingRow' = pendingRow /\ pendingRow.id \in 1..Amount
  <2>1. pendingRow.id > 0 => pendingRow' = pendingRow
    BY AmountsStep
  <2>2. pendingRow.id \in Amounts => pendingRow.id \in 1..Amount
    BY <1>t, Zenon
  <2>3. pendingRow.id \in Amounts \/ pendingRow.id = 0
    BY <1>t, Zenon
  <2> QED
    BY <2>1, <2>2, <2>3
<1>1. CASE pc[v] = pc'[v]
  <2>1. SupportsQuery
    BY <1>1 DEF QueryKnown
  <2>2. CASE pc'[v] = "final"
    <3>1. Paid(plan[v].amount) \/ Paid(pendingRow.id)
      BY <1>1, <2>2 DEF FinalKnown
    <3>2. CASE Paid(plan[v].amount)
      <4>1. plan[v].amount \in 1..Amount /\ plan'[v].amount = plan[v].amount
        BY <2>2, <1>0, <1>p
      <4>2. Paid(plan[v].amount)'
        BY <3>2, <4>1, DecisionStays DEF Paid
      <4> QED
        BY <2>1, <4>2
    <3>3. CASE Paid(pendingRow.id)
      <4>1. Paid(pendingRow.id)'
        BY <3>3, <1>i, DecisionStays DEF Paid
      <4> QED
        BY <2>1, <4>1
    <3> QED
      BY <2>1, <3>1, <3>2, <3>3
  <2> QED
    BY <2>1, <2>2
<1>2. CASE pc[v] # pc'[v] /\ pc[v] = "idle"
  BY <1>0, <1>2 DEF FinalizeSteps
<1>3. CASE pc[v] # pc'[v] /\ pc[v] # "idle"
  <2>1. QueryGateway(v)
    <3> DEFINE Goal == QueryGateway(v)
    <3> USE <1>t, <1>3 DEF Goto, Return, At, request, FinalizeSteps
    <3>1. CASE RequestRefund
      BY <3>1 DEF RequestRefund
    <3>2. CASE UserSpends
      BY <3>2 DEF UserSpends
    <3>3. CASE GatewayDecides
      BY <3>3 DEF GatewayDecides
    <3>4. ASSUME NEW w \in Admins, NEW amount \in Amounts, NEW force \in BOOLEAN, NEW deduct \in BOOLEAN,
                 PrepareRefund(w, amount, force, deduct)
          PROVE  Goal
      BY <3>4 DEF PrepareRefund
    <3>5. ASSUME NEW w \in Admins, ClaimRefund(w) PROVE Goal
      BY <3>5 DEF ClaimRefund
    <3>6. ASSUME NEW w \in Admins, DeductForRefund(w) PROVE Goal
      BY <3>6 DEF DeductForRefund, Take
    <3>7. ASSUME NEW w \in Admins, RestoreStatus(w) PROVE Goal
      BY <3>7 DEF RestoreStatus, SetStatus
    <3>8. ASSUME NEW w \in Admins, GatewayRefund(w) PROVE Goal
      BY <3>8 DEF GatewayRefund, AskGateway, SkipGateway
    <3>9. ASSUME NEW w \in Admins, MarkRefundOk(w) PROVE Goal
      BY <3>9 DEF MarkRefundOk, WriteAudit, FinalStatus
    <3>10. ASSUME NEW w \in Admins, RollbackPending(w) PROVE Goal
      BY <3>10 DEF RollbackPending, RollbackRefund, GiveBack
    <3>11. ASSUME NEW w \in Admins, RollbackFailed(w) PROVE Goal
      BY <3>11 DEF RollbackFailed, RollbackRefund, GiveBack
    <3>12. ASSUME NEW w \in Admins, MarkRefundPending(w) PROVE Goal
      BY <3>12 DEF MarkRefundPending, WriteAudit
    <3>13. ASSUME NEW w \in Admins, MarkRefundFailed(w) PROVE Goal
      BY <3>13 DEF MarkRefundFailed, SetStatus
    <3>14. ASSUME NEW w \in Admins, QueryAndFinalizeRefund(w) PROVE Goal
      BY <3>14 DEF QueryAndFinalizeRefund
    <3>15. ASSUME NEW w \in Admins, QueryGateway(w) PROVE Goal
      BY <3>15 DEF QueryGateway, PendingDetail
    <3>16. ASSUME NEW w \in Admins, FinalizeSuccess(w) PROVE Goal
      BY <3>16 DEF FinalizeSuccess, FinalStatus, Take
    <3>17. ASSUME NEW w \in Admins, FinalizeFailed(w) PROVE Goal
      BY <3>17 DEF FinalizeFailed, SetStatus
    <3>18. ASSUME NEW w \in Admins, Crash(w) PROVE Goal
      BY <3>18 DEF Crash
    <3>19. CASE UNCHANGED vars
      BY <3>19 DEF vars
    <3> QED
      BY <3>1, <3>2, <3>3, <3>4, <3>5, <3>6, <3>7, <3>8, <3>9, <3>10, <3>11, <3>12, <3>13, <3>14, <3>15,
         <3>16, <3>17, <3>18, <3>19 DEF Next, Execute, Finalize
  <2>2. SupportsQuery /\ gateway' = gateway /\ pendingRow' = pendingRow
    BY <2>1 DEF QueryGateway, At, QueryKnown, FinalizeSteps, provider, logs
  <2>3. CASE pc'[v] = "final"
    <3>1. plan[v].amount > 0 /\ plan'[v].amount = plan[v].amount
      BY <1>0, <1>p, <2>3
    <3>2. PICK detail \in {pendingRow, NoRow} :
            gateway[IF detail.id > 0 THEN detail.id ELSE plan[v].amount] = "success"
      BY <2>1, <2>3, <1>t DEF QueryGateway, Goto, Return
    <3>3. CASE detail.id > 0
      BY <2>2, <3>2, <3>3 DEF Paid, NoRow
    <3>4. CASE ~(detail.id > 0)
      BY <2>2, <3>1, <3>2, <3>4 DEF Paid
    <3> QED
      BY <2>2, <3>3, <3>4
  <2> QED
    BY <2>2, <2>3
<1> QED
  BY <1>1, <1>2, <1>3

LEMMA InitPaidOut == Init => PaidOut
  BY AmountAssumption DEF Init, PaidOut, AmountsKnown, OkKnown, FinalKnown, QueryKnown, RefundedIsPaidOut,
     Done, NoRow, FinalizeSteps

LEMMA PaidOutStep ==
  ASSUME TypeOK, PaidOut, [Next]_vars
  PROVE  PaidOut'
<1>1. AmountsKnown' /\ OkKnown' /\ QueryKnown' /\ FinalKnown'
  BY AmountsStep, OkStep, QueryStep DEF PaidOut
<1>t. refundAmount \in 0..Amount /\ pendingRow.id \in 0..Amount /\ Amount \in Nat
  BY AmountAssumption DEF TypeOK
<1>i. pendingRow.id > 0 => pendingRow' = pendingRow
  BY AmountsStep DEF PaidOut
<1>k. /\ \A a \in 0..Amount : Paid(a) => Paid(a)'
      /\ Paid(pendingRow.id) => Paid(pendingRow.id)'
  BY <1>t, <1>i, DecisionStays DEF Paid
<1>2. ASSUME status' = status, refundAmount' = refundAmount PROVE RefundedIsPaidOut'
  BY <1>2, <1>t, <1>k, TradeNoStays DEF PaidOut, RefundedIsPaidOut, Paid
<1>3. ASSUME status' \notin Done PROVE RefundedIsPaidOut'
  BY <1>3 DEF RefundedIsPaidOut
<1>4. ASSUME NEW w \in Admins, pc[w] \in {"ok", "final"}, refundAmount' = plan[w].amount
      PROVE  RefundedIsPaidOut'
  <2>1. ~tradeNo \/ Paid(plan[w].amount) \/ Paid(pendingRow.id)
    BY <1>4 DEF PaidOut, OkKnown, FinalKnown
  <2>2. plan[w].amount \in 0..Amount
    BY StepTypes
  <2> QED
    BY <1>4, <1>k, <2>1, <2>2, TradeNoStays DEF RefundedIsPaidOut, Paid
<1>5. \/ status' = status /\ refundAmount' = refundAmount
      \/ status' \notin Done
      \/ \E w \in Admins : pc[w] \in {"ok", "final"} /\ refundAmount' = plan[w].amount
  <2> DEFINE Goal == \/ status' = status /\ refundAmount' = refundAmount
                     \/ status' \notin Done
                     \/ \E w \in Admins : pc[w] \in {"ok", "final"} /\ refundAmount' = plan[w].amount
  <2>1. CASE RequestRefund
    BY <2>1 DEF RequestRefund, order, At, Done
  <2>2. CASE UserSpends
    BY <2>2 DEF UserSpends, order, At, Done
  <2>3. CASE GatewayDecides
    BY <2>3 DEF GatewayDecides, order, At, Done
  <2>4. ASSUME NEW w \in Admins, NEW amount \in Amounts, NEW force \in BOOLEAN, NEW deduct \in BOOLEAN,
               PrepareRefund(w, amount, force, deduct)
        PROVE  Goal
    BY <2>4 DEF PrepareRefund, order, At, Done
  <2>5. ASSUME NEW w \in Admins, ClaimRefund(w) PROVE Goal
    BY <2>5 DEF ClaimRefund, order, At, Done
  <2>6. ASSUME NEW w \in Admins, DeductForRefund(w) PROVE Goal
    BY <2>6 DEF DeductForRefund, Take, order, At, Done
  <2>7. ASSUME NEW w \in Admins, RestoreStatus(w) PROVE Goal
    BY <2>7 DEF RestoreStatus, SetStatus, order, At, Done
  <2>8. ASSUME NEW w \in Admins, GatewayRefund(w) PROVE Goal
    BY <2>8 DEF GatewayRefund, AskGateway, SkipGateway, order, At, Done
  <2>9. ASSUME NEW w \in Admins, MarkRefundOk(w) PROVE Goal
    BY <2>9 DEF MarkRefundOk, WriteAudit, FinalStatus, order, At, Done
  <2>10. ASSUME NEW w \in Admins, RollbackPending(w) PROVE Goal
    BY <2>10 DEF RollbackPending, RollbackRefund, GiveBack, order, At, Done
  <2>11. ASSUME NEW w \in Admins, RollbackFailed(w) PROVE Goal
    BY <2>11 DEF RollbackFailed, RollbackRefund, GiveBack, order, At, Done
  <2>12. ASSUME NEW w \in Admins, MarkRefundPending(w) PROVE Goal
    BY <2>12 DEF MarkRefundPending, WriteAudit, order, At, Done
  <2>13. ASSUME NEW w \in Admins, MarkRefundFailed(w) PROVE Goal
    BY <2>13 DEF MarkRefundFailed, SetStatus, order, At, Done
  <2>14. ASSUME NEW w \in Admins, QueryAndFinalizeRefund(w) PROVE Goal
    BY <2>14 DEF QueryAndFinalizeRefund, order, At, Done
  <2>15. ASSUME NEW w \in Admins, QueryGateway(w) PROVE Goal
    BY <2>15 DEF QueryGateway, PendingDetail, order, At, Done
  <2>16. ASSUME NEW w \in Admins, FinalizeSuccess(w) PROVE Goal
    BY <2>16 DEF FinalizeSuccess, FinalStatus, Take, order, At, Done
  <2>17. ASSUME NEW w \in Admins, FinalizeFailed(w) PROVE Goal
    BY <2>17 DEF FinalizeFailed, SetStatus, order, At, Done
  <2>18. ASSUME NEW w \in Admins, Crash(w) PROVE Goal
    BY <2>18 DEF Crash, order, At, Done
  <2>19. CASE UNCHANGED vars
    BY <2>19 DEF vars, order, At, Done
  <2> QED
    BY <2>1, <2>2, <2>3, <2>4, <2>5, <2>6, <2>7, <2>8, <2>9, <2>10, <2>11, <2>12, <2>13, <2>14, <2>15, <2>16,
       <2>17, <2>18, <2>19 DEF Next, Execute, Finalize
<1> QED
  BY <1>1, <1>2, <1>3, <1>4, <1>5 DEF PaidOut

\* A refund that the order shows as done was paid out by the gateway, in the
\* recorded amount or in that of the first pending refund (markRefundOk,
\* QueryAndFinalizeRefund), whatever amounts the admins try and whatever fails -
\* unless the order has no trade number (gwRefund).
THEOREM RefundDoneIsPaidOut == Spec => []RefundedIsPaidOut
<1>1. Init => PaidOut
  BY InitPaidOut
<1>2. TypeOK /\ PaidOut /\ [Next]_vars => PaidOut'
  BY PaidOutStep
<1>3. PaidOut => RefundedIsPaidOut
  BY DEF PaidOut
<1> QED
  BY <1>1, <1>2, <1>3, RefundTypeCorrect, PTL DEF Spec

-----------------------------------------------------------------------------
(* One request at a time. *)

\* Every step keeps the claim exclusive, except for a late finalization of a
\* failed refund.
LEMMA ExclusiveStep ==
  ASSUME TypeOK, Exclusive, [Next]_vars
  PROVE  Exclusive'
<1>1. CASE reopened \/ reopened'
  BY <1>1, HistoryStep DEF Exclusive, History
<1>2. CASE ~reopened /\ ~reopened'
  <2>t. pc \in [Admins -> Steps]
    BY DEF TypeOK
  <2>e. RefundIsExclusive
    BY <1>2 DEF Exclusive
  <2> DEFINE Goal == RefundIsExclusive'
  <2> USE <2>t, <2>e DEF RefundIsExclusive, InProgress, ExecuteSteps, At, Goto, Return, order, request
  <2>1. ASSUME RequestRefund PROVE Goal
    BY <2>1 DEF RequestRefund
  <2>2. ASSUME UserSpends PROVE Goal
    BY <2>2 DEF UserSpends
  <2>3. ASSUME GatewayDecides PROVE Goal
    BY <2>3 DEF GatewayDecides
  <2>4. ASSUME NEW w \in Admins, NEW amount \in Amounts, NEW force \in BOOLEAN, NEW deduct \in BOOLEAN,
               PrepareRefund(w, amount, force, deduct)
        PROVE  Goal
    BY <2>4 DEF PrepareRefund
  <2>5. ASSUME NEW w \in Admins, ClaimRefund(w) PROVE Goal
    <3>1. CASE status \in Refundable
      <4>1. \A v \in Admins : pc[v] \notin ExecuteSteps
        BY <3>1 DEF Refundable
      <4>2. status' = "REFUNDING" /\ pc' = [pc EXCEPT ![w] = "deduct"]
        BY <2>5, <3>1 DEF ClaimRefund
      <4> QED
        BY <4>1, <4>2
    <3>2. CASE status \notin Refundable
      BY <2>5, <3>2 DEF ClaimRefund
    <3> QED
      BY <3>1, <3>2
  <2>6. ASSUME NEW w \in Admins, DeductForRefund(w) PROVE Goal
    <3>1. status' = status /\ pc' \in {[pc EXCEPT ![w] = "gateway"], [pc EXCEPT ![w] = "restore"]}
      BY <2>6 DEF DeductForRefund
    <3>2. pc[w] = "deduct"
      BY <2>6 DEF DeductForRefund
    <3> QED
      BY <3>1, <3>2
  <2>7. ASSUME NEW w \in Admins, RestoreStatus(w) PROVE Goal
    BY <2>7 DEF RestoreStatus, SetStatus
  <2>8. ASSUME NEW w \in Admins, GatewayRefund(w) PROVE Goal
    BY <2>8 DEF GatewayRefund, AskGateway, SkipGateway
  <2>9. ASSUME NEW w \in Admins, MarkRefundOk(w) PROVE Goal
    BY <2>9 DEF MarkRefundOk, WriteAudit, FinalStatus
  <2>10. ASSUME NEW w \in Admins, RollbackPending(w) PROVE Goal
    BY <2>10 DEF RollbackPending, RollbackRefund, GiveBack
  <2>11. ASSUME NEW w \in Admins, RollbackFailed(w) PROVE Goal
    BY <2>11 DEF RollbackFailed, RollbackRefund, GiveBack
  <2>12. ASSUME NEW w \in Admins, MarkRefundPending(w) PROVE Goal
    BY <2>12 DEF MarkRefundPending, WriteAudit
  <2>13. ASSUME NEW w \in Admins, MarkRefundFailed(w) PROVE Goal
    BY <2>13 DEF MarkRefundFailed, SetStatus
  <2>14. ASSUME NEW w \in Admins, QueryAndFinalizeRefund(w) PROVE Goal
    BY <2>14 DEF QueryAndFinalizeRefund
  <2>15. ASSUME NEW w \in Admins, QueryGateway(w) PROVE Goal
    BY <2>15 DEF QueryGateway, PendingDetail
  <2>16. ASSUME NEW w \in Admins, FinalizeSuccess(w) PROVE Goal
    BY <2>16 DEF FinalizeSuccess, FinalStatus, Take
  <2>17. ASSUME NEW w \in Admins, FinalizeFailed(w) PROVE Goal
    <3>1. status = "REFUNDING" => status' = status
      BY <2>17, <1>2, Zenon DEF FinalizeFailed
    <3>2. pc' = [pc EXCEPT ![w] = "idle"]
      BY <2>17 DEF FinalizeFailed
    <3> QED
      BY <3>1, <3>2
  <2>18. ASSUME NEW w \in Admins, Crash(w) PROVE Goal
    BY <2>18 DEF Crash
  <2>19. ASSUME UNCHANGED vars PROVE Goal
    BY <2>19 DEF vars
  <2>q. Goal
    BY <2>1, <2>2, <2>3, <2>4, <2>5, <2>6, <2>7, <2>8, <2>9, <2>10, <2>11, <2>12, <2>13, <2>14, <2>15, <2>16,
       <2>17, <2>18, <2>19 DEF Next, Execute, Finalize
  <2> QED
    BY <2>q DEF Exclusive
<1> QED
  BY <1>1, <1>2

\* While a request works on the refund the order is REFUNDING, and no second
\* request works on it: the claim of ExecuteRefund is exclusive at a provider
\* that cannot be queried, whatever fails.
THEOREM RefundClaimIsExclusive ==
  ASSUME ~SupportsQuery
  PROVE  Spec => []RefundIsExclusive
<1>1. Init => PaidOut
  BY InitPaidOut
<1>2. TypeOK /\ PaidOut /\ [Next]_vars => PaidOut'
  BY PaidOutStep
<1>3. Init => Exclusive
  BY DEF Init, Exclusive, RefundIsExclusive, InProgress, ExecuteSteps
<1>4. TypeOK /\ Exclusive /\ [Next]_vars => Exclusive'
  BY ExclusiveStep
<1>5. PaidOut /\ Exclusive => RefundIsExclusive
  BY DEF Exclusive, PaidOut, QueryKnown
<1> QED
  BY <1>1, <1>2, <1>3, <1>4, <1>5, RefundTypeCorrect, PTL DEF Spec

LEMMA DoneStep ==
  ASSUME QueryKnown, RefundIsExclusive, ~SupportsQuery, status \in Done, [Next]_vars
  PROVE  UNCHANGED status
<1>e. \A w \in Admins : pc[w] \notin ExecuteSteps \cup FinalizeSteps
  BY DEF RefundIsExclusive, InProgress, QueryKnown, Done
<1> USE <1>e DEF Done, Refundable, ExecuteSteps, FinalizeSteps, order, At
<1>1. CASE RequestRefund
  BY <1>1 DEF RequestRefund
<1>2. CASE UserSpends
  BY <1>2 DEF UserSpends
<1>3. CASE GatewayDecides
  BY <1>3 DEF GatewayDecides
<1>4. ASSUME NEW w \in Admins, NEW amount \in Amounts, NEW force \in BOOLEAN, NEW deduct \in BOOLEAN,
             PrepareRefund(w, amount, force, deduct)
      PROVE  UNCHANGED status
  BY <1>4 DEF PrepareRefund
<1>5. ASSUME NEW w \in Admins, ClaimRefund(w) PROVE UNCHANGED status
  BY <1>5 DEF ClaimRefund
<1>6. ASSUME NEW w \in Admins, DeductForRefund(w) PROVE UNCHANGED status
  BY <1>6 DEF DeductForRefund, Take
<1>7. ASSUME NEW w \in Admins, RestoreStatus(w) PROVE UNCHANGED status
  BY <1>7 DEF RestoreStatus, SetStatus
<1>8. ASSUME NEW w \in Admins, GatewayRefund(w) PROVE UNCHANGED status
  BY <1>8 DEF GatewayRefund, AskGateway, SkipGateway
<1>9. ASSUME NEW w \in Admins, MarkRefundOk(w) PROVE UNCHANGED status
  BY <1>9 DEF MarkRefundOk, WriteAudit, FinalStatus
<1>10. ASSUME NEW w \in Admins, RollbackPending(w) PROVE UNCHANGED status
  BY <1>10 DEF RollbackPending, RollbackRefund, GiveBack
<1>11. ASSUME NEW w \in Admins, RollbackFailed(w) PROVE UNCHANGED status
  BY <1>11 DEF RollbackFailed, RollbackRefund, GiveBack
<1>12. ASSUME NEW w \in Admins, MarkRefundPending(w) PROVE UNCHANGED status
  BY <1>12 DEF MarkRefundPending, WriteAudit
<1>13. ASSUME NEW w \in Admins, MarkRefundFailed(w) PROVE UNCHANGED status
  BY <1>13 DEF MarkRefundFailed, SetStatus
<1>14. ASSUME NEW w \in Admins, QueryAndFinalizeRefund(w) PROVE UNCHANGED status
  BY <1>14 DEF QueryAndFinalizeRefund
<1>15. ASSUME NEW w \in Admins, QueryGateway(w) PROVE UNCHANGED status
  BY <1>15 DEF QueryGateway, PendingDetail
<1>16. ASSUME NEW w \in Admins, FinalizeSuccess(w) PROVE UNCHANGED status
  BY <1>16 DEF FinalizeSuccess, FinalStatus, Take
<1>17. ASSUME NEW w \in Admins, FinalizeFailed(w) PROVE UNCHANGED status
  BY <1>17 DEF FinalizeFailed, SetStatus
<1>18. ASSUME NEW w \in Admins, Crash(w) PROVE UNCHANGED status
  BY <1>18 DEF Crash
<1>19. CASE UNCHANGED vars
  BY <1>19 DEF vars
<1> QED
  BY <1>1, <1>2, <1>3, <1>4, <1>5, <1>6, <1>7, <1>8, <1>9, <1>10, <1>11, <1>12, <1>13, <1>14, <1>15, <1>16,
     <1>17, <1>18, <1>19 DEF Next, Execute, Finalize

\* An order that shows a done refund is never reopened, at a provider that
\* cannot be queried: no request is left that could still write its status.
THEOREM RefundDoneIsFinal ==
  ASSUME ~SupportsQuery
  PROVE  Spec => DoneIsFinal
<1>1. Init => PaidOut
  BY InitPaidOut
<1>2. TypeOK /\ PaidOut /\ [Next]_vars => PaidOut'
  BY PaidOutStep
<1>3. QueryKnown /\ RefundIsExclusive /\ [Next]_vars => [(status \in Done) => UNCHANGED status]_vars
  BY DoneStep
<1>4. PaidOut => QueryKnown
  BY DEF PaidOut
<1> QED
  BY <1>1, <1>2, <1>3, <1>4, RefundTypeCorrect, RefundClaimIsExclusive, PTL DEF Spec, DoneIsFinal

-----------------------------------------------------------------------------
(* How much a refund takes. *)

LEMMA OwedStep ==
  ASSUME TypeOK, TypeOK', ~stuck', ~reopened', RefundIsExclusive, Owed, [Next]_vars
  PROVE  Owed'
<1>t. /\ pc \in [Admins -> Steps] /\ taken \in Int /\ taken' \in Int /\ Amount \in Nat
      /\ \A w \in Admins : /\ plan[w].deduct \in Nat /\ plan[w].deduct <= Amount
                           /\ plan'[w].deduct \in Nat /\ plan'[w].deduct <= Amount
  BY AmountAssumption DEF TypeOK
<1> USE <1>t DEF RefundIsExclusive, InProgress, ExecuteSteps, At, Goto, Return, order, user, provider,
      request, Owed,
        Placed
<1>1. CASE RequestRefund
  BY <1>1 DEF RequestRefund, Refundable
<1>2. CASE UserSpends
  BY <1>2 DEF UserSpends
<1>3. CASE GatewayDecides
  BY <1>3 DEF GatewayDecides
<1>4. ASSUME NEW w \in Admins, NEW amount \in Amounts, NEW force \in BOOLEAN, NEW deduct \in BOOLEAN,
             PrepareRefund(w, amount, force, deduct)
      PROVE  Owed'
  BY <1>4 DEF PrepareRefund
<1>5. ASSUME NEW w \in Admins, ClaimRefund(w) PROVE Owed'
  <2>1. CASE status \in Refundable
    <3>1. taken' = 0 /\ \A v \in Admins : pc[v] \notin ExecuteSteps
      BY <1>5, <2>1 DEF ClaimRefund, Refundable
    <3>2. status' = "REFUNDING" /\ pc' = [pc EXCEPT ![w] = "deduct"]
      BY <1>5, <2>1 DEF ClaimRefund
    <3> QED
      BY <3>1, <3>2 DEF Refundable
  <2>2. CASE status \notin Refundable
    <3>1. status' = status /\ taken' = taken /\ pc[w] = "claim" /\ pc'[w] = "idle"
      BY <1>5, <2>2 DEF ClaimRefund
    <3>2. \A v \in Admins \ {w} : pc'[v] = pc[v] /\ plan'[v] = plan[v]
      BY <1>5, <2>2 DEF ClaimRefund, TypeOK
    <3> QED
      BY <3>1, <3>2
  <2> QED
    BY <2>1, <2>2
<1>6. ASSUME NEW w \in Admins, DeductForRefund(w) PROVE Owed'
  <2>1. status = "REFUNDING" /\ status' = status /\ taken = 0 /\ \A v \in Admins \ {w} : pc[v] \notin ExecuteSteps
    BY <1>6 DEF DeductForRefund
  <2>2. \A v \in Admins \ {w} : pc'[v] \notin ExecuteSteps
    BY <1>6, <2>1 DEF DeductForRefund
  <2>3. taken' = Placed(w)'
    <3>1. Moves(w)
      BY <1>6, DeductMoves
    <3> QED
      BY <3>1, <2>1, <1>6 DEF Moves, DeductForRefund
  <2>4. Placed(w)' <= Amount
    BY PlacedTypes DEF TypeOK
  <2> QED
    BY <2>1, <2>2, <2>3, <2>4 DEF Refundable
<1>7. ASSUME NEW w \in Admins, RestoreStatus(w) PROVE Owed'
  BY <1>7 DEF RestoreStatus, SetStatus
<1>8. ASSUME NEW w \in Admins, GatewayRefund(w) PROVE Owed'
  BY <1>8 DEF GatewayRefund, AskGateway, SkipGateway
<1>9. ASSUME NEW w \in Admins, MarkRefundOk(w) PROVE Owed'
  BY <1>9 DEF MarkRefundOk, WriteAudit, FinalStatus, Refundable
<1>10. ASSUME NEW w \in Admins, RollbackPending(w) PROVE Owed'
  BY <1>10 DEF RollbackPending, RollbackRefund, GiveBack
<1>11. ASSUME NEW w \in Admins, RollbackFailed(w) PROVE Owed'
  BY <1>11 DEF RollbackFailed, RollbackRefund, GiveBack
<1>12. ASSUME NEW w \in Admins, MarkRefundPending(w) PROVE Owed'
  BY <1>12 DEF MarkRefundPending, WriteAudit
<1>13. ASSUME NEW w \in Admins, MarkRefundFailed(w) PROVE Owed'
  BY <1>13 DEF MarkRefundFailed, SetStatus
<1>14. ASSUME NEW w \in Admins, QueryAndFinalizeRefund(w) PROVE Owed'
  BY <1>14 DEF QueryAndFinalizeRefund
<1>15. ASSUME NEW w \in Admins, QueryGateway(w) PROVE Owed'
  <2>1. status' = status /\ taken' = taken /\ pc[w] = "query"
    BY <1>15 DEF QueryGateway
  <2>2. \A v \in Admins \ {w} : pc'[v] = pc[v] /\ plan'[v] = plan[v]
    BY <1>15 DEF QueryGateway, TypeOK
  <2>3. pc'[w] \in {"final", "finalFail", "idle"}
    BY <1>15 DEF QueryGateway
  <2> QED
    BY <2>1, <2>2, <2>3
<1>16. ASSUME NEW w \in Admins, FinalizeSuccess(w) PROVE Owed'
  <2>1. Available(plan[w].deduct) \in 0..plan[w].deduct
    BY AvailableBounds DEF TypeOK
  <2>2. \A v \in Admins \ {w} : pc'[v] = pc[v] /\ plan'[v] = plan[v]
    BY <1>16 DEF FinalizeSuccess, TypeOK
  <2>3. pc'[w] = "idle" /\ pc[w] = "final"
    BY <1>16 DEF FinalizeSuccess
  <2>4. CASE status = "REFUND_PENDING" /\ "REFUND_SUCCESS" \notin audit
    <3>1. status' \notin Refundable
      BY <1>16, <2>4 DEF FinalizeSuccess, FinalStatus, Refundable
    <3>2. taken = 0 /\ \A v \in Admins : pc[v] \notin ExecuteSteps
      BY <2>4 DEF Refundable
    <3>3. taken' = Available(plan[w].deduct)
      BY <1>16, <2>1, <2>4, <3>2 DEF FinalizeSuccess, Take
    <3> QED
      BY <2>1, <2>2, <2>3, <3>1, <3>2, <3>3
  <2>5. CASE ~(status = "REFUND_PENDING" /\ "REFUND_SUCCESS" \notin audit)
    BY <1>16, <2>2, <2>3, <2>5 DEF FinalizeSuccess
  <2> QED
    BY <2>4, <2>5
<1>17. ASSUME NEW w \in Admins, FinalizeFailed(w) PROVE Owed'
  <2>1. \/ status' = status
        \/ status' = "REFUND_FAILED" /\ status \notin Done \cup {"REFUNDING"}
    BY <1>17, Zenon DEF FinalizeFailed, SetStatus
  <2>2. status' \in Refundable => status \in Refundable
    BY <2>1 DEF TypeOK, Statuses
  <2>3. taken' = taken /\ pc[w] = "finalFail" /\ pc'[w] = "idle"
    BY <1>17 DEF FinalizeFailed
  <2>4. \A v \in Admins \ {w} : pc'[v] = pc[v] /\ plan'[v] = plan[v]
    BY <1>17 DEF FinalizeFailed, TypeOK
  <2> QED
    BY <2>2, <2>3, <2>4
<1>18. ASSUME NEW w \in Admins, Crash(w) PROVE Owed'
  BY <1>18 DEF Crash
<1>19. CASE UNCHANGED vars
  BY <1>19 DEF vars
<1> QED
  BY <1>1, <1>2, <1>3, <1>4, <1>5, <1>6, <1>7, <1>8, <1>9, <1>10, <1>11, <1>12, <1>13, <1>14, <1>15, <1>16,
     <1>17, <1>18, <1>19 DEF Next, Execute, Finalize

LEMMA OwedUnlessStuckStep ==
  ASSUME TypeOK, TypeOK', Exclusive, OwedUnlessStuck, [Next]_vars
  PROVE  OwedUnlessStuck'
<1>1. CASE stuck \/ reopened
  BY <1>1, HistoryStep DEF OwedUnlessStuck, History
<1>2. CASE stuck' \/ reopened'
  BY <1>2 DEF OwedUnlessStuck
<1>3. CASE ~stuck /\ ~reopened /\ ~stuck' /\ ~reopened'
  BY <1>3, OwedStep DEF OwedUnlessStuck, Exclusive
<1> QED
  BY <1>1, <1>2, <1>3

\* An order's refunds, of whatever amounts, take more than the order's amount
\* only when a deduction was left behind or a late failure reopened the order
\* (ExecuteRefund, finalizePendingRefundSuccess, finalizeRefundFailed), for any
\* number of admins and of failures.
THEOREM RefundDeductsTwiceOnlyIfStuck == Spec => []DeductedTwiceOnlyIfStuck
<1>1. Init => Exclusive /\ OwedUnlessStuck
  BY AmountAssumption DEF Init, Exclusive, RefundIsExclusive, OwedUnlessStuck, Owed, InProgress, ExecuteSteps
<1>2. TypeOK /\ TypeOK' /\ Exclusive /\ OwedUnlessStuck /\ [Next]_vars => Exclusive' /\ OwedUnlessStuck'
  BY ExclusiveStep, OwedUnlessStuckStep
<1>3. TypeOK /\ OwedUnlessStuck => DeductedTwiceOnlyIfStuck
  BY AmountAssumption DEF TypeOK, OwedUnlessStuck, Owed, DeductedTwiceOnlyIfStuck
<1> QED
  BY <1>1, <1>2, <1>3, RefundTypeCorrect, PTL DEF Spec

-----------------------------------------------------------------------------
(* The audit log as the memory of a failed rollback. *)

LEMMA OwedOrLoggedStep ==
  ASSUME TypeOK, TypeOK', ~SupportsQuery, {"audit", "ack"} \cap Failures = {},
         QueryKnown, RefundIsExclusive, OwedOrLogged, [Next]_vars
  PROVE  OwedOrLogged'
<1>t. /\ pc \in [Admins -> Steps] /\ taken \in Int /\ taken' \in Int /\ Amount \in Nat
      /\ \A w \in Admins : /\ plan[w].deduct \in Nat /\ plan[w].deduct <= Amount
                           /\ plan'[w].deduct \in Nat /\ plan'[w].deduct <= Amount
  BY AmountAssumption DEF TypeOK
<1>a. ~Fails("audit") /\ ~Fails("ack") /\ "audit" \notin Failures
  BY DEF Fails
<1>q. \A w \in Admins : pc[w] \notin FinalizeSteps
  BY DEF QueryKnown
<1> USE <1>t, <1>a DEF RefundIsExclusive, InProgress, ExecuteSteps, At, Goto, Return, order, logs, user, provider,
        request,
          OwedOrLogged, Placed, RolledBackInVain
<1>1. CASE RequestRefund
  BY <1>1 DEF RequestRefund, Refundable
<1>2. CASE UserSpends
  BY <1>2 DEF UserSpends
<1>3. CASE GatewayDecides
  BY <1>3 DEF GatewayDecides
<1>4. ASSUME NEW w \in Admins, NEW amount \in Amounts, NEW force \in BOOLEAN, NEW deduct \in BOOLEAN,
             PrepareRefund(w, amount, force, deduct)
      PROVE  OwedOrLogged'
  BY <1>4 DEF PrepareRefund
<1>5. ASSUME NEW w \in Admins, ClaimRefund(w) PROVE OwedOrLogged'
  <2>1. CASE status \in Refundable
    <3>1. /\ audit' = audit /\ taken' = taken /\ (RolledBackInVain \/ taken = 0)
          /\ \A v \in Admins : pc[v] \notin ExecuteSteps
      BY <1>5, <2>1 DEF ClaimRefund, Refundable
    <3>2. status' = "REFUNDING" /\ pc' = [pc EXCEPT ![w] = "deduct"]
      BY <1>5, <2>1 DEF ClaimRefund
    <3> QED
      BY <3>1, <3>2 DEF Refundable
  <2>2. CASE status \notin Refundable
    <3>1. status' = status /\ taken' = taken /\ audit' = audit /\ pc[w] = "claim" /\ pc'[w] = "idle"
      BY <1>5, <2>2 DEF ClaimRefund
    <3>2. \A v \in Admins \ {w} : pc'[v] = pc[v] /\ plan'[v] = plan[v]
      BY <1>5, <2>2 DEF ClaimRefund, TypeOK
    <3> QED
      BY <3>1, <3>2
  <2> QED
    BY <2>1, <2>2
<1>6. ASSUME NEW w \in Admins, DeductForRefund(w) PROVE OwedOrLogged'
  <2>1. /\ status = "REFUNDING" /\ status' = status /\ audit' = audit
        /\ \A v \in Admins \ {w} : pc[v] \notin ExecuteSteps
    BY <1>6 DEF DeductForRefund
  <2>2. \A v \in Admins \ {w} : pc'[v] \notin ExecuteSteps
    BY <1>6, <2>1 DEF DeductForRefund
  <2>3. Placed(w) = 0 /\ pc[w] = "deduct"
    BY <1>6 DEF DeductForRefund
  <2>4. taken' = taken + Placed(w)'
    BY <1>6, DeductMoves
  <2>5. Placed(w)' <= Amount
    BY AmountAssumption
  <2>6. CASE RolledBackInVain
    <3>1. Placed(w)' = 0
      BY <1>6, <2>6 DEF DeductForRefund, TypeOK
    <3> QED
      BY <2>1, <2>2, <2>4, <2>6, <3>1 DEF Refundable
  <2>7. CASE ~RolledBackInVain
    <3>1. taken = 0
      BY <2>3, <2>7
    <3> QED
      BY <2>1, <2>2, <2>4, <2>5, <2>7, <3>1 DEF Refundable
  <2> QED
    BY <2>6, <2>7
<1>7. ASSUME NEW w \in Admins, RestoreStatus(w) PROVE OwedOrLogged'
  BY <1>7 DEF RestoreStatus, SetStatus
<1>8. ASSUME NEW w \in Admins, GatewayRefund(w) PROVE OwedOrLogged'
  BY <1>8 DEF GatewayRefund, AskGateway, SkipGateway
<1>9. ASSUME NEW w \in Admins, MarkRefundOk(w) PROVE OwedOrLogged'
  BY <1>9 DEF MarkRefundOk, WriteAudit, FinalStatus, Refundable
<1>10. ASSUME NEW w \in Admins, RollbackPending(w) PROVE OwedOrLogged'
  BY <1>10 DEF RollbackPending, RollbackRefund, GiveBack
<1>11. ASSUME NEW w \in Admins, RollbackFailed(w) PROVE OwedOrLogged'
  BY <1>11 DEF RollbackFailed, RollbackRefund, GiveBack
<1>12. ASSUME NEW w \in Admins, MarkRefundPending(w) PROVE OwedOrLogged'
  BY <1>12 DEF MarkRefundPending, WriteAudit
<1>13. ASSUME NEW w \in Admins, MarkRefundFailed(w) PROVE OwedOrLogged'
  BY <1>13 DEF MarkRefundFailed, SetStatus
<1>14. ASSUME NEW w \in Admins, QueryAndFinalizeRefund(w) PROVE OwedOrLogged'
  BY <1>14 DEF QueryAndFinalizeRefund
<1>15. ASSUME NEW w \in Admins, QueryGateway(w) PROVE OwedOrLogged'
  BY <1>15, <1>q DEF QueryGateway, FinalizeSteps
<1>16. ASSUME NEW w \in Admins, FinalizeSuccess(w) PROVE OwedOrLogged'
  BY <1>16, <1>q DEF FinalizeSuccess, FinalizeSteps
<1>17. ASSUME NEW w \in Admins, FinalizeFailed(w) PROVE OwedOrLogged'
  BY <1>17, <1>q DEF FinalizeFailed, FinalizeSteps
<1>18. ASSUME NEW w \in Admins, Crash(w) PROVE OwedOrLogged'
  BY <1>18 DEF Crash
<1>19. CASE UNCHANGED vars
  BY <1>19 DEF vars
<1> QED
  BY <1>1, <1>2, <1>3, <1>4, <1>5, <1>6, <1>7, <1>8, <1>9, <1>10, <1>11, <1>12, <1>13, <1>14, <1>15, <1>16,
     <1>17, <1>18, <1>19 DEF Next, Execute, Finalize

\* However often a refund is tried and whatever fails but the audit log, the
\* order costs the user no more than its amount: ExecuteRefund skips the
\* deduction that an earlier attempt could not roll back.  (It rests on the
\* answers of the deduction too: one that was made and reported as an error is
\* neither given back nor recorded.)
THEOREM RefundDeductsAtMostOnce ==
  ASSUME ~SupportsQuery, {"audit", "ack"} \cap Failures = {}
  PROVE  Spec => []DeductedAtMostOnce
<1>1. Init => PaidOut /\ OwedOrLogged
  BY InitPaidOut, AmountAssumption DEF Init, OwedOrLogged, InProgress, ExecuteSteps
<1>2. TypeOK /\ PaidOut /\ [Next]_vars => PaidOut'
  BY PaidOutStep
<1>3. TypeOK /\ TypeOK' /\ PaidOut /\ RefundIsExclusive /\ OwedOrLogged /\ [Next]_vars => OwedOrLogged'
  BY OwedOrLoggedStep DEF PaidOut
<1>4. OwedOrLogged => DeductedAtMostOnce
  BY DEF OwedOrLogged, DeductedAtMostOnce
<1> QED
  BY <1>1, <1>2, <1>3, <1>4, RefundTypeCorrect, RefundClaimIsExclusive, PTL DEF Spec
=============================================================================
