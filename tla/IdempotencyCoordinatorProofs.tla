-------------------- MODULE IdempotencyCoordinatorProofs --------------------
(***************************************************************************)
(* A key is executed by one request at a time, and replays only its own    *)
(* success, for any number of requests, payloads and faults.               *)
(***************************************************************************)
EXTENDS IdempotencyCoordinator, TLAPS

\* A request between its read of the row and the TryReclaim that follows.
Reclaiming(w) == pc[w] \in {"reclaimExpired", "reclaim"}

\* While a request executes, the row is in its name and in its time to live.
OwnerHasRow ==
  \A w \in Workers : Executing(w) =>
    /\ row.status = "processing" /\ row.until # "null" /\ ~row.expired
    /\ row.fingerprint = payload[w]

\* A request that saw the row in the hands of a dead owner runs into the lock
\* of the next owner: also when that lock has passed, it had not passed when
\* the call began.
StaleReadIsBlocked ==
  \A v, w \in Workers :
    Executing(w) /\ pc[v] = "reclaimExpired" /\ seen[v].status = "processing"
      => seen[v].id # row.id \/ row.until = "future" \/ "locked_until" \in late[v]

\* Only failed rows are tried again before they expire.
RetryIsOfFailed == \A w \in Workers : pc[w] = "reclaim" => seen[w].status = "failed_retryable"

\* The row that a request read is the one it compared its payload with, or it
\* was deleted since, and the next row has not expired.
ReadIsOwn ==
  \A w \in Workers : Reclaiming(w) =>
    IF seen[w].id = row.id THEN ~Missing /\ row.fingerprint = payload[w] ELSE ~row.expired

\* A success is stored after it was counted.
StoredIsDone == \A w \in Workers : pc[w] = "markOk" => done[payload[w]] > 0

\* Every request that runs has a payload.
HasPayload == \A w \in Workers : pc[w] # "idle" => payload[w] \in Payloads

\* A row that is there has the payload of a request.
RowHasPayload == ~Missing => row.fingerprint \in Payloads

IInv ==
  /\ TypeOK /\ HasPayload /\ RowHasPayload
  /\ OwnerHasRow /\ KeyIsExclusive /\ StaleReadIsBlocked /\ RetryIsOfFailed
  /\ ReadIsOwn /\ StoredIsDone /\ SucceededIsDone

\* The type of the row, as TypeOfRecords has it.
RowType ==
  [id : {0, 1}, fingerprint : Payloads \cup {""}, status : RecordStatuses,
   until : {"null", "past", "future"}, expired : BOOLEAN]

-----------------------------------------------------------------------------
\* The two records that are written as a whole have the types of the fields.
LEMMA WrittenIsTyped ==
  /\ NotSeen \in [id : {0, 1}, status : RecordStatuses]
  /\ \A id \in {0, 1} : NoRow(id) \in RowType
<1>1. NotSeen \in [id : {0, 1}, status : RecordStatuses]
  BY DEF NotSeen, RecordStatuses
<1>2. ASSUME NEW id \in {0, 1} PROVE NoRow(id) \in RowType
  BY DEF NoRow, RowType, RecordStatuses
<1>3. QED BY <1>1, <1>2

\* No request executes and none has begun.
LEMMA InitIInv == Init => IInv
<1> SUFFICES ASSUME Init PROVE IInv
  OBVIOUS
<1>1. row = NoRow(0) /\ faults = 0
  BY Zenon DEF Init, InitRecords
<1>2. row \in RowType /\ faults \in 0..MaxFaults
  BY <1>1, WrittenIsTyped, FaultsAssumption
<1>3. pc \in [Workers -> Steps] /\ payload \in [Workers -> Payloads \cup {""}]
  BY DEF Init, InitRecords, Steps
<1>4. /\ seen \in [Workers -> [id : {0, 1}, status : RecordStatuses]]
      /\ late \in [Workers -> SUBSET {"locked_until", "expires_at"}]
      /\ done \in [Payloads -> Nat]
  BY WrittenIsTyped DEF Init, InitRecords
<1>5. TypeOK
  BY <1>2, <1>3, <1>4 DEF TypeOK, TypeOfRecords, RowType
<1>6. Missing
  BY <1>1 DEF Missing, NoRow
<1>7. \A w \in Workers : pc[w] = "idle"
  BY DEF Init, InitRecords
<1>8. QED
  BY <1>5, <1>6, <1>7
  DEF IInv, Missing, Executing, ExecuteSteps, Reclaiming, HasPayload, RowHasPayload, OwnerHasRow,
      KeyIsExclusive, StaleReadIsBlocked, RetryIsOfFailed, ReadIsOwn, StoredIsDone, SucceededIsDone

\* A request that ends takes nothing with it.
LEMMA ReturnIInv ==
  ASSUME IInv, NEW w \in Workers, Return(w), UNCHANGED row, faults' \in 0..MaxFaults
  PROVE  IInv'
<1>1. TypeOK'
  BY WrittenIsTyped DEF IInv, Return, Forget, Goto, TypeOK, TypeOfRecords, Steps
<1>2. \A v \in Workers : v # w =>
        pc'[v] = pc[v] /\ seen'[v] = seen[v] /\ late'[v] = late[v] /\ payload'[v] = payload[v]
  BY DEF IInv, Return, Forget, Goto, TypeOK, TypeOfRecords
<1>3. pc'[w] = "idle" /\ done' = done
  BY DEF IInv, Return, Forget, Goto, TypeOK, TypeOfRecords
<1>4. HasPayload' /\ RowHasPayload' /\ OwnerHasRow' /\ KeyIsExclusive'
  BY <1>2, <1>3
  DEF IInv, HasPayload, RowHasPayload, Missing, OwnerHasRow, KeyIsExclusive, Executing, ExecuteSteps
<1>5. StaleReadIsBlocked' /\ RetryIsOfFailed'
  BY <1>2, <1>3 DEF IInv, StaleReadIsBlocked, RetryIsOfFailed, Executing, ExecuteSteps
<1>6. ReadIsOwn' /\ StoredIsDone' /\ SucceededIsDone'
  BY <1>2, <1>3 DEF IInv, ReadIsOwn, Reclaiming, Missing, StoredIsDone, SucceededIsDone
<1>7. QED BY <1>1, <1>4, <1>5, <1>6 DEF IInv

\* A request that goes on to read the row, or to read it again, is the owner
\* of nothing yet.
LEMMA ContinueIInv ==
  ASSUME IInv, NEW w \in Workers, pc[w] # "idle", NEW step \in {"read", "reread"},
         Continue(w, step), UNCHANGED <<row, faults>>
  PROVE  IInv'
<1>1. TypeOK'
  BY DEF IInv, Continue, request, Go, Goto, TypeOK, TypeOfRecords, Steps, LookupSteps
<1>2. /\ \A v \in Workers : v # w => pc'[v] = pc[v]
      /\ pc'[w] = step /\ UNCHANGED <<row, seen, late, payload, done, faults>>
  BY DEF IInv, Continue, request, Go, Goto, TypeOK, TypeOfRecords
<1>3. HasPayload' /\ RowHasPayload' /\ OwnerHasRow' /\ KeyIsExclusive'
  BY <1>2
  DEF IInv, HasPayload, RowHasPayload, Missing, OwnerHasRow, KeyIsExclusive, Executing, ExecuteSteps
<1>4. StaleReadIsBlocked' /\ RetryIsOfFailed'
  BY <1>2 DEF IInv, StaleReadIsBlocked, RetryIsOfFailed, Executing, ExecuteSteps
<1>5. ReadIsOwn' /\ StoredIsDone' /\ SucceededIsDone'
  BY <1>2 DEF IInv, ReadIsOwn, Reclaiming, Missing, StoredIsDone, SucceededIsDone
<1>6. QED BY <1>1, <1>3, <1>4, <1>5 DEF IInv

\* A request that may try the row has read it: a failed one, or one that has
\* expired, which no request executes.
LEMMA RetryIInv ==
  ASSUME IInv, NEW w \in Workers, pc[w] # "idle", ~Unusable(w),
         NEW step \in {"reclaimExpired", "reclaim"},
         step = "reclaimExpired" => row.expired,
         step = "reclaim" => row.status = "failed_retryable",
         Retry(w, step), UNCHANGED <<row, faults>>
  PROVE  IInv'
<1>1. TypeOK'
  BY DEF IInv, Retry, GetByScopeAndKeyHash, request, Goto, TypeOK, TypeOfRecords, Steps, LookupSteps
<1>2. /\ \A v \in Workers : v # w => pc'[v] = pc[v] /\ seen'[v] = seen[v]
      /\ pc'[w] = step /\ seen'[w] = [id |-> row.id, status |-> row.status]
      /\ UNCHANGED <<row, late, payload, done, faults>>
  BY DEF IInv, Retry, GetByScopeAndKeyHash, request, Goto, TypeOK, TypeOfRecords
<1>3. HasPayload' /\ RowHasPayload' /\ OwnerHasRow' /\ KeyIsExclusive'
  BY <1>2
  DEF IInv, HasPayload, RowHasPayload, Missing, OwnerHasRow, KeyIsExclusive, Executing, ExecuteSteps
<1>4. StaleReadIsBlocked'
  BY <1>2 DEF IInv, StaleReadIsBlocked, OwnerHasRow, Executing, ExecuteSteps
<1>5. RetryIsOfFailed' /\ ReadIsOwn'
  BY <1>2 DEF IInv, RetryIsOfFailed, ReadIsOwn, Reclaiming, Missing, Unusable
<1>6. StoredIsDone' /\ SucceededIsDone'
  BY <1>2 DEF IInv, StoredIsDone, SucceededIsDone
<1>7. QED BY <1>1, <1>3, <1>4, <1>5, <1>6 DEF IInv

\* A claim of a row that nobody executes, with the payload of the request.  The
\* others still know whether the row is the one they read.
LEMMA ClaimIInv ==
  ASSUME IInv, NEW w \in Workers, pc[w] # "idle", Claimed(w), UNCHANGED faults,
         \A v \in Workers : ~Executing(v),
         row' \in RowType, row'.id = row.id, row'.fingerprint = payload[w],
         row'.status = "processing", row'.until = "future", ~row'.expired,
         Missing \/ row.fingerprint = payload[w]
  PROVE  IInv'
<1>1. TypeOK'
  BY WrittenIsTyped
  DEF IInv, Claimed, request, Forget, Goto, TypeOK, TypeOfRecords, RowType, Steps, ExecuteSteps
<1>2. /\ \A v \in Workers : v # w => pc'[v] = pc[v] /\ seen'[v] = seen[v] /\ late'[v] = late[v]
      /\ pc'[w] = "execute" /\ UNCHANGED <<payload, done, faults>>
  BY DEF IInv, Claimed, request, Forget, Goto, TypeOK, TypeOfRecords
<1>3. HasPayload' /\ RowHasPayload'
  BY <1>2 DEF IInv, HasPayload, RowHasPayload
<1>4. OwnerHasRow' /\ KeyIsExclusive'
  BY <1>2 DEF OwnerHasRow, KeyIsExclusive, Executing, ExecuteSteps
<1>5. StaleReadIsBlocked' /\ RetryIsOfFailed'
  BY <1>2 DEF IInv, StaleReadIsBlocked, RetryIsOfFailed, Executing
<1>6. ReadIsOwn'
  BY <1>2 DEF IInv, ReadIsOwn, Reclaiming, Missing
<1>7. StoredIsDone' /\ SucceededIsDone'
  BY <1>2 DEF IInv, StoredIsDone, SucceededIsDone
<1>8. QED BY <1>1, <1>3, <1>4, <1>5, <1>6, <1>7 DEF IInv

\* TryReclaim succeeds only for a request whose read is not stale, and only on
\* a row that nobody executes.
LEMMA ReclaimIInv ==
  ASSUME IInv, NEW w \in Workers, Reclaiming(w), Reclaimable(w), TryReclaim, Claimed(w),
         UNCHANGED faults
  PROVE  IInv'
<1>1. pc[w] # "idle" /\ seen[w].id = row.id /\ row.fingerprint = payload[w]
  BY DEF IInv, Reclaiming, Reclaimable, AsSeen, ReadIsOwn
<1>2. ASSUME NEW v \in Workers, Executing(v) PROVE FALSE
  <2>1. row.status = "processing" /\ seen[w].status = "processing"
    BY <1>2 DEF IInv, OwnerHasRow, Reclaimable, AsSeen
  <2>2. pc[w] = "reclaimExpired"
    BY <2>1 DEF IInv, RetryIsOfFailed, Reclaiming
  <2>3. row.until = "future" \/ "locked_until" \in late[w]
    BY <1>1, <1>2, <2>1, <2>2 DEF IInv, StaleReadIsBlocked
  <2>4. row.until # "null"
    BY <1>2 DEF IInv, OwnerHasRow
  <2>5. QED BY <2>3, <2>4 DEF Reclaimable, Blocks, IInv, TypeOK, TypeOfRecords
<1>3. /\ row' \in RowType /\ row'.id = row.id /\ row'.fingerprint = row.fingerprint
      /\ row'.status = "processing" /\ row'.until = "future" /\ ~row'.expired
  BY DEF IInv, TypeOK, TypeOfRecords, TryReclaim, RowType, RecordStatuses
<1>4. QED BY <1>1, <1>2, <1>3, ClaimIInv

\* Every step of a request, of time and of cleanup preserves the invariant.
LEMMA NextIInv == IInv /\ [Next]_vars => IInv'
<1>1. SUFFICES ASSUME IInv, [Next]_vars PROVE IInv'
  OBVIOUS
<1>2. TypeOK /\ faults \in 0..MaxFaults
  BY <1>1 DEF IInv, TypeOK
<1>3. CASE UNCHANGED vars
  BY <1>1, <1>3
  DEF vars, IInv, TypeOK, TypeOfRecords, Missing, Executing, Reclaiming, HasPayload, RowHasPayload,
      OwnerHasRow, KeyIsExclusive, StaleReadIsBlocked, RetryIsOfFailed, ReadIsOwn, StoredIsDone,
      SucceededIsDone
<1>4. ASSUME NEW w \in Workers, NEW p \in Payloads, Begin(w, p) PROVE IInv'
  <2>1. TypeOK'
    BY <1>2, <1>4 DEF Begin, Go, Goto, TypeOK, TypeOfRecords, Steps, LookupSteps
  <2>2. /\ \A v \in Workers : v # w => pc'[v] = pc[v] /\ payload'[v] = payload[v]
        /\ pc'[w] = "create" /\ payload'[w] = p /\ UNCHANGED <<row, seen, late, done>>
    BY <1>2, <1>4 DEF Begin, Go, Goto, TypeOK, TypeOfRecords
  <2>3. HasPayload' /\ RowHasPayload' /\ OwnerHasRow' /\ KeyIsExclusive'
    BY <1>1, <2>2
    DEF IInv, HasPayload, RowHasPayload, Missing, OwnerHasRow, KeyIsExclusive, Executing, ExecuteSteps
  <2>4. StaleReadIsBlocked' /\ RetryIsOfFailed' /\ ReadIsOwn'
    BY <1>1, <2>2
    DEF IInv, StaleReadIsBlocked, RetryIsOfFailed, ReadIsOwn, Reclaiming, Missing, Executing, ExecuteSteps
  <2>5. StoredIsDone' /\ SucceededIsDone'
    BY <1>1, <2>2 DEF IInv, StoredIsDone, SucceededIsDone
  <2>6. QED BY <2>1, <2>3, <2>4, <2>5 DEF IInv
<1>5. ASSUME NEW w \in Workers, CreateClaim(w), UNCHANGED faults PROVE IInv'
  <2>1. CASE Missing
    <3>1. CreateProcessing(payload[w]) /\ Claimed(w) /\ pc[w] # "idle"
      BY <1>5, <2>1 DEF CreateClaim, At
    <3>2. \A v \in Workers : ~Executing(v)
      BY <1>1, <2>1 DEF IInv, OwnerHasRow, Missing
    <3>3. row.id \in {0, 1} /\ payload[w] \in Payloads
      BY <1>1, <1>2, <3>1 DEF IInv, HasPayload, TypeOK, TypeOfRecords
    <3>4. /\ row' \in RowType /\ row'.id = row.id /\ row'.fingerprint = payload[w]
          /\ row'.status = "processing" /\ row'.until = "future" /\ ~row'.expired
      BY <3>1, <3>3 DEF CreateProcessing, RowType, RecordStatuses
    <3>5. QED BY <1>1, <1>5, <2>1, <3>1, <3>2, <3>4, ClaimIInv
  <2>2. CASE ~Missing
    BY <1>1, <1>5, <2>2, ContinueIInv DEF CreateClaim, At
  <2>3. QED BY <2>1, <2>2
<1>6. ASSUME NEW w \in Workers, ReadExisting(w), UNCHANGED faults PROVE IInv'
  <2>1. CASE Return(w)
    BY <1>1, <1>2, <1>6, <2>1, ReturnIInv DEF ReadExisting
  <2>2. CASE ~Unusable(w) /\ ExpiredFor(w) /\ Retry(w, "reclaimExpired")
    BY <1>1, <1>6, <2>2, RetryIInv DEF ReadExisting, ExpiredFor, At
  <2>3. CASE ~Unusable(w) /\ Retryable(w) /\ Retry(w, "reclaim")
    BY <1>1, <1>6, <2>3, RetryIInv DEF ReadExisting, Retryable, At
  <2>4. QED BY <1>6, <2>1, <2>2, <2>3 DEF ReadExisting
<1>7. ASSUME NEW w \in Workers, ReclaimExpired(w), UNCHANGED faults PROVE IInv'
  <2>1. CASE Reclaimable(w)
    BY <1>1, <1>7, <2>1, ReclaimIInv DEF ReclaimExpired, At, Reclaiming
  <2>2. CASE ~Reclaimable(w)
    BY <1>1, <1>7, <2>2, ContinueIInv DEF ReclaimExpired, At
  <2>3. QED BY <2>1, <2>2
<1>8. ASSUME NEW w \in Workers, RereadExisting(w), UNCHANGED faults PROVE IInv'
  <2>1. CASE ~Unusable(w) /\ Retryable(w)
    BY <1>1, <1>8, <2>1, RetryIInv DEF RereadExisting, Retryable, At
  <2>2. CASE ~(~Unusable(w) /\ Retryable(w))
    BY <1>1, <1>2, <1>8, <2>2, ReturnIInv DEF RereadExisting
  <2>3. QED BY <2>1, <2>2
<1>9. ASSUME NEW w \in Workers, ReclaimFailed(w), UNCHANGED faults PROVE IInv'
  <2>1. CASE Reclaimable(w)
    BY <1>1, <1>9, <2>1, ReclaimIInv DEF ReclaimFailed, At, Reclaiming
  <2>2. CASE ~Reclaimable(w)
    BY <1>1, <1>2, <1>9, <2>2, ReturnIInv DEF ReclaimFailed
  <2>3. QED BY <2>1, <2>2
<1>10. ASSUME NEW w \in Workers, Fails(w) PROVE IInv'
  <2>1. faults < MaxFaults /\ faults' = faults + 1 /\ Return(w) /\ UNCHANGED row
    BY <1>10 DEF Fails
  <2>2. faults' \in 0..MaxFaults
    BY <1>2, <2>1, FaultsAssumption
  <2>3. QED BY <1>1, <2>1, <2>2, ReturnIInv
<1>11. ASSUME NEW w \in Workers, Operate(w), UNCHANGED faults PROVE IInv'
  <2>1. PICK step \in {"markOk", "markFail"} :
          /\ Go(w, step) /\ UNCHANGED <<row, payload, faults>>
          /\ done' = IF step = "markOk" THEN [done EXCEPT ![payload[w]] = @ + 1] ELSE done
    BY <1>11 DEF Operate
  <2>2. pc[w] = "execute" /\ payload[w] \in Payloads
    BY <1>1, <1>11 DEF IInv, HasPayload, Operate, At
  <2>3. /\ \A v \in Workers : v # w => pc'[v] = pc[v]
        /\ pc'[w] = step /\ UNCHANGED <<row, seen, late, payload, faults>>
    BY <1>2, <2>1 DEF Go, Goto, TypeOK, TypeOfRecords
  <2>4. /\ done' \in [Payloads -> Nat] /\ \A p \in Payloads : done'[p] >= done[p]
        /\ step = "markOk" => done'[payload[w]] > 0
    <3>1. done \in [Payloads -> Nat]
      BY <1>2 DEF TypeOK
    <3>2. CASE step = "markOk"
      <4>1. done' = [done EXCEPT ![payload[w]] = @ + 1]
        BY <2>1, <3>2
      <4>2. QED BY <2>2, <3>1, <4>1
    <3>3. CASE step # "markOk"
      <4>1. done' = done
        BY <2>1, <3>3
      <4>2. QED BY <3>1, <3>3, <4>1
    <3>4. QED BY <3>2, <3>3
  <2>5. TypeOK'
    BY <1>2, <2>1, <2>4 DEF Go, Goto, TypeOK, TypeOfRecords, Steps, ExecuteSteps
  <2>6. HasPayload' /\ RowHasPayload' /\ OwnerHasRow' /\ KeyIsExclusive'
    BY <1>1, <2>2, <2>3
    DEF IInv, HasPayload, RowHasPayload, Missing, OwnerHasRow, KeyIsExclusive, Executing, ExecuteSteps
  <2>7. StaleReadIsBlocked' /\ RetryIsOfFailed' /\ ReadIsOwn'
    BY <1>1, <2>2, <2>3
    DEF IInv, StaleReadIsBlocked, RetryIsOfFailed, ReadIsOwn, Reclaiming, Missing, Executing, ExecuteSteps
  <2>8. StoredIsDone'
    <3>1. ASSUME NEW v \in Workers, pc'[v] = "markOk" PROVE done'[payload[v]] > 0
      <4>1. CASE v = w
        BY <2>3, <2>4, <3>1, <4>1
      <4>2. CASE v # w
        <5>1. pc[v] = "markOk" /\ payload[v] \in Payloads /\ done[payload[v]] > 0
          BY <1>1, <2>3, <3>1, <4>2 DEF IInv, StoredIsDone, HasPayload
        <5>2. done[payload[v]] \in Nat /\ done'[payload[v]] \in Nat
          BY <1>2, <2>4, <5>1 DEF TypeOK
        <5>3. QED BY <2>4, <5>1, <5>2
      <4>3. QED BY <4>1, <4>2
    <3>2. QED BY <2>3, <3>1 DEF StoredIsDone
  <2>9. SucceededIsDone'
    BY <1>1, <2>2, <2>3 DEF IInv, OwnerHasRow, Executing, ExecuteSteps, SucceededIsDone
  <2>10. QED BY <2>5, <2>6, <2>7, <2>8, <2>9 DEF IInv
<1>12. ASSUME NEW w \in Workers, UNCHANGED faults, Return(w), Executing(w),
              row' \in RowType, row'.id = row.id, row'.fingerprint = row.fingerprint,
              ~row'.expired, row'.status \in {"succeeded", "failed_retryable"},
              row'.status = "succeeded" => done[payload[w]] > 0
       PROVE  IInv'
  <2>1. TypeOK'
    BY <1>2, <1>12, WrittenIsTyped DEF Return, Forget, Goto, TypeOK, TypeOfRecords, Steps, RowType
  <2>2. /\ \A v \in Workers : v # w =>
             pc'[v] = pc[v] /\ seen'[v] = seen[v] /\ late'[v] = late[v] /\ payload'[v] = payload[v]
        /\ pc'[w] = "idle" /\ done' = done
    BY <1>2, <1>12 DEF Return, Forget, Goto, TypeOK, TypeOfRecords
  <2>3. \A v \in Workers : ~Executing(v)'
    BY <1>1, <1>12, <2>2 DEF IInv, KeyIsExclusive, Executing, ExecuteSteps
  <2>4. row.fingerprint = payload[w] /\ ~Missing
    BY <1>1, <1>12 DEF IInv, OwnerHasRow, Missing
  <2>5. HasPayload' /\ RowHasPayload' /\ OwnerHasRow' /\ KeyIsExclusive' /\ StaleReadIsBlocked'
    BY <1>1, <1>12, <2>2, <2>3, <2>4
    DEF IInv, HasPayload, RowHasPayload, Missing, OwnerHasRow, KeyIsExclusive, StaleReadIsBlocked
  <2>6. RetryIsOfFailed' /\ ReadIsOwn'
    BY <1>1, <1>12, <2>2, <2>4 DEF IInv, RetryIsOfFailed, ReadIsOwn, Reclaiming, Missing
  <2>7. StoredIsDone' /\ SucceededIsDone'
    BY <1>1, <1>12, <2>2, <2>4 DEF IInv, StoredIsDone, SucceededIsDone
  <2>8. QED BY <2>1, <2>5, <2>6, <2>7 DEF IInv
<1>13. ASSUME NEW w \in Workers, MarkOk(w), UNCHANGED faults PROVE IInv'
  <2>1. MarkSucceeded /\ Return(w) /\ pc[w] = "markOk"
    BY <1>13 DEF MarkOk, At
  <2>2. Executing(w) /\ ~row.expired /\ done[payload[w]] > 0
    BY <1>1, <2>1 DEF IInv, Executing, ExecuteSteps, OwnerHasRow, StoredIsDone
  <2>3. /\ row' \in RowType /\ row'.id = row.id /\ row'.fingerprint = row.fingerprint
        /\ ~row'.expired /\ row'.status = "succeeded"
    BY <1>2, <2>1, <2>2 DEF MarkSucceeded, RowType, RecordStatuses, TypeOK, TypeOfRecords
  <2>4. QED BY <1>12, <1>13, <2>1, <2>2, <2>3
<1>14. ASSUME NEW w \in Workers, MarkFail(w), UNCHANGED faults PROVE IInv'
  <2>1. MarkFailedRetryable("future") /\ Return(w) /\ pc[w] = "markFail"
    BY <1>14 DEF MarkFail, At
  <2>2. Executing(w) /\ ~row.expired
    BY <1>1, <2>1 DEF IInv, Executing, ExecuteSteps, OwnerHasRow
  <2>3. /\ row' \in RowType /\ row'.id = row.id /\ row'.fingerprint = row.fingerprint
        /\ ~row'.expired /\ row'.status = "failed_retryable"
    BY <1>2, <2>1, <2>2 DEF MarkFailedRetryable, RowType, RecordStatuses, TypeOK, TypeOfRecords
  <2>4. QED BY <1>12, <1>14, <2>1, <2>2, <2>3
<1>15. CASE Unlock
  <2>1. /\ row' = [row EXCEPT !.until = "past"] /\ UNCHANGED <<pc, seen, payload, done, faults>>
        /\ late' = [w \in Workers |->
                      IF w \in Calls THEN late[w] \cup {"locked_until"} ELSE late[w]]
    BY <1>15 DEF Unlock, LockPasses, Passes, request
  <2>2. /\ row' \in RowType /\ row'.id = row.id /\ row'.fingerprint = row.fingerprint
        /\ row'.status = row.status /\ row'.until = "past" /\ row'.expired = row.expired
    BY <1>2, <2>1 DEF RowType, TypeOK, TypeOfRecords
  <2>3. TypeOK'
    BY <1>2, <2>1, <2>2 DEF RowType, TypeOK, TypeOfRecords
  <2>4. HasPayload' /\ RowHasPayload' /\ OwnerHasRow' /\ KeyIsExclusive'
    BY <1>1, <2>1, <2>2
    DEF IInv, HasPayload, RowHasPayload, Missing, OwnerHasRow, KeyIsExclusive, Executing
  <2>5. StaleReadIsBlocked'
    BY <2>1 DEF StaleReadIsBlocked, Calls
  <2>6. RetryIsOfFailed' /\ ReadIsOwn'
    BY <1>1, <2>1, <2>2 DEF IInv, RetryIsOfFailed, ReadIsOwn, Reclaiming, Missing
  <2>7. StoredIsDone' /\ SucceededIsDone'
    BY <1>1, <2>1, <2>2 DEF IInv, StoredIsDone, SucceededIsDone
  <2>8. QED BY <2>3, <2>4, <2>5, <2>6, <2>7 DEF IInv
<1>16. CASE Expire
  <2>1. /\ row' = [row EXCEPT !.expired = TRUE] /\ UNCHANGED <<pc, seen, payload, faults>>
        /\ done' = [p \in Payloads |-> 0]
        /\ late' = [w \in Workers |->
                      IF w \in Calls THEN late[w] \cup {"expires_at"} ELSE late[w]]
    BY <1>16 DEF Expire, TimeToLivePasses, Passes
  <2>2. /\ row' \in RowType /\ row'.id = row.id /\ row'.fingerprint = row.fingerprint
        /\ row'.status = row.status /\ row'.expired = TRUE
    BY <1>2, <2>1 DEF RowType, TypeOK, TypeOfRecords
  <2>3. \A w \in Workers : pc[w] \in {"idle", "create", "read"}
    BY <1>16 DEF Expire, Calls
  <2>4. TypeOK'
    BY <1>2, <2>1, <2>2 DEF RowType, TypeOK, TypeOfRecords
  <2>5. HasPayload' /\ RowHasPayload'
    BY <1>1, <2>1, <2>2 DEF IInv, HasPayload, RowHasPayload, Missing
  <2>6. OwnerHasRow' /\ KeyIsExclusive' /\ StaleReadIsBlocked'
    BY <2>1, <2>3 DEF OwnerHasRow, KeyIsExclusive, StaleReadIsBlocked, Executing, ExecuteSteps
  <2>7. RetryIsOfFailed' /\ ReadIsOwn' /\ StoredIsDone' /\ SucceededIsDone'
    BY <2>1, <2>2, <2>3 DEF RetryIsOfFailed, ReadIsOwn, Reclaiming, StoredIsDone, SucceededIsDone
  <2>8. QED BY <2>4, <2>5, <2>6, <2>7 DEF IInv
<1>17. CASE Cleanup
  <2>1. row' = NoRow(1 - row.id) /\ UNCHANGED <<pc, seen, late, payload, done, faults>>
    BY <1>17, Zenon DEF Cleanup, DeleteExpired, request
  <2>2. row.expired
    BY <1>17, Zenon DEF Cleanup, DeleteExpired
  <2>3. row.id \in {0, 1}
    BY <1>2 DEF TypeOK, TypeOfRecords
  <2>4. 1 - row.id \in {0, 1} /\ 1 - row.id # row.id
    BY <2>3
  <2>5. row' \in RowType
    BY <2>1, <2>4, WrittenIsTyped
  <2>6. row'.id = 1 - row.id /\ row'.status = "none" /\ row'.expired = FALSE
    BY <2>1 DEF NoRow
  <2>7. TypeOK'
    BY <1>2, <2>1, <2>5 DEF RowType, TypeOK, TypeOfRecords
  <2>8. \A w \in Workers : ~Executing(w)
    BY <1>1, <2>2 DEF IInv, OwnerHasRow
  <2>9. HasPayload' /\ RowHasPayload' /\ OwnerHasRow' /\ KeyIsExclusive' /\ StaleReadIsBlocked'
    BY <1>1, <2>1, <2>6, <2>8
    DEF IInv, HasPayload, RowHasPayload, Missing, OwnerHasRow, KeyIsExclusive, StaleReadIsBlocked,
        Executing
  <2>10. \A w \in Workers : Reclaiming(w) => seen[w].id = row.id
    BY <1>1, <2>2 DEF IInv, ReadIsOwn
  <2>11. RetryIsOfFailed' /\ ReadIsOwn'
    BY <1>1, <2>1, <2>4, <2>6, <2>10 DEF IInv, RetryIsOfFailed, ReadIsOwn, Reclaiming
  <2>12. StoredIsDone' /\ SucceededIsDone'
    BY <1>1, <2>1, <2>6 DEF IInv, StoredIsDone, SucceededIsDone
  <2>13. QED BY <2>7, <2>9, <2>11, <2>12 DEF IInv
<1>18. QED
  BY <1>1, <1>3, <1>4, <1>5, <1>6, <1>7, <1>8, <1>9, <1>10, <1>11, <1>13, <1>14, <1>15, <1>16, <1>17
  DEF Next, Execute

\* The invariant holds in every reachable state.
LEMMA IInvHolds == Spec => []IInv
<1>1. QED BY InitIInv, NextIInv, PTL DEF Spec

\* A key is executed by one request at a time: neither a reclaim of a failed or
\* an expired row nor a cleanup lets a second one in, for any number of
\* requests, payloads and faults.
THEOREM KeyIsSafe == Spec => []KeyIsExclusive
<1>1. IInv => KeyIsExclusive
  BY DEF IInv
<1>2. QED BY IInvHolds, <1>1, PTL

\* A stored response is replayed only for a request that was itself executed
\* with success in the time to live of its key.
THEOREM ReplayIsSafe == Spec => []SucceededIsDone
<1>1. IInv => SucceededIsDone
  BY DEF IInv
<1>2. QED BY IInvHolds, <1>1, PTL

\* The type invariant, for any number of requests, payloads and faults.
THEOREM CoordinatorTypeCorrect == Spec => []TypeOK
<1>1. IInv => TypeOK
  BY DEF IInv
<1>2. QED BY IInvHolds, <1>1, PTL
=============================================================================
