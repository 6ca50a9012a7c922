--------------------- MODULE SystemOperationLockProofs ---------------------
(***************************************************************************)
(* A lock whose renewals find their row is respected, for any number of    *)
(* operations, faults and repeated operation ids.                          *)
(***************************************************************************)
EXTENDS SystemOperationLock, TLAPS

\* Only a running operation is renewed: Release and a crash end the renewal.
RenewalsOperate == \A w \in renewing : pc[w] = "operate"

\* The lease of an owner whose renewals find their row has not run out.  This
\* is what a reclaim runs into, whenever its call read the row.
HeldIsLocked == \A w \in Workers : Holds(w) => row.until = "future"

IInv == TypeOK /\ RenewalsOperate /\ HeldIsLocked

\* The types of what the operators of IdempotencyRecords write.
RowType ==
  [id : {0, 1}, fingerprint : Operations \cup {""}, status : RecordStatuses,
   until : {"null", "past", "future"}, expired : BOOLEAN]

\* A deleted row is typed.
LEMMA NoRowIsTyped == ASSUME NEW id \in {0, 1} PROVE NoRow(id) \in RowType
BY DEF RowType, NoRow, RecordStatuses

\* A created row is typed.
LEMMA ProcessingIsTyped ==
  ASSUME NEW f \in Operations \cup {""}, row \in RowType, CreateProcessing(f)
  PROVE  row' \in RowType
BY DEF RowType, CreateProcessing, RecordStatuses

\* What a worker that read nothing has seen is typed.
LEMMA NotSeenIsTyped == NotSeen \in [id : {0, 1}, status : RecordStatuses]
BY DEF NotSeen, RecordStatuses

\* Nothing is renewed at the start.
LEMMA InitIInv == Init => IInv
<1> SUFFICES ASSUME Init PROVE IInv
  OBVIOUS
<1>1. row \in RowType
  BY NoRowIsTyped DEF Init, InitRecords
<1>2. TypeOK
  <2>1. faults \in 0..MaxFaults
    <3>1. faults = 0
      BY Zenon DEF Init
    <3>2. QED BY <3>1, FaultsAssumption
  <2>2. pc \in [Workers -> Steps] /\ op \in [Workers -> Operations \cup {""}]
    BY DEF Init, InitRecords, Steps
  <2>3. /\ seen \in [Workers -> [id : {0, 1}, status : RecordStatuses]]
        /\ late \in [Workers -> SUBSET {"locked_until", "expires_at"}]
        /\ renewing \subseteq Workers
    BY NotSeenIsTyped DEF Init, InitRecords
  <2>4. QED BY <1>1, <2>1, <2>2, <2>3 DEF TypeOK, TypeOfRecords, RowType
<1>3. RenewalsOperate /\ HeldIsLocked
  BY DEF Init, RenewalsOperate, HeldIsLocked, Holds
<1>4. QED BY <1>2, <1>3 DEF IInv

\* Every step of an operation, of its renewal and of time keeps the invariant.
LEMMA NextIInv == IInv /\ [Next]_vars => IInv'
<1> USE DEF TypeOK, TypeOfRecords, RecordStatuses, Steps, AcquireSteps, ReleaseSteps
<1>1. SUFFICES ASSUME IInv, [Next]_vars PROVE IInv'
  OBVIOUS
<1>2. CASE UNCHANGED vars
  BY <1>1, <1>2 DEF vars, IInv, RenewalsOperate, HeldIsLocked, Holds, Extendable
<1>3. ASSUME NEW w \in Workers, NEW o \in Operations, Begin(w, o) PROVE IInv'
  <2>1. TypeOK'
    BY <1>1, <1>3 DEF IInv, Begin, At, Go, Goto
  <2>2. RenewalsOperate'
    BY <1>1, <1>3 DEF IInv, RenewalsOperate, Begin, At, Go, Goto
  <2>3. HeldIsLocked'
    BY <1>1, <1>3 DEF IInv, RenewalsOperate, HeldIsLocked, Holds, Extendable, Begin, At, Go, Goto
  <2>4. QED BY <2>1, <2>2, <2>3 DEF IInv
<1>4. ASSUME NEW w \in Workers, CreateLock(w), UNCHANGED faults PROVE IInv'
  <2>1. CASE Missing
    <3>1. CreateProcessing(op[w]) /\ Acquired(w)
      BY <1>4, <2>1 DEF CreateLock
    <3>2. row' \in RowType
      BY <1>1, <3>1, ProcessingIsTyped DEF IInv, RowType
    <3>3. TypeOK'
      BY <1>1, <1>4, <3>1, <3>2, NotSeenIsTyped DEF IInv, Acquired, Forget, Goto, RowType
    <3>4. RenewalsOperate'
      BY <1>1, <3>1 DEF IInv, Acquired, Forget, Goto, RenewalsOperate
    <3>5. HeldIsLocked'
      BY <3>1 DEF CreateProcessing, HeldIsLocked
    <3>6. QED BY <3>3, <3>4, <3>5 DEF IInv
  <2>2. CASE ~Missing
    <3>1. TypeOK'
      BY <1>1, <1>4, <2>2 DEF IInv, CreateLock, Go, Goto, At
    <3>2. RenewalsOperate' /\ HeldIsLocked'
      BY <1>1, <1>4, <2>2
      DEF IInv, CreateLock, Go, Goto, At, RenewalsOperate, HeldIsLocked, Holds, Extendable
    <3>3. QED BY <3>1, <3>2 DEF IInv
  <2>3. QED BY <2>1, <2>2
<1>5. ASSUME NEW w \in Workers, pc[w] # "operate", UNCHANGED <<row, faults>>, Return(w)
      PROVE IInv'
  <2>1. TypeOK'
    BY <1>1, <1>5 DEF IInv, Return, Forget, Goto, NotSeen
  <2>2. RenewalsOperate' /\ HeldIsLocked'
    BY <1>1, <1>5 DEF IInv, Return, Forget, Goto, RenewalsOperate, HeldIsLocked, Holds, Extendable
  <2>3. QED BY <2>1, <2>2 DEF IInv
<1>6. ASSUME NEW w \in Workers, ReadLock(w), UNCHANGED faults PROVE IInv'
  <2>1. CASE Missing \/ Busy(w)
    BY <1>5, <1>6, <2>1 DEF ReadLock, At
  <2>2. CASE ~(Missing \/ Busy(w))
    <3>1. GetByScopeAndKeyHash(w) /\ Goto(w, "reclaim") /\ UNCHANGED <<row, late, op, renewing>>
      BY <1>6, <2>2 DEF ReadLock
    <3>2. TypeOK'
      BY <1>1, <1>6, <3>1 DEF IInv, GetByScopeAndKeyHash, Goto
    <3>3. RenewalsOperate' /\ HeldIsLocked'
      BY <1>1, <1>6, <2>2
      DEF IInv, ReadLock, Goto, At, RenewalsOperate, HeldIsLocked, Holds, Extendable
    <3>4. QED BY <3>2, <3>3 DEF IInv
  <2>3. QED BY <2>1, <2>2
<1>7. ASSUME NEW w \in Workers, ReclaimLock(w), UNCHANGED faults PROVE IInv'
  <2>1. CASE Reclaimable(w)
    <3>1. TryReclaim /\ Acquired(w)
      BY <1>7, <2>1 DEF ReclaimLock
    <3>2. TypeOK'
      BY <1>1, <1>7, <3>1, NotSeenIsTyped DEF IInv, TryReclaim, Acquired, Forget, Goto
    <3>3. RenewalsOperate'
      BY <1>1, <3>1 DEF IInv, Acquired, Forget, Goto, RenewalsOperate
    <3>4. HeldIsLocked'
      BY <1>1, <3>1 DEF IInv, TryReclaim, HeldIsLocked
    <3>5. QED BY <3>2, <3>3, <3>4 DEF IInv
  <2>2. CASE ~Reclaimable(w)
    BY <1>5, <1>7, <2>2 DEF ReclaimLock, At
  <2>3. QED BY <2>1, <2>2
<1>8. ASSUME NEW w \in Workers, OperationEnds(w), UNCHANGED faults PROVE IInv'
  <2>1. TypeOK'
    BY <1>1, <1>8 DEF IInv, OperationEnds, Go, Goto, At
  <2>2. RenewalsOperate' /\ HeldIsLocked'
    BY <1>1, <1>8
    DEF IInv, OperationEnds, Go, Goto, At, RenewalsOperate, HeldIsLocked, Holds, Extendable
  <2>3. QED BY <2>1, <2>2 DEF IInv
<1>9. ASSUME NEW w \in Workers, ReleaseOk(w), UNCHANGED faults PROVE IInv'
  <2>1. TypeOK'
    BY <1>1, <1>9 DEF IInv, ReleaseOk, MarkSucceeded, Return, Forget, Goto, At, NotSeen
  <2>2. RenewalsOperate' /\ HeldIsLocked'
    BY <1>1, <1>9
    DEF IInv, ReleaseOk, MarkSucceeded, Return, Forget, Goto, At, RenewalsOperate, HeldIsLocked, Holds, Extendable
  <2>3. QED BY <2>1, <2>2 DEF IInv
<1>10. ASSUME NEW w \in Workers, ReleaseFail(w), UNCHANGED faults PROVE IInv'
  <2>1. TypeOK'
    BY <1>1, <1>10 DEF IInv, ReleaseFail, MarkFailedRetryable, Passes, Goto, At, NotSeen
  <2>2. RenewalsOperate' /\ HeldIsLocked'
    BY <1>1, <1>10
    DEF IInv, ReleaseFail, MarkFailedRetryable, Goto, At, RenewalsOperate, HeldIsLocked, Holds, Extendable
  <2>3. QED BY <2>1, <2>2 DEF IInv
<1>11. ASSUME NEW w \in Workers, RenewLoopEnds(w) PROVE IInv'
  <2>1. TypeOK'
    BY <1>1, <1>11 DEF IInv, RenewLoopEnds
  <2>2. RenewalsOperate' /\ HeldIsLocked'
    BY <1>1, <1>11 DEF IInv, RenewLoopEnds, RenewalsOperate, HeldIsLocked, Holds, Extendable
  <2>3. QED BY <2>1, <2>2 DEF IInv
<1>12. ASSUME NEW w \in Workers, Fails(w) PROVE IInv'
  <2>1. faults \in 0..MaxFaults /\ faults < MaxFaults /\ faults' = faults + 1
    BY <1>1, <1>12 DEF IInv, Fails
  <2>2. faults' \in 0..MaxFaults
    BY <2>1, FaultsAssumption
  <2>3. renewing' \subseteq renewing
    BY <1>12 DEF Fails
  <2>4. TypeOK'
    BY <1>1, <1>12, <2>2, <2>3, NotSeenIsTyped DEF IInv, Fails, Forget, Goto
  <2>5. RenewalsOperate' /\ HeldIsLocked'
    BY <1>1, <1>12
    DEF IInv, Fails, Forget, Goto, At, RenewalsOperate, HeldIsLocked, Holds, Extendable
  <2>6. QED BY <2>4, <2>5 DEF IInv
<1>13. CASE LeasePasses
  <2>1. TypeOK'
    BY <1>1, <1>13 DEF IInv, LeasePasses, LockPasses, Passes
  <2>2. RenewalsOperate' /\ HeldIsLocked'
    BY <1>1, <1>13 DEF LeasePasses, RenewalsOperate, HeldIsLocked, Holds
  <2>3. QED BY <2>1, <2>2 DEF IInv
<1>14. CASE Expire
  <2>1. TypeOK'
    BY <1>1, <1>14 DEF IInv, Expire, TimeToLivePasses, Passes
  <2>2. RenewalsOperate' /\ HeldIsLocked'
    BY <1>1, <1>14
    DEF IInv, Expire, TimeToLivePasses, RenewalsOperate, HeldIsLocked, Holds, Extendable
  <2>3. QED BY <2>1, <2>2 DEF IInv
<1>15. CASE Cleanup
  <2>1. row' = NoRow(1 - row.id)
    BY <1>15, Zenon DEF Cleanup, DeleteExpired
  <2>2. row.id \in {0, 1}
    BY <1>1 DEF IInv
  <2>3. 1 - row.id \in {0, 1}
    BY <2>2
  <2>4. row' \in RowType
    BY <2>3, <2>1, NoRowIsTyped
  <2>5. TypeOK'
    BY <1>1, <1>15, <2>4 DEF IInv, Cleanup, DeleteExpired, RowType
  <2>6. RenewalsOperate' /\ HeldIsLocked'
    BY <1>1, <1>15
    DEF IInv, Cleanup, DeleteExpired, NoRow, RenewalsOperate, HeldIsLocked, Holds, Extendable
  <2>7. QED BY <2>5, <2>6 DEF IInv
<1>16. QED
  BY <1>1, <1>2, <1>3, <1>4, <1>6, <1>7, <1>8, <1>9, <1>10, <1>11, <1>12, <1>13, <1>14, <1>15
  DEF Next, Operation

\* An operation enters through a row that is missing or whose lock has passed
\* for its call; neither is the row of an owner that is renewed.
LEMMA OnlyPastLocks ==
  ASSUME IInv, [Next]_vars, NEW v \in Workers, NEW w \in Workers,
         v # w, Holds(w), pc[v] # "operate"
  PROVE  pc'[v] # "operate"
<1> USE DEF IInv, TypeOK, TypeOfRecords
<1>1. row.status = "processing" /\ row.until = "future"
  BY DEF HeldIsLocked, Holds, Extendable
<1>2. ~Missing /\ ~Reclaimable(v)
  BY <1>1 DEF Missing, Reclaimable, Blocks
<1>3. CASE UNCHANGED vars
  BY <1>3 DEF vars
<1>4. ASSUME NEW u \in Workers, NEW o \in Operations, Begin(u, o) PROVE pc'[v] # "operate"
  BY <1>4 DEF Begin, Go, Goto
<1>5. ASSUME NEW u \in Workers, Operation(u) PROVE pc'[v] # "operate"
  <2>1. CASE CreateLock(u)
    BY <1>2, <2>1 DEF CreateLock, Go, Goto
  <2>2. CASE ReadLock(u)
    BY <2>2 DEF ReadLock, Return, Forget, Goto
  <2>3. CASE ReclaimLock(u)
    BY <1>1, <2>3 DEF ReclaimLock, Reclaimable, Blocks, Return, Forget, Goto
  <2>4. CASE OperationEnds(u)
    BY <2>4 DEF OperationEnds, Go, Goto
  <2>5. CASE ReleaseOk(u) \/ ReleaseFail(u)
    BY <2>5 DEF ReleaseOk, ReleaseFail, Return, Forget, Goto
  <2>6. QED BY <1>5, <2>1, <2>2, <2>3, <2>4, <2>5 DEF Operation
<1>6. ASSUME NEW u \in Workers, RenewLoopEnds(u) \/ Fails(u) PROVE pc'[v] # "operate"
  BY <1>6 DEF RenewLoopEnds, Fails, Forget, Goto
<1>7. CASE LeasePasses \/ Expire \/ Cleanup
  BY <1>7 DEF LeasePasses, LockPasses, Expire, TimeToLivePasses, Cleanup, DeleteExpired
<1>8. QED BY <1>3, <1>4, <1>5, <1>6, <1>7 DEF Next

\* The type invariant of the lock, for any number of workers, operation ids
\* and faults.
THEOREM LockTypeCorrect == Spec => []TypeOK
<1>1. IInv => TypeOK
  BY DEF IInv
<1>2. QED BY InitIInv, NextIInv, <1>1, PTL DEF Spec

\* No operation is let in while another holds the lock and its renewals find
\* their row: Acquire never displaces a live owner that is renewed, for any
\* number of operations, failures and reused operation ids.
THEOREM RenewedLockIsSafe == Spec => RenewedLockIsRespected
<1>1. IInv /\ [Next]_vars =>
        [\A v, w \in Workers :
           v # w /\ Holds(w) /\ pc[v] # "operate" => pc'[v] # "operate"]_vars
  BY OnlyPastLocks
<1>2. QED BY InitIInv, NextIInv, <1>1, PTL DEF Spec, RenewedLockIsRespected
=============================================================================
