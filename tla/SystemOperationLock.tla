------------------------ MODULE SystemOperationLock ------------------------
(***************************************************************************)
(* SystemOperationLockService: update, rollback and restart of the server  *)
(* run one at a time, under a lock that is a row of idempotency_records.   *)
(* The lease of the lock is 30 seconds, an operation may take 15 minutes:  *)
(* a goroutine of the owner renews the lease every 10 seconds until the    *)
(* lock is released or a renewal no longer finds the row of the owner.     *)
(* One renewal in each lease reaches the database.  The row lives for an   *)
(* hour after its last statement, longer than any operation.               *)
(***************************************************************************)
EXTENDS IdempotencyRecords

CONSTANTS
  Operations,  \* operation ids; a request that is sent again has the same one
  MaxFaults    \* bound: failed statements and crashes in one behaviour

ASSUME OperationsAssumption == "" \notin Operations
ASSUME FaultsAssumption == MaxFaults \in Nat

VARIABLES
  op,        \* the operation id of each worker, "" when it has none
  renewing,  \* the workers whose renewLoop runs
  faults

vars == <<row, pc, seen, late, op, renewing, faults>>

AcquireSteps == {"create", "read", "reclaim"}
ReleaseSteps == {"releaseOk", "releaseFail"}
Steps == {"idle", "operate"} \cup AcquireSteps \cup ReleaseSteps
Acquiring == {w \in Workers : pc[w] \in AcquireSteps}

Init ==
  /\ InitRecords /\ faults = 0
  /\ op = [w \in Workers |-> ""] /\ renewing = {}

-----------------------------------------------------------------------------
\* An admin starts an operation.  The idempotency coordinator lets only one
\* request with the same operation id through at a time.
Begin(w, o) ==
  /\ At(w, "idle") /\ \A v \in Workers : op[v] # o
  /\ Go(w, "create") /\ op' = [op EXCEPT ![w] = o]
  /\ UNCHANGED <<row, renewing, faults>>

Return(w) ==
  /\ Forget(w, "idle") /\ op' = [op EXCEPT ![w] = ""]
  /\ UNCHANGED renewing

\* The lock is acquired, and its renewLoop is started.
Acquired(w) ==
  /\ Forget(w, "operate") /\ renewing' = renewing \cup {w}
  /\ UNCHANGED op

CreateLock(w) ==
  /\ At(w, "create")
  /\ IF Missing
       THEN CreateProcessing(op[w]) /\ Acquired(w)
       ELSE Go(w, "read") /\ UNCHANGED <<row, op, renewing>>

Busy(w) == row.status = "processing" /\ Blocks(w)

ReadLock(w) ==
  /\ At(w, "read") /\ UNCHANGED row
  /\ IF Missing \/ Busy(w)
       THEN Return(w)
       ELSE GetByScopeAndKeyHash(w) /\ Goto(w, "reclaim") /\ UNCHANGED <<late, op, renewing>>

ReclaimLock(w) ==
  /\ At(w, "reclaim")
  /\ IF Reclaimable(w)
       THEN TryReclaim /\ Acquired(w)
       ELSE UNCHANGED row /\ Return(w)

\* Mutant: the renewal is stopped only by the release that succeeded.
OperationEndsRenewed(w) ==
  /\ At(w, "operate")
  /\ Go(w, "releaseOk") \/ Go(w, "releaseFail")
  /\ UNCHANGED <<row, op, renewing>>

\* The operation ends, with or without success, and Release stops the renewal.
OperationEnds(w) ==
  /\ At(w, "operate")
  /\ Go(w, "releaseOk") \/ Go(w, "releaseFail")
  /\ renewing' = renewing \ {w}
  /\ UNCHANGED <<row, op>>

ReleaseOk(w) == At(w, "releaseOk") /\ MarkSucceeded /\ Return(w)

\* locked_until is set to now, which is still to come for the calls that began
\* before; whether a lock that was given up blocks depends on its status only.
ReleaseFail(w) ==
  /\ At(w, "releaseFail") /\ MarkFailedRetryable("past")
  /\ Goto(w, "idle") /\ op' = [op EXCEPT ![w] = ""]
  /\ seen' = [seen EXCEPT ![w] = NotSeen]
  /\ Passes("locked_until", Acquiring)
  /\ UNCHANGED renewing

Operation(w) ==
  /\ \/ CreateLock(w) \/ ReadLock(w) \/ ReclaimLock(w)
     \/ OperationEnds(w) \/ ReleaseOk(w) \/ ReleaseFail(w)
  /\ UNCHANGED faults

\* A tick of renewLoop finds no row that it may renew, and the loop ends.  As
\* long as it finds one it keeps locked_until in the future.
RenewLoopEnds(w) ==
  /\ w \in renewing /\ ~Extendable(op[w])
  /\ renewing' = renewing \ {w}
  /\ UNCHANGED <<row, pc, seen, late, op, faults>>

\* The lease runs out when nobody renews it.  The statement of Release is given
\* two seconds, which is less than what a lease has left when its renewal stops.
LeasePasses ==
  /\ renewing = {} /\ \A w \in Workers : pc[w] \notin ReleaseSteps
  /\ LockPasses(Acquiring)
  /\ UNCHANGED <<op, renewing, faults>>

\* A statement of Acquire or Release fails, or the server stops: the operation
\* is over for its caller, and the row stays.
Fails(w) ==
  /\ faults < MaxFaults /\ faults' = faults + 1
  /\ pc[w] # "idle"
  /\ Forget(w, "idle") /\ op' = [op EXCEPT ![w] = ""]
  /\ renewing' = IF At(w, "operate") THEN renewing \ {w} ELSE renewing
  /\ UNCHANGED row

Expire ==
  /\ \A w \in Workers : pc[w] \in {"idle", "create", "read"}
  /\ TimeToLivePasses({})  \* Acquire does not look at expires_at
  /\ UNCHANGED <<op, renewing, faults>>

Cleanup == DeleteExpired /\ UNCHANGED <<op, renewing, faults>>

Next ==
  \/ \E w \in Workers, o \in Operations : Begin(w, o)
  \/ \E w \in Workers : Operation(w) \/ RenewLoopEnds(w) \/ Fails(w)
  \/ LeasePasses \/ Expire \/ Cleanup

Spec == Init /\ [][Next]_vars

\* An operation ends within 15 minutes, renewLoop ticks, and time passes.
FairSpec ==
  /\ Spec /\ WF_vars(LeasePasses)
  /\ \A w \in Workers : WF_vars(Operation(w)) /\ WF_vars(RenewLoopEnds(w))

-----------------------------------------------------------------------------
(* Properties. *)

\* The row and the locals have the types of their columns and fields, and the
\* bound on faults is kept.
TypeOK ==
  /\ TypeOfRecords(Operations, Steps)
  /\ op \in [Workers -> Operations \cup {""}]
  /\ renewing \subseteq Workers /\ faults \in 0..MaxFaults

\* As long as the renewals of an owner find its row, no step lets another
\* operation in, however late its reads and its reclaim are.
Holds(w) == w \in renewing /\ Extendable(op[w])
RenewedLockIsRespected ==
  [][\A v, w \in Workers :
       v # w /\ Holds(w) /\ pc[v] # "operate" => pc'[v] # "operate"]_vars

\* A lock does not block forever, also when its owner died or could not store
\* the release.
LockIsFreed == row.until = "future" ~> row.until # "future"

\* Two system operations never run at the same time.
OperationsAreExclusive ==
  \A v, w \in Workers : pc[v] = "operate" /\ pc[w] = "operate" => v = w
=============================================================================
