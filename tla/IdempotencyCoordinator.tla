----------------------- MODULE IdempotencyCoordinator -----------------------
(***************************************************************************)
(* IdempotencyCoordinator.Execute: a request with an Idempotency-Key runs  *)
(* its operation only when it claims the row of the key, and is answered   *)
(* from the row otherwise.  Requests with different keys share nothing, so *)
(* the model has one key, sent with the same or with another payload.      *)
(*                                                                         *)
(* The requests are those without ExecutionTimeout, which renew no lease.  *)
(* The time to live of the row (a day, or an hour for system operations)   *)
(* does not end while a request executes or is between two statements.     *)
(***************************************************************************)
EXTENDS IdempotencyRecords

CONSTANTS
  Payloads,  \* what the key is used for: requests have different fingerprints
  MaxFaults  \* bound: failed statements and crashes in one behaviour

ASSUME PayloadsAssumption == "" \notin Payloads
ASSUME FaultsAssumption == MaxFaults \in Nat

VARIABLES
  payload,  \* the request that each worker serves
  done,     \* how often each was executed with success in the time to live
  faults

request == <<payload, done>>
vars == <<row, pc, seen, late, payload, done, faults>>

LookupSteps == {"create", "read", "reclaimExpired", "reread", "reclaim"}
ExecuteSteps == {"execute", "markOk", "markFail"}
Steps == {"idle"} \cup LookupSteps \cup ExecuteSteps

Calls == {w \in Workers : pc[w] # "idle"}

Init ==
  /\ InitRecords /\ faults = 0
  /\ payload = [w \in Workers |-> ""] /\ done = [p \in Payloads |-> 0]

-----------------------------------------------------------------------------
\* A client sends a request, or sends it again.
Begin(w, p) ==
  /\ At(w, "idle") /\ Go(w, "create")
  /\ payload' = [payload EXCEPT ![w] = p]
  /\ UNCHANGED <<row, done, faults>>

Return(w) ==
  /\ Forget(w, "idle")
  /\ payload' = [payload EXCEPT ![w] = ""]
  /\ UNCHANGED done

Claimed(w) == Forget(w, "execute") /\ UNCHANGED request
Continue(w, step) == Go(w, step) /\ UNCHANGED request

CreateClaim(w) ==
  /\ At(w, "create")
  /\ IF Missing
       THEN CreateProcessing(payload[w]) /\ Claimed(w)
       ELSE UNCHANGED row /\ Continue(w, "read")

\* Mutant: the fingerprint of the row is not compared.
UnusableIfGone(w) == Missing

\* The row is gone, or belongs to a request with another payload.
Unusable(w) == Missing \/ row.fingerprint # payload[w]

\* The switch on the status: a failed row whose backoff is over may be tried,
\* the others answer, with the stored response or a conflict.
Retryable(w) == row.status = "failed_retryable" /\ ~Blocks(w)

Retry(w, step) ==
  /\ GetByScopeAndKeyHash(w) /\ Goto(w, step)
  /\ UNCHANGED <<late, request>>

ReadExisting(w) ==
  /\ At(w, "read") /\ UNCHANGED row
  /\ \/ Unusable(w) /\ Return(w)
     \/ ~Unusable(w) /\ ExpiredFor(w) /\ Retry(w, "reclaimExpired")
     \/ ~Unusable(w) /\ ~ExpiredFor(w) /\ Retryable(w) /\ Retry(w, "reclaim")
     \/ ~Unusable(w) /\ ~ExpiredFor(w) /\ ~Retryable(w) /\ Return(w)

\* TryReclaim compares the status and the lock of the row, not its expiry.
ReclaimExpired(w) ==
  /\ At(w, "reclaimExpired")
  /\ IF Reclaimable(w)
       THEN TryReclaim /\ Claimed(w)
       ELSE UNCHANGED row /\ Continue(w, "reread")

RereadExisting(w) ==
  /\ At(w, "reread") /\ UNCHANGED row
  /\ IF ~Unusable(w) /\ Retryable(w) THEN Retry(w, "reclaim") ELSE Return(w)

ReclaimFailed(w) ==
  /\ At(w, "reclaim")
  /\ IF Reclaimable(w)
       THEN TryReclaim /\ Claimed(w)
       ELSE UNCHANGED row /\ Return(w)

\* The operation succeeds or fails.
Operate(w) ==
  /\ At(w, "execute")
  /\ \/ Go(w, "markOk") /\ done' = [done EXCEPT ![payload[w]] = @ + 1]
     \/ Go(w, "markFail") /\ UNCHANGED done
  /\ UNCHANGED <<row, payload>>

MarkOk(w) == At(w, "markOk") /\ MarkSucceeded /\ Return(w)

MarkFail(w) == At(w, "markFail") /\ MarkFailedRetryable("future") /\ Return(w)

Execute(w) ==
  /\ \/ CreateClaim(w) \/ ReadExisting(w) \/ ReclaimExpired(w) \/ RereadExisting(w)
     \/ ReclaimFailed(w) \/ Operate(w) \/ MarkOk(w) \/ MarkFail(w)
  /\ UNCHANGED faults

\* A statement fails, or the server stops: the request ends, the row stays.
\* A client that hangs up has the same effect on the last statement, which
\* uses the context of the request.
Fails(w) ==
  /\ faults < MaxFaults /\ faults' = faults + 1
  /\ pc[w] # "idle" /\ Return(w)
  /\ UNCHANGED row

\* The processing timeout or the backoff is over.
Unlock == LockPasses(Calls) /\ UNCHANGED <<request, faults>>

\* The time to live is over, and the same request may be executed again.
Expire ==
  /\ \A w \in Calls : pc[w] \in {"create", "read"}
  /\ TimeToLivePasses(Calls)
  /\ done' = [p \in Payloads |-> 0]
  /\ UNCHANGED <<payload, faults>>

Cleanup == DeleteExpired /\ UNCHANGED <<request, faults>>

Next ==
  \/ \E w \in Workers, p \in Payloads : Begin(w, p)
  \/ \E w \in Workers : Execute(w) \/ Fails(w)
  \/ Unlock \/ Expire \/ Cleanup

Spec == Init /\ [][Next]_vars

\* A request that runs goes on running, time passes, and cleanup runs.
FairSpec ==
  /\ Spec
  /\ \A w \in Workers : WF_vars(Execute(w))
  /\ WF_vars(Unlock) /\ WF_vars(Expire) /\ WF_vars(Cleanup)

-----------------------------------------------------------------------------
(* Properties. *)

\* The row and the locals have the types of their columns and fields, and the
\* bound on faults is kept.
TypeOK ==
  /\ TypeOfRecords(Payloads, Steps)
  /\ payload \in [Workers -> Payloads \cup {""}]
  /\ done \in [Payloads -> Nat] /\ faults \in 0..MaxFaults

\* Two requests with the same key never execute at the same time, whoever
\* created, reclaimed or cleaned up the row of the key.
Executing(w) == pc[w] \in ExecuteSteps
KeyIsExclusive == \A v, w \in Workers : Executing(v) /\ Executing(w) => v = w

\* A request is answered with a stored response only after it was executed
\* itself: never with that of another payload, or of a run that failed.
SucceededIsDone ==
  row.status = "succeeded" /\ ~row.expired => done[row.fingerprint] > 0

\* A key is not blocked forever by a request that died or whose result could
\* not be stored.
KeyIsFreed == row.status = "processing" ~> row.status # "processing"
=============================================================================
