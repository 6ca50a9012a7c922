--------------------------- MODULE BatchImageJobs ---------------------------
(***************************************************************************)
(* The life of one image batch: Submit creates the job, reserves its hold, *)
(* has the provider start the upstream job and queues the batch; workers   *)
(* follow the upstream job, index its output and settle the hold; the user *)
(* may cancel; the billing recovery fails jobs that never reached the      *)
(* provider.  Every database, provider and queue call is a step.           *)
(***************************************************************************)
EXTENDS BatchImageHold, BatchImageQueue, FiniteSets

CONSTANTS
  MaxRetries,    \* batchImageSettlementMaxRetries
  Failures,      \* what may go wrong, see Fails
  MaxFaults      \* bound: how often

ASSUME JobBoundsAssumption == MaxRetries \in Nat \ {0} /\ MaxFaults \in Nat
ASSUME WorkersAssumption == Workers \cap {"submit", "cancel", "recover"} = {}
ASSUME JobFailuresAssumption ==
  Failures \subseteq {"claim", "ack", "lost", "db", "provider", "redis", "slow", "lock", "crash"}

VARIABLES
  \* the batch_image_jobs row; cost is what the indexed output costs, more than
  \* the hold if it cannot be settled
  status, named, retries, cost,
  upstream,          \* the provider's job
  resolvable,        \* the job's provider and account are found and fit together
  pc,                \* the step of every actor
  faults, mishaps    \* faults so far; "crash", "lock" and "lost" if there were such

row == <<status, named, retries, cost>>
outside == <<upstream, resolvable>>
vars == <<money, queue, row, outside, pc, faults, mishaps>>

-----------------------------------------------------------------------------
Actors == {"submit", "cancel", "recover"} \cup Workers
Refunded == {"failed", "cancelled"}
Terminal == Refunded \cup {"completed", "output_deleted"}
Statuses == Terminal \cup {"none", "created", "uploading", "submitted", "running",
                           "indexing", "settling"}

SubmitSteps == {"create", "reserve", "items", "upload", "provide", "attach",
                "abort", "enqueue"}
CancelSteps == {"tellProvider", "enqueue", "transition"}
WorkerSteps == {"lock", "process", "provider", "get", "index", "settle", "capture",
                "fail", "giveUp", "exhaust", "mark", "requeue", "ack"}
\* release, and what follows it: nothing, markFailed, or a retry by the queue.
BillingSteps == {"release", "releaseMark", "markFailed", "failRetry", "retry"}
Steps == {"idle"} \cup SubmitSteps \cup CancelSteps \cup WorkerSteps \cup BillingSteps

Init ==
  /\ HoldInit /\ QueueInit
  /\ status = "none" /\ named = FALSE /\ retries = 0 /\ cost = 0
  /\ upstream = "none" /\ resolvable = TRUE
  /\ pc = [a \in Actors |-> IF a = "submit" THEN "create" ELSE "idle"]
  /\ faults = 0 /\ mishaps = {}

At(a, step) == pc[a] = step
Goto(a, step) == pc' = [pc EXCEPT ![a] = step]

\* "claim" and "db": a statement fails; "ack" and "lost": it was carried out but
\* is reported as an error - "lost" where the code then forgets about the hold.
Fails(kind) ==
  /\ kind \in Failures /\ faults < MaxFaults /\ faults' = faults + 1
  /\ mishaps' = mishaps \cup ({kind} \cap {"crash", "lock", "lost"})
Works == UNCHANGED <<faults, mishaps>>

\* Mutant: a job that reached its end may be submitted.
CanTransitionRevived(to) == to \in {"submitted", "failed"} \/ status \notin Terminal

CanTransition(to) ==
  \/ to = "failed" /\ status \notin Terminal
  \/ to = "uploading" /\ status = "created"
  \/ to = "submitted" /\ status \in {"created", "uploading"}
  \/ to = "cancelled" /\ status \in {"created", "uploading", "submitted", "running"}
  \/ to \in {"running", "indexing"} /\ status \in {"submitted", "running"}
  \/ to = "settling" /\ status = "indexing"

CancelUpstream ==
  /\ upstream' = IF upstream = "running" THEN "cancelled" ELSE upstream
  /\ UNCHANGED resolvable

Transition(to) == CanTransition(to) /\ status' = to /\ UNCHANGED <<named, retries, cost>>

-----------------------------------------------------------------------------
(* The release of the hold, wherever it is called.  Its error leaves the   *)
(* release to the queue, whose workers release the holds of refunded jobs. *)

AfterRelease(a) ==
  IF At(a, "releaseMark") THEN "markFailed" ELSE IF a \in Workers THEN "ack" ELSE "idle"
AfterReleaseError(a) ==
  CASE a = "submit" -> "failRetry" [] a \in Workers -> "requeue" [] OTHER -> "retry"

Release(a) ==
  /\ At(a, "release") \/ At(a, "releaseMark")
  /\ \/ CanRelease /\ ReleaseHold /\ Goto(a, AfterRelease(a)) /\ Works
     \/ CanRelease /\ ReleaseHold /\ Goto(a, AfterReleaseError(a)) /\ Fails("ack")
     \/ ~CanRelease /\ UNCHANGED money /\ Goto(a, AfterReleaseError(a)) /\ Works
     \/ UNCHANGED money /\ Goto(a, AfterReleaseError(a)) /\ Fails("claim")
  /\ UNCHANGED <<queue, row, outside>>

\* RecordBatchImageJobSubmitFailure with markFailed looks at no status; its
\* error is ignored.
MarkFailed(a) ==
  /\ \/ At(a, "markFailed") /\ Goto(a, "idle")
     \/ At(a, "failRetry") /\ Goto(a, "retry")
  /\ \/ status' = "failed" /\ UNCHANGED <<named, retries, cost>> /\ Works
     \/ UNCHANGED row /\ Fails("db")
  /\ UNCHANGED <<money, queue, outside>>

\* enqueueBillingRetry and the Enqueue of Submit and Cancel; an error ends them.
EnqueueStep(a) ==
  /\ At(a, "retry") \/ At(a, "enqueue")
  /\ Goto(a, "idle")
  /\ \/ Enqueue /\ Works
     \/ UNCHANGED entry /\ Fails("redis")
  /\ UNCHANGED <<money, lock, row, outside>>

-----------------------------------------------------------------------------
(* Submit.                                                                 *)

CreateJob ==
  /\ At("submit", "create") /\ Goto("submit", "reserve")
  /\ status' = "created" /\ UNCHANGED <<named, retries, cost>>
  /\ UNCHANGED <<money, queue, outside>> /\ Works

\* After any error the job is failed and hidden from its owner; a hold that was
\* reserved all the same is not released.
Reserve ==
  /\ At("submit", "reserve")
  /\ \/ ReserveHold /\ Goto("submit", "items") /\ Works
     \/ ReserveHold /\ Goto("submit", "markFailed") /\ Fails("lost")
     \/ /\ UNCHANGED money /\ Goto("submit", "markFailed")
        /\ \/ balance < Hold /\ Works
           \/ Fails("claim")
  /\ UNCHANGED <<queue, row, outside>>

CreatePendingItems ==
  /\ At("submit", "items")
  /\ \/ Goto("submit", "upload") /\ Works
     \/ Goto("submit", "releaseMark") /\ Fails("db")
  /\ UNCHANGED <<money, queue, row, outside>>

\* A job that was cancelled or failed meanwhile keeps its status.
StartUpload ==
  /\ At("submit", "upload")
  /\ \/ Transition("uploading") /\ Goto("submit", "provide") /\ Works
     \/ Transition("uploading") /\ Goto("submit", "releaseMark") /\ Fails("ack")
     \/ ~CanTransition("uploading") /\ UNCHANGED row /\ Goto("submit", "release") /\ Works
     \/ UNCHANGED row /\ Goto("submit", "releaseMark") /\ Fails("db")
  /\ UNCHANGED <<money, queue, outside>>

ProviderSubmit ==
  /\ At("submit", "provide")
  /\ \/ upstream' = "running" /\ Goto("submit", "attach") /\ Works
     \/ upstream' \in {upstream, "running"} /\ Goto("submit", "releaseMark") /\ Fails("provider")
  /\ UNCHANGED <<money, queue, row, resolvable>>

\* UpdateBatchImageJobProviderSubmit; after any error the upstream job is aborted.
AttachProviderJob ==
  /\ At("submit", "attach")
  /\ \/ /\ CanTransition("submitted") /\ status' = "submitted" /\ named' = TRUE
        /\ UNCHANGED <<retries, cost>>
        /\ \/ Goto("submit", "enqueue") /\ Works
           \/ Goto("submit", "abort") /\ Fails("ack")
     \/ /\ UNCHANGED row /\ Goto("submit", "abort")
        /\ \/ ~CanTransition("submitted") /\ Works
           \/ Fails("db")
  /\ UNCHANGED <<money, queue, outside>>

\* abortOrphanProviderJob; its error is ignored.
AbortOrphan ==
  /\ At("submit", "abort") /\ Goto("submit", "idle")
  /\ \/ CancelUpstream /\ Works
     \/ UNCHANGED outside /\ Fails("provider")
  /\ UNCHANGED <<money, queue, row>>

Submit ==
  \/ CreateJob \/ Reserve \/ CreatePendingItems \/ StartUpload
  \/ ProviderSubmit \/ AttachProviderJob \/ AbortOrphan
  \/ Release("submit") \/ MarkFailed("submit") \/ EnqueueStep("submit")

\* The client repeats its request with the idempotency key.
SubmitAgain ==
  /\ At("submit", "idle") /\ status = "submitted" /\ Goto("submit", "enqueue")
  /\ UNCHANGED <<money, queue, row, outside>> /\ Works

-----------------------------------------------------------------------------
(* Cancel and the recovery of jobs that never reached the provider.        *)

CancelRead ==
  /\ At("cancel", "idle") /\ status # "none"
  /\ Goto("cancel", IF status \in Refunded THEN "release"
                    ELSE IF status \in Terminal \cup {"settling"} THEN "idle"
                    ELSE IF named THEN "tellProvider" ELSE "transition")
  /\ UNCHANGED <<money, queue, row, outside>> /\ Works

\* Without the provider or the account the cancel ends here; that the provider
\* supports the account, which resolvable includes, it does not check.
CancelProvider ==
  /\ At("cancel", "tellProvider")
  /\ \/ CancelUpstream /\ Goto("cancel", "enqueue") /\ Works
     \/ UNCHANGED outside /\ Goto("cancel", "idle") /\ ~resolvable /\ Works
     \/ CancelUpstream /\ Goto("cancel", "idle") /\ Fails("provider")
     \/ UNCHANGED outside /\ Goto("cancel", "idle") /\ Fails("provider")
  /\ UNCHANGED <<money, queue, row>>

\* Mutant: the hold goes back although the job cannot be cancelled any more.
CancelAnyway ==
  /\ At("cancel", "transition") /\ Goto("cancel", "release") /\ Works
  /\ Transition("cancelled") \/ (~CanTransition("cancelled") /\ UNCHANGED row)
  /\ UNCHANGED <<money, queue, outside>>

\* An error is returned at once, also when the job was cancelled.
CancelTransition ==
  /\ At("cancel", "transition")
  /\ \/ Transition("cancelled") /\ Goto("cancel", "release") /\ Works
     \/ Transition("cancelled") /\ Goto("cancel", "idle") /\ Fails("lost")
     \/ /\ UNCHANGED row /\ Goto("cancel", "idle")
        /\ \/ ~CanTransition("cancelled") /\ Works
           \/ Fails("db")
  /\ UNCHANGED <<money, queue, outside>>

Cancel ==
  \/ CancelRead \/ CancelProvider \/ CancelTransition
  \/ Release("cancel") \/ EnqueueStep("cancel")

\* updated_at is old: nobody submits the job any more, or the submission is slow
\* and its heartbeat fails.
Stale == status \in {"created", "uploading"} /\ ~named

\* An error of the audit event is passed over, that of the statement is not.
FailStaleUnsubmitted ==
  /\ At("recover", "idle") /\ Stale
  /\ \/ /\ IF At("submit", "idle") THEN Works ELSE Fails("slow")
        /\ Goto("recover", "release")
     \/ Fails("lost") /\ Goto("recover", "idle")
  /\ status' = "failed" /\ UNCHANGED <<named, retries, cost>>
  /\ UNCHANGED <<money, queue, outside>>

Recover == FailStaleUnsubmitted \/ Release("recover") \/ EnqueueStep("recover")

-----------------------------------------------------------------------------
(* Workers (RunOnce): an entry is reserved, the job lock taken, the job    *)
(* processed, and the entry acknowledged or put back.                      *)

ReserveJob(w) ==
  /\ At(w, "idle") /\ ReserveEntry /\ Goto(w, "lock")
  /\ UNCHANGED <<money, lock, row, outside>> /\ Works

LockFree == lock = NoOne

TryAcquireJobLock(w) ==
  /\ At(w, "lock")
  /\ IF LockFree THEN lock' = w /\ Goto(w, "process")
                 ELSE UNCHANGED lock /\ Goto(w, "requeue")
  /\ UNCHANGED <<money, entry, row, outside>> /\ Works

\* The pipeline reads the job and hands it to the settlement or the provider's
\* processor, which read it again.
Process(w) ==
  /\ At(w, "process")
  /\ Goto(w, IF status = "settling" THEN "settle" ELSE "provider")
  /\ UNCHANGED <<money, queue, row, outside>> /\ Works

\* A job whose provider or account cannot be resolved is put back, as often as
\* it is taken up.
ProcessProvider(w) ==
  /\ At(w, "provider")
  /\ Goto(w, IF status \in Refunded THEN "release"
             ELSE IF status \in Terminal \cup {"settling"} THEN "ack"
             ELSE IF ~resolvable \/ ~named THEN "requeue"
             ELSE IF status = "indexing" THEN "index" ELSE "get")
  /\ UNCHANGED <<money, queue, row, outside>> /\ Works

\* The state of the provider's job, and the status that follows from it.
ReportedStatus ==
  CASE upstream \in {"succeeded", "garbled"} -> "indexing"
    [] upstream = "failed" -> "failed"
    [] upstream = "cancelled" -> "cancelled"
    [] OTHER -> "running"

AfterReport == [running |-> "requeue", indexing |-> "index",
                failed |-> "release", cancelled |-> "release"]

\* A job that the provider still has in its own queue keeps its status.
ProviderGet(w) ==
  /\ At(w, "get")
  /\ \/ Transition(ReportedStatus) /\ Goto(w, AfterReport[ReportedStatus]) /\ Works
     \/ Transition(ReportedStatus) /\ Goto(w, "requeue") /\ Fails("ack")
     \/ /\ UNCHANGED row /\ Goto(w, "requeue")
        /\ \/ (upstream = "running" \/ ~CanTransition(ReportedStatus)) /\ Works
           \/ Fails("provider") \/ Fails("db")
  /\ UNCHANGED <<money, queue, outside>>

\* The output is read and parsed, and indexed if the job is still indexing; the
\* job then goes on to settling.  Output that cannot be parsed fails the job,
\* and so does any error other than that of opening it.
Index(w) ==
  /\ At(w, "index")
  /\ \/ /\ upstream # "garbled" /\ CanTransition("settling") /\ status' = "settling"
        /\ cost' \in {0, Hold, Hold + 1} /\ UNCHANGED <<named, retries>>
        /\ Goto(w, "requeue") /\ Works
     \/ /\ (upstream = "garbled" /\ Works) \/ Fails("provider") \/ Fails("db")
        /\ \/ Transition("failed") /\ Goto(w, "release")
           \/ ~CanTransition("failed") /\ UNCHANGED row /\ Goto(w, "requeue")
     \/ /\ (~CanTransition("settling") /\ Works) \/ Fails("provider") \/ Fails("db")
        /\ UNCHANGED row /\ Goto(w, "requeue")
  /\ UNCHANGED <<money, queue, outside>>

-----------------------------------------------------------------------------
(* Settle.                                                                 *)

Settle(w) ==
  /\ At(w, "settle")
  /\ Goto(w, IF status = "completed" THEN "ack"
             ELSE IF status # "settling" THEN "requeue"
             ELSE IF retries >= MaxRetries THEN "giveUp"
             ELSE IF cost > Hold THEN "fail" ELSE "capture")
  /\ UNCHANGED <<money, queue, row, outside>> /\ Works

Capture(w) ==
  /\ At(w, "capture")
  /\ \/ CanCapture(cost) /\ CaptureHold(cost) /\ Goto(w, "mark") /\ Works
     \/ CanCapture(cost) /\ CaptureHold(cost) /\ Goto(w, "fail") /\ Fails("ack")
     \/ ~CanCapture(cost) /\ UNCHANGED money /\ Goto(w, "fail") /\ Works
     \/ UNCHANGED money /\ Goto(w, "fail") /\ Fails("claim")
  /\ UNCHANGED <<queue, row, outside>>

CountFailure == retries' = retries + 1 /\ UNCHANGED <<status, named, cost>>

\* recordSettlementFailure: the last retry gives the settlement up.
RecordSettlementFailure(w) ==
  /\ At(w, "fail")
  /\ \/ CountFailure /\ Goto(w, IF retries' >= MaxRetries THEN "giveUp" ELSE "requeue") /\ Works
     \/ CountFailure /\ Goto(w, "requeue") /\ Fails("ack")
     \/ UNCHANGED row /\ Goto(w, "requeue") /\ Fails("db")
  /\ UNCHANGED <<money, queue, outside>>

\* Mutant: a settlement that is given up keeps the hold.
GiveUpUnreleased(w) ==
  /\ At(w, "giveUp") /\ Goto(w, "exhaust") /\ UNCHANGED <<money, queue, row, outside>> /\ Works

\* failExhaustedSettlement releases the hold and fails the job.
GiveUp(w) ==
  /\ At(w, "giveUp")
  /\ \/ CanRelease /\ ReleaseHold /\ UNCHANGED row /\ Goto(w, "exhaust") /\ Works
     \/ CanRelease /\ ReleaseHold /\ CountFailure /\ Goto(w, "requeue") /\ Fails("ack")
     \/ ~CanRelease /\ UNCHANGED money /\ CountFailure /\ Goto(w, "requeue") /\ Works
     \/ UNCHANGED money /\ CountFailure /\ Goto(w, "requeue") /\ Fails("claim")
  /\ UNCHANGED <<queue, outside>>

Exhaust(w) ==
  /\ At(w, "exhaust")
  /\ \/ Transition("failed") /\ Goto(w, "ack") /\ Works
     \/ Transition("failed") /\ Goto(w, "requeue") /\ Fails("ack")
     \/ /\ UNCHANGED row /\ Goto(w, "requeue")
        /\ \/ ~CanTransition("failed") /\ Works
           \/ Fails("db")
  /\ UNCHANGED <<money, queue, outside>>

\* MarkBatchImageJobSettled
MarkSettled(w) ==
  /\ At(w, "mark")
  /\ \/ /\ status = "settling" /\ status' = "completed" /\ UNCHANGED <<named, retries, cost>>
        /\ \/ Goto(w, "ack") /\ Works
           \/ Goto(w, "requeue") /\ Fails("ack")
     \/ /\ UNCHANGED row /\ Goto(w, "requeue")
        /\ \/ status # "settling" /\ Works
           \/ Fails("db")
  /\ UNCHANGED <<money, queue, outside>>

\* The entry is acknowledged or put back, and the lock is given back; after an
\* error the entry stays in the active set.
EndRun(w) ==
  /\ Goto(w, "idle") /\ ReleaseLock(w)
  /\ \/ At(w, "ack") /\ Ack /\ Works
     \/ At(w, "requeue") /\ RequeueAfter /\ Works
     \/ (At(w, "ack") \/ At(w, "requeue")) /\ UNCHANGED entry /\ Fails("redis")
  /\ UNCHANGED <<money, row, outside>>

Work(w) ==
  \/ ReserveJob(w) \/ TryAcquireJobLock(w) \/ Process(w) \/ ProcessProvider(w)
  \/ ProviderGet(w) \/ Index(w) \/ Settle(w) \/ Capture(w)
  \/ RecordSettlementFailure(w) \/ GiveUp(w) \/ Exhaust(w) \/ MarkSettled(w)
  \/ Release(w) \/ EndRun(w)

-----------------------------------------------------------------------------
(* The clock, the provider and crashes.                                    *)

\* Mutant: the delayed set is never looked at.
NothingDue == FALSE /\ UNCHANGED vars

DelayPasses ==
  MoveDueDelayedToReady /\ UNCHANGED <<money, row, outside, pc>> /\ Works

\* The heartbeat of a worker keeps its entry active and its lock; both run out
\* when the worker is gone, or when its heartbeats are lost.
Unattended == "lock" \in mishaps \/ \A w \in Workers : At(w, "idle")

ActiveGoesStale ==
  Unattended /\ RecoverStaleActive /\ UNCHANGED <<money, row, outside, pc>> /\ Works

LockExpires ==
  /\ lock # NoOne /\ lock' = NoOne
  /\ At(lock, "idle") \/ "lock" \in mishaps
  /\ UNCHANGED <<money, entry, row, outside, pc>> /\ Works

HeartbeatsLost ==
  /\ \E w \in Workers : ~At(w, "idle")
  /\ Fails("lock") /\ UNCHANGED <<money, queue, row, outside, pc>>

ProviderProgress ==
  /\ upstream = "running" /\ upstream' \in {"succeeded", "garbled", "failed"}
  /\ UNCHANGED <<money, queue, row, resolvable, pc>> /\ Works

\* The account is deleted or changed, the provider is configured or not.
AccountChanges ==
  /\ resolvable' = ~resolvable
  /\ UNCHANGED <<money, queue, row, upstream, pc>> /\ Works

OutputCleanup ==
  /\ status = "completed" /\ status' = "output_deleted"
  /\ UNCHANGED <<money, queue, named, retries, cost, outside, pc>> /\ Works

Crash(a) ==
  /\ ~At(a, "idle") /\ Goto(a, "idle") /\ Fails("crash")
  /\ UNCHANGED <<money, queue, row, outside>>

Next ==
  \/ Submit \/ SubmitAgain \/ Cancel \/ Recover
  \/ \E w \in Workers : Work(w)
  \/ DelayPasses \/ ActiveGoesStale \/ LockExpires \/ HeartbeatsLost
  \/ ProviderProgress \/ AccountChanges \/ OutputCleanup
  \/ \E a \in Actors : Crash(a)

Spec == Init /\ [][Next]_vars

\* The goroutines that BatchImageWorkerRuntime.Start keeps running, the clock
\* that they compare with, and a provider whose jobs come to an end.
FairSpec ==
  /\ Spec
  /\ \A w \in Workers : WF_vars(Work(w))
  /\ WF_vars(Recover) /\ WF_vars(Submit)
  /\ WF_vars(DelayPasses) /\ WF_vars(ActiveGoesStale) /\ WF_vars(LockExpires)
  /\ WF_vars(ProviderProgress)

-----------------------------------------------------------------------------
(* Properties.                                                             *)

\* Every variable has the values its column, key or local can have.
TypeOK ==
  /\ balance \in Nat /\ frozen \in Nat /\ ToSet(claims) \subseteq Claims /\ IsInjective(claims)
  /\ QueueTypeOK
  /\ status \in Statuses /\ named \in BOOLEAN /\ retries \in Nat
  /\ cost \in 0..(Hold + 1)
  /\ upstream \in {"none", "running", "succeeded", "garbled", "failed", "cancelled"}
  /\ resolvable \in BOOLEAN
  /\ pc \in [Actors -> Steps] /\ faults \in 0..MaxFaults
  /\ mishaps \subseteq {"crash", "lock", "lost"}

\* The frozen balance is exactly what is on hold: however submission, cancel,
\* recovery and settlement interleave, the hold is ended once, by the capture or
\* by the release, and never with the money of another batch
\* (captureUsageBillingBatchImageBalance, releaseUsageBillingBatchImageBalance).
FrozenIsHeld ==
  /\ frozen = Others + (IF Outstanding THEN Hold ELSE 0)
  /\ ~(Claimed("capture") /\ Claimed("release"))

\* A job that is at the provider or on its way to settlement is backed by its
\* hold, and a completed one was paid out of it: neither the recovery nor a
\* cancel gives the money back while the upstream job goes on to be settled
\* ("此时绝不能退款", batch_image_billing_recovery.go:54).
WorkIsBacked ==
  /\ status \in {"submitted", "running", "indexing"} => claims = <<"hold">>
  /\ status = "settling" /\ retries < MaxRetries => Claimed("hold") /\ ~Claimed("release")
  /\ status \in {"completed", "output_deleted"} => claims = <<"hold", "capture">>

\* A job that reached its end is never taken up again, whichever request still
\* runs for it.
NeverRevived == [][(status \in Terminal) => (status' \in Terminal)]_vars

Quiet == (\A a \in Actors : At(a, "idle")) /\ ~inflight /\ ready = 0

\* When a refunded job is left alone by everybody, its hold is back: each error
\* of a release left the batch in the queue.  Only a crash, a reservation or a
\* refunding transition that was carried out but reported as an error, and a hold
\* reserved after it was released may leave the money frozen.
HoldIsReturned ==
  status \in Refunded /\ Quiet /\ mishaps \cap {"crash", "lost"} = {} /\ Outstanding
    => claims = <<"release", "hold">>

\* A queued batch comes to its end if its provider and account can be resolved
\* for good, or is taken out of the queue because two workers, one of which lost
\* its lock, were at it at once.  Otherwise it is put back for ever: nothing
\* counts these attempts (BatchImageProviderProcessor.Process).
QueuedIsFinished ==
  <>[]resolvable => (inflight ~> (status \in Terminal \/ "lock" \in mishaps))

\* "否则冻结余额永久泄漏" (batch_image_billing_recovery.go:76): a job that is failed
\* or cancelled, with nobody at work on it, has no money frozen for good.
NothingStaysFrozen == status \in Refunded /\ Quiet => frozen = Others
=============================================================================
