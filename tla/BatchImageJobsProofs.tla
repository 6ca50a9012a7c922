------------------------ MODULE BatchImageJobsProofs ------------------------
(***************************************************************************)
(* Proofs about BatchImageJobs, for any number of workers, any hold and    *)
(* any number of faults.  Two facts carry the rest: as long as no          *)
(* heartbeats are lost the batch has one entry in the queue, so at most    *)
(* one worker is at it (OneEntry); and which of the request ids hold,      *)
(* capture and release are claimed, in which order, follows from the       *)
(* status of the job and the steps of those who work on it (ClaimPhase).   *)
(***************************************************************************)
EXTENDS BatchImageJobs, SequenceTheorems, TLAPS

-----------------------------------------------------------------------------
(* The inductive invariant. *)

\* The orders in which the request ids may be claimed.
Unclaimed == <<>>
Held == <<"hold">>
ReleasedEarly == <<"release">>
Released == <<"hold", "release">>
HeldLate == <<"release", "hold">>
Captured == <<"hold", "capture">>
EndedTwice == <<"hold", "capture", "release">>
Orders == {Unclaimed, Held, ReleasedEarly, Released, HeldLate, Captured, EndedTwice}

\* Before the job is created nobody knows of it.
Fresh ==
  /\ At("submit", "create") => status = "none"
  /\ status = "none" =>
       /\ \A a \in Actors \ {"submit"} : At(a, "idle")
       /\ pc["submit"] \in {"create", "idle"}
       /\ ready = 0 /\ ~active /\ ~delayed

\* A batch that is in the queue is there once, and a worker at it has it active.
OneEntry ==
  /\ ~inflight => ready = 0 /\ ~active /\ ~delayed
  /\ ready <= 1 /\ ~(active /\ delayed) /\ (ready = 1 => ~active /\ ~delayed)
  /\ \A w \in Workers : ~At(w, "idle") => active
  /\ \A v, w \in Workers : ~At(v, "idle") /\ ~At(w, "idle") => v = w

StepRanges ==
  /\ pc["submit"] \in {"idle"} \cup SubmitSteps \cup BillingSteps
  /\ pc["cancel"] \in {"idle", "release", "retry"} \cup CancelSteps
  /\ pc["recover"] \in {"idle", "release", "retry"}
  /\ \A w \in Workers : pc[w] \in {"idle", "release"} \cup WorkerSteps

Early == {"created", "uploading"}

\* How far the job is when an actor is at a step.
SubmitPhase ==
  /\ pc["submit"] \in {"reserve", "items", "upload"} => status \in {"created"} \cup Refunded
  /\ pc["submit"] \in {"provide", "attach"} => status \in {"uploading"} \cup Refunded
  /\ At("submit", "release") => status \in Refunded
  /\ pc["submit"] \in {"releaseMark", "markFailed", "failRetry", "retry"} => status \in Early \cup Refunded
  /\ named => status \notin Early \cup {"none"}

ReleasePhase == \A a \in {"cancel", "recover"} : pc[a] \in {"release", "retry"} => status \in Refunded

WorkerPhase(w) ==
  /\ At(w, "provider") => status # "settling"
  /\ At(w, "get") => status \in {"submitted", "running"} \cup Refunded
  /\ At(w, "index") => status \in {"indexing"} \cup Refunded
  /\ pc[w] \in {"settle", "capture", "fail", "giveUp", "exhaust", "mark"} => status = "settling"
  /\ At(w, "release") => status \in Refunded
  /\ At(w, "ack") => status \in Terminal

RetryPhase(w) ==
  /\ At(w, "capture") => retries < MaxRetries /\ cost <= Hold
  /\ At(w, "fail") => retries < MaxRetries /\ (MaxFaults < MaxRetries /\ cost <= Hold => retries < faults)
  /\ pc[w] \in {"giveUp", "exhaust"} => retries >= MaxRetries

\* A job that can be settled is retried only after a fault.
Retries ==
  /\ status \in Early \cup {"none", "submitted", "running", "indexing"} => retries = 0
  /\ MaxFaults < MaxRetries /\ cost <= Hold => retries <= faults

\* What is claimed, by the status and by the steps.
StatusClaims ==
  /\ status = "none" => claims = Unclaimed
  /\ status \in Early => claims \in {Unclaimed, Held, ReleasedEarly, Released}
  /\ status \in {"submitted", "running", "indexing"} => claims = Held
  /\ status = "settling" => claims \in {Held, Captured, Released, EndedTwice}
  /\ status = "settling" /\ retries < MaxRetries => claims \in {Held, Captured}
  /\ status \in {"completed", "output_deleted"} => claims = Captured
  /\ status \in Refunded => claims # Captured

StepClaims ==
  /\ pc["submit"] \in {"create", "reserve"} => claims \in {Unclaimed, ReleasedEarly}
  /\ pc["submit"] \in {"items", "upload", "provide", "attach"} => claims \notin {Unclaimed, ReleasedEarly}
  /\ pc["submit"] \in {"reserve", "items", "upload", "provide", "attach", "releaseMark"} =>
       (status \in Early => claims \in {Unclaimed, Held})
  /\ At("submit", "markFailed") => claims # Held \/ "lost" \in mishaps
  /\ \A w \in Workers :
       /\ At(w, "exhaust") => claims \in {Released, EndedTwice}
       /\ At(w, "mark") => claims = Captured
       /\ At(w, "ack") /\ status \in Refunded => claims \notin {Unclaimed, Held}

ClaimPhase == claims \in Orders /\ StatusClaims /\ StepClaims

\* What is frozen, and that a captured hold can be paid.
Frozen ==
  /\ claims # EndedTwice => frozen = Others + (IF claims \in {Held, HeldLate} THEN Hold ELSE 0)
  /\ claims \in {Captured, EndedTwice} => cost <= Hold

\* A refunded job whose hold is not released yet is in somebody's hands.
Answered ==
  /\ status \in Refunded /\ mishaps \cap {"crash", "lost"} = {}
  /\ claims = Held \/ (claims = Unclaimed /\ pc["submit"] \in {"create", "reserve"})
  => inflight \/ \E a \in Actors : pc[a] \in {"release", "releaseMark", "failRetry", "retry"}

-----------------------------------------------------------------------------
(* The claims. *)

LEMMA AppendClaim ==
  ASSUME NEW c \in Seq(Claims), NEW id \in Claims, id \notin ToSet(c), IsInjective(c)
  PROVE  /\ Append(c, id) \in Seq(Claims)
         /\ ToSet(Append(c, id)) = ToSet(c) \cup {id}
         /\ IsInjective(Append(c, id))
<1>1. /\ Append(c, id) \in Seq(Claims) /\ Len(c) \in Nat /\ DOMAIN c = 1..Len(c)
      /\ DOMAIN Append(c, id) = 1..(Len(c) + 1) /\ Append(c, id)[Len(c) + 1] = id
      /\ \A i \in 1..Len(c) : Append(c, id)[i] = c[i]
  OBVIOUS
<1>2. 1..(Len(c) + 1) = (1..Len(c)) \cup {Len(c) + 1}
  BY <1>1
<1>3. ToSet(Append(c, id)) = ToSet(c) \cup {id}
  BY <1>1, <1>2 DEF ToSet
<1>4. \A i \in 1..Len(c) : c[i] # id
  BY <1>1 DEF ToSet
<1>5. IsInjective(Append(c, id))
  BY <1>1, <1>2, <1>4 DEF IsInjective
<1> QED
  BY <1>1, <1>3, <1>5

\* What the orders say about the ids and about the hold.
LEMMA OrderFacts ==
  /\ ToSet(Unclaimed) = {} /\ ToSet(Held) = {"hold"} /\ ToSet(ReleasedEarly) = {"release"}
  /\ ToSet(Released) = {"hold", "release"} /\ ToSet(HeldLate) = {"hold", "release"}
  /\ ToSet(Captured) = {"hold", "capture"} /\ ToSet(EndedTwice) = {"hold", "capture", "release"}
  /\ Len(Unclaimed) = 0 /\ Len(Held) = 1 /\ Len(ReleasedEarly) = 1 /\ Len(Released) = 2
  /\ Len(HeldLate) = 2 /\ Len(Captured) = 2 /\ Len(EndedTwice) = 3
  /\ Last(Held) = "hold" /\ Last(HeldLate) = "hold" /\ Last(ReleasedEarly) = "release"
  /\ Last(Released) = "release" /\ Last(Captured) = "capture" /\ Last(EndedTwice) = "release"
  BY DEF Unclaimed, Held, ReleasedEarly, Released, HeldLate, Captured, EndedTwice, ToSet, Last

LEMMA AppendFacts ==
  /\ Append(Unclaimed, "hold") = Held /\ Append(Unclaimed, "release") = ReleasedEarly
  /\ Append(Held, "release") = Released /\ Append(Held, "capture") = Captured
  /\ Append(ReleasedEarly, "hold") = HeldLate /\ Append(Captured, "release") = EndedTwice
<1> USE DEF Claims
<1>1. Append(Unclaimed, "hold") = Held /\ Append(Unclaimed, "release") = ReleasedEarly
  BY DEF Unclaimed, Held, ReleasedEarly
<1>2. Held \in Seq(Claims) /\ Len(Held) = 1 /\ Held[1] = "hold"
  BY DEF Held
<1>3. ReleasedEarly \in Seq(Claims) /\ Len(ReleasedEarly) = 1 /\ ReleasedEarly[1] = "release"
  BY DEF ReleasedEarly
<1>4. /\ Captured \in Seq(Claims) /\ Len(Captured) = 2 /\ Captured[1] = "hold" /\ Captured[2] = "capture"
      /\ Released \in Seq(Claims) /\ Len(Released) = 2 /\ Released[1] = "hold" /\ Released[2] = "release"
      /\ HeldLate \in Seq(Claims) /\ Len(HeldLate) = 2 /\ HeldLate[1] = "release" /\ HeldLate[2] = "hold"
  BY DEF Captured, Released, HeldLate
<1>5. /\ EndedTwice \in Seq(Claims) /\ Len(EndedTwice) = 3
      /\ EndedTwice[1] = "hold" /\ EndedTwice[2] = "capture" /\ EndedTwice[3] = "release"
  BY DEF EndedTwice
<1>6. ASSUME NEW s \in Seq(Claims), NEW t \in Seq(Claims), NEW id \in Claims, Len(t) = Len(s) + 1,
             \A i \in 1..Len(s) : t[i] = s[i], t[Len(s) + 1] = id
      PROVE  Append(s, id) = t
  BY <1>6, SeqEqual, AppendProperties
<1>7. Append(Held, "release") = Released
  <2>1. /\ "release" \in Claims
        /\ Len(Released) = Len(Held) + 1 /\ Released[Len(Held) + 1] = "release"
        /\ Len(Held) = 1
    BY <1>2, <1>4
  <2>2. \A i \in 1..1 : Released[i] = Held[i]
    <3>1. \A i \in 1..1 : i = 1
      OBVIOUS
    <3> QED
      BY <3>1, <1>2, <1>4
  <2> QED
    BY <1>2, <1>4, <1>6, <2>1, <2>2
<1>8. Append(Held, "capture") = Captured
  <2>1. /\ "capture" \in Claims
        /\ Len(Captured) = Len(Held) + 1 /\ Captured[Len(Held) + 1] = "capture"
        /\ Len(Held) = 1
    BY <1>2, <1>4
  <2>2. \A i \in 1..1 : Captured[i] = Held[i]
    <3>1. \A i \in 1..1 : i = 1
      OBVIOUS
    <3> QED
      BY <3>1, <1>2, <1>4
  <2> QED
    BY <1>2, <1>4, <1>6, <2>1, <2>2
<1>9. Append(ReleasedEarly, "hold") = HeldLate
  <2>1. /\ "hold" \in Claims
        /\ Len(HeldLate) = Len(ReleasedEarly) + 1 /\ HeldLate[Len(ReleasedEarly) + 1] = "hold"
        /\ Len(ReleasedEarly) = 1
    BY <1>3, <1>4
  <2>2. \A i \in 1..1 : HeldLate[i] = ReleasedEarly[i]
    <3>1. \A i \in 1..1 : i = 1
      OBVIOUS
    <3> QED
      BY <3>1, <1>3, <1>4
  <2> QED
    BY <1>3, <1>4, <1>6, <2>1, <2>2
<1>10. Append(Captured, "release") = EndedTwice
  <2>1. /\ "release" \in Claims
        /\ Len(EndedTwice) = Len(Captured) + 1 /\ EndedTwice[Len(Captured) + 1] = "release"
        /\ Len(Captured) = 2
    BY <1>4, <1>5
  <2>2. \A i \in 1..2 : EndedTwice[i] = Captured[i]
    <3>1. \A i \in 1..2 : i = 1 \/ i = 2
      OBVIOUS
    <3> QED
      BY <3>1, <1>4, <1>5
  <2> QED
    BY <1>4, <1>5, <1>6, <2>1, <2>2
<1> QED
  BY <1>1, <1>7, <1>8, <1>9, <1>10

LEMMA Distinct ==
  /\ Unclaimed \notin {Held, ReleasedEarly, Released, HeldLate, Captured, EndedTwice}
  /\ Held \notin {ReleasedEarly, Released, HeldLate, Captured, EndedTwice}
  /\ ReleasedEarly \notin {Released, HeldLate, Captured, EndedTwice}
  /\ Released \notin {HeldLate, Captured, EndedTwice}
  /\ HeldLate \notin {Captured, EndedTwice}
  /\ Captured # EndedTwice
  BY OrderFacts

LEMMA ClaimedFacts ==
  ASSUME claims \in Orders
  PROVE  /\ Claimed("hold") <=> claims \notin {Unclaimed, ReleasedEarly}
         /\ Claimed("capture") <=> claims \in {Captured, EndedTwice}
         /\ Claimed("release") <=> claims \in {ReleasedEarly, Released, HeldLate, EndedTwice}
         /\ Outstanding <=> claims \in {Held, HeldLate}
  BY OrderFacts, Distinct DEF Orders, Claimed, Outstanding, Unclaimed

-----------------------------------------------------------------------------
(* What a step does to the money, the queue, the job and the actors. *)

MoneyMoves ==
  \/ UNCHANGED money \/ ReserveHold
  \/ CanCapture(cost) /\ CaptureHold(cost)
  \/ CanRelease /\ ReleaseHold

LEMMA MoneyStep ==
  ASSUME [Next]_vars
  PROVE  MoneyMoves
<1> USE DEF MoneyMoves
<1>1. CASE CreateJob
  BY <1>1 DEF CreateJob
<1>2. CASE Reserve
  BY <1>2 DEF Reserve
<1>3. CASE CreatePendingItems
  BY <1>3 DEF CreatePendingItems
<1>4. CASE StartUpload
  BY <1>4 DEF StartUpload, Transition, CanTransition
<1>5. CASE ProviderSubmit
  BY <1>5 DEF ProviderSubmit
<1>6. CASE AttachProviderJob
  BY <1>6 DEF AttachProviderJob, CanTransition
<1>6a. CASE AbortOrphan
  BY <1>6a DEF AbortOrphan
<1>7. CASE SubmitAgain
  BY <1>7 DEF SubmitAgain
<1>8. ASSUME NEW a \in Actors, Release(a) PROVE MoneyMoves
  BY <1>8 DEF Release, AfterRelease, AfterReleaseError
<1>9. CASE MarkFailed("submit")
  BY <1>9 DEF MarkFailed
<1>10. ASSUME NEW a \in {"submit", "cancel", "recover"}, EnqueueStep(a) PROVE MoneyMoves
  BY <1>10 DEF EnqueueStep
<1>11. CASE CancelRead
  BY <1>11 DEF CancelRead
<1>12. CASE CancelProvider
  BY <1>12 DEF CancelProvider
<1>13. CASE CancelTransition
  BY <1>13 DEF CancelTransition, Transition, CanTransition
<1>14. CASE FailStaleUnsubmitted
  BY <1>14 DEF FailStaleUnsubmitted, Stale
<1>15. ASSUME NEW w \in Workers, ReserveJob(w) PROVE MoneyMoves
  BY <1>15 DEF ReserveJob
<1>16. ASSUME NEW w \in Workers, TryAcquireJobLock(w) PROVE MoneyMoves
  BY <1>16 DEF TryAcquireJobLock
<1>17. ASSUME NEW w \in Workers, Process(w) PROVE MoneyMoves
  BY <1>17 DEF Process
<1>18. ASSUME NEW w \in Workers, ProcessProvider(w) PROVE MoneyMoves
  BY <1>18 DEF ProcessProvider
<1>19. ASSUME NEW w \in Workers, ProviderGet(w) PROVE MoneyMoves
  BY <1>19 DEF ProviderGet, Transition, CanTransition
<1>20. ASSUME NEW w \in Workers, Index(w) PROVE MoneyMoves
  BY <1>20 DEF Index, Transition, CanTransition
<1>21. ASSUME NEW w \in Workers, Settle(w) PROVE MoneyMoves
  BY <1>21 DEF Settle
<1>22. ASSUME NEW w \in Workers, Capture(w) PROVE MoneyMoves
  BY <1>22 DEF Capture
<1>23. ASSUME NEW w \in Workers, RecordSettlementFailure(w) PROVE MoneyMoves
  BY <1>23 DEF RecordSettlementFailure, CountFailure
<1>24. ASSUME NEW w \in Workers, GiveUp(w) PROVE MoneyMoves
  BY <1>24 DEF GiveUp, CountFailure
<1>25. ASSUME NEW w \in Workers, Exhaust(w) PROVE MoneyMoves
  BY <1>25 DEF Exhaust, Transition, CanTransition
<1>26. ASSUME NEW w \in Workers, MarkSettled(w) PROVE MoneyMoves
  BY <1>26 DEF MarkSettled
<1>27. ASSUME NEW w \in Workers, EndRun(w) PROVE MoneyMoves
  BY <1>27 DEF EndRun
<1>28. CASE DelayPasses
  BY <1>28 DEF DelayPasses
<1>29. CASE ActiveGoesStale
  BY <1>29 DEF ActiveGoesStale
<1>30. CASE LockExpires
  BY <1>30 DEF LockExpires
<1>31. CASE HeartbeatsLost
  BY <1>31 DEF HeartbeatsLost
<1>32. CASE ProviderProgress
  BY <1>32 DEF ProviderProgress
<1>32a. CASE AccountChanges
  BY <1>32a DEF AccountChanges
<1>33. CASE OutputCleanup
  BY <1>33 DEF OutputCleanup
<1>34. ASSUME NEW a \in Actors, Crash(a) PROVE MoneyMoves
  BY <1>34 DEF Crash
<1>35. CASE UNCHANGED vars
  BY <1>35 DEF vars
<1> QED
  BY <1>1, <1>2, <1>3, <1>4, <1>5, <1>6, <1>6a, <1>7, <1>8, <1>9, <1>10, <1>11, <1>12, <1>13, <1>14, <1>15, <1>16,
     <1>17, <1>18, <1>19, <1>20, <1>21, <1>22, <1>23, <1>24, <1>25, <1>26, <1>27, <1>28, <1>29, <1>30, <1>31,
     <1>32, <1>32a, <1>33, <1>34, <1>35 DEF Next, Submit, Cancel, Recover, Work, Actors

QueueMoves ==
  \/ UNCHANGED entry \/ Enqueue \/ ReserveEntry \/ RequeueAfter \/ Ack
  \/ MoveDueDelayedToReady \/ RecoverStaleActive

LEMMA QueueStep ==
  ASSUME [Next]_vars
  PROVE  QueueMoves /\ lock' \in Workers \cup {NoOne, lock}
<1> USE DEF QueueMoves, queue
<1>1. CASE CreateJob
  BY <1>1 DEF CreateJob
<1>2. CASE Reserve
  BY <1>2 DEF Reserve
<1>3. CASE CreatePendingItems
  BY <1>3 DEF CreatePendingItems
<1>4. CASE StartUpload
  BY <1>4 DEF StartUpload, Transition, CanTransition
<1>5. CASE ProviderSubmit
  BY <1>5 DEF ProviderSubmit
<1>6. CASE AttachProviderJob
  BY <1>6 DEF AttachProviderJob, CanTransition
<1>6a. CASE AbortOrphan
  BY <1>6a DEF AbortOrphan
<1>7. CASE SubmitAgain
  BY <1>7 DEF SubmitAgain
<1>8. ASSUME NEW a \in Actors, Release(a) PROVE QueueMoves /\ lock' \in Workers \cup {NoOne, lock}
  BY <1>8 DEF Release, AfterRelease, AfterReleaseError
<1>9. CASE MarkFailed("submit")
  BY <1>9 DEF MarkFailed
<1>10. ASSUME NEW a \in {"submit", "cancel", "recover"}, EnqueueStep(a)
       PROVE QueueMoves /\ lock' \in Workers \cup {NoOne, lock}
  BY <1>10 DEF EnqueueStep
<1>11. CASE CancelRead
  BY <1>11 DEF CancelRead
<1>12. CASE CancelProvider
  BY <1>12 DEF CancelProvider
<1>13. CASE CancelTransition
  BY <1>13 DEF CancelTransition, Transition, CanTransition
<1>14. CASE FailStaleUnsubmitted
  BY <1>14 DEF FailStaleUnsubmitted, Stale
<1>15. ASSUME NEW w \in Workers, ReserveJob(w) PROVE QueueMoves /\ lock' \in Workers \cup {NoOne, lock}
  BY <1>15 DEF ReserveJob
<1>16. ASSUME NEW w \in Workers, TryAcquireJobLock(w) PROVE QueueMoves /\ lock' \in Workers \cup {NoOne, lock}
  BY <1>16 DEF TryAcquireJobLock
<1>17. ASSUME NEW w \in Workers, Process(w) PROVE QueueMoves /\ lock' \in Workers \cup {NoOne, lock}
  BY <1>17 DEF Process
<1>18. ASSUME NEW w \in Workers, ProcessProvider(w) PROVE QueueMoves /\ lock' \in Workers \cup {NoOne, lock}
  BY <1>18 DEF ProcessProvider
<1>19. ASSUME NEW w \in Workers, ProviderGet(w) PROVE QueueMoves /\ lock' \in Workers \cup {NoOne, lock}
  BY <1>19 DEF ProviderGet, Transition, CanTransition
<1>20. ASSUME NEW w \in Workers, Index(w) PROVE QueueMoves /\ lock' \in Workers \cup {NoOne, lock}
  BY <1>20 DEF Index, Transition, CanTransition
<1>21. ASSUME NEW w \in Workers, Settle(w) PROVE QueueMoves /\ lock' \in Workers \cup {NoOne, lock}
  BY <1>21 DEF Settle
<1>22. ASSUME NEW w \in Workers, Capture(w) PROVE QueueMoves /\ lock' \in Workers \cup {NoOne, lock}
  BY <1>22 DEF Capture
<1>23. ASSUME NEW w \in Workers, RecordSettlementFailure(w)
       PROVE QueueMoves /\ lock' \in Workers \cup {NoOne, lock}
  BY <1>23 DEF RecordSettlementFailure, CountFailure
<1>24. ASSUME NEW w \in Workers, GiveUp(w) PROVE QueueMoves /\ lock' \in Workers \cup {NoOne, lock}
  BY <1>24 DEF GiveUp, CountFailure
<1>25. ASSUME NEW w \in Workers, Exhaust(w) PROVE QueueMoves /\ lock' \in Workers \cup {NoOne, lock}
  BY <1>25 DEF Exhaust, Transition, CanTransition
<1>26. ASSUME NEW w \in Workers, MarkSettled(w) PROVE QueueMoves /\ lock' \in Workers \cup {NoOne, lock}
  BY <1>26 DEF MarkSettled
<1>27. ASSUME NEW w \in Workers, EndRun(w) PROVE QueueMoves /\ lock' \in Workers \cup {NoOne, lock}
  BY <1>27 DEF EndRun, ReleaseLock
<1>28. CASE DelayPasses
  BY <1>28 DEF DelayPasses, MoveDueDelayedToReady
<1>29. CASE ActiveGoesStale
  BY <1>29 DEF ActiveGoesStale, RecoverStaleActive
<1>30. CASE LockExpires
  BY <1>30 DEF LockExpires
<1>31. CASE HeartbeatsLost
  BY <1>31 DEF HeartbeatsLost
<1>32. CASE ProviderProgress
  BY <1>32 DEF ProviderProgress
<1>32a. CASE AccountChanges
  BY <1>32a DEF AccountChanges
<1>33. CASE OutputCleanup
  BY <1>33 DEF OutputCleanup
<1>34. ASSUME NEW a \in Actors, Crash(a) PROVE QueueMoves /\ lock' \in Workers \cup {NoOne, lock}
  BY <1>34 DEF Crash
<1>35. CASE UNCHANGED vars
  BY <1>35 DEF vars
<1> QED
  BY <1>1, <1>2, <1>3, <1>4, <1>5, <1>6, <1>6a, <1>7, <1>8, <1>9, <1>10, <1>11, <1>12, <1>13, <1>14, <1>15, <1>16,
     <1>17, <1>18, <1>19, <1>20, <1>21, <1>22, <1>23, <1>24, <1>25, <1>26, <1>27, <1>28, <1>29, <1>30, <1>31,
     <1>32, <1>32a, <1>33, <1>34, <1>35 DEF Next, Submit, Cancel, Recover, Work, Actors

JobMoves ==
  /\ status' \in Statuses /\ named' \in BOOLEAN /\ retries' \in Nat /\ cost' \in 0..(Hold + 1)
  /\ upstream' \in {"none", "running", "succeeded", "garbled", "failed", "cancelled"}

LEMMA JobStep ==
  ASSUME TypeOK, [Next]_vars
  PROVE  JobMoves
<1>t. /\ status \in Statuses /\ named \in BOOLEAN /\ retries \in Nat /\ cost \in 0..(Hold + 1)
      /\ upstream \in {"none", "running", "succeeded", "garbled", "failed", "cancelled"}
      /\ {0, Hold, Hold + 1} \subseteq 0..(Hold + 1) /\ retries + 1 \in Nat
  BY HoldAssumption DEF TypeOK
<1> USE <1>t DEF JobMoves, row, outside, Statuses, Terminal, Refunded
<1>1. CASE CreateJob
  BY <1>1 DEF CreateJob
<1>2. CASE Reserve
  BY <1>2 DEF Reserve
<1>3. CASE CreatePendingItems
  BY <1>3 DEF CreatePendingItems
<1>4. CASE StartUpload
  BY <1>4 DEF StartUpload, Transition, CanTransition
<1>5. CASE ProviderSubmit
  BY <1>5 DEF ProviderSubmit
<1>6. CASE AttachProviderJob
  BY <1>6 DEF AttachProviderJob, CanTransition
<1>6a. CASE AbortOrphan
  BY <1>6a DEF AbortOrphan, CancelUpstream
<1>7. CASE SubmitAgain
  BY <1>7 DEF SubmitAgain
<1>8. ASSUME NEW a \in Actors, Release(a) PROVE JobMoves
  BY <1>8 DEF Release, AfterRelease, AfterReleaseError
<1>9. CASE MarkFailed("submit")
  BY <1>9 DEF MarkFailed
<1>10. ASSUME NEW a \in {"submit", "cancel", "recover"}, EnqueueStep(a) PROVE JobMoves
  BY <1>10 DEF EnqueueStep
<1>11. CASE CancelRead
  BY <1>11 DEF CancelRead
<1>12. CASE CancelProvider
  BY <1>12 DEF CancelProvider, CancelUpstream
<1>13. CASE CancelTransition
  BY <1>13 DEF CancelTransition, Transition, CanTransition
<1>14. CASE FailStaleUnsubmitted
  BY <1>14 DEF FailStaleUnsubmitted, Stale
<1>15. ASSUME NEW w \in Workers, ReserveJob(w) PROVE JobMoves
  BY <1>15 DEF ReserveJob
<1>16. ASSUME NEW w \in Workers, TryAcquireJobLock(w) PROVE JobMoves
  BY <1>16 DEF TryAcquireJobLock
<1>17. ASSUME NEW w \in Workers, Process(w) PROVE JobMoves
  BY <1>17 DEF Process
<1>18. ASSUME NEW w \in Workers, ProcessProvider(w) PROVE JobMoves
  BY <1>18 DEF ProcessProvider
<1>19. ASSUME NEW w \in Workers, ProviderGet(w) PROVE JobMoves
  BY <1>19 DEF ProviderGet, Transition, CanTransition, ReportedStatus
<1>20. ASSUME NEW w \in Workers, Index(w) PROVE JobMoves
  BY <1>20 DEF Index, Transition, CanTransition
<1>21. ASSUME NEW w \in Workers, Settle(w) PROVE JobMoves
  BY <1>21 DEF Settle
<1>22. ASSUME NEW w \in Workers, Capture(w) PROVE JobMoves
  BY <1>22 DEF Capture
<1>23. ASSUME NEW w \in Workers, RecordSettlementFailure(w) PROVE JobMoves
  BY <1>23 DEF RecordSettlementFailure, CountFailure
<1>24. ASSUME NEW w \in Workers, GiveUp(w) PROVE JobMoves
  BY <1>24 DEF GiveUp, CountFailure
<1>25. ASSUME NEW w \in Workers, Exhaust(w) PROVE JobMoves
  BY <1>25 DEF Exhaust, Transition, CanTransition
<1>26. ASSUME NEW w \in Workers, MarkSettled(w) PROVE JobMoves
  BY <1>26 DEF MarkSettled
<1>27. ASSUME NEW w \in Workers, EndRun(w) PROVE JobMoves
  BY <1>27 DEF EndRun
<1>28. CASE DelayPasses
  BY <1>28 DEF DelayPasses
<1>29. CASE ActiveGoesStale
  BY <1>29 DEF ActiveGoesStale
<1>30. CASE LockExpires
  BY <1>30 DEF LockExpires
<1>31. CASE HeartbeatsLost
  BY <1>31 DEF HeartbeatsLost
<1>32. CASE ProviderProgress
  BY <1>32 DEF ProviderProgress
<1>32a. CASE AccountChanges
  BY <1>32a DEF AccountChanges
<1>33. CASE OutputCleanup
  BY <1>33 DEF OutputCleanup
<1>34. ASSUME NEW a \in Actors, Crash(a) PROVE JobMoves
  BY <1>34 DEF Crash
<1>35. CASE UNCHANGED vars
  BY <1>35 DEF vars
<1> QED
  BY <1>1, <1>2, <1>3, <1>4, <1>5, <1>6, <1>6a, <1>7, <1>8, <1>9, <1>10, <1>11, <1>12, <1>13, <1>14, <1>15, <1>16,
     <1>17, <1>18, <1>19, <1>20, <1>21, <1>22, <1>23, <1>24, <1>25, <1>26, <1>27, <1>28, <1>29, <1>30, <1>31,
     <1>32, <1>32a, <1>33, <1>34, <1>35 DEF Next, Submit, Cancel, Recover, Work, Actors

StepMoves == pc' = pc \/ \E a \in Actors, step \in Steps : Goto(a, step)

LEMMA StepStep ==
  ASSUME [Next]_vars
  PROVE  StepMoves
<1>a. {"submit", "cancel", "recover"} \subseteq Actors /\ Workers \subseteq Actors
  BY DEF Actors
<1> USE <1>a DEF StepMoves, Steps, SubmitSteps, CancelSteps, WorkerSteps, BillingSteps
<1>1. CASE CreateJob
  BY <1>1 DEF CreateJob
<1>2. CASE Reserve
  BY <1>2 DEF Reserve
<1>3. CASE CreatePendingItems
  BY <1>3 DEF CreatePendingItems
<1>4. CASE StartUpload
  BY <1>4 DEF StartUpload, Transition, CanTransition
<1>5. CASE ProviderSubmit
  BY <1>5 DEF ProviderSubmit
<1>6. CASE AttachProviderJob
  BY <1>6 DEF AttachProviderJob, CanTransition
<1>6a. CASE AbortOrphan
  BY <1>6a DEF AbortOrphan
<1>7. CASE SubmitAgain
  BY <1>7 DEF SubmitAgain
<1>8. ASSUME NEW a \in Actors, Release(a) PROVE StepMoves
  BY <1>8 DEF Release, AfterRelease, AfterReleaseError
<1>9. CASE MarkFailed("submit")
  BY <1>9 DEF MarkFailed
<1>10. ASSUME NEW a \in {"submit", "cancel", "recover"}, EnqueueStep(a) PROVE StepMoves
  BY <1>10 DEF EnqueueStep
<1>11. CASE CancelRead
  BY <1>11 DEF CancelRead
<1>12. CASE CancelProvider
  BY <1>12 DEF CancelProvider
<1>13. CASE CancelTransition
  BY <1>13 DEF CancelTransition, Transition, CanTransition
<1>14. CASE FailStaleUnsubmitted
  BY <1>14 DEF FailStaleUnsubmitted, Stale
<1>15. ASSUME NEW w \in Workers, ReserveJob(w) PROVE StepMoves
  BY <1>15 DEF ReserveJob
<1>16. ASSUME NEW w \in Workers, TryAcquireJobLock(w) PROVE StepMoves
  BY <1>16 DEF TryAcquireJobLock
<1>17. ASSUME NEW w \in Workers, Process(w) PROVE StepMoves
  BY <1>17 DEF Process
<1>18. ASSUME NEW w \in Workers, ProcessProvider(w) PROVE StepMoves
  BY <1>18 DEF ProcessProvider
<1>19. ASSUME NEW w \in Workers, ProviderGet(w) PROVE StepMoves
  <2>1. PICK step : Goto(w, step) /\ step \in {AfterReport[ReportedStatus], "requeue"}
    BY <1>19 DEF ProviderGet
  <2>2. AfterReport[ReportedStatus] \in {"requeue", "index", "release"}
    BY DEF AfterReport, ReportedStatus
  <2> QED
    BY <2>1, <2>2
<1>20. ASSUME NEW w \in Workers, Index(w) PROVE StepMoves
  BY <1>20 DEF Index, Transition, CanTransition
<1>21. ASSUME NEW w \in Workers, Settle(w) PROVE StepMoves
  BY <1>21 DEF Settle
<1>22. ASSUME NEW w \in Workers, Capture(w) PROVE StepMoves
  BY <1>22 DEF Capture
<1>23. ASSUME NEW w \in Workers, RecordSettlementFailure(w) PROVE StepMoves
  BY <1>23 DEF RecordSettlementFailure, CountFailure
<1>24. ASSUME NEW w \in Workers, GiveUp(w) PROVE StepMoves
  BY <1>24 DEF GiveUp, CountFailure
<1>25. ASSUME NEW w \in Workers, Exhaust(w) PROVE StepMoves
  BY <1>25 DEF Exhaust, Transition, CanTransition
<1>26. ASSUME NEW w \in Workers, MarkSettled(w) PROVE StepMoves
  BY <1>26 DEF MarkSettled
<1>27. ASSUME NEW w \in Workers, EndRun(w) PROVE StepMoves
  BY <1>27 DEF EndRun
<1>28. CASE DelayPasses
  BY <1>28 DEF DelayPasses
<1>29. CASE ActiveGoesStale
  BY <1>29 DEF ActiveGoesStale
<1>30. CASE LockExpires
  BY <1>30 DEF LockExpires
<1>31. CASE HeartbeatsLost
  BY <1>31 DEF HeartbeatsLost
<1>32. CASE ProviderProgress
  BY <1>32 DEF ProviderProgress
<1>32a. CASE AccountChanges
  BY <1>32a DEF AccountChanges
<1>33. CASE OutputCleanup
  BY <1>33 DEF OutputCleanup
<1>34. ASSUME NEW a \in Actors, Crash(a) PROVE StepMoves
  BY <1>34 DEF Crash
<1>35. CASE UNCHANGED vars
  BY <1>35 DEF vars
<1> QED
  BY <1>1, <1>2, <1>3, <1>4, <1>5, <1>6, <1>6a, <1>7, <1>8, <1>9, <1>10, <1>11, <1>12, <1>13, <1>14, <1>15, <1>16,
     <1>17, <1>18, <1>19, <1>20, <1>21, <1>22, <1>23, <1>24, <1>25, <1>26, <1>27, <1>28, <1>29, <1>30, <1>31,
     <1>32, <1>32a, <1>33, <1>34, <1>35 DEF Next, Submit, Cancel, Recover, Work, Actors

-----------------------------------------------------------------------------
(* Types. *)

TypeMoney ==
  /\ balance \in Nat /\ frozen \in Nat
  /\ claims \in Seq(Claims) /\ ToSet(claims) \subseteq Claims /\ IsInjective(claims)
TypeOutside == resolvable \in BOOLEAN
TypeJob ==
  /\ status \in Statuses /\ named \in BOOLEAN /\ retries \in Nat /\ cost \in 0..(Hold + 1)
  /\ upstream \in {"none", "running", "succeeded", "garbled", "failed", "cancelled"}
TypeSteps == pc \in [Actors -> Steps]
TypeFaults == faults \in 0..MaxFaults /\ mishaps \subseteq {"crash", "lock", "lost"}

TypeInv == TypeMoney /\ QueueTypeOK /\ TypeJob /\ TypeOutside /\ TypeSteps /\ TypeFaults

LEMMA TypeParts == TypeInv => TypeOK
  BY DEF TypeInv, TypeOK, TypeMoney, TypeJob, TypeOutside, TypeSteps, TypeFaults

LEMMA InitType == Init => TypeInv
<1> SUFFICES ASSUME Init PROVE TypeInv
  OBVIOUS
<1>1. TypeMoney
  BY HoldAssumption DEF Init, HoldInit, TypeMoney, ToSet, IsInjective
<1>2. QueueTypeOK
  <2>1. {inflight, active, delayed} \subseteq BOOLEAN
    BY Zenon DEF Init, QueueInit
  <2>2. ready \in 0..MaxReady /\ lock \in Workers \cup {NoOne}
    BY MaxReadyAssumption DEF Init, QueueInit
  <2> QED
    BY <2>1, <2>2 DEF QueueTypeOK
<1>3. TypeJob
  <2>1. named \in BOOLEAN
    BY Zenon DEF Init
  <2> QED
    BY <2>1, HoldAssumption DEF Init, TypeJob, Statuses
<1>4. TypeSteps
  BY DEF Init, TypeSteps, Steps, SubmitSteps
<1>5. TypeFaults
  BY JobBoundsAssumption DEF Init, TypeFaults
<1>6. TypeOutside
  BY Zenon DEF Init, TypeOutside
<1> QED
  BY <1>1, <1>2, <1>3, <1>4, <1>5, <1>6 DEF TypeInv

LEMMA MoneyTypes ==
  ASSUME TypeMoney, TypeJob, MoneyMoves
  PROVE  TypeMoney'
<1>t. /\ balance \in Nat /\ frozen \in Nat /\ cost \in Nat /\ Hold \in Nat
      /\ claims \in Seq(Claims) /\ ToSet(claims) \subseteq Claims /\ IsInjective(claims)
  BY HoldAssumption DEF TypeMoney, TypeJob
<1>c. ASSUME NEW id \in Claims, ~Claimed(id), Claim(id), balance' \in Nat, frozen' \in Nat PROVE TypeMoney'
  <2>1. claims' = Append(claims, id) /\ id \notin ToSet(claims)
    BY <1>c DEF Claim, Claimed
  <2> QED
    BY <1>t, <1>c, <2>1, AppendClaim DEF TypeMoney
<1>i. {"hold", "capture", "release"} = Claims
  BY DEF Claims
<1>u. ASSUME UNCHANGED money PROVE TypeMoney'
  BY <1>u DEF money, TypeMoney
<1>1. CASE ReserveHold
  <2>1. balance' \in Nat /\ frozen' \in Nat
    BY <1>t, <1>1 DEF ReserveHold
  <2> QED
    BY <1>1, <1>c, <1>i, <2>1 DEF ReserveHold
<1>2. CASE CanCapture(cost) /\ CaptureHold(cost) /\ ~Claimed("capture")
  <2>1. balance' \in Nat /\ frozen' \in Nat
    BY <1>t, <1>2 DEF CaptureHold, CanCapture
  <2> QED
    BY <1>2, <1>c, <1>i, <2>1 DEF CaptureHold
<1>3. CASE CanRelease /\ ReleaseHold /\ ~Claimed("release")
  <2>1. balance' \in Nat /\ frozen' \in Nat
    BY <1>t, <1>3 DEF ReleaseHold, CanRelease
  <2> QED
    BY <1>3, <1>c, <1>i, <2>1 DEF ReleaseHold
<1> QED
  BY <1>u, <1>1, <1>2, <1>3 DEF MoneyMoves, CaptureHold, ReleaseHold

LEMMA QueueTypes ==
  ASSUME QueueTypeOK, QueueMoves, lock' \in Workers \cup {NoOne, lock}
  PROVE  QueueTypeOK'
<1>1. {inflight', active', delayed'} \subseteq BOOLEAN
  BY Zenon DEF QueueTypeOK, QueueMoves, entry, Enqueue, ReserveEntry, RequeueAfter, Ack,
     MoveDueDelayedToReady, RecoverStaleActive
<1>2. ready' \in 0..MaxReady
  BY MaxReadyAssumption DEF QueueTypeOK, QueueMoves, entry, Enqueue, ReserveEntry, RequeueAfter, Ack,
     MoveDueDelayedToReady, RecoverStaleActive
<1> QED
  BY <1>1, <1>2 DEF QueueTypeOK

LEMMA FaultStep ==
  ASSUME [Next]_vars
  PROVE  Works \/ \E kind \in Failures : Fails(kind)
<1> DEFINE Goal == Works \/ \E kind \in Failures : Fails(kind)
<1>f. \A kind : Fails(kind) => kind \in Failures
  BY DEF Fails
<1>1. CASE CreateJob
  BY <1>1, <1>f DEF CreateJob
<1>2. CASE Reserve
  BY <1>2, <1>f DEF Reserve
<1>3. CASE CreatePendingItems
  BY <1>3, <1>f DEF CreatePendingItems
<1>4. CASE StartUpload
  BY <1>4, <1>f DEF StartUpload, Transition, CanTransition
<1>5. CASE ProviderSubmit
  BY <1>5, <1>f DEF ProviderSubmit
<1>6. CASE AttachProviderJob
  BY <1>6, <1>f DEF AttachProviderJob, CanTransition
<1>6a. CASE AbortOrphan
  BY <1>6a, <1>f DEF AbortOrphan
<1>7. CASE SubmitAgain
  BY <1>7, <1>f DEF SubmitAgain
<1>8. ASSUME NEW a \in Actors, Release(a) PROVE Goal
  BY <1>8, <1>f DEF Release, AfterRelease, AfterReleaseError
<1>9. CASE MarkFailed("submit")
  BY <1>9, <1>f DEF MarkFailed
<1>10. ASSUME NEW a \in {"submit", "cancel", "recover"}, EnqueueStep(a) PROVE Goal
  BY <1>10, <1>f DEF EnqueueStep
<1>11. CASE CancelRead
  BY <1>11, <1>f DEF CancelRead
<1>12. CASE CancelProvider
  BY <1>12, <1>f DEF CancelProvider
<1>13. CASE CancelTransition
  BY <1>13, <1>f DEF CancelTransition, Transition, CanTransition
<1>14. CASE FailStaleUnsubmitted
  BY <1>14, <1>f DEF FailStaleUnsubmitted, Stale
<1>15. ASSUME NEW w \in Workers, ReserveJob(w) PROVE Goal
  BY <1>15, <1>f DEF ReserveJob
<1>16. ASSUME NEW w \in Workers, TryAcquireJobLock(w) PROVE Goal
  BY <1>16, <1>f DEF TryAcquireJobLock
<1>17. ASSUME NEW w \in Workers, Process(w) PROVE Goal
  BY <1>17, <1>f DEF Process
<1>18. ASSUME NEW w \in Workers, ProcessProvider(w) PROVE Goal
  BY <1>18, <1>f DEF ProcessProvider
<1>19. ASSUME NEW w \in Workers, ProviderGet(w) PROVE Goal
  BY <1>19, <1>f DEF ProviderGet, Transition, CanTransition
<1>20. ASSUME NEW w \in Workers, Index(w) PROVE Goal
  BY <1>20, <1>f DEF Index, Transition, CanTransition
<1>21. ASSUME NEW w \in Workers, Settle(w) PROVE Goal
  BY <1>21, <1>f DEF Settle
<1>22. ASSUME NEW w \in Workers, Capture(w) PROVE Goal
  BY <1>22, <1>f DEF Capture
<1>23. ASSUME NEW w \in Workers, RecordSettlementFailure(w) PROVE Goal
  BY <1>23, <1>f DEF RecordSettlementFailure, CountFailure
<1>24. ASSUME NEW w \in Workers, GiveUp(w) PROVE Goal
  BY <1>24, <1>f DEF GiveUp, CountFailure
<1>25. ASSUME NEW w \in Workers, Exhaust(w) PROVE Goal
  BY <1>25, <1>f DEF Exhaust, Transition, CanTransition
<1>26. ASSUME NEW w \in Workers, MarkSettled(w) PROVE Goal
  BY <1>26, <1>f DEF MarkSettled
<1>27. ASSUME NEW w \in Workers, EndRun(w) PROVE Goal
  BY <1>27, <1>f DEF EndRun
<1>28. CASE DelayPasses
  BY <1>28, <1>f DEF DelayPasses
<1>29. CASE ActiveGoesStale
  BY <1>29, <1>f DEF ActiveGoesStale
<1>30. CASE LockExpires
  BY <1>30, <1>f DEF LockExpires
<1>31. CASE HeartbeatsLost
  BY <1>31, <1>f DEF HeartbeatsLost
<1>32. CASE ProviderProgress
  BY <1>32, <1>f DEF ProviderProgress
<1>32a. CASE AccountChanges
  BY <1>32a, <1>f DEF AccountChanges
<1>33. CASE OutputCleanup
  BY <1>33, <1>f DEF OutputCleanup
<1>34. ASSUME NEW a \in Actors, Crash(a) PROVE Goal
  BY <1>34, <1>f DEF Crash
<1>35. CASE UNCHANGED vars
  BY <1>35, <1>f DEF vars, Works
<1> QED
  BY <1>1, <1>2, <1>3, <1>4, <1>5, <1>6, <1>6a, <1>7, <1>8, <1>9, <1>10, <1>11, <1>12, <1>13, <1>14, <1>15, <1>16,
     <1>17, <1>18, <1>19, <1>20, <1>21, <1>22, <1>23, <1>24, <1>25, <1>26, <1>27, <1>28, <1>29, <1>30, <1>31,
     <1>32, <1>32a, <1>33, <1>34, <1>35 DEF Next, Submit, Cancel, Recover, Work, Actors

LEMMA OutsideStep ==
  ASSUME TypeOutside, [Next]_vars
  PROVE  TypeOutside'
<1> USE DEF TypeOutside, outside
<1>1. CASE CreateJob
  BY <1>1, Zenon DEF CreateJob
<1>2. CASE Reserve
  BY <1>2, Zenon DEF Reserve
<1>3. CASE CreatePendingItems
  BY <1>3, Zenon DEF CreatePendingItems
<1>4. CASE StartUpload
  BY <1>4, Zenon DEF StartUpload
<1>5. CASE ProviderSubmit
  BY <1>5, Zenon DEF ProviderSubmit
<1>6. CASE AttachProviderJob
  BY <1>6, Zenon DEF AttachProviderJob
<1>6a. CASE AbortOrphan
  BY <1>6a, Zenon DEF AbortOrphan, CancelUpstream
<1>7. CASE SubmitAgain
  BY <1>7, Zenon DEF SubmitAgain
<1>8. ASSUME NEW a \in Actors, Release(a) PROVE TypeOutside'
  BY <1>8, Zenon DEF Release
<1>9. CASE MarkFailed("submit")
  BY <1>9, Zenon DEF MarkFailed
<1>10. ASSUME NEW a \in {"submit", "cancel", "recover"}, EnqueueStep(a) PROVE TypeOutside'
  BY <1>10, Zenon DEF EnqueueStep
<1>11. CASE CancelRead
  BY <1>11, Zenon DEF CancelRead
<1>12. CASE CancelProvider
  BY <1>12, Zenon DEF CancelProvider, CancelUpstream
<1>13. CASE CancelTransition
  BY <1>13, Zenon DEF CancelTransition
<1>14. CASE FailStaleUnsubmitted
  BY <1>14, Zenon DEF FailStaleUnsubmitted
<1>15. ASSUME NEW w \in Workers, ReserveJob(w) PROVE TypeOutside'
  BY <1>15, Zenon DEF ReserveJob
<1>16. ASSUME NEW w \in Workers, TryAcquireJobLock(w) PROVE TypeOutside'
  BY <1>16, Zenon DEF TryAcquireJobLock
<1>17. ASSUME NEW w \in Workers, Process(w) PROVE TypeOutside'
  BY <1>17, Zenon DEF Process
<1>18. ASSUME NEW w \in Workers, ProcessProvider(w) PROVE TypeOutside'
  BY <1>18, Zenon DEF ProcessProvider
<1>19. ASSUME NEW w \in Workers, ProviderGet(w) PROVE TypeOutside'
  BY <1>19, Zenon DEF ProviderGet
<1>20. ASSUME NEW w \in Workers, Index(w) PROVE TypeOutside'
  BY <1>20, Zenon DEF Index
<1>21. ASSUME NEW w \in Workers, Settle(w) PROVE TypeOutside'
  BY <1>21, Zenon DEF Settle
<1>22. ASSUME NEW w \in Workers, Capture(w) PROVE TypeOutside'
  BY <1>22, Zenon DEF Capture
<1>23. ASSUME NEW w \in Workers, RecordSettlementFailure(w) PROVE TypeOutside'
  BY <1>23, Zenon DEF RecordSettlementFailure
<1>24. ASSUME NEW w \in Workers, GiveUp(w) PROVE TypeOutside'
  BY <1>24, Zenon DEF GiveUp
<1>25. ASSUME NEW w \in Workers, Exhaust(w) PROVE TypeOutside'
  BY <1>25, Zenon DEF Exhaust
<1>26. ASSUME NEW w \in Workers, MarkSettled(w) PROVE TypeOutside'
  BY <1>26, Zenon DEF MarkSettled
<1>27. ASSUME NEW w \in Workers, EndRun(w) PROVE TypeOutside'
  BY <1>27, Zenon DEF EndRun
<1>28. CASE DelayPasses
  BY <1>28, Zenon DEF DelayPasses
<1>29. CASE ActiveGoesStale
  BY <1>29, Zenon DEF ActiveGoesStale
<1>30. CASE LockExpires
  BY <1>30, Zenon DEF LockExpires
<1>31. CASE HeartbeatsLost
  BY <1>31, Zenon DEF HeartbeatsLost
<1>32. CASE ProviderProgress
  BY <1>32, Zenon DEF ProviderProgress
<1>32a. CASE AccountChanges
  BY <1>32a, Zenon DEF AccountChanges
<1>33. CASE OutputCleanup
  BY <1>33, Zenon DEF OutputCleanup
<1>34. ASSUME NEW a \in Actors, Crash(a) PROVE TypeOutside'
  BY <1>34, Zenon DEF Crash
<1>35. CASE UNCHANGED vars
  BY <1>35, Zenon DEF vars
<1> QED
  BY <1>1, <1>2, <1>3, <1>4, <1>5, <1>6, <1>6a, <1>7, <1>8, <1>9, <1>10, <1>11, <1>12, <1>13, <1>14, <1>15, <1>16,
     <1>17, <1>18, <1>19, <1>20, <1>21, <1>22, <1>23, <1>24, <1>25, <1>26, <1>27, <1>28, <1>29, <1>30, <1>31,
     <1>32, <1>32a, <1>33, <1>34, <1>35 DEF Next, Submit, Cancel, Recover, Work, Actors

LEMMA TypeStep ==
  ASSUME TypeInv, [Next]_vars
  PROVE  TypeInv'
<1>1. TypeMoney'
  BY MoneyStep, MoneyTypes DEF TypeInv
<1>2. QueueTypeOK'
  BY QueueStep, QueueTypes DEF TypeInv
<1>3. TypeJob'
  BY JobStep, TypeParts DEF JobMoves, TypeJob
<1>4. TypeSteps'
  BY StepStep DEF StepMoves, Goto, TypeInv, TypeSteps
<1>5. TypeFaults'
  <2>1. faults' \in 0..MaxFaults
    BY FaultStep, JobBoundsAssumption DEF Works, Fails, TypeInv, TypeFaults
  <2>2. mishaps' \subseteq {"crash", "lock", "lost"}
    BY FaultStep, Zenon DEF Works, Fails, TypeInv, TypeFaults
  <2> QED
    BY <2>1, <2>2 DEF TypeFaults
<1>6. TypeOutside'
  BY OutsideStep, Zenon DEF TypeInv, TypeOutside
<1> QED
  BY <1>1, <1>2, <1>3, <1>4, <1>5, <1>6 DEF TypeInv

LEMMA TypeInvariant == Spec => []TypeInv
<1>1. TypeInv /\ [Next]_vars => TypeInv'
  BY TypeStep
<1> QED
  BY <1>1, InitType, PTL DEF Spec

\* The state of a batch is always well typed: neither the balance nor the
\* frozen balance goes below zero, and no request id is claimed twice.
THEOREM BatchTypeCorrect == Spec => []TypeOK
  BY TypeInvariant, TypeParts, PTL

\* The inflight key of a batch never stays without an entry in the queue,
\* whatever fails and whoever crashes (batchImageReserveScript,
\* batchImageEnqueueScript).
THEOREM InflightIsAlwaysQueued == Spec => []InflightIsQueued
<1>1. Init => InflightIsQueued
  BY DEF Init, QueueInit, InflightIsQueued
<1>2. TypeInv /\ InflightIsQueued /\ [Next]_vars => InflightIsQueued'
  <2> SUFFICES ASSUME TypeInv, InflightIsQueued, [Next]_vars PROVE InflightIsQueued'
    OBVIOUS
  <2>1. QueueMoves /\ ready \in Nat
    BY QueueStep, MaxReadyAssumption DEF TypeInv, QueueTypeOK
  <2>2. CASE UNCHANGED entry
    BY <2>2 DEF InflightIsQueued, entry
  <2>3. CASE Enqueue /\ ~inflight
    BY <2>1, <2>3 DEF InflightIsQueued, Enqueue
  <2>4. CASE Enqueue /\ inflight
    BY <2>4 DEF InflightIsQueued, Enqueue, entry
  <2>5. CASE ReserveEntry
    BY <2>5, Zenon DEF InflightIsQueued, ReserveEntry
  <2>6. CASE RequeueAfter \/ Ack
    BY <2>6, Zenon DEF InflightIsQueued, RequeueAfter, Ack
  <2>7. CASE MoveDueDelayedToReady \/ RecoverStaleActive
    <3>1. ready' > 0
      BY <2>1, <2>7 DEF MoveDueDelayedToReady, RecoverStaleActive
    <3> QED
      BY <3>1 DEF InflightIsQueued
  <2> QED
    BY <2>1, <2>2, <2>3, <2>4, <2>5, <2>6, <2>7 DEF QueueMoves
<1> QED
  BY <1>1, <1>2, TypeInvariant, PTL DEF Spec

-----------------------------------------------------------------------------
(* The end of a job is final. *)

LEMMA ActorFacts ==
  /\ "submit" \in Actors /\ "cancel" \in Actors /\ "recover" \in Actors /\ Workers \subseteq Actors
  /\ \A w \in Workers : w # "submit" /\ w # "cancel" /\ w # "recover"
  /\ \A a \in Actors : a \in Workers \/ a \in {"submit", "cancel", "recover"}
  BY WorkersAssumption DEF Actors

LEMMA FreshStep ==
  ASSUME TypeInv, Fresh, [Next]_vars
  PROVE  Fresh'
<1>t. pc \in [Actors -> Steps]
  BY DEF TypeInv, TypeSteps
<1> USE <1>t, ActorFacts DEF Fresh, At, Goto, row, queue, entry
<1>1. CASE CreateJob
  BY <1>1 DEF CreateJob
<1>2. CASE Reserve
  BY <1>2 DEF Reserve
<1>3. CASE CreatePendingItems
  BY <1>3 DEF CreatePendingItems
<1>4. CASE StartUpload
  BY <1>4 DEF StartUpload, Transition, CanTransition
<1>5. CASE ProviderSubmit
  BY <1>5 DEF ProviderSubmit
<1>6. CASE AttachProviderJob
  BY <1>6 DEF AttachProviderJob, CanTransition
<1>6a. CASE AbortOrphan
  BY <1>6a DEF AbortOrphan
<1>7. CASE SubmitAgain
  BY <1>7 DEF SubmitAgain
<1>8. ASSUME NEW a \in Actors, Release(a) PROVE Fresh'
  BY <1>8 DEF Release, AfterRelease, AfterReleaseError
<1>9. CASE MarkFailed("submit")
  BY <1>9 DEF MarkFailed
<1>10. ASSUME NEW a \in {"submit", "cancel", "recover"}, EnqueueStep(a) PROVE Fresh'
  BY <1>10 DEF EnqueueStep
<1>11. CASE CancelRead
  BY <1>11 DEF CancelRead
<1>12. CASE CancelProvider
  BY <1>12 DEF CancelProvider
<1>13. CASE CancelTransition
  BY <1>13 DEF CancelTransition, Transition, CanTransition
<1>14. CASE FailStaleUnsubmitted
  BY <1>14 DEF FailStaleUnsubmitted, Stale
<1>15. ASSUME NEW w \in Workers, ReserveJob(w) PROVE Fresh'
  BY <1>15 DEF ReserveJob, ReserveEntry
<1>16. ASSUME NEW w \in Workers, TryAcquireJobLock(w) PROVE Fresh'
  BY <1>16 DEF TryAcquireJobLock
<1>17. ASSUME NEW w \in Workers, Process(w) PROVE Fresh'
  BY <1>17 DEF Process
<1>18. ASSUME NEW w \in Workers, ProcessProvider(w) PROVE Fresh'
  BY <1>18 DEF ProcessProvider
<1>19. ASSUME NEW w \in Workers, ProviderGet(w) PROVE Fresh'
  BY <1>19 DEF ProviderGet, Transition, CanTransition
<1>20. ASSUME NEW w \in Workers, Index(w) PROVE Fresh'
  BY <1>20 DEF Index, Transition, CanTransition
<1>21. ASSUME NEW w \in Workers, Settle(w) PROVE Fresh'
  BY <1>21 DEF Settle
<1>22. ASSUME NEW w \in Workers, Capture(w) PROVE Fresh'
  BY <1>22 DEF Capture
<1>23. ASSUME NEW w \in Workers, RecordSettlementFailure(w) PROVE Fresh'
  BY <1>23 DEF RecordSettlementFailure, CountFailure
<1>24. ASSUME NEW w \in Workers, GiveUp(w) PROVE Fresh'
  BY <1>24 DEF GiveUp, CountFailure
<1>25. ASSUME NEW w \in Workers, Exhaust(w) PROVE Fresh'
  BY <1>25 DEF Exhaust, Transition, CanTransition
<1>26. ASSUME NEW w \in Workers, MarkSettled(w) PROVE Fresh'
  BY <1>26 DEF MarkSettled
<1>27. ASSUME NEW w \in Workers, EndRun(w) PROVE Fresh'
  BY <1>27 DEF EndRun
<1>28. CASE DelayPasses
  BY <1>28 DEF DelayPasses, MoveDueDelayedToReady
<1>29. CASE ActiveGoesStale
  BY <1>29 DEF ActiveGoesStale, RecoverStaleActive
<1>30. CASE LockExpires
  BY <1>30 DEF LockExpires
<1>31. CASE HeartbeatsLost
  BY <1>31 DEF HeartbeatsLost
<1>32. CASE ProviderProgress
  BY <1>32 DEF ProviderProgress
<1>32a. CASE AccountChanges
  BY <1>32a DEF AccountChanges
<1>33. CASE OutputCleanup
  BY <1>33 DEF OutputCleanup
<1>34. ASSUME NEW a \in Actors, Crash(a) PROVE Fresh'
  BY <1>34 DEF Crash
<1>35. CASE UNCHANGED vars
  BY <1>35 DEF vars
<1> QED
  BY <1>1, <1>2, <1>3, <1>4, <1>5, <1>6, <1>6a, <1>7, <1>8, <1>9, <1>10, <1>11, <1>12, <1>13, <1>14, <1>15, <1>16,
     <1>17, <1>18, <1>19, <1>20, <1>21, <1>22, <1>23, <1>24, <1>25, <1>26, <1>27, <1>28, <1>29, <1>30, <1>31,
     <1>32, <1>32a, <1>33, <1>34, <1>35 DEF Next, Submit, Cancel, Recover, Work, Actors

LEMMA TerminalStep ==
  ASSUME TypeInv, Fresh, [Next]_vars, status \in Terminal
  PROVE  status' \in Terminal
<1> USE DEF Fresh, At, row, Terminal, Refunded
<1>1. CASE CreateJob
  BY <1>1 DEF CreateJob
<1>2. CASE Reserve
  BY <1>2 DEF Reserve
<1>3. CASE CreatePendingItems
  BY <1>3 DEF CreatePendingItems
<1>4. CASE StartUpload
  BY <1>4 DEF StartUpload, Transition, CanTransition
<1>5. CASE ProviderSubmit
  BY <1>5 DEF ProviderSubmit
<1>6. CASE AttachProviderJob
  BY <1>6 DEF AttachProviderJob, CanTransition
<1>6a. CASE AbortOrphan
  BY <1>6a DEF AbortOrphan
<1>7. CASE SubmitAgain
  BY <1>7 DEF SubmitAgain
<1>8. ASSUME NEW a \in Actors, Release(a) PROVE status' \in Terminal
  BY <1>8 DEF Release, AfterRelease, AfterReleaseError
<1>9. CASE MarkFailed("submit")
  BY <1>9 DEF MarkFailed
<1>10. ASSUME NEW a \in {"submit", "cancel", "recover"}, EnqueueStep(a) PROVE status' \in Terminal
  BY <1>10 DEF EnqueueStep
<1>11. CASE CancelRead
  BY <1>11 DEF CancelRead
<1>12. CASE CancelProvider
  BY <1>12 DEF CancelProvider
<1>13. CASE CancelTransition
  BY <1>13 DEF CancelTransition, Transition, CanTransition
<1>14. CASE FailStaleUnsubmitted
  BY <1>14 DEF FailStaleUnsubmitted, Stale
<1>15. ASSUME NEW w \in Workers, ReserveJob(w) PROVE status' \in Terminal
  BY <1>15 DEF ReserveJob
<1>16. ASSUME NEW w \in Workers, TryAcquireJobLock(w) PROVE status' \in Terminal
  BY <1>16 DEF TryAcquireJobLock
<1>17. ASSUME NEW w \in Workers, Process(w) PROVE status' \in Terminal
  BY <1>17 DEF Process
<1>18. ASSUME NEW w \in Workers, ProcessProvider(w) PROVE status' \in Terminal
  BY <1>18 DEF ProcessProvider
<1>19. ASSUME NEW w \in Workers, ProviderGet(w) PROVE status' \in Terminal
  BY <1>19 DEF ProviderGet, Transition, CanTransition, ReportedStatus
<1>20. ASSUME NEW w \in Workers, Index(w) PROVE status' \in Terminal
  BY <1>20 DEF Index, Transition, CanTransition
<1>21. ASSUME NEW w \in Workers, Settle(w) PROVE status' \in Terminal
  BY <1>21 DEF Settle
<1>22. ASSUME NEW w \in Workers, Capture(w) PROVE status' \in Terminal
  BY <1>22 DEF Capture
<1>23. ASSUME NEW w \in Workers, RecordSettlementFailure(w) PROVE status' \in Terminal
  BY <1>23 DEF RecordSettlementFailure, CountFailure
<1>24. ASSUME NEW w \in Workers, GiveUp(w) PROVE status' \in Terminal
  BY <1>24 DEF GiveUp, CountFailure
<1>25. ASSUME NEW w \in Workers, Exhaust(w) PROVE status' \in Terminal
  BY <1>25 DEF Exhaust, Transition, CanTransition
<1>26. ASSUME NEW w \in Workers, MarkSettled(w) PROVE status' \in Terminal
  BY <1>26 DEF MarkSettled
<1>27. ASSUME NEW w \in Workers, EndRun(w) PROVE status' \in Terminal
  BY <1>27 DEF EndRun
<1>28. CASE DelayPasses
  BY <1>28 DEF DelayPasses
<1>29. CASE ActiveGoesStale
  BY <1>29 DEF ActiveGoesStale
<1>30. CASE LockExpires
  BY <1>30 DEF LockExpires
<1>31. CASE HeartbeatsLost
  BY <1>31 DEF HeartbeatsLost
<1>32. CASE ProviderProgress
  BY <1>32 DEF ProviderProgress
<1>32a. CASE AccountChanges
  BY <1>32a DEF AccountChanges
<1>33. CASE OutputCleanup
  BY <1>33 DEF OutputCleanup
<1>34. ASSUME NEW a \in Actors, Crash(a) PROVE status' \in Terminal
  BY <1>34 DEF Crash
<1>35. CASE UNCHANGED vars
  BY <1>35 DEF vars
<1> QED
  BY <1>1, <1>2, <1>3, <1>4, <1>5, <1>6, <1>6a, <1>7, <1>8, <1>9, <1>10, <1>11, <1>12, <1>13, <1>14, <1>15, <1>16,
     <1>17, <1>18, <1>19, <1>20, <1>21, <1>22, <1>23, <1>24, <1>25, <1>26, <1>27, <1>28, <1>29, <1>30, <1>31,
     <1>32, <1>32a, <1>33, <1>34, <1>35 DEF Next, Submit, Cancel, Recover, Work, Actors

\* A job that is completed, failed or cancelled never leaves these states,
\* whoever still works on it and whatever fails (the status conditions of the
\* job's updates).
THEOREM BatchNeverRevived == Spec => NeverRevived
<1>1. Init => Fresh
  BY DEF Init, QueueInit, Fresh, At, Actors
<1>2. TypeInv /\ Fresh /\ [Next]_vars => Fresh'
  BY FreshStep
<1>3. TypeInv /\ Fresh /\ [Next]_vars => [(status \in Terminal) => (status' \in Terminal)]_vars
  BY TerminalStep
<1> QED
  BY <1>1, <1>2, <1>3, TypeInvariant, PTL DEF Spec, NeverRevived

-----------------------------------------------------------------------------
(* Who may be at which step, and one worker at a time. *)

LEMMA RangesStep ==
  ASSUME TypeInv, StepRanges, [Next]_vars
  PROVE  StepRanges'
<1>t. pc \in [Actors -> Steps]
  BY DEF TypeInv, TypeSteps
<1> USE <1>t, ActorFacts DEF StepRanges, At, Goto, SubmitSteps, CancelSteps, WorkerSteps, BillingSteps
<1>1. CASE CreateJob
  BY <1>1 DEF CreateJob
<1>2. CASE Reserve
  BY <1>2 DEF Reserve
<1>3. CASE CreatePendingItems
  BY <1>3 DEF CreatePendingItems
<1>4. CASE StartUpload
  BY <1>4 DEF StartUpload, Transition, CanTransition
<1>5. CASE ProviderSubmit
  BY <1>5 DEF ProviderSubmit
<1>6. CASE AttachProviderJob
  BY <1>6 DEF AttachProviderJob, CanTransition
<1>6a. CASE AbortOrphan
  BY <1>6a DEF AbortOrphan
<1>7. CASE SubmitAgain
  BY <1>7 DEF SubmitAgain
<1>8. ASSUME NEW a \in Actors, Release(a) PROVE StepRanges'
  BY <1>8 DEF Release, AfterRelease, AfterReleaseError
<1>9. CASE MarkFailed("submit")
  BY <1>9 DEF MarkFailed
<1>10. ASSUME NEW a \in {"submit", "cancel", "recover"}, EnqueueStep(a) PROVE StepRanges'
  BY <1>10 DEF EnqueueStep
<1>11. CASE CancelRead
  BY <1>11 DEF CancelRead
<1>12. CASE CancelProvider
  BY <1>12 DEF CancelProvider
<1>13. CASE CancelTransition
  BY <1>13 DEF CancelTransition, Transition, CanTransition
<1>14. CASE FailStaleUnsubmitted
  BY <1>14 DEF FailStaleUnsubmitted, Stale
<1>15. ASSUME NEW w \in Workers, ReserveJob(w) PROVE StepRanges'
  BY <1>15 DEF ReserveJob
<1>16. ASSUME NEW w \in Workers, TryAcquireJobLock(w) PROVE StepRanges'
  BY <1>16 DEF TryAcquireJobLock
<1>17. ASSUME NEW w \in Workers, Process(w) PROVE StepRanges'
  BY <1>17 DEF Process
<1>18. ASSUME NEW w \in Workers, ProcessProvider(w) PROVE StepRanges'
  BY <1>18 DEF ProcessProvider
<1>19. ASSUME NEW w \in Workers, ProviderGet(w) PROVE StepRanges'
  <2>1. AfterReport[ReportedStatus] \in {"requeue", "index", "release"}
    BY DEF AfterReport, ReportedStatus
  <2> QED
    BY <1>19, <2>1 DEF ProviderGet
<1>20. ASSUME NEW w \in Workers, Index(w) PROVE StepRanges'
  BY <1>20 DEF Index, Transition, CanTransition
<1>21. ASSUME NEW w \in Workers, Settle(w) PROVE StepRanges'
  BY <1>21 DEF Settle
<1>22. ASSUME NEW w \in Workers, Capture(w) PROVE StepRanges'
  BY <1>22 DEF Capture
<1>23. ASSUME NEW w \in Workers, RecordSettlementFailure(w) PROVE StepRanges'
  BY <1>23 DEF RecordSettlementFailure, CountFailure
<1>24. ASSUME NEW w \in Workers, GiveUp(w) PROVE StepRanges'
  BY <1>24 DEF GiveUp, CountFailure
<1>25. ASSUME NEW w \in Workers, Exhaust(w) PROVE StepRanges'
  BY <1>25 DEF Exhaust, Transition, CanTransition
<1>26. ASSUME NEW w \in Workers, MarkSettled(w) PROVE StepRanges'
  BY <1>26 DEF MarkSettled
<1>27. ASSUME NEW w \in Workers, EndRun(w) PROVE StepRanges'
  BY <1>27 DEF EndRun
<1>28. CASE DelayPasses
  BY <1>28 DEF DelayPasses
<1>29. CASE ActiveGoesStale
  BY <1>29 DEF ActiveGoesStale
<1>30. CASE LockExpires
  BY <1>30 DEF LockExpires
<1>31. CASE HeartbeatsLost
  BY <1>31 DEF HeartbeatsLost
<1>32. CASE ProviderProgress
  BY <1>32 DEF ProviderProgress
<1>32a. CASE AccountChanges
  BY <1>32a DEF AccountChanges
<1>33. CASE OutputCleanup
  BY <1>33 DEF OutputCleanup
<1>34. ASSUME NEW a \in Actors, Crash(a) PROVE StepRanges'
  BY <1>34 DEF Crash
<1>35. CASE UNCHANGED vars
  BY <1>35 DEF vars
<1> QED
  BY <1>1, <1>2, <1>3, <1>4, <1>5, <1>6, <1>6a, <1>7, <1>8, <1>9, <1>10, <1>11, <1>12, <1>13, <1>14, <1>15, <1>16,
     <1>17, <1>18, <1>19, <1>20, <1>21, <1>22, <1>23, <1>24, <1>25, <1>26, <1>27, <1>28, <1>29, <1>30, <1>31,
     <1>32, <1>32a, <1>33, <1>34, <1>35 DEF Next, Submit, Cancel, Recover, Work, Actors

LEMMA NoLoss ==
  ASSUME "lock" \notin Failures, "lock" \notin mishaps, [Next]_vars
  PROVE  "lock" \notin mishaps'
  BY FaultStep, Zenon DEF Works, Fails

\* While no heartbeats are lost, only the reservation of the batch's one entry
\* brings a worker to it.
LEMMA OneEntryStep ==
  ASSUME TypeInv, "lock" \notin mishaps, OneEntry, [Next]_vars
  PROVE  OneEntry'
<1>t. pc \in [Actors -> Steps] /\ ready \in Nat
  BY MaxReadyAssumption DEF TypeInv, TypeSteps, QueueTypeOK
<1> USE <1>t, ActorFacts DEF OneEntry, At, Goto, queue, entry
<1>1. CASE CreateJob
  BY <1>1 DEF CreateJob
<1>2. CASE Reserve
  BY <1>2 DEF Reserve
<1>3. CASE CreatePendingItems
  BY <1>3 DEF CreatePendingItems
<1>4. CASE StartUpload
  BY <1>4 DEF StartUpload, Transition, CanTransition
<1>5. CASE ProviderSubmit
  BY <1>5 DEF ProviderSubmit
<1>6. CASE AttachProviderJob
  BY <1>6 DEF AttachProviderJob, CanTransition
<1>6a. CASE AbortOrphan
  BY <1>6a DEF AbortOrphan
<1>7. CASE SubmitAgain
  BY <1>7 DEF SubmitAgain
<1>8. ASSUME NEW a \in Actors, Release(a) PROVE OneEntry'
  BY <1>8 DEF Release, AfterRelease, AfterReleaseError
<1>9. CASE MarkFailed("submit")
  BY <1>9 DEF MarkFailed
<1>10. ASSUME NEW a \in {"submit", "cancel", "recover"}, EnqueueStep(a) PROVE OneEntry'
  BY <1>10 DEF EnqueueStep, Enqueue
<1>11. CASE CancelRead
  BY <1>11 DEF CancelRead
<1>12. CASE CancelProvider
  BY <1>12 DEF CancelProvider
<1>13. CASE CancelTransition
  BY <1>13 DEF CancelTransition, Transition, CanTransition
<1>14. CASE FailStaleUnsubmitted
  BY <1>14 DEF FailStaleUnsubmitted, Stale
<1>15. ASSUME NEW w \in Workers, ReserveJob(w) PROVE OneEntry'
  BY <1>15 DEF ReserveJob, ReserveEntry
<1>16. ASSUME NEW w \in Workers, TryAcquireJobLock(w) PROVE OneEntry'
  BY <1>16 DEF TryAcquireJobLock
<1>17. ASSUME NEW w \in Workers, Process(w) PROVE OneEntry'
  BY <1>17 DEF Process
<1>18. ASSUME NEW w \in Workers, ProcessProvider(w) PROVE OneEntry'
  BY <1>18 DEF ProcessProvider
<1>19. ASSUME NEW w \in Workers, ProviderGet(w) PROVE OneEntry'
  BY <1>19 DEF ProviderGet, Transition, CanTransition
<1>20. ASSUME NEW w \in Workers, Index(w) PROVE OneEntry'
  BY <1>20 DEF Index, Transition, CanTransition
<1>21. ASSUME NEW w \in Workers, Settle(w) PROVE OneEntry'
  BY <1>21 DEF Settle
<1>22. ASSUME NEW w \in Workers, Capture(w) PROVE OneEntry'
  BY <1>22 DEF Capture
<1>23. ASSUME NEW w \in Workers, RecordSettlementFailure(w) PROVE OneEntry'
  BY <1>23 DEF RecordSettlementFailure, CountFailure
<1>24. ASSUME NEW w \in Workers, GiveUp(w) PROVE OneEntry'
  BY <1>24 DEF GiveUp, CountFailure
<1>25. ASSUME NEW w \in Workers, Exhaust(w) PROVE OneEntry'
  BY <1>25 DEF Exhaust, Transition, CanTransition
<1>26. ASSUME NEW w \in Workers, MarkSettled(w) PROVE OneEntry'
  BY <1>26 DEF MarkSettled
<1>27. ASSUME NEW w \in Workers, EndRun(w) PROVE OneEntry'
  BY <1>27 DEF EndRun, RequeueAfter, Ack
<1>28. CASE DelayPasses
  BY <1>28 DEF DelayPasses, MoveDueDelayedToReady
<1>29. CASE ActiveGoesStale
  BY <1>29 DEF ActiveGoesStale, RecoverStaleActive, Unattended
<1>30. CASE LockExpires
  BY <1>30 DEF LockExpires
<1>31. CASE HeartbeatsLost
  BY <1>31 DEF HeartbeatsLost
<1>32. CASE ProviderProgress
  BY <1>32 DEF ProviderProgress
<1>32a. CASE AccountChanges
  BY <1>32a DEF AccountChanges
<1>33. CASE OutputCleanup
  BY <1>33 DEF OutputCleanup
<1>34. ASSUME NEW a \in Actors, Crash(a) PROVE OneEntry'
  BY <1>34 DEF Crash
<1>35. CASE UNCHANGED vars
  BY <1>35 DEF vars
<1> QED
  BY <1>1, <1>2, <1>3, <1>4, <1>5, <1>6, <1>6a, <1>7, <1>8, <1>9, <1>10, <1>11, <1>12, <1>13, <1>14, <1>15, <1>16,
     <1>17, <1>18, <1>19, <1>20, <1>21, <1>22, <1>23, <1>24, <1>25, <1>26, <1>27, <1>28, <1>29, <1>30, <1>31,
     <1>32, <1>32a, <1>33, <1>34, <1>35 DEF Next, Submit, Cancel, Recover, Work, Actors

-----------------------------------------------------------------------------
(* How far the job is. *)

LEMMA SubmitPhaseStep ==
  ASSUME TypeInv, Fresh, StepRanges, SubmitPhase, [Next]_vars
  PROVE  SubmitPhase'
<1>t. pc \in [Actors -> Steps]
  BY DEF TypeInv, TypeSteps
<1> USE <1>t, ActorFacts DEF Fresh, SubmitPhase, At, Goto, row, Early, Refunded, Terminal
<1>1. CASE CreateJob
  BY <1>1 DEF CreateJob
<1>2. CASE Reserve
  BY <1>2 DEF Reserve
<1>3. CASE CreatePendingItems
  BY <1>3 DEF CreatePendingItems
<1>4. CASE StartUpload
  BY <1>4 DEF StartUpload, Transition, CanTransition
<1>5. CASE ProviderSubmit
  BY <1>5 DEF ProviderSubmit
<1>6. CASE AttachProviderJob
  BY <1>6 DEF AttachProviderJob, CanTransition
<1>6a. CASE AbortOrphan
  BY <1>6a DEF AbortOrphan
<1>7. CASE SubmitAgain
  BY <1>7 DEF SubmitAgain
<1>8. ASSUME NEW a \in Actors, Release(a) PROVE SubmitPhase'
  BY <1>8 DEF Release, AfterRelease, AfterReleaseError
<1>9. CASE MarkFailed("submit")
  BY <1>9 DEF MarkFailed
<1>10. ASSUME NEW a \in {"submit", "cancel", "recover"}, EnqueueStep(a) PROVE SubmitPhase'
  BY <1>10 DEF EnqueueStep
<1>11. CASE CancelRead
  BY <1>11 DEF CancelRead
<1>12. CASE CancelProvider
  BY <1>12 DEF CancelProvider
<1>13. CASE CancelTransition
  BY <1>13 DEF CancelTransition, Transition, CanTransition
<1>14. CASE FailStaleUnsubmitted
  BY <1>14 DEF FailStaleUnsubmitted, Stale
<1>15. ASSUME NEW w \in Workers, ReserveJob(w) PROVE SubmitPhase'
  BY <1>15 DEF ReserveJob
<1>16. ASSUME NEW w \in Workers, TryAcquireJobLock(w) PROVE SubmitPhase'
  BY <1>16 DEF TryAcquireJobLock
<1>17. ASSUME NEW w \in Workers, Process(w) PROVE SubmitPhase'
  BY <1>17 DEF Process
<1>18. ASSUME NEW w \in Workers, ProcessProvider(w) PROVE SubmitPhase'
  BY <1>18 DEF ProcessProvider
<1>19. ASSUME NEW w \in Workers, ProviderGet(w) PROVE SubmitPhase'
  BY <1>19 DEF ProviderGet, Transition, CanTransition, ReportedStatus
<1>20. ASSUME NEW w \in Workers, Index(w) PROVE SubmitPhase'
  BY <1>20 DEF Index, Transition, CanTransition
<1>21. ASSUME NEW w \in Workers, Settle(w) PROVE SubmitPhase'
  BY <1>21 DEF Settle
<1>22. ASSUME NEW w \in Workers, Capture(w) PROVE SubmitPhase'
  BY <1>22 DEF Capture
<1>23. ASSUME NEW w \in Workers, RecordSettlementFailure(w) PROVE SubmitPhase'
  BY <1>23 DEF RecordSettlementFailure, CountFailure
<1>24. ASSUME NEW w \in Workers, GiveUp(w) PROVE SubmitPhase'
  BY <1>24 DEF GiveUp, CountFailure
<1>25. ASSUME NEW w \in Workers, Exhaust(w) PROVE SubmitPhase'
  BY <1>25 DEF Exhaust, Transition, CanTransition
<1>26. ASSUME NEW w \in Workers, MarkSettled(w) PROVE SubmitPhase'
  BY <1>26 DEF MarkSettled
<1>27. ASSUME NEW w \in Workers, EndRun(w) PROVE SubmitPhase'
  BY <1>27 DEF EndRun
<1>28. CASE DelayPasses
  BY <1>28 DEF DelayPasses
<1>29. CASE ActiveGoesStale
  BY <1>29 DEF ActiveGoesStale
<1>30. CASE LockExpires
  BY <1>30 DEF LockExpires
<1>31. CASE HeartbeatsLost
  BY <1>31 DEF HeartbeatsLost
<1>32. CASE ProviderProgress
  BY <1>32 DEF ProviderProgress
<1>32a. CASE AccountChanges
  BY <1>32a DEF AccountChanges
<1>33. CASE OutputCleanup
  BY <1>33 DEF OutputCleanup
<1>34. ASSUME NEW a \in Actors, Crash(a) PROVE SubmitPhase'
  BY <1>34 DEF Crash
<1>35. CASE UNCHANGED vars
  BY <1>35 DEF vars
<1> QED
  BY <1>1, <1>2, <1>3, <1>4, <1>5, <1>6, <1>6a, <1>7, <1>8, <1>9, <1>10, <1>11, <1>12, <1>13, <1>14, <1>15, <1>16,
     <1>17, <1>18, <1>19, <1>20, <1>21, <1>22, <1>23, <1>24, <1>25, <1>26, <1>27, <1>28, <1>29, <1>30, <1>31,
     <1>32, <1>32a, <1>33, <1>34, <1>35 DEF Next, Submit, Cancel, Recover, Work, Actors

LEMMA ReleasePhaseStep ==
  ASSUME TypeInv, Fresh, StepRanges, ReleasePhase, [Next]_vars
  PROVE  ReleasePhase'
<1>t. pc \in [Actors -> Steps]
  BY DEF TypeInv, TypeSteps
<1> USE <1>t, ActorFacts DEF Fresh, ReleasePhase, At, Goto, row, Refunded, Terminal
<1>1. CASE CreateJob
  BY <1>1 DEF CreateJob
<1>2. CASE Reserve
  BY <1>2 DEF Reserve
<1>3. CASE CreatePendingItems
  BY <1>3 DEF CreatePendingItems
<1>4. CASE StartUpload
  BY <1>4 DEF StartUpload, Transition, CanTransition
<1>5. CASE ProviderSubmit
  BY <1>5 DEF ProviderSubmit
<1>6. CASE AttachProviderJob
  BY <1>6 DEF AttachProviderJob, CanTransition
<1>6a. CASE AbortOrphan
  BY <1>6a DEF AbortOrphan
<1>7. CASE SubmitAgain
  BY <1>7 DEF SubmitAgain
<1>8. ASSUME NEW a \in Actors, Release(a) PROVE ReleasePhase'
  BY <1>8 DEF Release, AfterRelease, AfterReleaseError, StepRanges, CancelSteps
<1>9. CASE MarkFailed("submit")
  BY <1>9 DEF MarkFailed
<1>10. ASSUME NEW a \in {"submit", "cancel", "recover"}, EnqueueStep(a) PROVE ReleasePhase'
  BY <1>10 DEF EnqueueStep
<1>11. CASE CancelRead
  BY <1>11 DEF CancelRead
<1>12. CASE CancelProvider
  BY <1>12 DEF CancelProvider
<1>13. CASE CancelTransition
  BY <1>13 DEF CancelTransition, Transition, CanTransition
<1>14. CASE FailStaleUnsubmitted
  BY <1>14 DEF FailStaleUnsubmitted, Stale
<1>15. ASSUME NEW w \in Workers, ReserveJob(w) PROVE ReleasePhase'
  BY <1>15 DEF ReserveJob
<1>16. ASSUME NEW w \in Workers, TryAcquireJobLock(w) PROVE ReleasePhase'
  BY <1>16 DEF TryAcquireJobLock
<1>17. ASSUME NEW w \in Workers, Process(w) PROVE ReleasePhase'
  BY <1>17 DEF Process
<1>18. ASSUME NEW w \in Workers, ProcessProvider(w) PROVE ReleasePhase'
  BY <1>18 DEF ProcessProvider
<1>19. ASSUME NEW w \in Workers, ProviderGet(w) PROVE ReleasePhase'
  BY <1>19 DEF ProviderGet, Transition, CanTransition, ReportedStatus
<1>20. ASSUME NEW w \in Workers, Index(w) PROVE ReleasePhase'
  BY <1>20 DEF Index, Transition, CanTransition
<1>21. ASSUME NEW w \in Workers, Settle(w) PROVE ReleasePhase'
  BY <1>21 DEF Settle
<1>22. ASSUME NEW w \in Workers, Capture(w) PROVE ReleasePhase'
  BY <1>22 DEF Capture
<1>23. ASSUME NEW w \in Workers, RecordSettlementFailure(w) PROVE ReleasePhase'
  BY <1>23 DEF RecordSettlementFailure, CountFailure
<1>24. ASSUME NEW w \in Workers, GiveUp(w) PROVE ReleasePhase'
  BY <1>24 DEF GiveUp, CountFailure
<1>25. ASSUME NEW w \in Workers, Exhaust(w) PROVE ReleasePhase'
  BY <1>25 DEF Exhaust, Transition, CanTransition
<1>26. ASSUME NEW w \in Workers, MarkSettled(w) PROVE ReleasePhase'
  BY <1>26 DEF MarkSettled
<1>27. ASSUME NEW w \in Workers, EndRun(w) PROVE ReleasePhase'
  BY <1>27 DEF EndRun
<1>28. CASE DelayPasses
  BY <1>28 DEF DelayPasses
<1>29. CASE ActiveGoesStale
  BY <1>29 DEF ActiveGoesStale
<1>30. CASE LockExpires
  BY <1>30 DEF LockExpires
<1>31. CASE HeartbeatsLost
  BY <1>31 DEF HeartbeatsLost
<1>32. CASE ProviderProgress
  BY <1>32 DEF ProviderProgress
<1>32a. CASE AccountChanges
  BY <1>32a DEF AccountChanges
<1>33. CASE OutputCleanup
  BY <1>33 DEF OutputCleanup
<1>34. ASSUME NEW a \in Actors, Crash(a) PROVE ReleasePhase'
  BY <1>34 DEF Crash
<1>35. CASE UNCHANGED vars
  BY <1>35 DEF vars
<1> QED
  BY <1>1, <1>2, <1>3, <1>4, <1>5, <1>6, <1>6a, <1>7, <1>8, <1>9, <1>10, <1>11, <1>12, <1>13, <1>14, <1>15, <1>16,
     <1>17, <1>18, <1>19, <1>20, <1>21, <1>22, <1>23, <1>24, <1>25, <1>26, <1>27, <1>28, <1>29, <1>30, <1>31,
     <1>32, <1>32a, <1>33, <1>34, <1>35 DEF Next, Submit, Cancel, Recover, Work, Actors

LEMMA WorkerPhaseStep ==
  ASSUME TypeInv, Fresh, OneEntry, SubmitPhase, \A w \in Workers : WorkerPhase(w), [Next]_vars,
         NEW v \in Workers
  PROVE  WorkerPhase(v)'
<1>t. pc \in [Actors -> Steps] /\ status \in Statuses
  BY DEF TypeInv, TypeSteps, TypeJob
<1>v. WorkerPhase(v)
  OBVIOUS
<1>o. \A w \in Workers : ~At(v, "idle") /\ ~At(w, "idle") => v = w
  BY DEF OneEntry
<1> USE <1>t, <1>v, <1>o, ActorFacts DEF WorkerPhase, At, Goto, row, Refunded, Terminal
<1>1. CASE CreateJob
  BY <1>1 DEF CreateJob, Fresh
<1>2. CASE Reserve
  BY <1>2 DEF Reserve
<1>3. CASE CreatePendingItems
  BY <1>3 DEF CreatePendingItems
<1>4. CASE StartUpload
  BY <1>4 DEF StartUpload, Transition, CanTransition
<1>5. CASE ProviderSubmit
  BY <1>5 DEF ProviderSubmit
<1>6. CASE AttachProviderJob
  BY <1>6 DEF AttachProviderJob, CanTransition
<1>6a. CASE AbortOrphan
  BY <1>6a DEF AbortOrphan
<1>7. CASE SubmitAgain
  BY <1>7 DEF SubmitAgain
<1>8. ASSUME NEW a \in Actors, Release(a) PROVE WorkerPhase(v)'
  BY <1>8 DEF Release, AfterRelease, AfterReleaseError
<1>9. CASE MarkFailed("submit")
  BY <1>9 DEF MarkFailed, SubmitPhase, Early
<1>10. ASSUME NEW a \in {"submit", "cancel", "recover"}, EnqueueStep(a) PROVE WorkerPhase(v)'
  BY <1>10 DEF EnqueueStep
<1>11. CASE CancelRead
  BY <1>11 DEF CancelRead
<1>12. CASE CancelProvider
  BY <1>12 DEF CancelProvider
<1>13. CASE CancelTransition
  BY <1>13 DEF CancelTransition, Transition, CanTransition
<1>14. CASE FailStaleUnsubmitted
  BY <1>14 DEF FailStaleUnsubmitted, Stale
<1>15. ASSUME NEW w \in Workers, ReserveJob(w) PROVE WorkerPhase(v)'
  BY <1>15 DEF ReserveJob
<1>16. ASSUME NEW w \in Workers, TryAcquireJobLock(w) PROVE WorkerPhase(v)'
  BY <1>16 DEF TryAcquireJobLock
<1>17. ASSUME NEW w \in Workers, Process(w) PROVE WorkerPhase(v)'
  BY <1>17 DEF Process
<1>18. ASSUME NEW w \in Workers, ProcessProvider(w) PROVE WorkerPhase(v)'
  BY <1>18 DEF ProcessProvider, SubmitPhase, Early, Statuses
<1>19. ASSUME NEW w \in Workers, ProviderGet(w) PROVE WorkerPhase(v)'
  BY <1>19 DEF ProviderGet, Transition, CanTransition, ReportedStatus, AfterReport
<1>20. ASSUME NEW w \in Workers, Index(w) PROVE WorkerPhase(v)'
  BY <1>20 DEF Index, Transition, CanTransition
<1>21. ASSUME NEW w \in Workers, Settle(w) PROVE WorkerPhase(v)'
  BY <1>21 DEF Settle
<1>22. ASSUME NEW w \in Workers, Capture(w) PROVE WorkerPhase(v)'
  BY <1>22 DEF Capture
<1>23. ASSUME NEW w \in Workers, RecordSettlementFailure(w) PROVE WorkerPhase(v)'
  BY <1>23 DEF RecordSettlementFailure, CountFailure
<1>24. ASSUME NEW w \in Workers, GiveUp(w) PROVE WorkerPhase(v)'
  BY <1>24 DEF GiveUp, CountFailure
<1>25. ASSUME NEW w \in Workers, Exhaust(w) PROVE WorkerPhase(v)'
  BY <1>25 DEF Exhaust, Transition, CanTransition
<1>26. ASSUME NEW w \in Workers, MarkSettled(w) PROVE WorkerPhase(v)'
  BY <1>26 DEF MarkSettled
<1>27. ASSUME NEW w \in Workers, EndRun(w) PROVE WorkerPhase(v)'
  BY <1>27 DEF EndRun
<1>28. CASE DelayPasses
  BY <1>28 DEF DelayPasses
<1>29. CASE ActiveGoesStale
  BY <1>29 DEF ActiveGoesStale
<1>30. CASE LockExpires
  BY <1>30 DEF LockExpires
<1>31. CASE HeartbeatsLost
  BY <1>31 DEF HeartbeatsLost
<1>32. CASE ProviderProgress
  BY <1>32 DEF ProviderProgress
<1>32a. CASE AccountChanges
  BY <1>32a DEF AccountChanges
<1>33. CASE OutputCleanup
  BY <1>33 DEF OutputCleanup
<1>34. ASSUME NEW a \in Actors, Crash(a) PROVE WorkerPhase(v)'
  BY <1>34 DEF Crash
<1>35. CASE UNCHANGED vars
  BY <1>35 DEF vars
<1> QED
  BY <1>1, <1>2, <1>3, <1>4, <1>5, <1>6, <1>6a, <1>7, <1>8, <1>9, <1>10, <1>11, <1>12, <1>13, <1>14, <1>15, <1>16,
     <1>17, <1>18, <1>19, <1>20, <1>21, <1>22, <1>23, <1>24, <1>25, <1>26, <1>27, <1>28, <1>29, <1>30, <1>31,
     <1>32, <1>32a, <1>33, <1>34, <1>35 DEF Next, Submit, Cancel, Recover, Work, Actors

\* Retries of a settlement, and the faults they follow.
LEMMA RetryStep ==
  ASSUME TypeInv, TypeInv', Fresh, OneEntry, SubmitPhase, Retries, ClaimPhase, Frozen,
         \A w \in Workers : WorkerPhase(w) /\ RetryPhase(w), [Next]_vars
  PROVE  Retries' /\ \A v \in Workers : RetryPhase(v)'
<1>t. /\ pc \in [Actors -> Steps] /\ status \in Statuses /\ retries \in Nat /\ cost \in Nat /\ Hold \in Nat
      /\ faults \in Nat /\ faults' \in Nat /\ MaxRetries \in Nat \ {0} /\ cost' \in Nat /\ faults <= MaxFaults
      /\ MaxFaults \in Nat /\ faults' <= MaxFaults
  BY HoldAssumption, JobBoundsAssumption DEF TypeInv, TypeSteps, TypeJob, TypeFaults
<1>f. faults' >= faults
  BY <1>t, FaultStep DEF Works, Fails
<1> DEFINE Goal == Retries' /\ \A v \in Workers : RetryPhase(v)'
<1>o. \A v, w \in Workers : ~At(v, "idle") /\ ~At(w, "idle") => v = w
  BY DEF OneEntry
<1>p. \A w \in Workers : WorkerPhase(w) /\ RetryPhase(w)
  OBVIOUS
<1>s. status = "settling" => claims \in Orders /\ (retries < MaxRetries => claims \in {Held, Captured})
  BY DEF ClaimPhase, StatusClaims
<1> USE <1>t, <1>f, <1>o, <1>p, ActorFacts DEF RetryPhase, Retries, At, Goto, row, Refunded, Terminal, Early
<1>1. CASE CreateJob
  BY <1>1 DEF CreateJob, Fresh
<1>2. CASE Reserve
  BY <1>2 DEF Reserve
<1>3. CASE CreatePendingItems
  BY <1>3 DEF CreatePendingItems
<1>4. CASE StartUpload
  BY <1>4 DEF StartUpload, Transition, CanTransition
<1>5. CASE ProviderSubmit
  BY <1>5 DEF ProviderSubmit
<1>6. CASE AttachProviderJob
  BY <1>6 DEF AttachProviderJob, CanTransition
<1>6a. CASE AbortOrphan
  BY <1>6a DEF AbortOrphan
<1>7. CASE SubmitAgain
  BY <1>7 DEF SubmitAgain
<1>8. ASSUME NEW a \in Actors, Release(a) PROVE Goal
  BY <1>8 DEF Release, AfterRelease, AfterReleaseError
<1>9. CASE MarkFailed("submit")
  BY <1>9 DEF MarkFailed
<1>10. ASSUME NEW a \in {"submit", "cancel", "recover"}, EnqueueStep(a) PROVE Goal
  BY <1>10 DEF EnqueueStep
<1>11. CASE CancelRead
  BY <1>11 DEF CancelRead
<1>12. CASE CancelProvider
  BY <1>12 DEF CancelProvider
<1>13. CASE CancelTransition
  BY <1>13 DEF CancelTransition, Transition, CanTransition
<1>14. CASE FailStaleUnsubmitted
  BY <1>14 DEF FailStaleUnsubmitted, Stale
<1>15. ASSUME NEW w \in Workers, ReserveJob(w) PROVE Goal
  BY <1>15 DEF ReserveJob
<1>16. ASSUME NEW w \in Workers, TryAcquireJobLock(w) PROVE Goal
  BY <1>16 DEF TryAcquireJobLock
<1>17. ASSUME NEW w \in Workers, Process(w) PROVE Goal
  BY <1>17 DEF Process
<1>18. ASSUME NEW w \in Workers, ProcessProvider(w) PROVE Goal
  BY <1>18 DEF ProcessProvider
<1>19. ASSUME NEW w \in Workers, ProviderGet(w) PROVE Goal
  BY <1>19 DEF ProviderGet, Transition, CanTransition, ReportedStatus, AfterReport
<1>20. ASSUME NEW w \in Workers, Index(w) PROVE Goal
  BY <1>20 DEF Index, Transition, CanTransition
<1>21. ASSUME NEW w \in Workers, Settle(w) PROVE Goal
  BY <1>21 DEF Settle
<1>22. ASSUME NEW w \in Workers, Capture(w) PROVE Goal
  <2>1. CanCapture(cost)
    <3>1. cost <= Hold /\ retries < MaxRetries /\ status = "settling"
      BY <1>22 DEF Capture, WorkerPhase
    <3>2. claims = Held => frozen = Others + Hold
      BY Distinct DEF Frozen
    <3>3. claims = Held => frozen >= Hold
      BY <3>2, HoldAssumption
    <3>4. claims = Captured => Claimed("capture")
      BY <1>s, <3>1, ClaimedFacts
    <3> QED
      BY <1>s, <3>1, <3>3, <3>4 DEF CanCapture
  <2>2. pc'[w] = "mark" \/ (pc'[w] = "fail" /\ faults' = faults + 1)
    BY <1>22, <2>1 DEF Capture, Fails
  <2>3. pc[w] = "capture" /\ UNCHANGED row /\ \A v \in Actors \ {w} : pc'[v] = pc[v]
    BY <1>22 DEF Capture
  <2> QED
    BY <2>2, <2>3
<1>23. ASSUME NEW w \in Workers, RecordSettlementFailure(w) PROVE Goal
  BY <1>23 DEF RecordSettlementFailure, CountFailure, WorkerPhase
<1>24. ASSUME NEW w \in Workers, GiveUp(w) PROVE Goal
  BY <1>24 DEF GiveUp, CountFailure, WorkerPhase
<1>25. ASSUME NEW w \in Workers, Exhaust(w) PROVE Goal
  BY <1>25 DEF Exhaust, Transition, CanTransition
<1>26. ASSUME NEW w \in Workers, MarkSettled(w) PROVE Goal
  BY <1>26 DEF MarkSettled
<1>27. ASSUME NEW w \in Workers, EndRun(w) PROVE Goal
  BY <1>27 DEF EndRun
<1>28. CASE DelayPasses
  BY <1>28 DEF DelayPasses
<1>29. CASE ActiveGoesStale
  BY <1>29 DEF ActiveGoesStale
<1>30. CASE LockExpires
  BY <1>30 DEF LockExpires
<1>31. CASE HeartbeatsLost
  BY <1>31 DEF HeartbeatsLost
<1>32. CASE ProviderProgress
  BY <1>32 DEF ProviderProgress
<1>32a. CASE AccountChanges
  BY <1>32a DEF AccountChanges
<1>33. CASE OutputCleanup
  BY <1>33 DEF OutputCleanup
<1>34. ASSUME NEW a \in Actors, Crash(a) PROVE Goal
  BY <1>34 DEF Crash
<1>35. CASE UNCHANGED vars
  BY <1>35 DEF vars
<1> QED
  BY <1>1, <1>2, <1>3, <1>4, <1>5, <1>6, <1>6a, <1>7, <1>8, <1>9, <1>10, <1>11, <1>12, <1>13, <1>14, <1>15, <1>16,
     <1>17, <1>18, <1>19, <1>20, <1>21, <1>22, <1>23, <1>24, <1>25, <1>26, <1>27, <1>28, <1>29, <1>30, <1>31,
     <1>32, <1>32a, <1>33, <1>34, <1>35 DEF Next, Submit, Cancel, Recover, Work, Actors

-----------------------------------------------------------------------------
(* The claims follow the job. *)

\* What the three transactions do to the claims.
Reserved ==
  /\ \/ claims = Unclaimed /\ claims' = Held
     \/ claims = ReleasedEarly /\ claims' = HeldLate
  /\ frozen' = frozen + Hold

GivenBack ==
  \/ claims \in {ReleasedEarly, Released, HeldLate, EndedTwice} /\ UNCHANGED <<claims, frozen>>
  \/ claims = Unclaimed /\ claims' = ReleasedEarly /\ UNCHANGED frozen
  \/ claims = Held /\ claims' = Released /\ frozen' = frozen - Hold
  \/ claims = Captured /\ claims' = EndedTwice /\ frozen' = frozen - Hold

PaidFrom ==
  \/ claims \in {Captured, EndedTwice} /\ UNCHANGED <<claims, frozen>>
  \/ claims = Held /\ claims' = Captured /\ frozen' = frozen - Hold

LEMMA ClaimMoves ==
  ASSUME claims \in Orders
  PROVE  /\ ReserveHold => Reserved
         /\ ReleaseHold => GivenBack
         /\ CaptureHold(cost) /\ claims \in {Held, Captured} => PaidFrom
<1>1. ASSUME ReserveHold PROVE Reserved
  <2>1. claims \in {Unclaimed, ReleasedEarly}
    BY <1>1, ClaimedFacts DEF ReserveHold
  <2> QED
    BY <1>1, <2>1, AppendFacts DEF ReserveHold, Claim, Reserved
<1>2. ASSUME ReleaseHold PROVE GivenBack
  <2>1. CASE Claimed("release")
    BY <1>2, <2>1, ClaimedFacts DEF ReleaseHold, money, GivenBack
  <2>2. CASE ~Claimed("release")
    <3>1. claims \in {Unclaimed, Held, Captured} /\ (Claimed("hold") <=> claims # Unclaimed)
      BY <2>2, ClaimedFacts, Distinct DEF Orders
    <3> QED
      BY <1>2, <2>2, <3>1, AppendFacts, Distinct DEF ReleaseHold, Claim, GivenBack
  <2> QED
    BY <2>1, <2>2
<1>3. ASSUME CaptureHold(cost), claims \in {Held, Captured} PROVE PaidFrom
  <2>1. Claimed("capture") <=> claims = Captured
    BY <1>3, ClaimedFacts, Distinct
  <2> QED
    BY <1>3, <2>1, AppendFacts DEF CaptureHold, Claim, money, PaidFrom
<1> QED
  BY <1>1, <1>2, <1>3

\* Everything that is known about the job's progress.
Progress ==
  /\ Fresh /\ StepRanges /\ OneEntry /\ SubmitPhase /\ ReleasePhase /\ Retries /\ ClaimPhase /\ Frozen
  /\ \A w \in Workers : WorkerPhase(w) /\ RetryPhase(w)

\* A capture finds the hold as it was reserved or already captured.
LEMMA CaptureFinds ==
  ASSUME Progress, NEW w \in Workers, At(w, "capture")
  PROVE  /\ claims \in {Held, Captured} /\ status = "settling" /\ cost <= Hold
         /\ retries < MaxRetries
  BY DEF Progress, WorkerPhase, RetryPhase, ClaimPhase, StatusClaims, At

LEMMA ClaimChange ==
  ASSUME TypeInv, Progress, [Next]_vars
  PROVE  UNCHANGED money \/ Reserved \/ GivenBack \/ (PaidFrom /\ cost <= Hold)
<1>c. claims \in Orders
  BY DEF Progress, ClaimPhase
<1>p. \A w \in Workers : Capture(w) => UNCHANGED money \/ (PaidFrom /\ cost <= Hold)
  BY CaptureFinds, ClaimMoves, <1>c DEF Capture
<1> DEFINE Goal == UNCHANGED money \/ Reserved \/ GivenBack \/ (PaidFrom /\ cost <= Hold)
<1>1. CASE CreateJob
  BY <1>1, <1>c DEF CreateJob
<1>2. CASE Reserve
  BY <1>2, <1>c, ClaimMoves DEF Reserve
<1>3. CASE CreatePendingItems
  BY <1>3, <1>c DEF CreatePendingItems
<1>4. CASE StartUpload
  BY <1>4, <1>c DEF StartUpload, Transition, CanTransition
<1>5. CASE ProviderSubmit
  BY <1>5, <1>c DEF ProviderSubmit
<1>6. CASE AttachProviderJob
  BY <1>6, <1>c DEF AttachProviderJob, CanTransition
<1>6a. CASE AbortOrphan
  BY <1>6a, <1>c DEF AbortOrphan
<1>7. CASE SubmitAgain
  BY <1>7, <1>c DEF SubmitAgain
<1>8. ASSUME NEW a \in Actors, Release(a) PROVE Goal
  BY <1>8, <1>c, ClaimMoves DEF Release, AfterRelease, AfterReleaseError
<1>9. CASE MarkFailed("submit")
  BY <1>9, <1>c DEF MarkFailed
<1>10. ASSUME NEW a \in {"submit", "cancel", "recover"}, EnqueueStep(a) PROVE Goal
  BY <1>10, <1>c DEF EnqueueStep
<1>11. CASE CancelRead
  BY <1>11, <1>c DEF CancelRead
<1>12. CASE CancelProvider
  BY <1>12, <1>c DEF CancelProvider
<1>13. CASE CancelTransition
  BY <1>13, <1>c DEF CancelTransition, Transition, CanTransition
<1>14. CASE FailStaleUnsubmitted
  BY <1>14, <1>c DEF FailStaleUnsubmitted, Stale
<1>15. ASSUME NEW w \in Workers, ReserveJob(w) PROVE Goal
  BY <1>15, <1>c DEF ReserveJob
<1>16. ASSUME NEW w \in Workers, TryAcquireJobLock(w) PROVE Goal
  BY <1>16, <1>c DEF TryAcquireJobLock
<1>17. ASSUME NEW w \in Workers, Process(w) PROVE Goal
  BY <1>17, <1>c DEF Process
<1>18. ASSUME NEW w \in Workers, ProcessProvider(w) PROVE Goal
  BY <1>18, <1>c DEF ProcessProvider
<1>19. ASSUME NEW w \in Workers, ProviderGet(w) PROVE Goal
  BY <1>19, <1>c DEF ProviderGet, Transition, CanTransition
<1>20. ASSUME NEW w \in Workers, Index(w) PROVE Goal
  BY <1>20, <1>c DEF Index, Transition, CanTransition
<1>21. ASSUME NEW w \in Workers, Settle(w) PROVE Goal
  BY <1>21, <1>c DEF Settle
<1>22. ASSUME NEW w \in Workers, Capture(w) PROVE Goal
  BY <1>22, <1>p
<1>23. ASSUME NEW w \in Workers, RecordSettlementFailure(w) PROVE Goal
  BY <1>23, <1>c DEF RecordSettlementFailure, CountFailure
<1>24. ASSUME NEW w \in Workers, GiveUp(w) PROVE Goal
  BY <1>24, <1>c, ClaimMoves DEF GiveUp, CountFailure
<1>25. ASSUME NEW w \in Workers, Exhaust(w) PROVE Goal
  BY <1>25, <1>c DEF Exhaust, Transition, CanTransition
<1>26. ASSUME NEW w \in Workers, MarkSettled(w) PROVE Goal
  BY <1>26, <1>c DEF MarkSettled
<1>27. ASSUME NEW w \in Workers, EndRun(w) PROVE Goal
  BY <1>27, <1>c DEF EndRun
<1>28. CASE DelayPasses
  BY <1>28, <1>c DEF DelayPasses
<1>29. CASE ActiveGoesStale
  BY <1>29, <1>c DEF ActiveGoesStale
<1>30. CASE LockExpires
  BY <1>30, <1>c DEF LockExpires
<1>31. CASE HeartbeatsLost
  BY <1>31, <1>c DEF HeartbeatsLost
<1>32. CASE ProviderProgress
  BY <1>32, <1>c DEF ProviderProgress
<1>32a. CASE AccountChanges
  BY <1>32a, <1>c DEF AccountChanges
<1>33. CASE OutputCleanup
  BY <1>33, <1>c DEF OutputCleanup
<1>34. ASSUME NEW a \in Actors, Crash(a) PROVE Goal
  BY <1>34, <1>c DEF Crash
<1>35. CASE UNCHANGED vars
  BY <1>35, <1>c DEF vars
<1> QED
  BY <1>1, <1>2, <1>3, <1>4, <1>5, <1>6, <1>6a, <1>7, <1>8, <1>9, <1>10, <1>11, <1>12, <1>13, <1>14, <1>15, <1>16,
     <1>17, <1>18, <1>19, <1>20, <1>21, <1>22, <1>23, <1>24, <1>25, <1>26, <1>27, <1>28, <1>29, <1>30, <1>31,
     <1>32, <1>32a, <1>33, <1>34, <1>35 DEF Next, Submit, Cancel, Recover, Work, Actors

\* The cost is written when the output is indexed, before anything is captured.
LEMMA CostChange ==
  ASSUME Progress, [Next]_vars
  PROVE  UNCHANGED cost \/ (claims = Held /\ UNCHANGED claims)
<1> USE DEF row, money, CanTransition
<1>1. CASE CreateJob
  BY <1>1 DEF CreateJob
<1>2. CASE Reserve
  BY <1>2 DEF Reserve
<1>3. CASE CreatePendingItems
  BY <1>3 DEF CreatePendingItems
<1>4. CASE StartUpload
  BY <1>4 DEF StartUpload, Transition, CanTransition
<1>5. CASE ProviderSubmit
  BY <1>5 DEF ProviderSubmit
<1>6. CASE AttachProviderJob
  BY <1>6 DEF AttachProviderJob, CanTransition
<1>6a. CASE AbortOrphan
  BY <1>6a DEF AbortOrphan
<1>7. CASE SubmitAgain
  BY <1>7 DEF SubmitAgain
<1>8. ASSUME NEW a \in Actors, Release(a) PROVE UNCHANGED cost \/ (claims = Held /\ UNCHANGED claims)
  BY <1>8 DEF Release, AfterRelease, AfterReleaseError
<1>9. CASE MarkFailed("submit")
  BY <1>9 DEF MarkFailed
<1>10. ASSUME NEW a \in {"submit", "cancel", "recover"}, EnqueueStep(a)
       PROVE UNCHANGED cost \/ (claims = Held /\ UNCHANGED claims)
  BY <1>10 DEF EnqueueStep
<1>11. CASE CancelRead
  BY <1>11 DEF CancelRead
<1>12. CASE CancelProvider
  BY <1>12 DEF CancelProvider
<1>13. CASE CancelTransition
  BY <1>13 DEF CancelTransition, Transition, CanTransition
<1>14. CASE FailStaleUnsubmitted
  BY <1>14 DEF FailStaleUnsubmitted, Stale
<1>15. ASSUME NEW w \in Workers, ReserveJob(w) PROVE UNCHANGED cost \/ (claims = Held /\ UNCHANGED claims)
  BY <1>15 DEF ReserveJob
<1>16. ASSUME NEW w \in Workers, TryAcquireJobLock(w) PROVE UNCHANGED cost \/ (claims = Held /\ UNCHANGED claims)
  BY <1>16 DEF TryAcquireJobLock
<1>17. ASSUME NEW w \in Workers, Process(w) PROVE UNCHANGED cost \/ (claims = Held /\ UNCHANGED claims)
  BY <1>17 DEF Process
<1>18. ASSUME NEW w \in Workers, ProcessProvider(w) PROVE UNCHANGED cost \/ (claims = Held /\ UNCHANGED claims)
  BY <1>18 DEF ProcessProvider
<1>19. ASSUME NEW w \in Workers, ProviderGet(w) PROVE UNCHANGED cost \/ (claims = Held /\ UNCHANGED claims)
  BY <1>19 DEF ProviderGet, Transition, CanTransition
<1>20. ASSUME NEW w \in Workers, Index(w) PROVE UNCHANGED cost \/ (claims = Held /\ UNCHANGED claims)
  BY <1>20 DEF Index, Transition, CanTransition, Progress, ClaimPhase, StatusClaims
<1>21. ASSUME NEW w \in Workers, Settle(w) PROVE UNCHANGED cost \/ (claims = Held /\ UNCHANGED claims)
  BY <1>21 DEF Settle
<1>22. ASSUME NEW w \in Workers, Capture(w) PROVE UNCHANGED cost \/ (claims = Held /\ UNCHANGED claims)
  BY <1>22 DEF Capture
<1>23. ASSUME NEW w \in Workers, RecordSettlementFailure(w)
       PROVE UNCHANGED cost \/ (claims = Held /\ UNCHANGED claims)
  BY <1>23 DEF RecordSettlementFailure, CountFailure
<1>24. ASSUME NEW w \in Workers, GiveUp(w) PROVE UNCHANGED cost \/ (claims = Held /\ UNCHANGED claims)
  BY <1>24 DEF GiveUp, CountFailure
<1>25. ASSUME NEW w \in Workers, Exhaust(w) PROVE UNCHANGED cost \/ (claims = Held /\ UNCHANGED claims)
  BY <1>25 DEF Exhaust, Transition, CanTransition
<1>26. ASSUME NEW w \in Workers, MarkSettled(w) PROVE UNCHANGED cost \/ (claims = Held /\ UNCHANGED claims)
  BY <1>26 DEF MarkSettled
<1>27. ASSUME NEW w \in Workers, EndRun(w) PROVE UNCHANGED cost \/ (claims = Held /\ UNCHANGED claims)
  BY <1>27 DEF EndRun
<1>28. CASE DelayPasses
  BY <1>28 DEF DelayPasses
<1>29. CASE ActiveGoesStale
  BY <1>29 DEF ActiveGoesStale
<1>30. CASE LockExpires
  BY <1>30 DEF LockExpires
<1>31. CASE HeartbeatsLost
  BY <1>31 DEF HeartbeatsLost
<1>32. CASE ProviderProgress
  BY <1>32 DEF ProviderProgress
<1>32a. CASE AccountChanges
  BY <1>32a DEF AccountChanges
<1>33. CASE OutputCleanup
  BY <1>33 DEF OutputCleanup
<1>34. ASSUME NEW a \in Actors, Crash(a) PROVE UNCHANGED cost \/ (claims = Held /\ UNCHANGED claims)
  BY <1>34 DEF Crash
<1>35. CASE UNCHANGED vars
  BY <1>35 DEF vars
<1> QED
  BY <1>1, <1>2, <1>3, <1>4, <1>5, <1>6, <1>6a, <1>7, <1>8, <1>9, <1>10, <1>11, <1>12, <1>13, <1>14, <1>15, <1>16,
     <1>17, <1>18, <1>19, <1>20, <1>21, <1>22, <1>23, <1>24, <1>25, <1>26, <1>27, <1>28, <1>29, <1>30, <1>31,
     <1>32, <1>32a, <1>33, <1>34, <1>35 DEF Next, Submit, Cancel, Recover, Work, Actors

LEMMA OrdersStep ==
  ASSUME TypeInv, Progress, [Next]_vars
  PROVE  claims' \in Orders
<1>1. claims \in Orders
  BY DEF Progress, ClaimPhase
<1> QED
  BY <1>1, ClaimChange DEF Reserved, GivenBack, PaidFrom, Orders, money

LEMMA FrozenStep ==
  ASSUME TypeInv, Progress, [Next]_vars
  PROVE  Frozen'
<1>t. frozen \in Nat /\ Hold \in Nat /\ Others \in Nat
  BY HoldAssumption DEF TypeInv, TypeMoney
<1>f. claims \in Orders /\ Frozen
  BY DEF Progress, ClaimPhase
<1>1. claims' # EndedTwice => frozen' = Others + (IF claims' \in {Held, HeldLate} THEN Hold ELSE 0)
  BY <1>t, <1>f, ClaimChange, Distinct DEF Frozen, Reserved, GivenBack, PaidFrom, money
<1>2. claims' \in {Captured, EndedTwice} => cost <= Hold /\ UNCHANGED cost
  BY <1>f, ClaimChange, CostChange, Distinct DEF Frozen, Reserved, GivenBack, PaidFrom, money
<1> QED
  BY <1>1, <1>2 DEF Frozen

LEMMA StatusClaimsStep ==
  ASSUME TypeInv, TypeInv', Progress, [Next]_vars
  PROVE  StatusClaims'
<1>t. status \in Statuses /\ retries \in Nat /\ MaxRetries \in Nat
  BY JobBoundsAssumption DEF TypeInv, TypeJob
<1>c. claims \in Orders /\ StatusClaims /\ StepClaims
  BY DEF Progress, ClaimPhase
<1>p. /\ Fresh /\ StepRanges /\ SubmitPhase /\ ReleasePhase
      /\ \A w \in Workers : WorkerPhase(w) /\ RetryPhase(w)
  BY DEF Progress
<1> USE <1>t, <1>c, ActorFacts, Distinct DEF StatusClaims, At, row, money, Early, Refunded, Terminal
<1>1. CASE CreateJob
  BY <1>1, <1>p DEF CreateJob, Fresh
<1>2. CASE Reserve
  BY <1>2, <1>p, ClaimMoves DEF Reserve, SubmitPhase, StepClaims, Reserved
<1>3. CASE CreatePendingItems
  BY <1>3 DEF CreatePendingItems
<1>4. CASE StartUpload
  BY <1>4 DEF StartUpload, Transition, CanTransition
<1>5. CASE ProviderSubmit
  BY <1>5 DEF ProviderSubmit
<1>6. CASE AttachProviderJob
  BY <1>6, <1>p DEF AttachProviderJob, CanTransition, SubmitPhase, StepClaims
<1>6a. CASE AbortOrphan
  BY <1>6a DEF AbortOrphan
<1>7. CASE SubmitAgain
  BY <1>7 DEF SubmitAgain
<1>8. ASSUME NEW a \in Actors, Release(a) PROVE StatusClaims'
  <2>1. UNCHANGED claims \/ GivenBack
    BY <1>8, ClaimMoves DEF Release
  <2>2. UNCHANGED row /\ pc[a] \in {"release", "releaseMark"}
    BY <1>8 DEF Release
  <2>3. status \in Early \cup Refunded
    BY <1>p, <2>2 DEF StepRanges, SubmitPhase, ReleasePhase, WorkerPhase, CancelSteps, WorkerSteps
  <2> QED
    BY <2>1, <2>2, <2>3 DEF GivenBack
<1>9. CASE MarkFailed("submit")
  BY <1>9, <1>p DEF MarkFailed, SubmitPhase
<1>10. ASSUME NEW a \in {"submit", "cancel", "recover"}, EnqueueStep(a) PROVE StatusClaims'
  BY <1>10 DEF EnqueueStep
<1>11. CASE CancelRead
  BY <1>11 DEF CancelRead
<1>12. CASE CancelProvider
  BY <1>12 DEF CancelProvider
<1>13. CASE CancelTransition
  BY <1>13 DEF CancelTransition, Transition, CanTransition
<1>14. CASE FailStaleUnsubmitted
  BY <1>14 DEF FailStaleUnsubmitted, Stale
<1>15. ASSUME NEW w \in Workers, ReserveJob(w) PROVE StatusClaims'
  BY <1>15 DEF ReserveJob
<1>16. ASSUME NEW w \in Workers, TryAcquireJobLock(w) PROVE StatusClaims'
  BY <1>16 DEF TryAcquireJobLock
<1>17. ASSUME NEW w \in Workers, Process(w) PROVE StatusClaims'
  BY <1>17 DEF Process
<1>18. ASSUME NEW w \in Workers, ProcessProvider(w) PROVE StatusClaims'
  BY <1>18 DEF ProcessProvider
<1>19. ASSUME NEW w \in Workers, ProviderGet(w) PROVE StatusClaims'
  BY <1>19, <1>p DEF ProviderGet, Transition, CanTransition, WorkerPhase, ReportedStatus
<1>20. ASSUME NEW w \in Workers, Index(w) PROVE StatusClaims'
  BY <1>20, <1>p DEF Index, Transition, CanTransition, WorkerPhase
<1>21. ASSUME NEW w \in Workers, Settle(w) PROVE StatusClaims'
  BY <1>21 DEF Settle
<1>22. ASSUME NEW w \in Workers, Capture(w) PROVE StatusClaims'
  <2>1. claims \in {Held, Captured} /\ status = "settling" /\ UNCHANGED row
    BY <1>22, CaptureFinds DEF Capture
  <2>2. UNCHANGED claims \/ PaidFrom
    BY <1>22, <2>1, ClaimMoves DEF Capture
  <2> QED
    BY <2>1, <2>2 DEF PaidFrom
<1>23. ASSUME NEW w \in Workers, RecordSettlementFailure(w) PROVE StatusClaims'
  BY <1>23, <1>p DEF RecordSettlementFailure, CountFailure, WorkerPhase
<1>24. ASSUME NEW w \in Workers, GiveUp(w) PROVE StatusClaims'
  <2>1. status = "settling" /\ retries >= MaxRetries /\ status' = status /\ retries' >= retries
    BY <1>24, <1>p DEF GiveUp, CountFailure, WorkerPhase, RetryPhase
  <2>2. UNCHANGED claims \/ GivenBack
    BY <1>24, ClaimMoves DEF GiveUp
  <2> QED
    BY <2>1, <2>2 DEF GivenBack, TypeInv, TypeJob
<1>25. ASSUME NEW w \in Workers, Exhaust(w) PROVE StatusClaims'
  BY <1>25, <1>p DEF Exhaust, Transition, CanTransition, WorkerPhase, StepClaims
<1>26. ASSUME NEW w \in Workers, MarkSettled(w) PROVE StatusClaims'
  BY <1>26, <1>p DEF MarkSettled, WorkerPhase, StepClaims
<1>27. ASSUME NEW w \in Workers, EndRun(w) PROVE StatusClaims'
  BY <1>27 DEF EndRun
<1>28. CASE DelayPasses
  BY <1>28 DEF DelayPasses
<1>29. CASE ActiveGoesStale
  BY <1>29 DEF ActiveGoesStale
<1>30. CASE LockExpires
  BY <1>30 DEF LockExpires
<1>31. CASE HeartbeatsLost
  BY <1>31 DEF HeartbeatsLost
<1>32. CASE ProviderProgress
  BY <1>32 DEF ProviderProgress
<1>32a. CASE AccountChanges
  BY <1>32a DEF AccountChanges
<1>33. CASE OutputCleanup
  BY <1>33 DEF OutputCleanup
<1>34. ASSUME NEW a \in Actors, Crash(a) PROVE StatusClaims'
  BY <1>34 DEF Crash
<1>35. CASE UNCHANGED vars
  BY <1>35 DEF vars
<1> QED
  BY <1>1, <1>2, <1>3, <1>4, <1>5, <1>6, <1>6a, <1>7, <1>8, <1>9, <1>10, <1>11, <1>12, <1>13, <1>14, <1>15, <1>16,
     <1>17, <1>18, <1>19, <1>20, <1>21, <1>22, <1>23, <1>24, <1>25, <1>26, <1>27, <1>28, <1>29, <1>30, <1>31,
     <1>32, <1>32a, <1>33, <1>34, <1>35 DEF Next, Submit, Cancel, Recover, Work, Actors

LEMMA StepClaimsStep ==
  ASSUME TypeInv, TypeInv', Progress, [Next]_vars
  PROVE  StepClaims'
<1>t. pc \in [Actors -> Steps] /\ status \in Statuses /\ retries \in Nat /\ MaxRetries \in Nat
  BY JobBoundsAssumption DEF TypeInv, TypeJob, TypeSteps
<1>c. claims \in Orders /\ StatusClaims /\ StepClaims
  BY DEF Progress, ClaimPhase
<1>p. /\ Fresh /\ StepRanges /\ SubmitPhase /\ ReleasePhase
      /\ \A w \in Workers : WorkerPhase(w) /\ RetryPhase(w)
  BY DEF Progress
<1>o. \A v, w \in Workers : ~At(v, "idle") /\ ~At(w, "idle") => v = w
  BY DEF Progress, OneEntry
<1>m. "lost" \in mishaps => "lost" \in mishaps'
  BY FaultStep, Zenon DEF Works, Fails
<1> USE <1>t, <1>c, <1>m, ActorFacts, Distinct DEF StepClaims, At, Goto, row, money, Early, Refunded, Terminal
<1>1. CASE CreateJob
  BY <1>1, <1>p DEF CreateJob, Fresh, StatusClaims
<1>2. CASE Reserve
  BY <1>2, <1>p, ClaimMoves DEF Reserve, Fails, SubmitPhase, Reserved
<1>3. CASE CreatePendingItems
  BY <1>3 DEF CreatePendingItems
<1>4. CASE StartUpload
  BY <1>4, <1>p DEF StartUpload, Transition, CanTransition, SubmitPhase, WorkerPhase
<1>5. CASE ProviderSubmit
  BY <1>5 DEF ProviderSubmit
<1>6. CASE AttachProviderJob
  BY <1>6, <1>p DEF AttachProviderJob, CanTransition, SubmitPhase, WorkerPhase
<1>6a. CASE AbortOrphan
  BY <1>6a DEF AbortOrphan
<1>7. CASE SubmitAgain
  BY <1>7 DEF SubmitAgain
<1>8. ASSUME NEW a \in Actors, Release(a) PROVE StepClaims'
  <2>1. UNCHANGED row /\ pc[a] \in {"release", "releaseMark"} /\ \A b \in Actors \ {a} : pc'[b] = pc[b]
    BY <1>8 DEF Release
  <2>2. status \in Early \cup Refunded
    BY <1>p, <2>1 DEF StepRanges, SubmitPhase, ReleasePhase, WorkerPhase, CancelSteps, WorkerSteps
  <2>3. At(a, "releaseMark") => a = "submit"
    BY <1>p DEF StepRanges, CancelSteps, WorkerSteps
  <2>4. \/ GivenBack /\ pc'[a] = AfterRelease(a)
        \/ (UNCHANGED claims \/ GivenBack) /\ pc'[a] = AfterReleaseError(a)
    BY <1>8, ClaimMoves DEF Release
  <2>5. pc'[a] \in {"markFailed", "failRetry", "idle", "ack", "requeue", "retry"}
    BY <2>4 DEF AfterRelease, AfterReleaseError
  <2>6. pc'[a] \in {"markFailed", "ack"} => GivenBack
    BY <2>4 DEF AfterReleaseError
  <2>7. /\ UNCHANGED claims \/ GivenBack
        /\ GivenBack => claims' \notin {Unclaimed, Held}
    BY <2>4 DEF GivenBack
  <2>8. /\ pc'["submit"] \in {"create", "reserve"} => claims' \in {Unclaimed, ReleasedEarly}
        /\ pc'["submit"] \in {"items", "upload", "provide", "attach"} => claims' \notin {Unclaimed, ReleasedEarly}
    BY <2>1, <2>5, <2>7 DEF GivenBack
  <2>9. pc'["submit"] \in {"reserve", "items", "upload", "provide", "attach", "releaseMark"} =>
          (status' \in Early => claims' \in {Unclaimed, Held})
    BY <1>p, <2>1, <2>2, <2>3, <2>5, <2>7 DEF StepRanges, SubmitPhase, ReleasePhase, WorkerPhase
  <2>10. pc'["submit"] = "markFailed" => claims' # Held \/ "lost" \in mishaps'
    BY <2>1, <2>6, <2>7
  <2>11. ASSUME NEW w \in Workers
         PROVE  /\ pc'[w] = "exhaust" => claims' \in {Released, EndedTwice}
                /\ pc'[w] = "mark" => claims' = Captured
                /\ pc'[w] = "ack" /\ status' \in Refunded => claims' \notin {Unclaimed, Held}
    BY <1>p, <2>1, <2>2, <2>5, <2>6, <2>7 DEF WorkerPhase
  <2> QED
    BY <2>8, <2>9, <2>10, <2>11
<1>9. CASE MarkFailed("submit")
  BY <1>9, <1>p DEF MarkFailed, SubmitPhase, WorkerPhase
<1>10. ASSUME NEW a \in {"submit", "cancel", "recover"}, EnqueueStep(a) PROVE StepClaims'
  BY <1>10 DEF EnqueueStep
<1>11. CASE CancelRead
  BY <1>11 DEF CancelRead
<1>12. CASE CancelProvider
  BY <1>12 DEF CancelProvider
<1>13. CASE CancelTransition
  BY <1>13, <1>p DEF CancelTransition, Transition, CanTransition, WorkerPhase
<1>14. CASE FailStaleUnsubmitted
  BY <1>14, <1>p DEF FailStaleUnsubmitted, Stale, WorkerPhase
<1>15. ASSUME NEW w \in Workers, ReserveJob(w) PROVE StepClaims'
  BY <1>15 DEF ReserveJob
<1>16. ASSUME NEW w \in Workers, TryAcquireJobLock(w) PROVE StepClaims'
  BY <1>16 DEF TryAcquireJobLock
<1>17. ASSUME NEW w \in Workers, Process(w) PROVE StepClaims'
  BY <1>17 DEF Process
<1>18. ASSUME NEW w \in Workers, ProcessProvider(w) PROVE StepClaims'
  BY <1>18, <1>p DEF ProcessProvider, WorkerPhase
<1>19. ASSUME NEW w \in Workers, ProviderGet(w) PROVE StepClaims'
  BY <1>19, <1>p, <1>o DEF ProviderGet, Transition, CanTransition, WorkerPhase, SubmitPhase, ReportedStatus,
     AfterReport
<1>20. ASSUME NEW w \in Workers, Index(w) PROVE StepClaims'
  BY <1>20, <1>p, <1>o DEF Index, Transition, CanTransition, WorkerPhase, SubmitPhase
<1>21. ASSUME NEW w \in Workers, Settle(w) PROVE StepClaims'
  BY <1>21, <1>p DEF Settle, WorkerPhase
<1>22. ASSUME NEW w \in Workers, Capture(w) PROVE StepClaims'
  <2>1. claims \in {Held, Captured} /\ status = "settling" /\ UNCHANGED row
    BY <1>22, CaptureFinds DEF Capture
  <2>2. /\ PaidFrom \/ (UNCHANGED claims /\ pc'[w] = "fail")
        /\ pc'[w] \in {"mark", "fail"} /\ \A b \in Actors \ {w} : pc'[b] = pc[b]
    BY <1>22, <2>1, ClaimMoves DEF Capture
  <2>3. (PaidFrom => claims' = Captured) /\ (UNCHANGED claims => claims' \in {Held, Captured})
    BY <2>1 DEF PaidFrom
  <2>4. /\ pc["submit"] \notin {"create", "reserve", "markFailed"}
        /\ \A v \in Workers \ {w} : pc[v] = "idle"
    BY <1>22, <1>o, <1>p, <2>1 DEF Capture, SubmitPhase, Fresh
  <2> QED
    BY <2>1, <2>2, <2>3, <2>4
<1>23. ASSUME NEW w \in Workers, RecordSettlementFailure(w) PROVE StepClaims'
  BY <1>23 DEF RecordSettlementFailure, CountFailure
<1>24. ASSUME NEW w \in Workers, GiveUp(w) PROVE StepClaims'
  <2>1. status = "settling" /\ status' = status
    BY <1>24, <1>p DEF GiveUp, CountFailure, WorkerPhase
  <2>2. /\ GivenBack \/ (UNCHANGED claims /\ pc'[w] = "requeue")
        /\ pc'[w] \in {"exhaust", "requeue"} /\ \A b \in Actors \ {w} : pc'[b] = pc[b]
    BY <1>24, ClaimMoves DEF GiveUp
  <2>3. GivenBack => claims' \in {Released, EndedTwice}
    BY <2>1 DEF GivenBack, StatusClaims
  <2>4. /\ pc["submit"] \notin {"create", "reserve", "markFailed"}
        /\ \A v \in Workers \ {w} : pc[v] = "idle"
    BY <1>24, <1>o, <1>p, <2>1 DEF GiveUp, SubmitPhase, Fresh
  <2> QED
    BY <2>1, <2>2, <2>3, <2>4 DEF StatusClaims
<1>25. ASSUME NEW w \in Workers, Exhaust(w) PROVE StepClaims'
  BY <1>25, <1>p, <1>o DEF Exhaust, Transition, CanTransition, WorkerPhase, SubmitPhase
<1>26. ASSUME NEW w \in Workers, MarkSettled(w) PROVE StepClaims'
  BY <1>26, <1>p, <1>o DEF MarkSettled, WorkerPhase, SubmitPhase
<1>27. ASSUME NEW w \in Workers, EndRun(w) PROVE StepClaims'
  BY <1>27 DEF EndRun
<1>28. CASE DelayPasses
  BY <1>28 DEF DelayPasses
<1>29. CASE ActiveGoesStale
  BY <1>29 DEF ActiveGoesStale
<1>30. CASE LockExpires
  BY <1>30 DEF LockExpires
<1>31. CASE HeartbeatsLost
  BY <1>31 DEF HeartbeatsLost
<1>32. CASE ProviderProgress
  BY <1>32 DEF ProviderProgress
<1>32a. CASE AccountChanges
  BY <1>32a DEF AccountChanges
<1>33. CASE OutputCleanup
  BY <1>33, <1>p DEF OutputCleanup, SubmitPhase
<1>34. ASSUME NEW a \in Actors, Crash(a) PROVE StepClaims'
  BY <1>34 DEF Crash
<1>35. CASE UNCHANGED vars
  BY <1>35 DEF vars
<1> QED
  BY <1>1, <1>2, <1>3, <1>4, <1>5, <1>6, <1>6a, <1>7, <1>8, <1>9, <1>10, <1>11, <1>12, <1>13, <1>14, <1>15, <1>16,
     <1>17, <1>18, <1>19, <1>20, <1>21, <1>22, <1>23, <1>24, <1>25, <1>26, <1>27, <1>28, <1>29, <1>30, <1>31,
     <1>32, <1>32a, <1>33, <1>34, <1>35 DEF Next, Submit, Cancel, Recover, Work, Actors

LEMMA InitProgress == Init => Progress
<1> SUFFICES ASSUME Init PROVE Progress
  OBVIOUS
<1>1. pc = [a \in Actors |-> IF a = "submit" THEN "create" ELSE "idle"] /\ status = "none" /\ claims = Unclaimed
  BY DEF Init, HoldInit, Unclaimed
<1> USE <1>1, ActorFacts DEF At
<1>2. Fresh /\ OneEntry
  BY DEF Init, QueueInit, Fresh, OneEntry
<1>3. StepRanges /\ SubmitPhase /\ ReleasePhase
  BY DEF Init, StepRanges, SubmitPhase, ReleasePhase, SubmitSteps, Early
<1>4. Retries
  BY JobBoundsAssumption DEF Init, Retries, Early
<1>5. ClaimPhase
  BY Distinct DEF Init, ClaimPhase, StatusClaims, StepClaims, Orders, Early, Refunded
<1>6. Frozen
  BY Distinct, HoldAssumption DEF Init, HoldInit, Frozen
<1>7. \A w \in Workers : WorkerPhase(w) /\ RetryPhase(w)
  BY DEF WorkerPhase, RetryPhase
<1> QED
  BY <1>2, <1>3, <1>4, <1>5, <1>6, <1>7 DEF Progress

LEMMA ProgressStep ==
  ASSUME TypeInv, TypeInv', "lock" \notin mishaps, Progress, [Next]_vars
  PROVE  Progress'
<1>1. Fresh' /\ StepRanges' /\ OneEntry' /\ SubmitPhase' /\ ReleasePhase'
  BY FreshStep, RangesStep, OneEntryStep, SubmitPhaseStep, ReleasePhaseStep DEF Progress
<1>2. Retries' /\ \A w \in Workers : RetryPhase(w)'
  BY RetryStep DEF Progress
<1>3. \A w \in Workers : WorkerPhase(w)'
  BY WorkerPhaseStep DEF Progress
<1>4. ClaimPhase' /\ Frozen'
  BY OrdersStep, StatusClaimsStep, StepClaimsStep, FrozenStep DEF ClaimPhase
<1> QED
  BY <1>1, <1>2, <1>3, <1>4 DEF Progress

LEMMA ProgressInvariant ==
  ASSUME "lock" \notin Failures
  PROVE  Spec => [](Progress /\ "lock" \notin mishaps)
<1> DEFINE Inv == Progress /\ "lock" \notin mishaps
<1>1. Init => Inv
  BY InitProgress DEF Init
<1>2. TypeInv /\ TypeInv' /\ Inv /\ [Next]_vars => Inv'
  BY ProgressStep, NoLoss
<1> HIDE DEF Inv
<1>3. Spec => []Inv
  BY <1>1, <1>2, TypeInvariant, PTL DEF Spec
<1> QED
  BY <1>3 DEF Inv

\* Work at the provider and settlement are backed by the hold, and a completed
\* job was paid out of it: neither the recovery nor a cancel, nor any number of
\* failed calls and crashes, gives the money back while the upstream job goes
\* on to be settled - as long as the workers' heartbeats are not lost.
THEOREM BatchWorkIsBacked ==
  ASSUME "lock" \notin Failures
  PROVE  Spec => []WorkIsBacked
<1>1. Progress => WorkIsBacked
  <2> SUFFICES ASSUME Progress PROVE WorkIsBacked
    OBVIOUS
  <2>1. claims \in Orders /\ StatusClaims
    BY DEF Progress, ClaimPhase
  <2>2. claims \in {Held, Captured} => Claimed("hold") /\ ~Claimed("release")
    BY <2>1, ClaimedFacts, Distinct
  <2>3. Held = <<"hold">> /\ Captured = <<"hold", "capture">>
    BY DEF Held, Captured
  <2> QED
    BY <2>1, <2>2, <2>3 DEF StatusClaims, WorkIsBacked
<1> QED
  BY <1>1, ProgressInvariant, PTL

-----------------------------------------------------------------------------
(* The hold is ended once. *)

\* A settlement that can be captured is given up only after as many faults as
\* there are retries.
LEMMA OnceStep ==
  ASSUME MaxFaults < MaxRetries, TypeInv, Progress, claims # EndedTwice, [Next]_vars
  PROVE  claims' # EndedTwice
<1>t. /\ retries \in Nat /\ faults \in Nat /\ faults <= MaxFaults /\ MaxFaults \in Nat /\ MaxRetries \in Nat
      /\ cost \in Nat /\ Hold \in Nat
  BY JobBoundsAssumption, HoldAssumption DEF TypeInv, TypeJob, TypeFaults
<1>c. claims \in Orders /\ StatusClaims /\ Frozen /\ Retries
  BY DEF Progress, ClaimPhase
<1>p. /\ StepRanges /\ SubmitPhase /\ ReleasePhase
      /\ \A w \in Workers : WorkerPhase(w) /\ RetryPhase(w)
  BY DEF Progress
<1>g. GivenBack /\ claims # Captured => claims' # EndedTwice
  BY <1>c, Distinct DEF GivenBack
<1> USE DEF money
<1>1. CASE CreateJob
  BY <1>1 DEF CreateJob
<1>2. CASE Reserve
  BY <1>2, <1>c, ClaimMoves, Distinct DEF Reserve, Reserved
<1>3. CASE CreatePendingItems
  BY <1>3 DEF CreatePendingItems
<1>4. CASE StartUpload
  BY <1>4 DEF StartUpload, Transition, CanTransition
<1>5. CASE ProviderSubmit
  BY <1>5 DEF ProviderSubmit
<1>6. CASE AttachProviderJob
  BY <1>6 DEF AttachProviderJob, CanTransition
<1>6a. CASE AbortOrphan
  BY <1>6a DEF AbortOrphan
<1>7. CASE SubmitAgain
  BY <1>7 DEF SubmitAgain
<1>8. ASSUME NEW a \in Actors, Release(a) PROVE claims' # EndedTwice
  <2>1. pc[a] \in {"release", "releaseMark"} /\ (UNCHANGED claims \/ GivenBack)
    BY <1>8, <1>c, ClaimMoves DEF Release, At
  <2>2. status \in Early \cup Refunded
    BY <1>p, <2>1, ActorFacts DEF StepRanges, SubmitPhase, ReleasePhase, WorkerPhase, CancelSteps,
       WorkerSteps, At
  <2>3. claims # Captured
    BY <1>c, <2>2, Distinct DEF StatusClaims
  <2> QED
    BY <1>g, <2>1, <2>3
<1>9. CASE MarkFailed("submit")
  BY <1>9 DEF MarkFailed
<1>10. ASSUME NEW a \in {"submit", "cancel", "recover"}, EnqueueStep(a) PROVE claims' # EndedTwice
  BY <1>10 DEF EnqueueStep
<1>11. CASE CancelRead
  BY <1>11 DEF CancelRead
<1>12. CASE CancelProvider
  BY <1>12 DEF CancelProvider
<1>13. CASE CancelTransition
  BY <1>13 DEF CancelTransition, Transition, CanTransition
<1>14. CASE FailStaleUnsubmitted
  BY <1>14 DEF FailStaleUnsubmitted, Stale
<1>15. ASSUME NEW w \in Workers, ReserveJob(w) PROVE claims' # EndedTwice
  BY <1>15 DEF ReserveJob
<1>16. ASSUME NEW w \in Workers, TryAcquireJobLock(w) PROVE claims' # EndedTwice
  BY <1>16 DEF TryAcquireJobLock
<1>17. ASSUME NEW w \in Workers, Process(w) PROVE claims' # EndedTwice
  BY <1>17 DEF Process
<1>18. ASSUME NEW w \in Workers, ProcessProvider(w) PROVE claims' # EndedTwice
  BY <1>18 DEF ProcessProvider
<1>19. ASSUME NEW w \in Workers, ProviderGet(w) PROVE claims' # EndedTwice
  BY <1>19 DEF ProviderGet, Transition, CanTransition
<1>20. ASSUME NEW w \in Workers, Index(w) PROVE claims' # EndedTwice
  BY <1>20 DEF Index, Transition, CanTransition
<1>21. ASSUME NEW w \in Workers, Settle(w) PROVE claims' # EndedTwice
  BY <1>21 DEF Settle
<1>22. ASSUME NEW w \in Workers, Capture(w) PROVE claims' # EndedTwice
  <2>1. UNCHANGED claims \/ PaidFrom
    BY <1>22, <1>c, CaptureFinds, ClaimMoves DEF Capture
  <2> QED
    BY <2>1, Distinct DEF PaidFrom
<1>23. ASSUME NEW w \in Workers, RecordSettlementFailure(w) PROVE claims' # EndedTwice
  BY <1>23 DEF RecordSettlementFailure, CountFailure
<1>24. ASSUME NEW w \in Workers, GiveUp(w) PROVE claims' # EndedTwice
  <2>1. retries >= MaxRetries
    BY <1>24, <1>p DEF GiveUp, RetryPhase, At
  <2>2. claims # Captured
    BY <1>t, <1>c, <2>1 DEF Frozen, Retries
  <2>3. UNCHANGED claims \/ GivenBack
    BY <1>24, <1>c, ClaimMoves DEF GiveUp
  <2> QED
    BY <1>g, <2>2, <2>3
<1>25. ASSUME NEW w \in Workers, Exhaust(w) PROVE claims' # EndedTwice
  BY <1>25 DEF Exhaust, Transition, CanTransition
<1>26. ASSUME NEW w \in Workers, MarkSettled(w) PROVE claims' # EndedTwice
  BY <1>26 DEF MarkSettled
<1>27. ASSUME NEW w \in Workers, EndRun(w) PROVE claims' # EndedTwice
  BY <1>27 DEF EndRun
<1>28. CASE DelayPasses
  BY <1>28 DEF DelayPasses
<1>29. CASE ActiveGoesStale
  BY <1>29 DEF ActiveGoesStale
<1>30. CASE LockExpires
  BY <1>30 DEF LockExpires
<1>31. CASE HeartbeatsLost
  BY <1>31 DEF HeartbeatsLost
<1>32. CASE ProviderProgress
  BY <1>32 DEF ProviderProgress
<1>32a. CASE AccountChanges
  BY <1>32a DEF AccountChanges
<1>33. CASE OutputCleanup
  BY <1>33 DEF OutputCleanup
<1>34. ASSUME NEW a \in Actors, Crash(a) PROVE claims' # EndedTwice
  BY <1>34 DEF Crash
<1>35. CASE UNCHANGED vars
  BY <1>35 DEF vars
<1> QED
  BY <1>1, <1>2, <1>3, <1>4, <1>5, <1>6, <1>6a, <1>7, <1>8, <1>9, <1>10, <1>11, <1>12, <1>13, <1>14, <1>15, <1>16,
     <1>17, <1>18, <1>19, <1>20, <1>21, <1>22, <1>23, <1>24, <1>25, <1>26, <1>27, <1>28, <1>29, <1>30, <1>31,
     <1>32, <1>32a, <1>33, <1>34, <1>35 DEF Next, Submit, Cancel, Recover, Work, Actors

\* The frozen balance is exactly what is on hold, and a hold is ended once, by
\* the capture or by the release, when fewer calls fail than a settlement has
\* retries and no heartbeats are lost.  (With as many faults as retries a
\* capture whose answers are lost is given up and released as well.)
THEOREM BatchFrozenIsHeld ==
  ASSUME "lock" \notin Failures, MaxFaults < MaxRetries
  PROVE  Spec => []FrozenIsHeld
<1>1. Init => claims # EndedTwice
  BY Distinct DEF Init, HoldInit, Unclaimed
<1>2. TypeInv /\ Progress /\ claims # EndedTwice /\ [Next]_vars => (claims # EndedTwice)'
  BY OnceStep
<1>3. Progress /\ claims # EndedTwice => FrozenIsHeld
  <2> SUFFICES ASSUME Progress, claims # EndedTwice PROVE FrozenIsHeld
    OBVIOUS
  <2>1. claims \in Orders /\ Frozen
    BY DEF Progress, ClaimPhase
  <2> QED
    BY <2>1, ClaimedFacts, Distinct DEF Frozen, FrozenIsHeld
<1> QED
  BY <1>1, <1>2, <1>3, ProgressInvariant, TypeInvariant, PTL DEF Spec

-----------------------------------------------------------------------------
(* The hold of a refunded job is returned. *)

Answering == \E a \in Actors : pc[a] \in {"release", "releaseMark", "failRetry", "retry"}

\* The release is still due: the hold is reserved, or still to be reserved.
Due == claims = Held \/ (claims = Unclaimed /\ pc["submit"] \in {"create", "reserve"})

LEMMA AnsweredStep ==
  ASSUME "redis" \notin Failures, TypeInv, Progress, Answered, [Next]_vars
  PROVE  Answered'
<1>t. pc \in [Actors -> Steps]
  BY DEF TypeInv, TypeSteps
<1>a. (status \in Refunded /\ "crash" \notin mishaps /\ "lost" \notin mishaps /\ Due) => inflight \/ Answering
  BY DEF Answered, Due, Answering
<1> SUFFICES ASSUME status' \in Refunded, "crash" \notin mishaps', "lost" \notin mishaps', Due'
             PROVE  inflight' \/ Answering'
  BY DEF Answered, Due, Answering
<1>c. claims \in Orders /\ StatusClaims /\ StepClaims
  BY DEF Progress, ClaimPhase
<1>p. /\ Fresh /\ StepRanges /\ SubmitPhase /\ ReleasePhase
      /\ \A w \in Workers : WorkerPhase(w) /\ RetryPhase(w)
  BY DEF Progress
<1>m. "crash" \notin mishaps /\ "lost" \notin mishaps
  BY FaultStep, Zenon DEF Works, Fails
<1>l. ~Fails("lost")
  BY DEF Fails
<1>o. \A w \in Workers : ~At(w, "idle") => inflight
  BY DEF Progress, OneEntry
<1>r. ~Fails("redis")
  BY DEF Fails
<1>g. ASSUME NEW a \in Actors, pc'[a] \in {"release", "releaseMark", "failRetry", "retry"}
      PROVE  inflight' \/ Answering'
  BY <1>g DEF Answering
<1> USE <1>t, <1>a, <1>m, ActorFacts DEF At, Goto, row, money, queue, entry, Due, Answering
<1>1. CASE CreateJob
  BY <1>1 DEF CreateJob, Refunded
<1>2. CASE Reserve
  <2>1. pc["submit"] = "reserve" /\ claims \in {Unclaimed, ReleasedEarly} /\ UNCHANGED <<status, inflight>>
    BY <1>2, <1>c DEF Reserve, StepClaims
  <2>2. CASE Reserved /\ pc' = [pc EXCEPT !["submit"] = "items"]
    <3>1. claims = Unclaimed
      BY <2>2, Distinct DEF Reserved
    <3> QED
      BY <2>1, <2>2, <3>1
  <2>3. CASE UNCHANGED claims /\ pc'["submit"] = "markFailed"
    BY <2>1, <2>3, Distinct
  <2> QED
    BY <1>2, <1>c, <1>l, <2>2, <2>3, ClaimMoves DEF Reserve
<1>3. CASE CreatePendingItems
  BY <1>3 DEF CreatePendingItems
<1>4. CASE StartUpload
  BY <1>4, <1>g DEF StartUpload, Transition, CanTransition, Refunded
<1>5. CASE ProviderSubmit
  BY <1>5 DEF ProviderSubmit
<1>6. CASE AttachProviderJob
  BY <1>6 DEF AttachProviderJob, CanTransition, Refunded
<1>6a. CASE AbortOrphan
  BY <1>6a DEF AbortOrphan
<1>7. CASE SubmitAgain
  BY <1>7 DEF SubmitAgain
<1>8. ASSUME NEW a \in Actors, Release(a) PROVE inflight' \/ Answering'
  <2>1. pc'[a] = AfterReleaseError(a) /\ UNCHANGED inflight
    BY <1>8, <1>c, ClaimMoves, Distinct DEF Release, GivenBack
  <2>2. CASE a \in Workers
    <3>1. inflight
      BY <1>8, <1>o, <2>2 DEF Release
    <3> QED
      BY <2>1, <3>1
  <2>3. CASE a \notin Workers
    BY <1>g, <2>1, <2>3 DEF AfterReleaseError
  <2> QED
    BY <2>2, <2>3
<1>9. CASE MarkFailed("submit")
  BY <1>9, <1>c, <1>g DEF MarkFailed, StepClaims
<1>10. ASSUME NEW a \in {"submit", "cancel", "recover"}, EnqueueStep(a) PROVE inflight' \/ Answering'
  <2>1. Enqueue
    BY <1>10, <1>r, Zenon DEF EnqueueStep
  <2>2. inflight'
    BY <2>1, Zenon DEF Enqueue, entry
  <2> QED
    BY <2>2
<1>11. CASE CancelRead
  BY <1>11 DEF CancelRead
<1>12. CASE CancelProvider
  BY <1>12 DEF CancelProvider
<1>13. CASE CancelTransition
  BY <1>13, <1>l DEF CancelTransition, Transition, CanTransition
<1>14. CASE FailStaleUnsubmitted
  BY <1>14, <1>l DEF FailStaleUnsubmitted, Stale
<1>15. ASSUME NEW w \in Workers, ReserveJob(w) PROVE inflight' \/ Answering'
  BY <1>15 DEF ReserveJob, ReserveEntry
<1>16. ASSUME NEW w \in Workers, TryAcquireJobLock(w) PROVE inflight' \/ Answering'
  BY <1>16 DEF TryAcquireJobLock
<1>17. ASSUME NEW w \in Workers, Process(w) PROVE inflight' \/ Answering'
  BY <1>17 DEF Process
<1>18. ASSUME NEW w \in Workers, ProcessProvider(w) PROVE inflight' \/ Answering'
  BY <1>18 DEF ProcessProvider
<1>19. ASSUME NEW w \in Workers, ProviderGet(w) PROVE inflight' \/ Answering'
  BY <1>19, <1>o DEF ProviderGet
<1>20. ASSUME NEW w \in Workers, Index(w) PROVE inflight' \/ Answering'
  BY <1>20, <1>g DEF Index, Transition, CanTransition, Refunded
<1>21. ASSUME NEW w \in Workers, Settle(w) PROVE inflight' \/ Answering'
  BY <1>21 DEF Settle
<1>22. ASSUME NEW w \in Workers, Capture(w) PROVE inflight' \/ Answering'
  BY <1>22, <1>p DEF Capture, WorkerPhase, Refunded
<1>23. ASSUME NEW w \in Workers, RecordSettlementFailure(w) PROVE inflight' \/ Answering'
  BY <1>23 DEF RecordSettlementFailure, CountFailure
<1>24. ASSUME NEW w \in Workers, GiveUp(w) PROVE inflight' \/ Answering'
  BY <1>24, <1>p DEF GiveUp, CountFailure, WorkerPhase, Refunded
<1>25. ASSUME NEW w \in Workers, Exhaust(w) PROVE inflight' \/ Answering'
  BY <1>25, <1>c, <1>p, Distinct DEF Exhaust, Transition, CanTransition, StepClaims, WorkerPhase, Refunded,
     Terminal
<1>26. ASSUME NEW w \in Workers, MarkSettled(w) PROVE inflight' \/ Answering'
  BY <1>26, <1>p DEF MarkSettled, WorkerPhase, Refunded
<1>27. ASSUME NEW w \in Workers, EndRun(w) PROVE inflight' \/ Answering'
  <2>1. pc[w] # "ack"
    BY <1>27, <1>c DEF EndRun, StepClaims
  <2>2. inflight' = inflight /\ pc[w] = "requeue" /\ \A a \in Actors \ {w} : pc'[a] = pc[a]
    BY <1>27, <1>r, <2>1 DEF EndRun, RequeueAfter
  <2>3. UNCHANGED <<status, claims>>
    BY <1>27 DEF EndRun
  <2> QED
    BY <2>2, <2>3
<1>28. CASE DelayPasses
  BY <1>28 DEF DelayPasses, MoveDueDelayedToReady
<1>29. CASE ActiveGoesStale
  BY <1>29 DEF ActiveGoesStale, RecoverStaleActive
<1>30. CASE LockExpires
  BY <1>30 DEF LockExpires
<1>31. CASE HeartbeatsLost
  BY <1>31 DEF HeartbeatsLost
<1>32. CASE ProviderProgress
  BY <1>32 DEF ProviderProgress
<1>32a. CASE AccountChanges
  BY <1>32a DEF AccountChanges
<1>33. CASE OutputCleanup
  BY <1>33 DEF OutputCleanup, Refunded
<1>34. ASSUME NEW a \in Actors, Crash(a) PROVE inflight' \/ Answering'
  BY <1>34, Zenon DEF Crash, Fails
<1>35. CASE UNCHANGED vars
  BY <1>35 DEF vars
<1> QED
  BY <1>1, <1>2, <1>3, <1>4, <1>5, <1>6, <1>6a, <1>7, <1>8, <1>9, <1>10, <1>11, <1>12, <1>13, <1>14, <1>15, <1>16,
     <1>17, <1>18, <1>19, <1>20, <1>21, <1>22, <1>23, <1>24, <1>25, <1>26, <1>27, <1>28, <1>29, <1>30, <1>31,
     <1>32, <1>32a, <1>33, <1>34, <1>35 DEF Next, Submit, Cancel, Recover, Work, Actors

\* A refunded job that nobody works on has its hold back: every failed release
\* left the batch in the queue - as long as the queue takes it and heartbeats
\* are not lost.  What a crash leaves behind, what a reservation or a refunding
\* transition whose answer is lost leaves behind, and a hold that was reserved
\* after its release are the exceptions that the property names.
THEOREM BatchHoldIsReturned ==
  ASSUME "lock" \notin Failures, "redis" \notin Failures
  PROVE  Spec => []HoldIsReturned
<1>1. Init => Answered
  BY DEF Init, Answered, Refunded
<1>2. TypeInv /\ Progress /\ Answered /\ [Next]_vars => Answered'
  BY AnsweredStep
<1>3. Progress /\ Answered => HoldIsReturned
  <2> SUFFICES ASSUME Progress, Answered, status \in Refunded, Quiet, mishaps \cap {"crash", "lost"} = {},
                      Outstanding
               PROVE  claims = <<"release", "hold">>
    BY DEF HoldIsReturned
  <2>1. claims \in {Held, HeldLate}
    BY ClaimedFacts DEF Progress, ClaimPhase
  <2>2. claims # Held
    BY DEF Answered, Quiet, At
  <2> QED
    BY <2>1, <2>2 DEF HeldLate
<1> QED
  BY <1>1, <1>2, <1>3, ProgressInvariant, TypeInvariant, PTL DEF Spec
=============================================================================
