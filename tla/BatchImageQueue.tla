--------------------------- MODULE BatchImageQueue ---------------------------
(***************************************************************************)
(* One batch in the Redis work queue: the inflight key that keeps it from  *)
(* being queued twice, its entries in the ready list and in the active and *)
(* delayed sets, and the job lock.  Every operation is a Lua script or a   *)
(* transaction.                                                            *)
(***************************************************************************)
EXTENDS Integers

CONSTANTS
  Workers,     \* the queue's workers
  MaxReady     \* bound: entries of the batch in the ready list

ASSUME MaxReadyAssumption == MaxReady \in Nat \ {0}

VARIABLES inflight, ready, active, delayed, lock

entry == <<inflight, ready, active, delayed>>
queue == <<entry, lock>>
NoOne == "nobody"

QueueInit ==
  /\ inflight = FALSE /\ ready = 0 /\ active = FALSE /\ delayed = FALSE
  /\ lock = NoOne

QueueTypeOK ==
  /\ {inflight, active, delayed} \subseteq BOOLEAN
  /\ ready \in 0..MaxReady /\ lock \in Workers \cup {NoOne}

\* SET NX and LPUSH; ErrBatchImageAlreadyQueued counts as success.
Enqueue ==
  IF inflight THEN UNCHANGED entry ELSE
  /\ ready < MaxReady /\ ready' = ready + 1 /\ inflight' = TRUE
  /\ UNCHANGED <<active, delayed>>

\* Mutant: the entry is popped, and the active set is written later.
ReservePopped ==
  /\ ready > 0 /\ ready' = ready - 1
  /\ UNCHANGED <<inflight, active, delayed>>

ReserveEntry ==
  /\ ready > 0 /\ ready' = ready - 1 /\ active' = TRUE
  /\ UNCHANGED <<inflight, delayed>>

RequeueAfter ==
  /\ active' = FALSE /\ delayed' = TRUE
  /\ UNCHANGED <<inflight, ready>>

Ack ==
  /\ active' = FALSE /\ delayed' = FALSE /\ inflight' = FALSE
  /\ UNCHANGED ready

MoveDueDelayedToReady ==
  /\ delayed /\ ready < MaxReady /\ delayed' = FALSE /\ ready' = ready + 1
  /\ UNCHANGED <<inflight, active, lock>>

RecoverStaleActive ==
  /\ active /\ ready < MaxReady /\ active' = FALSE /\ ready' = ready + 1
  /\ UNCHANGED <<inflight, delayed, lock>>

\* The lock's release compares the token: a lock that was lost is left alone.
ReleaseLock(w) == lock' = IF lock = w THEN NoOne ELSE lock

\* Enqueue, Reserve and Ack keep the key and the entries together: a batch
\* whose key blocks further enqueues is in the list or in one of the sets, or
\* it could not be queued for the seven days of the key (the comments on
\* batchImageReserveScript and batchImageEnqueueScript).
InflightIsQueued == inflight => ready > 0 \/ active \/ delayed
=============================================================================
