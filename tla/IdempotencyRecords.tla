------------------------- MODULE IdempotencyRecords -------------------------
(***************************************************************************)
(* One row of the table idempotency_records, and the SQL statements on it. *)
(* The coordinator of idempotent requests and the lock of the system       *)
(* operations keep their state in rows of this table, each in its own.     *)
(*                                                                         *)
(* locked_until and expires_at are kept as what they are compared with:    *)
(* until says whether locked_until is to come, past or NULL, expired that  *)
(* expires_at is past.  A call compares both with the time of its own      *)
(* start, so a time that passed since is still to come for it: late keeps  *)
(* those.                                                                  *)
(*                                                                         *)
(* Assumption on time: locked_until is computed from the start of a call   *)
(* (idempotency.go:251), and the call makes its claim before that time has *)
(* come.  So a claim that is written locks the row, for calls that start   *)
(* after it too; the lock may pass right after.                            *)
(***************************************************************************)
EXTENDS Naturals

CONSTANT Workers  \* request goroutines that may be running at the same time

VARIABLES
  row,   \* the row, or NoRow
  pc,    \* the step at which each worker is
  seen,  \* id and status of the row that the worker last read
  late   \* times of the row that passed after the call of the worker began

-----------------------------------------------------------------------------
RecordStatuses == {"none", "processing", "succeeded", "failed_retryable"}
NotSeen == [id |-> 0, status |-> "none"]

\* A row that is not there.  Its id is the one that the next row will get; ids
\* are told apart by one bit, as no call outlives two rows.
NoRow(id) == [id |-> id, fingerprint |-> "", status |-> "none", until |-> "null",
              expired |-> FALSE]
Missing == row.status = "none"

InitRecords ==
  /\ row = NoRow(0) /\ pc = [w \in Workers |-> "idle"]
  /\ seen = [w \in Workers |-> NotSeen] /\ late = [w \in Workers |-> {}]

At(w, step) == pc[w] = step
Goto(w, step) == pc' = [pc EXCEPT ![w] = step]
Go(w, step) == Goto(w, step) /\ UNCHANGED <<seen, late>>

\* The worker goes on without what its call read and compared so far.
Forget(w, step) ==
  /\ Goto(w, step)
  /\ seen' = [seen EXCEPT ![w] = NotSeen] /\ late' = [late EXCEPT ![w] = {}]

\* A time of the row passes, or is set to now, while these calls are running.
Passes(time, calls) ==
  late' = [w \in Workers |-> IF w \in calls THEN late[w] \cup {time} ELSE late[w]]

\* locked_until is after the start of the call; expires_at is not.
Blocks(w) == row.until = "future" \/ (row.until = "past" /\ "locked_until" \in late[w])
ExpiredFor(w) == row.expired /\ "expires_at" \notin late[w]

-----------------------------------------------------------------------------
(* The statements. *)

CreateProcessing(fingerprint) ==
  row' = [id |-> row.id, fingerprint |-> fingerprint, status |-> "processing",
          until |-> "future", expired |-> FALSE]

GetByScopeAndKeyHash(w) ==
  seen' = [seen EXCEPT ![w] = [id |-> row.id, status |-> row.status]]

AsSeen(w) == row.id = seen[w].id /\ row.status = seen[w].status

\* Mutant: TryReclaim without its condition on the lock.
ReclaimableThoughLocked(w) == AsSeen(w)

\* The condition of TryReclaim, with the status that the call read before.
Reclaimable(w) == AsSeen(w) /\ ~Blocks(w)

\* The fingerprint stays that of the request that created the row.  The lock is
\* that of a call that began less than its processing timeout ago.
TryReclaim ==
  row' = [row EXCEPT !.status = "processing", !.until = "future", !.expired = FALSE]

\* The condition of ExtendProcessingLock, which renews locked_until.
Extendable(fingerprint) == row.status = "processing" /\ row.fingerprint = fingerprint

\* The two final statements know the row by its id only.
MarkSucceeded == row' = [row EXCEPT !.status = "succeeded", !.until = "null"]

MarkFailedRetryable(until) ==
  row' = [row EXCEPT !.status = "failed_retryable", !.until = until]

\* Mutant: cleanup keeps a row that is still being processed.
DeleteExpiredIfDone ==
  /\ row.expired /\ row.status # "processing"
  /\ row' = NoRow(1 - row.id)
  /\ UNCHANGED <<pc, seen, late>>

\* The periodic cleanup.
DeleteExpired ==
  /\ row.expired
  /\ row' = NoRow(1 - row.id)
  /\ UNCHANGED <<pc, seen, late>>

LockPasses(calls) ==
  /\ row.until = "future"
  /\ row' = [row EXCEPT !.until = "past"]
  /\ Passes("locked_until", calls)
  /\ UNCHANGED <<pc, seen>>

\* The time to live is the longer of the two: locked_until has passed before.
TimeToLivePasses(calls) ==
  /\ ~Missing /\ ~row.expired /\ row.until # "future"
  /\ row' = [row EXCEPT !.expired = TRUE]
  /\ Passes("expires_at", calls)
  /\ UNCHANGED <<pc, seen>>

TypeOfRecords(fingerprints, steps) ==
  /\ row \in [id : {0, 1}, fingerprint : fingerprints \cup {""}, status : RecordStatuses,
              until : {"null", "past", "future"}, expired : BOOLEAN]
  /\ pc \in [Workers -> steps]
  /\ seen \in [Workers -> [id : {0, 1}, status : RecordStatuses]]
  /\ late \in [Workers -> SUBSET {"locked_until", "expires_at"}]
=============================================================================
