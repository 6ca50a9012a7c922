------------------------------ MODULE AuthCache ------------------------------
(***************************************************************************)
(* The authentication cache of one API key.  Every server keeps two local  *)
(* caches (one for keys that exist, one for keys that do not), all of them *)
(* share one entry in Redis, and a change of the key is followed by an     *)
(* invalidation twice over: by the request that made it, which ignores     *)
(* every error, and by the outbox row that a database trigger writes in    *)
(* the same transaction, which the servers' workers deliver in two passes. *)
(*                                                                         *)
(* What the key says is its version: 0 at first, one more with each        *)
(* change.  Quotas of lookups, rate limits and metrics are left out.       *)
(***************************************************************************)
EXTENDS Integers

CONSTANTS
  Servers,
  MaxVersion,  \* bound: changes of the key
  Absent,      \* the version in which the key is deleted, if it ever is
  MaxFaults    \* bound: errors of Redis and the database, lost messages, crashes, stalls

Versions == 0..MaxVersion
Changes == 1..MaxVersion
None == -1       \* no entry
NoOne == "none"  \* no claim
Dead == "dead"   \* claimed by a process that is gone

ASSUME ServersAssumption == NoOne \notin Servers /\ Dead \notin Servers
ASSUME BoundsAssumption == MaxVersion \in Nat /\ MaxFaults \in Nat
ASSUME VersionsAssumption == Absent \subseteq {MaxVersion}

VARIABLES
  version,       \* the api_keys row
  l1, negative,  \* each server's entry for the key, and that the key is unknown
  l2,            \* the entry in Redis
  inbox,         \* the servers for which an invalidation message is under way
  look,          \* each server's lookup: its step and the version it has in hand
  admin,         \* the request that changes the key: its step and its server
  rows,          \* the outbox: the row of each change
  work,          \* each worker's step on each row of its batch
  faults

vars == <<version, l1, negative, l2, inbox, look, admin, rows, work, faults>>
local == <<l1, negative>>
caches == <<l1, negative, l2>>

LookSteps == {"idle", "load", "fill", "store1", "store2"}
AdminSteps == {"idle", "local", "redis", "publish"}
WorkSteps == {"idle", "local", "redis", "publish", "finish", "retry"}
Stages == {"none", "first", "second", "gone"}

NoLookup == [step |-> "idle", val |-> 0]
NoRow == [stage |-> "none", owner |-> NoOne, due |-> FALSE]

Init ==
  /\ version = 0
  /\ l1 = [s \in Servers |-> None] /\ negative = [s \in Servers |-> None] /\ l2 = None
  /\ inbox = {}
  /\ look = [s \in Servers |-> NoLookup]
  /\ admin = [step |-> "idle", at |-> NoOne]
  /\ rows = [r \in Changes |-> NoRow]
  /\ work = [s \in Servers |-> [r \in Changes |-> "idle"]]
  /\ faults = 0

Fault == faults < MaxFaults /\ faults' = faults + 1
Works == UNCHANGED faults

\* invalidateLocalAuthCache
ForgetLocally(s) ==
  /\ l1' = [l1 EXCEPT ![s] = None]
  /\ negative' = [negative EXCEPT ![s] = None]

-----------------------------------------------------------------------------
(* GetByKey.  An entry of the server's own caches answers at once and      *)
(* leaves no trace.                                                        *)

Goto(s, step, v) == look' = [look EXCEPT ![s] = [step |-> step, val |-> v]]

\* getAuthCacheEntry: a miss or an error of Redis leads to the database.
GetAuthCacheEntry(s) ==
  /\ look[s].step = "idle" /\ l1[s] = None /\ negative[s] = None
  /\ \/ l2 # None /\ Goto(s, "fill", l2)
     \/ Goto(s, "load", 0)
  /\ UNCHANGED <<version, caches, inbox, admin, rows, work, faults>>

\* The entry of Redis becomes the server's own.
FillL1(s) ==
  /\ look[s].step = "fill"
  /\ l1' = [l1 EXCEPT ![s] = look[s].val]
  /\ look' = [look EXCEPT ![s] = NoLookup]
  /\ UNCHANGED <<version, negative, l2, inbox, admin, rows, work, faults>>

\* loadAuthCacheEntry reads the database; an error ends the lookup.
LoadAuthCacheEntry(s) ==
  /\ look[s].step = "load"
  /\ Goto(s, "store1", version) \/ look' = [look EXCEPT ![s] = NoLookup]
  /\ UNCHANGED <<version, caches, inbox, admin, rows, work, faults>>

\* setAuthCacheL1; that a key does not exist is never written to Redis.
SetAuthCacheL1(s) ==
  /\ look[s].step = "store1"
  /\ LET v == look[s].val IN
     IF v \in Absent
       THEN /\ negative' = [negative EXCEPT ![s] = v]
            /\ look' = [look EXCEPT ![s] = NoLookup]
            /\ UNCHANGED l1
       ELSE /\ l1' = [l1 EXCEPT ![s] = v]
            /\ Goto(s, "store2", v)
            /\ UNCHANGED negative
  /\ UNCHANGED <<version, l2, inbox, admin, rows, work, faults>>

\* SetAuthCache, whose error is ignored.
SetAuthCache(s) ==
  /\ look[s].step = "store2"
  /\ l2' = look[s].val \/ UNCHANGED l2
  /\ look' = [look EXCEPT ![s] = NoLookup]
  /\ UNCHANGED <<version, local, inbox, admin, rows, work, faults>>

\* Times to live: seconds for the servers' entries, minutes for that of Redis.
ExpireL1(s) ==
  /\ \/ l1[s] # None /\ l1' = [l1 EXCEPT ![s] = None] /\ UNCHANGED negative
     \/ negative[s] # None /\ negative' = [negative EXCEPT ![s] = None] /\ UNCHANGED l1
  /\ UNCHANGED <<version, l2, inbox, look, admin, rows, work, faults>>

ExpireL2 ==
  /\ l2 # None /\ l2' = None
  /\ UNCHANGED <<version, local, inbox, look, admin, rows, work, faults>>

-----------------------------------------------------------------------------
(* A change of the key: the row of the key and the row of the outbox are   *)
(* one transaction, then deleteAuthCache does what it can.  The changes    *)
(* here are those the trigger records: updates of the columns it lists and *)
(* deletions, of the key, its user or its group.                           *)

Change(s) ==
  /\ admin.step = "idle" /\ version < MaxVersion
  /\ version' = version + 1
  /\ rows' = [rows EXCEPT ![version'] = [stage |-> "first", owner |-> NoOne, due |-> TRUE]]
  /\ admin' = [step |-> "local", at |-> s]
  /\ UNCHANGED <<caches, inbox, look, work, faults>>

DeleteAuthCache ==
  \/ /\ admin.step = "local" /\ admin' = [admin EXCEPT !.step = "redis"]
     /\ ForgetLocally(admin.at) /\ UNCHANGED <<l2, inbox>>
  \/ /\ admin.step = "redis" /\ admin' = [admin EXCEPT !.step = "publish"]
     /\ l2' \in {None, l2} /\ UNCHANGED <<local, inbox>>
  \/ /\ admin.step = "publish" /\ admin' = [step |-> "idle", at |-> NoOne]
     /\ inbox' \in {Servers, inbox} /\ UNCHANGED caches

InvalidateAuthCacheByKey ==
  DeleteAuthCache /\ UNCHANGED <<version, look, rows, work, faults>>

\* StartAuthCacheInvalidationSubscriber: the handler of a message.
Receive(s) ==
  /\ s \in inbox /\ inbox' = inbox \ {s}
  /\ ForgetLocally(s)
  /\ UNCHANGED <<version, l2, look, admin, rows, work, faults>>

-----------------------------------------------------------------------------
(* The outbox.  processBatch claims every row that is due and waits for    *)
(* all of them; a claim ends with its lease, so a row whose worker is gone *)
(* or gave it up can be claimed again, and that of a stalled worker too.   *)

Pending(r) == rows[r].stage \in {"first", "second"}
Working(s, r) == work[s][r] # "idle"
Abandoned(r) == rows[r].owner = Dead \/ (\E s \in Servers : rows[r].owner = s /\ ~Working(s, r))
Claimed(s, C) == [r \in Changes |-> IF r \in C THEN [rows[r] EXCEPT !.owner = s] ELSE rows[r]]

\* Mutant: a claim has no lease.
ClaimableUnclaimed(r) == Pending(r) /\ rows[r].due /\ rows[r].owner = NoOne

Claimable(r) == Pending(r) /\ rows[r].due /\ (rows[r].owner = NoOne \/ Abandoned(r))

\* The answer of the statement may be lost: then the rows stay claimed.
Claim(s) ==
  LET free == {r \in Changes : Claimable(r)}
      taken == {r \in Changes : Pending(r) /\ rows[r].due} \ free IN
  /\ \A r \in Changes : ~Working(s, r)
  /\ \E stalled \in SUBSET taken :
       /\ free \cup stalled # {}
       /\ rows' = Claimed(s, free \cup stalled)
       /\ \/ work' = [work EXCEPT ![s] =
                        [r \in Changes |-> IF r \in free \cup stalled THEN "local" ELSE "idle"]]
             /\ IF stalled = {} THEN Works ELSE Fault
          \/ UNCHANGED work /\ stalled = {} /\ Fault
  /\ UNCHANGED <<version, caches, inbox, look, admin>>

Proceed(s, r, step) == work' = [work EXCEPT ![s][r] = step]

\* The statements that end a claim find the row only while it is the worker's;
\* as long as it is, the row is in the stage in which it was claimed.
IfOwner(s, r, row) ==
  rows' = IF rows[r].owner = s THEN [rows EXCEPT ![r] = row] ELSE rows

\* processEvent: the server's own caches, Redis, the message to all servers.
InvalidateLocal(s, r) ==
  /\ work[s][r] = "local"
  /\ ForgetLocally(s) /\ Proceed(s, r, "redis")
  /\ UNCHANGED <<version, l2, inbox, look, admin, rows, faults>>

DeleteFromRedis(s, r) ==
  /\ work[s][r] = "redis"
  /\ \/ l2' = None /\ Proceed(s, r, "publish") /\ Works
     \/ l2' \in {None, l2} /\ Proceed(s, r, "retry") /\ Fault
  /\ UNCHANGED <<version, local, inbox, look, admin, rows>>

\* A server that is not subscribed at the moment misses the message.
Publish(s, r) ==
  /\ work[s][r] = "publish"
  /\ \/ inbox' = Servers /\ Proceed(s, r, "finish") /\ Works
     \/ (\E t \in Servers : inbox' = inbox \cup (Servers \ {t})) /\ Proceed(s, r, "finish") /\ Fault
     \/ UNCHANGED inbox /\ Proceed(s, r, "retry") /\ Fault
  /\ UNCHANGED <<version, caches, look, admin, rows>>

\* RetryClaimed
Retry(s, r) ==
  /\ work[s][r] = "retry" /\ Proceed(s, r, "idle")
  /\ \/ Works /\ IfOwner(s, r, [rows[r] EXCEPT !.owner = NoOne, !.due = FALSE])
     \/ Fault /\ UNCHANGED rows
  /\ UNCHANGED <<version, caches, inbox, look, admin>>

Gone == [stage |-> "gone", owner |-> NoOne, due |-> FALSE]

\* Mutant: the second pass starts at once.
AfterFirstPassNow == [stage |-> "second", owner |-> NoOne, due |-> TRUE]

AfterFirstPass == [stage |-> "second", owner |-> NoOne, due |-> FALSE]

\* ScheduleSecondPass and DeleteClaimed: both only for the owner of the claim.
Finish(s, r) ==
  /\ work[s][r] = "finish" /\ Proceed(s, r, "idle")
  /\ \/ Works /\ IfOwner(s, r, IF rows[r].stage = "first" THEN AfterFirstPass ELSE Gone)
     \/ Fault /\ UNCHANGED rows
  /\ UNCHANGED <<version, caches, inbox, look, admin>>

\* A lookup that read the database before change r and has not stored it yet.
StoringOlder(s, r) == look[s].step \in {"store1", "store2"} /\ look[s].val < r

\* available_at passes.  The delay of the second pass, half a minute, outlasts
\* every lookup that was under way when it began.
DelayPasses(r) ==
  /\ Pending(r) /\ ~rows[r].due
  /\ rows[r].stage = "second" => \A s \in Servers : ~StoringOlder(s, r)
  /\ rows' = [rows EXCEPT ![r].due = TRUE]
  /\ UNCHANGED <<version, caches, inbox, look, admin, work, faults>>

\* A server stops and starts again under a new worker id.
Crash(s) ==
  /\ Fault
  /\ ForgetLocally(s) /\ inbox' = inbox \ {s}
  /\ look' = [look EXCEPT ![s] = NoLookup]
  /\ admin' = IF admin.at = s THEN [step |-> "idle", at |-> NoOne] ELSE admin
  /\ rows' = [r \in Changes |-> IF rows[r].owner = s THEN [rows[r] EXCEPT !.owner = Dead] ELSE rows[r]]
  /\ work' = [work EXCEPT ![s] = [r \in Changes |-> "idle"]]
  /\ UNCHANGED <<version, l2>>

-----------------------------------------------------------------------------
Store(s) == FillL1(s) \/ LoadAuthCacheEntry(s) \/ SetAuthCacheL1(s) \/ SetAuthCache(s)

ProcessEvent(s, r) ==
  InvalidateLocal(s, r) \/ DeleteFromRedis(s, r) \/ Publish(s, r) \/ Retry(s, r) \/ Finish(s, r)

Next ==
  \/ ExpireL2 \/ InvalidateAuthCacheByKey
  \/ \E s \in Servers : \/ GetAuthCacheEntry(s) \/ Store(s) \/ ExpireL1(s) \/ Change(s)
                        \/ Receive(s) \/ Claim(s) \/ Crash(s)
  \/ \E s \in Servers, r \in Changes : ProcessEvent(s, r)
  \/ \E r \in Changes : DelayPasses(r)

Spec == Init /\ [][Next]_vars

\* Lookups and messages arrive, workers poll every half second, delays and the
\* servers' times to live end.  The entry of Redis need not expire.
Fairness ==
  /\ \A s \in Servers : WF_vars(Store(s)) /\ WF_vars(Receive(s)) /\ WF_vars(ExpireL1(s)) /\ WF_vars(Claim(s))
  /\ \A s \in Servers, r \in Changes : WF_vars(ProcessEvent(s, r))
  /\ \A r \in Changes : WF_vars(DelayPasses(r))

FairSpec == Spec /\ Fairness

-----------------------------------------------------------------------------
(* Properties. *)

\* The caches, lookups, rows and workers are well typed; a row exists only for
\* a change that happened.
TypeOK ==
  /\ version \in Versions
  /\ l1 \in [Servers -> Versions \cup {None}] /\ negative \in [Servers -> Versions \cup {None}]
  /\ l2 \in Versions \cup {None}
  /\ inbox \subseteq Servers
  /\ look \in [Servers -> [step : LookSteps, val : Versions]]
  /\ admin \in [step : AdminSteps, at : Servers \cup {NoOne}]
  /\ rows \in [Changes -> [stage : Stages, owner : Servers \cup {NoOne, Dead}, due : BOOLEAN]]
  /\ work \in [Servers -> [Changes -> WorkSteps]]
  /\ faults \in 0..MaxFaults

\* Once the outbox row of a change is gone, no server can take an older version
\* of the key from Redis any more, however the two passes, the lookups that
\* were under way, crashes and expired leases interleaved: this is why
\* processEvent deletes a row only after a second, delayed pass.
NotOlder(v, r) == v = None \/ v >= r
DrainedIsFresh ==
  \A r \in Changes : rows[r].stage = "gone" =>
    /\ NotOlder(l2, r)
    /\ \A s \in Servers : ~StoringOlder(s, r)

\* Every change of the key - that it is disabled or deleted above
\* all - reaches every cache in the end and stays: no server goes on serving an
\* older version, whatever was lost on the way, and without the help of the
\* minutes that an entry lives in Redis.
Converged(r) ==
  NotOlder(l2, r) /\ \A s \in Servers : NotOlder(l1[s], r) /\ NotOlder(negative[s], r)
Converges == \A r \in Changes : (version >= r) ~> []Converged(r)
=============================================================================
