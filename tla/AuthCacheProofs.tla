--------------------------- MODULE AuthCacheProofs ---------------------------
(***************************************************************************)
(* Proofs about AuthCache, for any servers, number of changes and faults.  *)
(* That a drained change is fresh rests on what the two passes know on the *)
(* way: only due rows are claimed (OwnedIsDue), when the second pass is    *)
(* due no lookup holds an older version any more (SecondPassIsLate), and   *)
(* its owner has deleted what older lookups stored (SecondPassDeleted).    *)
(***************************************************************************)
EXTENDS AuthCache, TLAPS

NobodyStoresOlder(r) == \A s \in Servers : ~StoringOlder(s, r)

RowsAreBehind == \A r \in Changes : rows[r].stage # "none" => r <= version

OwnedIsDue ==
  \A r \in Changes : rows[r].owner # NoOne => Pending(r) /\ rows[r].due

SecondPassIsLate ==
  \A r \in Changes : rows[r].stage = "second" /\ rows[r].due => NobodyStoresOlder(r)

SecondPassDeleted ==
  \A s \in Servers, r \in Changes :
    rows[r].owner = s /\ rows[r].stage = "second" /\ work[s][r] \in {"publish", "finish"} => NotOlder(l2, r)

Passes == RowsAreBehind /\ OwnedIsDue /\ SecondPassIsLate /\ SecondPassDeleted /\ DrainedIsFresh

IInv == TypeOK /\ Passes

-----------------------------------------------------------------------------
(* Types, in parts. *)

Rows == [stage : Stages, owner : Servers \cup {NoOne, Dead}, due : BOOLEAN]
Entries == Versions \cup {None}

TypeCaches == l1 \in [Servers -> Entries] /\ negative \in [Servers -> Entries] /\ l2 \in Entries
TypeLook == look \in [Servers -> [step : LookSteps, val : Versions]]
TypeAdmin == admin \in [step : AdminSteps, at : Servers \cup {NoOne}]
TypeOutbox == rows \in [Changes -> Rows] /\ work \in [Servers -> [Changes -> WorkSteps]]
TypeRest == version \in Versions /\ inbox \subseteq Servers /\ faults \in 0..MaxFaults

LEMMA TypeParts == TypeOK <=> TypeCaches /\ TypeLook /\ TypeAdmin /\ TypeOutbox /\ TypeRest
  BY DEF TypeOK, TypeCaches, TypeLook, TypeAdmin, TypeOutbox, TypeRest, Rows, Entries

LEMMA TypeTogether ==
  ASSUME TypeCaches', TypeLook', TypeAdmin', TypeOutbox', TypeRest'
  PROVE  TypeOK'
  BY DEF TypeOK, TypeCaches, TypeLook, TypeAdmin, TypeOutbox, TypeRest, Rows, Entries

LEMMA VersionsAreNat == Versions \subseteq Nat /\ Changes \subseteq Versions /\ 0 \in Versions /\ None \notin Nat
  BY BoundsAssumption DEF Versions, Changes, None

LEMMA TypeInit == Init => TypeOK
<1> SUFFICES ASSUME Init PROVE TypeOK
  OBVIOUS
<1>1. TypeCaches /\ TypeRest
  BY VersionsAreNat, BoundsAssumption DEF Init, TypeCaches, TypeRest, Entries
<1>2. TypeLook /\ TypeAdmin
  BY VersionsAreNat DEF Init, TypeLook, TypeAdmin, NoLookup, LookSteps, AdminSteps
<1>3. TypeOutbox
  BY DEF Init, TypeOutbox, Rows, NoRow, Stages, WorkSteps
<1> QED
  BY <1>1, <1>2, <1>3, TypeParts

LEMMA TypeFaults ==
  ASSUME TypeRest, Works \/ Fault
  PROVE  faults' \in 0..MaxFaults
  BY BoundsAssumption DEF TypeRest, Works, Fault

LEMMA TypeForget ==
  ASSUME TypeCaches, NEW s \in Servers, ForgetLocally(s)
  PROVE  l1' \in [Servers -> Entries] /\ negative' \in [Servers -> Entries]
  BY DEF TypeCaches, ForgetLocally, Entries

LEMMA TypeLookups ==
  ASSUME TypeOK, NEW s \in Servers,
         GetAuthCacheEntry(s) \/ Store(s) \/ ExpireL1(s) \/ ExpireL2
  PROVE  TypeOK'
<1> USE TypeParts, VersionsAreNat
<1>1. UNCHANGED <<version, inbox, admin, rows, work, faults>>
  BY DEF GetAuthCacheEntry, Store, FillL1, LoadAuthCacheEntry, SetAuthCacheL1, SetAuthCache, ExpireL1, ExpireL2
<1>2. TypeCaches'
  <2>1. CASE GetAuthCacheEntry(s) \/ LoadAuthCacheEntry(s)
    BY <2>1 DEF GetAuthCacheEntry, LoadAuthCacheEntry, caches, TypeCaches
  <2>2. CASE FillL1(s)
    BY <2>2 DEF FillL1, TypeCaches, TypeLook, Entries
  <2>3. CASE SetAuthCacheL1(s)
    BY <2>3 DEF SetAuthCacheL1, TypeCaches, TypeLook, Entries
  <2>4. CASE SetAuthCache(s)
    BY <2>4 DEF SetAuthCache, local, TypeCaches, TypeLook, Entries
  <2>5. CASE ExpireL1(s) \/ ExpireL2
    BY <2>5 DEF ExpireL1, ExpireL2, local, TypeCaches, Entries
  <2> QED
    BY <2>1, <2>2, <2>3, <2>4, <2>5 DEF Store
<1>3. TypeLook'
  <2>1. CASE GetAuthCacheEntry(s)
    BY <2>1 DEF GetAuthCacheEntry, Goto, TypeLook, TypeCaches, Entries, LookSteps
  <2>2. CASE LoadAuthCacheEntry(s)
    BY <2>2 DEF LoadAuthCacheEntry, Goto, NoLookup, TypeLook, TypeRest, LookSteps
  <2>3. CASE FillL1(s) \/ SetAuthCache(s)
    BY <2>3 DEF FillL1, SetAuthCache, NoLookup, TypeLook, LookSteps
  <2>4. CASE SetAuthCacheL1(s)
    BY <2>4 DEF SetAuthCacheL1, Goto, NoLookup, TypeLook, LookSteps
  <2>5. CASE ExpireL1(s) \/ ExpireL2
    BY <2>5 DEF ExpireL1, ExpireL2, TypeLook
  <2> QED
    BY <2>1, <2>2, <2>3, <2>4, <2>5 DEF Store
<1>4. TypeAdmin' /\ TypeOutbox' /\ TypeRest'
  BY <1>1 DEF TypeAdmin, TypeOutbox, TypeRest
<1> QED
  BY <1>2, <1>3, <1>4, TypeTogether

LEMMA TypeChange == ASSUME TypeOK, NEW s \in Servers, Change(s) PROVE TypeOK'
<1>1. version' \in Versions /\ version' \in Changes
  BY TypeParts, BoundsAssumption DEF Change, TypeRest, Versions, Changes
<1>2. TypeRest' /\ TypeCaches' /\ TypeLook'
  BY <1>1, TypeParts DEF Change, caches, TypeRest, TypeCaches, TypeLook
<1>3. TypeAdmin'
  BY TypeParts DEF Change, TypeAdmin, AdminSteps
<1>4. TypeOutbox'
  BY <1>1, TypeParts DEF Change, TypeOutbox, Rows, Stages
<1> QED
  BY <1>2, <1>3, <1>4, TypeTogether

LEMMA TypeInvalidate == ASSUME TypeOK, InvalidateAuthCacheByKey PROVE TypeOK'
<1> USE TypeParts DEF InvalidateAuthCacheByKey, DeleteAuthCache
<1>1. TypeLook' /\ TypeOutbox' /\ TypeRest'
  BY DEF TypeLook, TypeOutbox, TypeRest
<1>2. TypeAdmin'
  BY DEF TypeAdmin, AdminSteps
<1>3. TypeCaches'
  BY DEF TypeCaches, ForgetLocally, Entries, local, caches, TypeAdmin
<1> QED
  BY <1>1, <1>2, <1>3, TypeTogether

LEMMA TypeReceive == ASSUME TypeOK, NEW s \in Servers, Receive(s) PROVE TypeOK'
<1>1. TypeCaches'
  BY TypeParts, TypeForget DEF Receive, TypeCaches
<1>2. TypeLook' /\ TypeAdmin' /\ TypeOutbox' /\ TypeRest'
  BY TypeParts DEF Receive, TypeLook, TypeAdmin, TypeOutbox, TypeRest
<1> QED
  BY <1>1, <1>2, TypeTogether

LEMMA TypeClaim == ASSUME TypeOK, NEW s \in Servers, Claim(s) PROVE TypeOK'
<1>1. PICK C \in SUBSET Changes :
        /\ rows' = Claimed(s, C)
        /\ \/ work' = [work EXCEPT ![s] = [r \in Changes |-> IF r \in C THEN "local" ELSE "idle"]]
           \/ UNCHANGED work
  BY DEF Claim
<1>2. UNCHANGED <<version, caches, inbox, look, admin>> /\ (Works \/ Fault)
  BY DEF Claim
<1>3. TypeOutbox'
  <2>1. rows' \in [Changes -> Rows]
    BY <1>1, TypeParts DEF Claimed, TypeOutbox, Rows
  <2>2. work' \in [Servers -> [Changes -> WorkSteps]]
    BY <1>1, TypeParts DEF TypeOutbox, WorkSteps
  <2> QED
    BY <2>1, <2>2 DEF TypeOutbox
<1>4. TypeCaches' /\ TypeLook' /\ TypeAdmin' /\ TypeRest'
  BY <1>2, TypeParts, TypeFaults DEF caches, TypeCaches, TypeLook, TypeAdmin, TypeRest
<1> QED
  BY <1>3, <1>4, TypeTogether

LEMMA TypeProcess ==
  ASSUME TypeOK, NEW s \in Servers, NEW r \in Changes, ProcessEvent(s, r)
  PROVE  TypeOK'
<1> USE TypeParts
<1>1. /\ UNCHANGED <<version, look, admin>> /\ (Works \/ Fault)
      /\ \E step \in WorkSteps : Proceed(s, r, step)
      /\ inbox' \in SUBSET Servers
  BY DEF ProcessEvent, InvalidateLocal, DeleteFromRedis, Publish, Retry, Finish, WorkSteps, Works, TypeRest
<1>2. TypeCaches'
  <2>1. CASE InvalidateLocal(s, r)
    BY <2>1, TypeForget DEF InvalidateLocal, TypeCaches
  <2>2. CASE DeleteFromRedis(s, r)
    BY <2>2 DEF DeleteFromRedis, local, TypeCaches, Entries
  <2>3. CASE Publish(s, r) \/ Retry(s, r) \/ Finish(s, r)
    BY <2>3 DEF Publish, Retry, Finish, caches, TypeCaches
  <2> QED
    BY <2>1, <2>2, <2>3 DEF ProcessEvent
<1>3. rows' \in [Changes -> Rows]
  <2>1. CASE InvalidateLocal(s, r) \/ DeleteFromRedis(s, r) \/ Publish(s, r)
    BY <2>1 DEF InvalidateLocal, DeleteFromRedis, Publish, TypeOutbox
  <2>2. CASE Retry(s, r)
    BY <2>2 DEF Retry, IfOwner, TypeOutbox, Rows
  <2>3. CASE Finish(s, r)
    <3>1. AfterFirstPass \in Rows /\ Gone \in Rows
      BY DEF AfterFirstPass, Gone, Rows, Stages
    <3>2. \/ UNCHANGED rows
          \/ rows' = [rows EXCEPT ![r] = AfterFirstPass]
          \/ rows' = [rows EXCEPT ![r] = Gone]
      BY <2>3 DEF Finish, IfOwner
    <3> QED
      BY <3>1, <3>2 DEF TypeOutbox
  <2> QED
    BY <2>1, <2>2, <2>3 DEF ProcessEvent
<1>4. work' \in [Servers -> [Changes -> WorkSteps]]
  BY <1>1 DEF Proceed, TypeOutbox
<1>5. TypeLook' /\ TypeAdmin' /\ TypeRest'
  BY <1>1, TypeFaults DEF TypeLook, TypeAdmin, TypeRest
<1> QED
  BY <1>2, <1>3, <1>4, <1>5, TypeTogether DEF TypeOutbox

LEMMA TypeDelay == ASSUME TypeOK, NEW r \in Changes, DelayPasses(r) PROVE TypeOK'
<1>1. TypeOutbox'
  BY TypeParts DEF DelayPasses, TypeOutbox, Rows
<1>2. TypeCaches' /\ TypeLook' /\ TypeAdmin' /\ TypeRest'
  BY TypeParts DEF DelayPasses, caches, TypeCaches, TypeLook, TypeAdmin, TypeRest
<1> QED
  BY <1>1, <1>2, TypeTogether

LEMMA TypeCrash == ASSUME TypeOK, NEW s \in Servers, Crash(s) PROVE TypeOK'
<1>1. TypeCaches'
  BY TypeParts, TypeForget DEF Crash, TypeCaches
<1>2. TypeLook'
  BY TypeParts, VersionsAreNat DEF Crash, TypeLook, NoLookup, LookSteps
<1>3. TypeAdmin'
  BY TypeParts DEF Crash, TypeAdmin, AdminSteps
<1>4. TypeOutbox'
  BY TypeParts DEF Crash, TypeOutbox, Rows, WorkSteps
<1>5. TypeRest'
  BY TypeParts, TypeFaults DEF Crash, TypeRest
<1> QED
  BY <1>1, <1>2, <1>3, <1>4, <1>5, TypeTogether

LEMMA TypeStep == ASSUME TypeOK, [Next]_vars PROVE TypeOK'
<1>1. CASE UNCHANGED vars
  BY <1>1 DEF vars, TypeOK
<1>2. CASE ExpireL2
  <2>1. TypeCaches'
    BY <1>2, TypeParts DEF ExpireL2, local, TypeCaches, Entries
  <2>2. TypeLook' /\ TypeAdmin' /\ TypeOutbox' /\ TypeRest'
    BY <1>2, TypeParts DEF ExpireL2, TypeLook, TypeAdmin, TypeOutbox, TypeRest
  <2> QED
    BY <2>1, <2>2, TypeTogether
<1> QED
  BY <1>1, <1>2, TypeLookups, TypeChange, TypeInvalidate, TypeReceive, TypeClaim, TypeProcess, TypeDelay,
     TypeCrash DEF Next

-----------------------------------------------------------------------------
(* Steps that leave the outbox and the workers alone.  No step makes an    *)
(* older version appear: not in the hands of a lookup once its change has  *)
(* happened, and not in Redis once no lookup holds it.                     *)

Fresher ==
  \A r \in Changes :
    /\ r <= version /\ NobodyStoresOlder(r) => NobodyStoresOlder(r)'
    /\ NobodyStoresOlder(r) /\ NotOlder(l2, r) => NotOlder(l2', r)

LEMMA PassesKept ==
  ASSUME TypeOK, Passes, Fresher, UNCHANGED <<version, rows, work>>
  PROVE  Passes'
<1>1. RowsAreBehind' /\ OwnedIsDue'
  BY DEF Passes, RowsAreBehind, OwnedIsDue, Pending
<1>2. SecondPassIsLate'
  BY DEF Passes, RowsAreBehind, SecondPassIsLate, Fresher
<1>3. SecondPassDeleted'
  <2> SUFFICES ASSUME NEW s \in Servers, NEW r \in Changes,
                      rows[r].owner = s, rows[r].stage = "second", work[s][r] \in {"publish", "finish"}
               PROVE  NotOlder(l2', r)
    BY DEF SecondPassDeleted, NotOlder
  <2>1. rows[r].owner # NoOne
    BY ServersAssumption
  <2>2. NobodyStoresOlder(r)
    BY <2>1 DEF Passes, OwnedIsDue, SecondPassIsLate
  <2>3. NotOlder(l2, r)
    BY DEF Passes, SecondPassDeleted
  <2> QED
    BY <2>2, <2>3 DEF Fresher
<1>4. DrainedIsFresh'
  <2> SUFFICES ASSUME NEW r \in Changes, rows[r].stage = "gone"
               PROVE  NotOlder(l2', r) /\ NobodyStoresOlder(r)'
    BY DEF DrainedIsFresh, NotOlder, NobodyStoresOlder, StoringOlder
  <2>1. NotOlder(l2, r) /\ NobodyStoresOlder(r) /\ r <= version
    BY DEF Passes, DrainedIsFresh, RowsAreBehind, NobodyStoresOlder
  <2> QED
    BY <2>1 DEF Fresher
<1> QED
  BY <1>1, <1>2, <1>3, <1>4 DEF Passes

LEMMA LookupsAreFresher ==
  ASSUME TypeOK, NEW s \in Servers, GetAuthCacheEntry(s) \/ Store(s)
  PROVE  Fresher
<1> USE TypeParts, VersionsAreNat DEF Fresher, NobodyStoresOlder, StoringOlder, NotOlder
<1>1. CASE GetAuthCacheEntry(s)
  BY <1>1 DEF GetAuthCacheEntry, Goto, caches, TypeLook
<1>2. CASE FillL1(s)
  BY <1>2 DEF FillL1, NoLookup, TypeLook
<1>3. CASE LoadAuthCacheEntry(s)
  <2>1. /\ UNCHANGED l2
        /\ \A t \in Servers : t # s => look'[t] = look[t]
        /\ look'[s].step = "idle" \/ look'[s].val = version
    BY <1>3 DEF LoadAuthCacheEntry, Goto, NoLookup, caches, TypeLook
  <2>2. version \in Nat /\ \A r \in Changes : r \in Nat
    BY DEF TypeRest
  <2>3. ASSUME NEW r \in Changes, r <= version, NobodyStoresOlder(r), NEW t \in Servers
        PROVE  ~StoringOlder(t, r)'
    BY <2>1, <2>2, <2>3
  <2> QED
    BY <2>1, <2>3
<1>4. CASE SetAuthCacheL1(s)
  BY <1>4 DEF SetAuthCacheL1, Goto, NoLookup, TypeLook
<1>5. CASE SetAuthCache(s)
  <2>1. /\ look[s].step = "store2" /\ l2' \in {look[s].val, l2}
        /\ \A t \in Servers : t # s => look'[t] = look[t]
        /\ look'[s].step = "idle"
    BY <1>5 DEF SetAuthCache, NoLookup, TypeLook
  <2>2. look[s].val \in Nat /\ \A r \in Changes : r \in Nat
    BY DEF TypeLook
  <2>3. ASSUME NEW r \in Changes, NobodyStoresOlder(r), NotOlder(l2, r)
        PROVE  NotOlder(l2', r)
    <3>1. ~(look[s].val < r)
      BY <2>1, <2>3
    <3>2. look[s].val >= r
      BY <2>2, <3>1
    <3> QED
      BY <2>1, <2>3, <3>2
  <2>4. ASSUME NEW r \in Changes, NobodyStoresOlder(r) PROVE NobodyStoresOlder(r)'
    BY <2>1, <2>4
  <2> QED
    BY <2>3, <2>4
<1> QED
  BY <1>1, <1>2, <1>3, <1>4, <1>5 DEF Store

LEMMA CachesAreFresher ==
  ASSUME UNCHANGED look, l2' \in {None, l2}
  PROVE  Fresher
  BY DEF Fresher, NobodyStoresOlder, StoringOlder, NotOlder

LEMMA CacheSteps ==
  ASSUME IInv, NEW s \in Servers,
         \/ GetAuthCacheEntry(s) \/ Store(s) \/ ExpireL1(s) \/ ExpireL2
         \/ InvalidateAuthCacheByKey \/ Receive(s)
  PROVE  Passes'
<1>1. UNCHANGED <<version, rows, work>>
  BY DEF GetAuthCacheEntry, Store, FillL1, LoadAuthCacheEntry, SetAuthCacheL1, SetAuthCache, ExpireL1, ExpireL2,
         InvalidateAuthCacheByKey, Receive
<1>2. Fresher
  <2>1. CASE GetAuthCacheEntry(s) \/ Store(s)
    BY <2>1, LookupsAreFresher DEF IInv
  <2>2. CASE ExpireL1(s) \/ ExpireL2 \/ InvalidateAuthCacheByKey \/ Receive(s)
    BY <2>2, CachesAreFresher DEF ExpireL1, ExpireL2, InvalidateAuthCacheByKey, DeleteAuthCache, Receive, caches
  <2> QED
    BY <2>1, <2>2
<1> QED
  BY <1>1, <1>2, PassesKept DEF IInv

-----------------------------------------------------------------------------
(* Steps of the outbox. *)

LEMMA ChangeKeeps == ASSUME IInv, NEW s \in Servers, Change(s) PROVE Passes'
<1> USE DEF IInv
<1> DEFINE v == version + 1
<1>1. /\ version \in Nat /\ version' = v /\ v \in Changes
      /\ rows' = [rows EXCEPT ![v] = [stage |-> "first", owner |-> NoOne, due |-> TRUE]]
      /\ UNCHANGED <<look, l2, work>>
  BY TypeParts, VersionsAreNat, BoundsAssumption DEF Change, caches, TypeRest, Versions, Changes
<1>2. /\ rows'[v].stage = "first" /\ rows'[v].owner = NoOne
      /\ \A r \in Changes : r # v => rows'[r] = rows[r]
  BY <1>1, TypeParts DEF TypeOutbox
<1>3. RowsAreBehind'
  <2>1. \A r \in Changes : r \in Nat
    BY VersionsAreNat
  <2> QED
    BY <1>1, <1>2, <2>1 DEF Passes, RowsAreBehind
<1>4. OwnedIsDue' /\ SecondPassIsLate'
  BY <1>1, <1>2 DEF Passes, OwnedIsDue, SecondPassIsLate, Pending, NobodyStoresOlder, StoringOlder
<1>5. SecondPassDeleted' /\ DrainedIsFresh'
  BY <1>1, <1>2 DEF Passes, SecondPassDeleted, DrainedIsFresh, NotOlder, StoringOlder
<1> QED
  BY <1>3, <1>4, <1>5 DEF Passes

\* A claim gives due rows to a worker that has done nothing on them yet.
LEMMA ClaimKeeps == ASSUME IInv, NEW s \in Servers, Claim(s) PROVE Passes'
<1> USE DEF IInv
<1>1. PICK C \in SUBSET Changes :
        /\ \A r \in C : Pending(r) /\ rows[r].due
        /\ rows' = Claimed(s, C)
        /\ \/ work' = [work EXCEPT ![s] = [r \in Changes |-> IF r \in C THEN "local" ELSE "idle"]]
           \/ UNCHANGED work
  BY DEF Claim, Claimable
<1>2. UNCHANGED <<version, l2, look>> /\ \A r \in Changes : work[s][r] = "idle"
  BY DEF Claim, caches, Working
<1>3. \A r \in Changes : /\ rows'[r].stage = rows[r].stage /\ rows'[r].due = rows[r].due
                         /\ rows'[r].owner = IF r \in C THEN s ELSE rows[r].owner
  BY <1>1, TypeParts DEF Claimed, TypeOutbox, Rows
<1>4. /\ \A r \in Changes : work'[s][r] \in {"local", "idle"}
      /\ \A t \in Servers : t # s => work'[t] = work[t]
  BY <1>1, <1>2, TypeParts DEF TypeOutbox
<1>5. RowsAreBehind' /\ SecondPassIsLate' /\ DrainedIsFresh'
  BY <1>2, <1>3 DEF Passes, RowsAreBehind, SecondPassIsLate, DrainedIsFresh, NobodyStoresOlder,
        StoringOlder, NotOlder
<1>6. OwnedIsDue'
  BY <1>1, <1>3 DEF Passes, OwnedIsDue, Pending
<1>7. SecondPassDeleted'
  BY <1>2, <1>3, <1>4 DEF Passes, SecondPassDeleted, NotOlder
<1> QED
  BY <1>5, <1>6, <1>7 DEF Passes

\* The steps of processEvent up to the message.
LEMMA DeliveryKeeps ==
  ASSUME IInv, NEW s \in Servers, NEW r \in Changes,
         InvalidateLocal(s, r) \/ DeleteFromRedis(s, r) \/ Publish(s, r)
  PROVE  Passes'
<1> USE DEF IInv
<1>1. /\ UNCHANGED <<version, look, rows>> /\ l2' \in {None, l2}
      /\ \E step \in {"redis", "publish", "finish", "retry"} :
           /\ Proceed(s, r, step)
           /\ step \in {"publish", "finish"} => l2' = None \/ (work[s][r] = "publish" /\ l2' = l2)
  BY DEF InvalidateLocal, DeleteFromRedis, Publish, caches
<1>2. RowsAreBehind' /\ OwnedIsDue' /\ SecondPassIsLate' /\ DrainedIsFresh'
  BY <1>1 DEF Passes, RowsAreBehind, OwnedIsDue, SecondPassIsLate, DrainedIsFresh, Pending, NobodyStoresOlder,
              StoringOlder, NotOlder
<1>3. SecondPassDeleted'
  BY <1>1, TypeParts DEF Passes, SecondPassDeleted, Proceed, TypeOutbox, NotOlder
<1> QED
  BY <1>2, <1>3 DEF Passes

\* The end of a pass: the row goes only when its owner is through the second.
LEMMA PassEnds ==
  ASSUME IInv, NEW s \in Servers, NEW r \in Changes, Retry(s, r) \/ Finish(s, r)
  PROVE  Passes'
<1> USE DEF IInv
<1>1. /\ UNCHANGED <<version, l2, look>> /\ Proceed(s, r, "idle")
      /\ \/ UNCHANGED rows
         \/ /\ rows[r].owner = s
            /\ \/ rows' = [rows EXCEPT ![r] = [rows[r] EXCEPT !.owner = NoOne, !.due = FALSE]]
               \/ rows' = [rows EXCEPT ![r] = AfterFirstPass] /\ rows[r].stage = "first"
               \/ rows' = [rows EXCEPT ![r] = Gone] /\ rows[r].stage # "first" /\ work[s][r] = "finish"
  BY DEF Retry, Finish, IfOwner, caches
<1>2. /\ work'[s][r] = "idle"
      /\ \A t \in Servers, q \in Changes : <<t, q>> # <<s, r>> => work'[t][q] = work[t][q]
  BY <1>1, TypeParts DEF Proceed, TypeOutbox
<1>3. CASE UNCHANGED rows
  <2>1. RowsAreBehind' /\ OwnedIsDue' /\ SecondPassIsLate' /\ DrainedIsFresh'
    BY <1>1, <1>3 DEF Passes, RowsAreBehind, OwnedIsDue, SecondPassIsLate, DrainedIsFresh, Pending,
          NobodyStoresOlder,
                StoringOlder, NotOlder
  <2>2. SecondPassDeleted'
    BY <1>1, <1>2, <1>3 DEF Passes, SecondPassDeleted, NotOlder
  <2> QED
    BY <2>1, <2>2 DEF Passes
<1>4. CASE rows[r].owner = s /\ rows' # rows
  <2>1. rows[r].owner # NoOne /\ Pending(r) /\ rows[r].due
    BY <1>4, ServersAssumption DEF Passes, OwnedIsDue
  <2>2. /\ rows'[r].owner = NoOne /\ ~rows'[r].due
        /\ \/ rows'[r].stage \in {"first", "second"}
           \/ rows'[r].stage = "gone" /\ rows[r].stage = "second" /\ work[s][r] = "finish"
        /\ \A q \in Changes : q # r => rows'[q] = rows[q]
    <3>1. rows \in [Changes -> Rows]
      BY TypeParts DEF TypeOutbox
    <3>2. CASE rows' = [rows EXCEPT ![r] = [rows[r] EXCEPT !.owner = NoOne, !.due = FALSE]]
      BY <2>1, <3>1, <3>2 DEF Pending, Rows
    <3>3. CASE rows' = [rows EXCEPT ![r] = AfterFirstPass]
      BY <3>1, <3>3 DEF AfterFirstPass
    <3>4. CASE rows' = [rows EXCEPT ![r] = Gone] /\ rows[r].stage # "first" /\ work[s][r] = "finish"
      BY <2>1, <3>1, <3>4 DEF Gone, Pending
    <3> QED
      BY <1>1, <1>4, <3>2, <3>3, <3>4
  <2>3. RowsAreBehind'
    BY <1>1, <2>1, <2>2 DEF Passes, RowsAreBehind, Pending
  <2>4. OwnedIsDue' /\ SecondPassIsLate'
    BY <1>1, <2>2 DEF Passes, OwnedIsDue, SecondPassIsLate, Pending, NobodyStoresOlder, StoringOlder
  <2>5. SecondPassDeleted'
    BY <1>1, <1>2, <2>2, ServersAssumption DEF Passes, SecondPassDeleted, NotOlder
  <2>6. rows'[r].stage = "gone" => NotOlder(l2, r) /\ NobodyStoresOlder(r)
    BY <1>4, <2>1, <2>2 DEF Passes, SecondPassDeleted, SecondPassIsLate
  <2>7. DrainedIsFresh'
    BY <1>1, <2>2, <2>6 DEF Passes, DrainedIsFresh, NobodyStoresOlder, StoringOlder, NotOlder
  <2> QED
    BY <2>3, <2>4, <2>5, <2>7 DEF Passes
<1> QED
  BY <1>1, <1>3, <1>4

LEMMA DelayKeeps == ASSUME IInv, NEW r \in Changes, DelayPasses(r) PROVE Passes'
<1> USE DEF IInv
<1>1. /\ UNCHANGED <<version, l2, look, work>> /\ Pending(r)
      /\ rows[r].stage = "second" => NobodyStoresOlder(r)
      /\ rows' = [rows EXCEPT ![r].due = TRUE]
  BY DEF DelayPasses, caches, NobodyStoresOlder
<1>2. /\ rows'[r].due /\ rows'[r].stage = rows[r].stage /\ rows'[r].owner = rows[r].owner
      /\ \A q \in Changes : q # r => rows'[q] = rows[q]
  BY <1>1, TypeParts DEF TypeOutbox, Rows
<1>3. RowsAreBehind' /\ OwnedIsDue' /\ SecondPassIsLate'
  BY <1>1, <1>2 DEF Passes, RowsAreBehind, OwnedIsDue, SecondPassIsLate, Pending, NobodyStoresOlder, StoringOlder
<1>4. SecondPassDeleted' /\ DrainedIsFresh'
  BY <1>1, <1>2 DEF Passes, SecondPassDeleted, DrainedIsFresh, NotOlder, StoringOlder
<1> QED
  BY <1>3, <1>4 DEF Passes

LEMMA CrashKeeps == ASSUME IInv, NEW s \in Servers, Crash(s) PROVE Passes'
<1> USE DEF IInv
<1>1. /\ UNCHANGED <<version, l2>>
      /\ \A t \in Servers, r \in Changes : work'[t][r] \in {"idle", work[t][r]}
      /\ \A t \in Servers : look'[t] = look[t] \/ look'[t].step = "idle"
  BY TypeParts DEF Crash, NoLookup, TypeLook, TypeOutbox
<1>2. \A r \in Changes : /\ rows'[r].stage = rows[r].stage /\ rows'[r].due = rows[r].due
                         /\ rows'[r].owner = rows[r].owner \/ (rows[r].owner = s /\ rows'[r].owner = Dead)
  BY TypeParts DEF Crash, TypeOutbox, Rows
<1>3. RowsAreBehind' /\ SecondPassIsLate' /\ DrainedIsFresh'
  BY <1>1, <1>2 DEF Passes, RowsAreBehind, SecondPassIsLate, DrainedIsFresh, NobodyStoresOlder,
        StoringOlder, NotOlder
<1>4. OwnedIsDue'
  BY <1>2, ServersAssumption DEF Passes, OwnedIsDue, Pending
<1>5. SecondPassDeleted'
  BY <1>1, <1>2, ServersAssumption DEF Passes, SecondPassDeleted, NotOlder
<1> QED
  BY <1>3, <1>4, <1>5 DEF Passes

-----------------------------------------------------------------------------
(* The theorems. *)

LEMMA InitInv == Init => IInv
<1> SUFFICES ASSUME Init PROVE IInv
  OBVIOUS
<1>1. \A r \in Changes : rows[r] = NoRow
  BY DEF Init
<1>2. Passes
  BY <1>1 DEF Passes, RowsAreBehind, OwnedIsDue, SecondPassIsLate, SecondPassDeleted, DrainedIsFresh, NoRow
<1> QED
  BY <1>2, TypeInit DEF IInv

LEMMA StepInv == ASSUME IInv, [Next]_vars PROVE IInv'
<1>1. TypeOK'
  BY TypeStep DEF IInv
<1>2. ASSUME NEW s \in Servers,
             \/ GetAuthCacheEntry(s) \/ Store(s) \/ ExpireL1(s) \/ Change(s) \/ Receive(s) \/ Claim(s) \/ Crash(s)
      PROVE  Passes'
  BY <1>2, CacheSteps, ChangeKeeps, ClaimKeeps, CrashKeeps
<1>3. CASE ExpireL2 \/ InvalidateAuthCacheByKey \/ UNCHANGED vars
  <2>1. UNCHANGED <<version, rows, work, look>> /\ l2' \in {None, l2}
    BY <1>3 DEF ExpireL2, InvalidateAuthCacheByKey, DeleteAuthCache, caches, vars
  <2> QED
    BY <1>1, <2>1, CachesAreFresher, PassesKept DEF IInv
<1>4. ASSUME NEW s \in Servers, NEW r \in Changes, ProcessEvent(s, r) PROVE Passes'
  BY <1>4, DeliveryKeeps, PassEnds DEF ProcessEvent
<1> QED
  BY <1>1, <1>2, <1>3, <1>4, DelayKeeps DEF Next, IInv

LEMMA Invariance == Spec => []IInv
  BY InitInv, StepInv, PTL DEF Spec

\* Caches, lookups, outbox rows and workers keep their types.
THEOREM AuthTypeCorrect == Spec => []TypeOK
  BY Invariance, PTL DEF IInv

\* When DeleteClaimed has removed the row of a change, no older version of the
\* key is in Redis or on its way there - for any number of servers, changes
\* that overlap, crashes, expired leases and failed deliveries.
THEOREM DrainedChangeIsFresh == Spec => []DrainedIsFresh
  BY Invariance, PTL DEF IInv, Passes
=============================================================================
