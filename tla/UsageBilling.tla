---------------------------- MODULE UsageBilling ----------------------------
(***************************************************************************)
(* The billing of one user's requests.  A handler reads the user's balance *)
(* through the cache, reserves its estimate in Redis, forwards the request *)
(* and bills it: the command is persisted as an intent, one transaction    *)
(* claims the request, takes the money and writes the usage row, and the   *)
(* cached balance is dropped.  Recovery workers repeat what was left half  *)
(* done, and a cleanup moves old claims to an archive.                     *)
(*                                                                         *)
(* A command is its cost: the fingerprint is a hash over all amounts and   *)
(* counts of the command, and the estimate is taken to be exact, the best  *)
(* case for the reservation.  Balance is what commands charge here;        *)
(* subscriptions, key and account quotas are taken in the same             *)
(* transaction.  The configuration is the default one (reservation on,     *)
(* closed on cache errors).                                                *)
(***************************************************************************)
EXTENDS Integers, FiniteSets, FiniteSetsExt

CONSTANTS
  Handlers,     \* requests that may be running at the same time
  Recoverers,   \* recovery services, one in each server
  Keys,         \* request ids, which a repeated request uses again
  LegacyKeys,   \* keys that may have rows from before intents were written
  Costs,        \* what requests cost
  Initial,      \* the user's balance at the start
  Failures,     \* what may go wrong, see Fails
  MaxFaults     \* bound: how often

ASSUME WorkersAssumption ==
  IsFiniteSet(Handlers) /\ IsFiniteSet(Recoverers) /\ Handlers \cap Recoverers = {}
ASSUME KeysAssumption == Keys # {} /\ LegacyKeys \subseteq Keys
ASSUME CostsAssumption == Costs \subseteq Nat \ {0}
ASSUME BoundsAssumption == Initial \in Nat /\ MaxFaults \in Nat
ASSUME FailuresAssumption ==
  Failures \subseteq {"prepare", "tx", "ack", "record", "cache", "renew", "crash"}

VARIABLES
  \* usage_billing_intents: state, command and cache_pending of each key
  state, command, cachePending,
  \* usage_billing_dedup and its archive: the fingerprint of a claimed key
  dedup, archive,
  \* usage_logs: the cost in the row of a key
  usage,
  \* the users row, and what was taken off it for each key
  balance, charged,
  \* Redis: the cached balance and the reservation of each handler; the queued
  \* write of a balance to the cache (bound: one write in the queue)
  cached, reserved, queued,
  \* keys that were claimed, and paid for, before intents were written
  paidBefore,
  \* keys charged since the cached balance was last dropped for them
  unseen,
  \* each handler and recoverer: step, key, cost of its command, balance it read
  pc, key, cost, seen,
  faults

intents == <<state, command, cachePending>>
claims == <<dedup, archive, paidBefore>>
money == <<balance, charged, usage>>
cache == <<cached, reserved, queued, unseen>>
vars == <<intents, claims, money, cache, pc, key, cost, seen, faults>>

-----------------------------------------------------------------------------
Workers == Handlers \cup Recoverers
NoBalance == Initial + 1
NoKey == CHOOSE k \in Keys : TRUE
States == {"none", "pending", "settled", "review"}
Steps == {"idle", "read", "reserve", "forward", "prepare", "settle", "retry",
          "review", "drop", "complete", "release"}
\* From the reservation to the end of the handler its reservation is renewed.
Renewing == Steps \ {"idle", "read", "reserve"}

\* A key with rows from before intents were written has a claim, a usage row,
\* or both; the claim was made with the charge.
Init ==
  /\ state = [k \in Keys |-> "none"] /\ command = [k \in Keys |-> 0]
  /\ cachePending = [k \in Keys |-> FALSE]
  /\ dedup \in [Keys -> Costs \cup {0}] /\ usage \in [Keys -> Costs \cup {0}]
  /\ \A k \in Keys \ LegacyKeys : dedup[k] = 0 /\ usage[k] = 0
  /\ archive = [k \in Keys |-> 0] /\ paidBefore = {k \in Keys : dedup[k] # 0}
  /\ balance = Initial /\ charged = [k \in Keys |-> 0]
  /\ cached = NoBalance
  /\ reserved = [h \in Handlers |-> 0] /\ queued = NoBalance
  /\ unseen = {}
  /\ pc = [w \in Workers |-> "idle"] /\ key = [w \in Workers |-> NoKey]
  /\ cost = [w \in Workers |-> 0] /\ seen = [w \in Workers |-> 0]
  /\ faults = 0

At(w, step) == pc[w] = step
Goto(w, step) == pc' = [pc EXCEPT ![w] = step] /\ UNCHANGED <<key, cost, seen>>
Fails(kind) == kind \in Failures /\ faults < MaxFaults /\ faults' = faults + 1
Works == UNCHANGED faults

Return(w) ==
  /\ pc' = [pc EXCEPT ![w] = "idle"] /\ key' = [key EXCEPT ![w] = NoKey]
  /\ cost' = [cost EXCEPT ![w] = 0] /\ seen' = [seen EXCEPT ![w] = 0]

\* Billing is over: a handler returns, a recoverer takes the next command.
Finish(w) == IF w \in Handlers THEN Goto(w, "release") ELSE Return(w)

-----------------------------------------------------------------------------
(* Admission.                                                              *)

\* A request arrives; the slot of an earlier reservation has to be free.
Begin(h, k, c) ==
  /\ At(h, "idle") /\ reserved[h] = 0
  /\ pc' = [pc EXCEPT ![h] = "read"]
  /\ key' = [key EXCEPT ![h] = k] /\ cost' = [cost EXCEPT ![h] = c]
  /\ UNCHANGED <<seen, intents, claims, money, cache>> /\ Works

\* The cached balance, or the balance of the users row, whose write to the
\* cache is queued; with the queue full the write is dropped.
GetUserBalance(h) ==
  /\ At(h, "read")
  /\ pc' = [pc EXCEPT ![h] = "reserve"]
  /\ IF cached # NoBalance
     THEN seen' = [seen EXCEPT ![h] = cached] /\ UNCHANGED queued
     ELSE /\ seen' = [seen EXCEPT ![h] = balance]
          /\ queued' = IF queued = NoBalance THEN balance ELSE queued
  /\ UNCHANGED <<key, cost, intents, claims, money, cached, reserved, unseen>> /\ Works

\* The worker of the cache write queue.
SetBalanceCache ==
  /\ queued # NoBalance /\ cached' = queued /\ queued' = NoBalance
  /\ UNCHANGED <<pc, key, cost, seen, intents, claims, money, reserved, unseen>> /\ Works

Reserved == MapThenSumSet(LAMBDA h : reserved[h], Handlers)

\* Mutant: the script compares the balance with this reservation alone.
CoversAlone(h) == seen[h] >= cost[h]

\* The Lua script compares and reserves at once.
Covers(h) == seen[h] - Reserved >= cost[h]

HoldEstimate(h) == Covers(h) /\ reserved' = [reserved EXCEPT ![h] = cost[h]]

\* After an error, also one that only lost the answer, the request is refused.
ReserveInflight(h) ==
  /\ At(h, "reserve")
  /\ \/ HoldEstimate(h) /\ Goto(h, "forward") /\ Works
     \/ ~Covers(h) /\ UNCHANGED reserved /\ Return(h) /\ Works
     \/ (HoldEstimate(h) \/ UNCHANGED reserved) /\ Return(h) /\ Fails("cache")
  /\ UNCHANGED <<intents, claims, money, cached, queued, unseen>>

\* The answer of the upstream is billed, or there is nothing to bill.
Forward(h) ==
  /\ At(h, "forward")
  /\ Goto(h, "prepare") \/ Goto(h, "release")
  /\ UNCHANGED <<intents, claims, money, cache>> /\ Works

\* The script removes the reservation by its token.
ReleaseInflight(h) == reserved' = [reserved EXCEPT ![h] = 0]

\* HandlerDone ends the renewal and gives the last reference back.
HandlerDone(h) ==
  /\ At(h, "release") /\ Return(h)
  /\ \/ ReleaseInflight(h) /\ Works
     \/ UNCHANGED reserved /\ Fails("cache")
  /\ UNCHANGED <<intents, claims, money, cached, queued, unseen>>

\* Nobody renews the reservation, or the renewals fail for a whole TTL.
ReservationExpires(h) ==
  /\ reserved[h] # 0 /\ reserved' = [reserved EXCEPT ![h] = 0]
  /\ IF pc[h] \in Renewing THEN Fails("renew") ELSE Works
  /\ UNCHANGED <<pc, key, cost, seen, intents, claims, money, cached, queued, unseen>>

CacheExpires ==
  /\ cached # NoBalance /\ cached' = NoBalance
  /\ UNCHANGED <<pc, key, cost, seen, intents, claims, money, reserved, queued, unseen>> /\ Works

-----------------------------------------------------------------------------
(* UsageBillingRepository.Apply.                                           *)

\* Mutant: the command replaces that of an earlier request with the key.
PersistLast(k, c) ==
  /\ state' = [state EXCEPT ![k] = IF @ = "none" THEN "pending" ELSE @]
  /\ command' = [command EXCEPT ![k] = c]
  /\ cachePending' = [cachePending EXCEPT ![k] = TRUE]

\* INSERT ... ON CONFLICT DO NOTHING: the first command of a key stays.
Persist(k, c) ==
  IF command[k] = 0
  THEN /\ state' = [state EXCEPT ![k] = "pending"]
       /\ command' = [command EXCEPT ![k] = c]
       /\ cachePending' = [cachePending EXCEPT ![k] = TRUE]
  ELSE UNCHANGED intents

\* prepareBillingIntent commits on its own and reads the intent back; the
\* command of another request with this key is a conflict, which is recorded
\* nowhere.  The insert may fail, or the read after it.
PrepareBillingIntent(w) ==
  /\ At(w, "prepare")
  /\ \/ /\ Persist(key[w], cost[w]) /\ Works
        /\ IF command'[key[w]] = cost[w] THEN Goto(w, "settle") ELSE Finish(w)
     \/ (UNCHANGED intents \/ Persist(key[w], cost[w])) /\ Finish(w) /\ Fails("prepare")
  /\ UNCHANGED <<claims, money, cache>>

\* Mutant: a claim that was moved to the archive is forgotten.
ClaimedRecently(k) == dedup[k]

\* The fingerprint that a key was claimed with, 0 if it is free.
Claimed(k) == IF dedup[k] # 0 THEN dedup[k] ELSE archive[k]

\* Mutant: a usage row of the key is taken for the row of this command.
SettleableOver(w) ==
  LET k == key[w] IN Claimed(k) = 0 \/ usage[k] \in {0, cost[w]}

\* The transaction goes through: the key is free and the usage row is new, or
\* the key was claimed by this command before and a usage row that is there has
\* its cost.  Users, accounts and API keys are deleted softly, so that the
\* updates of the transaction find their rows.
Settleable(w) ==
  LET k == key[w] IN
  \/ Claimed(k) = 0 /\ usage[k] = 0
  \/ Claimed(k) = cost[w] /\ usage[k] \in {0, cost[w]}

\* The committed transaction: a claim in the archive is entered again but the
\* money is only taken for a free key.
Settle(w) ==
  LET k == key[w] IN
  /\ dedup' = [dedup EXCEPT ![k] = cost[w]] /\ usage' = [usage EXCEPT ![k] = cost[w]]
  /\ state' = [state EXCEPT ![k] = "settled"]
  /\ IF Claimed(k) = 0
     THEN /\ balance' = balance - cost[w]
          /\ charged' = [charged EXCEPT ![k] = @ + cost[w]]
          /\ unseen' = unseen \cup {k}
     ELSE UNCHANGED <<balance, charged, unseen>>
  /\ UNCHANGED <<command, cachePending, archive, paidBefore, cached, reserved, queued>>

\* The transaction: committed, committed with the answer lost, refused for
\* good, or rolled back by an error.
ApplySettlement(w) ==
  /\ At(w, "settle")
  /\ \/ /\ Settleable(w) /\ Settle(w)
        /\ \/ Goto(w, "drop") /\ Works
           \/ Goto(w, "retry") /\ Fails("ack")
     \/ /\ \/ ~Settleable(w) /\ Goto(w, "review") /\ Works
           \/ Goto(w, "retry") /\ Fails("tx")
        /\ UNCHANGED <<intents, claims, money, cache>>

\* Mutant: the failure is recorded whatever the state is by now.
RecordAlways(w, s) == state' = [state EXCEPT ![key[w]] = s]

RecordIfPending(w, s) ==
  state' = IF state[key[w]] = "pending" THEN [state EXCEPT ![key[w]] = s] ELSE state

\* recordBillingIntentFailure; its error is ignored.
RecordBillingIntentFailure(w) ==
  /\ At(w, "retry") \/ At(w, "review")
  /\ \/ RecordIfPending(w, IF At(w, "review") THEN "review" ELSE "pending") /\ Works
     \/ UNCHANGED state /\ Fails("record")
  /\ Finish(w)
  /\ UNCHANGED <<command, cachePending, claims, money, cache>>

\* Mutant: the checkpoint follows though the invalidation failed.
InvalidateOrNot(w) ==
  /\ At(w, "drop")
  /\ \/ cached' = NoBalance /\ unseen' = unseen \ {key[w]} /\ Works
     \/ UNCHANGED <<cached, unseen>> /\ Fails("cache")
  /\ Goto(w, "complete")
  /\ UNCHANGED <<intents, claims, money, reserved, queued>>

\* invalidateBillingCommandCaches; its error is logged, and the checkpoint is
\* left to the recovery.
InvalidateCaches(w) ==
  /\ At(w, "drop")
  /\ \/ /\ cached' = NoBalance /\ unseen' = unseen \ {key[w]}
        /\ Goto(w, "complete") /\ Works
     \/ UNCHANGED <<cached, unseen>> /\ Finish(w) /\ Fails("cache")
  /\ UNCHANGED <<intents, claims, money, reserved, queued>>

CompleteBillingCacheInvalidation(w) ==
  /\ At(w, "complete") /\ Finish(w)
  /\ \/ cachePending' = [cachePending EXCEPT ![key[w]] = @ /\ state[key[w]] # "settled"] /\ Works
     \/ UNCHANGED cachePending /\ Fails("record")
  /\ UNCHANGED <<state, command, claims, money, cache>>

Apply(w) ==
  \/ PrepareBillingIntent(w)
  \/ ApplySettlement(w)
  \/ RecordBillingIntentFailure(w)
  \/ InvalidateCaches(w)
  \/ CompleteBillingCacheInvalidation(w)

-----------------------------------------------------------------------------
(* Recovery, cleanup and the rest of the world.                            *)

\* Mutant: only pending intents are recovered.
RecoverablePending(k) == state[k] = "pending"

Recoverable(k) == state[k] = "pending" \/ (state[k] = "settled" /\ cachePending[k])

\* The lease of next_attempt_at only delays the next claim of the intent, and
\* the delay may have passed.
ClaimBillingRecovery(r, k) ==
  /\ At(r, "idle") /\ Recoverable(k)
  /\ pc' = [pc EXCEPT ![r] = "prepare"]
  /\ key' = [key EXCEPT ![r] = k] /\ cost' = [cost EXCEPT ![r] = command[k]]
  /\ UNCHANGED <<seen, intents, claims, money, cache>> /\ Works

CleanupUsageBillingDedup(k) ==
  /\ dedup[k] # 0 /\ dedup' = [dedup EXCEPT ![k] = 0]
  /\ archive' = [archive EXCEPT ![k] = IF @ = 0 THEN dedup[k] ELSE @]
  /\ UNCHANGED <<paidBefore, intents, money, cache, pc, key, cost, seen>> /\ Works

Crash(w) ==
  /\ ~At(w, "idle") /\ Return(w) /\ Fails("crash")
  /\ UNCHANGED <<intents, claims, money, cache>>

Handle(h) ==
  \/ \E k \in Keys, c \in Costs : Begin(h, k, c)
  \/ GetUserBalance(h) \/ ReserveInflight(h) \/ Forward(h) \/ HandlerDone(h)
  \/ Apply(h)

Recover(r) == Apply(r) \/ \E k \in Keys : ClaimBillingRecovery(r, k)

Next ==
  \/ \E h \in Handlers : Handle(h) \/ ReservationExpires(h)
  \/ \E r \in Recoverers : Recover(r)
  \/ \E w \in Workers : Crash(w)
  \/ \E k \in Keys : CleanupUsageBillingDedup(k)
  \/ SetBalanceCache \/ CacheExpires

Spec == Init /\ [][Next]_vars

\* The recovery loop of a server runs every five seconds and goes on after
\* every error; requests need not come and need not go on.
FairSpec == Spec /\ \A r \in Recoverers : WF_vars(Recover(r))

-----------------------------------------------------------------------------
(* Properties.                                                             *)

\* Every variable has the values its column, key or local can have.
TypeOK ==
  /\ state \in [Keys -> States] /\ command \in [Keys -> Costs \cup {0}]
  /\ cachePending \in [Keys -> BOOLEAN]
  /\ dedup \in [Keys -> Costs \cup {0}] /\ archive \in [Keys -> Costs \cup {0}]
  /\ usage \in [Keys -> Costs \cup {0}]
  /\ balance \in Int /\ balance <= Initial
  /\ charged \in [Keys -> Nat]
  /\ cached \in Int /\ queued \in Int
  /\ reserved \in [Handlers -> Costs \cup {0}] /\ {unseen, paidBefore} \subseteq SUBSET Keys
  /\ pc \in [Workers -> Steps] /\ key \in [Workers -> Keys]
  /\ cost \in [Workers -> Costs \cup {0}] /\ seen \in [Workers -> Int]
  /\ faults \in 0..MaxFaults

\* Whatever is repeated, recovered or archived and whichever answer is lost, a
\* request is charged the price of the command that was persisted first for its
\* key, or nothing, and is charged only together with its usage row and the
\* settled state of its intent (Apply, usage_billing_repo.go).
ChargedOnceAsFrozen ==
  \A k \in Keys :
    /\ charged[k] \in {0, command[k]}
    /\ charged[k] # 0 => state[k] = "settled" /\ usage[k] = command[k]

\* A settled intent was paid for: its key is claimed with the fingerprint of
\* the command, and it was charged here unless the claim is older than intents.
SettledIsPaid ==
  \A k \in Keys : state[k] = "settled" =>
    /\ Claimed(k) = command[k] /\ usage[k] = command[k]
    /\ k \notin paidBefore => charged[k] = command[k]

\* A settled intent stays settled: a failure that is recorded late, after
\* another worker settled the intent, changes nothing (the state = 'pending' in
\* recordBillingIntentFailure).
SettledIsFinal ==
  [][\A k \in Keys : state[k] = "settled" => state'[k] = "settled"]_vars

\* The checkpoint cache_pending is honest: when it is cleared, the cached
\* balance was dropped after the charge.
CheckpointIsHonest ==
  \A k \in Keys : state[k] = "settled" /\ ~cachePending[k] => k \notin unseen

\* However requests interleave, what is reserved for them together never
\* exceeds the balance the user once had.
ReservedWithinBalance == Reserved <= Initial

\* Every persisted command is settled, with the cached balance dropped, or left
\* for review.
IntentsAreSettled ==
  \A k \in Keys : command[k] # 0 ~>
    (state[k] = "review" \/ (state[k] = "settled" /\ ~cachePending[k]))

\* Usage billing implements the ledger.
Ledger == INSTANCE UsageLedger WITH price <- command
ImplementsUsageLedger == Ledger!Spec
=============================================================================
