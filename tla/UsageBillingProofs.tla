------------------------- MODULE UsageBillingProofs -------------------------
(***************************************************************************)
(* Proofs about UsageBilling, for any handlers, recovery services, keys,   *)
(* costs and number of failures.  The inductive invariant adds to the      *)
(* properties what holds between the steps of Apply: which command a       *)
(* worker has in hand (Plans), that an intent and its command come and go  *)
(* together (Frozen), that the archive repeats the claim it took over      *)
(* (Archived), and that a claim made here was paid for (ClaimsArePaid).    *)
(***************************************************************************)
EXTENDS UsageBilling, FiniteSetTheorems, TLAPS

Frozen ==
  \A k \in Keys :
    /\ command[k] = 0 <=> state[k] = "none"
    /\ state[k] \in {"pending", "review"} => cachePending[k]

Plans ==
  \A w \in Workers :
    /\ pc[w] # "idle" => cost[w] # 0
    /\ pc[w] \in {"settle", "retry", "review", "drop", "complete"} => command[key[w]] = cost[w]
    /\ pc[w] \in {"drop", "complete"} => state[key[w]] = "settled"
    /\ pc[w] = "complete" => key[w] \notin unseen

Archived ==
  \A k \in Keys : dedup[k] # 0 /\ archive[k] # 0 => dedup[k] = archive[k]

ClaimsArePaid ==
  \A k \in Keys : Claimed(k) # 0 /\ k \notin paidBefore => charged[k] # 0

Books ==
  Frozen /\ Archived /\ ClaimsArePaid /\ ChargedOnceAsFrozen /\ SettledIsPaid /\ CheckpointIsHonest

IInv == TypeOK /\ Plans /\ Books

-----------------------------------------------------------------------------
(* Types. *)

LEMMA NoKeyIsKey == NoKey \in Keys
  BY KeysAssumption DEF NoKey

LEMMA TypeGoto ==
  ASSUME TypeOK, NEW w \in Workers, NEW step \in Steps, Goto(w, step)
  PROVE  /\ pc' \in [Workers -> Steps] /\ key' \in [Workers -> Keys]
         /\ cost' \in [Workers -> Costs \cup {0}] /\ seen' \in [Workers -> Int]
  BY DEF TypeOK, Goto

LEMMA TypeReturn ==
  ASSUME TypeOK, NEW w \in Workers, Return(w)
  PROVE  /\ pc' \in [Workers -> Steps] /\ key' \in [Workers -> Keys]
         /\ cost' \in [Workers -> Costs \cup {0}] /\ seen' \in [Workers -> Int]
  BY NoKeyIsKey DEF TypeOK, Return, Steps

LEMMA TypeFinish ==
  ASSUME TypeOK, NEW w \in Workers, Finish(w)
  PROVE  /\ pc' \in [Workers -> Steps] /\ key' \in [Workers -> Keys]
         /\ cost' \in [Workers -> Costs \cup {0}] /\ seen' \in [Workers -> Int]
  BY TypeGoto, TypeReturn DEF Finish, Steps

LEMMA TypeFaults ==
  ASSUME TypeOK, Works \/ \E kind \in Failures : Fails(kind)
  PROVE  faults' \in 0..MaxFaults
  BY BoundsAssumption DEF TypeOK, Works, Fails

\* Init is well typed.
LEMMA InitType == Init => TypeOK
<1> SUFFICES ASSUME Init PROVE TypeOK
  OBVIOUS
<1>1. state \in [Keys -> States] /\ command \in [Keys -> Costs \cup {0}] /\ cachePending \in [Keys -> BOOLEAN]
  BY DEF Init, States
<1>2. dedup \in [Keys -> Costs \cup {0}] /\ archive \in [Keys -> Costs \cup {0}] /\
      usage \in [Keys -> Costs \cup {0}]
  BY DEF Init
<1>3. balance \in Int /\ balance <= Initial /\ charged \in [Keys -> Nat] /\ faults \in 0..MaxFaults
  BY BoundsAssumption DEF Init
<1>4. cached \in Int /\ queued \in Int /\ reserved \in [Handlers -> Costs \cup {0}]
  BY BoundsAssumption DEF Init, NoBalance
<1>5. {unseen, paidBefore} \subseteq SUBSET Keys
  BY DEF Init
<1>6. pc \in [Workers -> Steps] /\ key \in [Workers -> Keys] /\
      cost \in [Workers -> Costs \cup {0}] /\ seen \in [Workers -> Int]
  BY NoKeyIsKey DEF Init, Steps
<1> QED
  BY <1>1, <1>2, <1>3, <1>4, <1>5, <1>6 DEF TypeOK


\* The variables that only some actions touch.
Rest == <<state, command, cachePending, dedup, archive, usage, balance, charged, paidBefore>>

LEMMA TypeRest ==
  ASSUME TypeOK, UNCHANGED Rest
  PROVE  /\ state' \in [Keys -> States] /\ command' \in [Keys -> Costs \cup {0}]
         /\ cachePending' \in [Keys -> BOOLEAN]
         /\ dedup' \in [Keys -> Costs \cup {0}] /\ archive' \in [Keys -> Costs \cup {0}]
         /\ usage' \in [Keys -> Costs \cup {0}]
         /\ balance' \in Int /\ balance' <= Initial
         /\ charged' \in [Keys -> Nat]
         /\ paidBefore' \subseteq Keys
  BY DEF TypeOK, Rest

LEMMA TypeCache ==
  ASSUME TypeOK, UNCHANGED cache
  PROVE  /\ cached' \in Int /\ queued' \in Int
         /\ reserved' \in [Handlers -> Costs \cup {0}] /\ unseen' \subseteq Keys
  BY DEF TypeOK, cache

\* Every step keeps the types: admission.
LEMMA TypeAdmission ==
  ASSUME TypeOK, NEW h \in Handlers,
         \/ \E k \in Keys, c \in Costs : Begin(h, k, c)
         \/ GetUserBalance(h) \/ ReserveInflight(h) \/ Forward(h) \/ HandlerDone(h)
         \/ ReservationExpires(h)
  PROVE  TypeOK'
<1> h \in Workers
  BY DEF Workers
<1>0. UNCHANGED Rest /\ (Works \/ \E kind \in Failures : Fails(kind))
  BY DEF Begin, GetUserBalance, ReserveInflight, HoldEstimate, Forward, HandlerDone, ReservationExpires,
         Rest, intents, claims, money, cache, Fails, Works
<1>1. ASSUME NEW k \in Keys, NEW c \in Costs, Begin(h, k, c) PROVE TypeOK'
  <2>1. /\ pc' \in [Workers -> Steps] /\ key' \in [Workers -> Keys]
        /\ cost' \in [Workers -> Costs \cup {0}] /\ seen' \in [Workers -> Int]
    BY <1>1 DEF TypeOK, Begin, Steps
  <2>2. UNCHANGED cache
    BY <1>1 DEF Begin
  <2> QED
    BY <1>0, <2>1, <2>2, TypeRest, TypeCache, TypeFaults DEF TypeOK
<1>2. CASE GetUserBalance(h)
  <2>1. /\ pc' \in [Workers -> Steps] /\ key' \in [Workers -> Keys]
        /\ cost' \in [Workers -> Costs \cup {0}] /\ seen' \in [Workers -> Int]
    BY <1>2 DEF TypeOK, GetUserBalance, Steps
  <2>2. /\ cached' \in Int /\ queued' \in Int
        /\ reserved' \in [Handlers -> Costs \cup {0}] /\ unseen' \subseteq Keys
    BY <1>2 DEF TypeOK, GetUserBalance
  <2> QED
    BY <1>0, <2>1, <2>2, TypeRest, TypeFaults DEF TypeOK
<1>3. CASE ReserveInflight(h)
  <2>1. Goto(h, "forward") \/ Return(h)
    BY <1>3 DEF ReserveInflight
  <2>2. /\ cached' \in Int /\ queued' \in Int
        /\ reserved' \in [Handlers -> Costs \cup {0}] /\ unseen' \subseteq Keys
    BY <1>3 DEF TypeOK, ReserveInflight, HoldEstimate
  <2>3. "forward" \in Steps
    BY DEF Steps
  <2> QED
    BY <1>0, <2>1, <2>2, <2>3, TypeGoto, TypeReturn, TypeRest, TypeFaults DEF TypeOK
<1>4. CASE Forward(h)
  <2>1. \E step \in Steps : Goto(h, step)
    BY <1>4 DEF Forward, Steps
  <2>2. UNCHANGED cache
    BY <1>4 DEF Forward
  <2> QED
    BY <1>0, <2>1, <2>2, TypeGoto, TypeCache, TypeRest, TypeFaults DEF TypeOK
<1>5. CASE HandlerDone(h)
  <2>1. Return(h)
    BY <1>5 DEF HandlerDone
  <2>2. /\ cached' \in Int /\ queued' \in Int
        /\ reserved' \in [Handlers -> Costs \cup {0}] /\ unseen' \subseteq Keys
    BY <1>5 DEF TypeOK, HandlerDone, ReleaseInflight
  <2> QED
    BY <1>0, <2>1, <2>2, TypeReturn, TypeRest, TypeFaults DEF TypeOK
<1>6. CASE ReservationExpires(h)
  BY <1>0, <1>6, TypeRest, TypeFaults DEF TypeOK, ReservationExpires
<1> QED
  BY <1>1, <1>2, <1>3, <1>4, <1>5, <1>6

\* The intent that Persist leaves behind is well typed.
LEMMA TypePersist ==
  ASSUME TypeOK, NEW k \in Keys, NEW c \in Costs \cup {0}, Persist(k, c)
  PROVE  /\ state' \in [Keys -> States] /\ command' \in [Keys -> Costs \cup {0}]
         /\ cachePending' \in [Keys -> BOOLEAN]
  BY DEF TypeOK, Persist, intents, States

\* Every step keeps the types: billing.
LEMMA TypeApply ==
  ASSUME TypeOK, NEW w \in Workers, Apply(w)
  PROVE  TypeOK'
<1> USE DEF Steps
<1>1. CASE PrepareBillingIntent(w)
  <2>1. /\ Finish(w) \/ Goto(w, "settle")
        /\ Persist(key[w], cost[w]) \/ UNCHANGED intents
        /\ UNCHANGED <<claims, money, cache>>
        /\ Works \/ \E kind \in Failures : Fails(kind)
    BY <1>1 DEF PrepareBillingIntent, Fails
  <2>2. /\ state' \in [Keys -> States] /\ command' \in [Keys -> Costs \cup {0}]
        /\ cachePending' \in [Keys -> BOOLEAN]
    BY <2>1, TypePersist DEF TypeOK, intents
  <2>3. /\ pc' \in [Workers -> Steps] /\ key' \in [Workers -> Keys]
        /\ cost' \in [Workers -> Costs \cup {0}] /\ seen' \in [Workers -> Int]
    BY <2>1, TypeFinish, TypeGoto
  <2> QED
    BY <2>1, <2>2, <2>3, TypeCache, TypeFaults DEF TypeOK, claims, money
<1>2. CASE ApplySettlement(w)
  <2>1. /\ \E step \in Steps : Goto(w, step)
        /\ Settle(w) \/ UNCHANGED <<intents, claims, money, cache>>
        /\ Works \/ \E kind \in Failures : Fails(kind)
    BY <1>2 DEF ApplySettlement, Fails
  <2>2. CASE UNCHANGED <<intents, claims, money, cache>>
    BY <2>1, <2>2, TypeGoto, TypeCache, TypeRest, TypeFaults DEF TypeOK, intents, claims, money, Rest
  <2>3. CASE Settle(w)
    <3> DEFINE k == key[w]  c == cost[w]
    <3>0. k \in Keys /\ c \in Costs \cup {0}
      BY DEF TypeOK
    <3>1. c \in Nat
      BY <3>0, CostsAssumption
    <3>2. /\ dedup' \in [Keys -> Costs \cup {0}] /\ usage' \in [Keys -> Costs \cup {0}]
          /\ state' \in [Keys -> States]
      BY <2>3, <3>0 DEF Settle, TypeOK, States
    <3>3. /\ balance' \in Int /\ balance' <= Initial /\ charged' \in [Keys -> Nat]
          /\ unseen' \subseteq Keys
      BY <2>3, <3>0, <3>1, BoundsAssumption DEF Settle, TypeOK
    <3>4. UNCHANGED <<command, cachePending, archive, paidBefore, cached, reserved, queued>>
      BY <2>3 DEF Settle
    <3> QED
      BY <2>1, <3>2, <3>3, <3>4, TypeGoto, TypeFaults DEF TypeOK
  <2> QED
    BY <2>1, <2>2, <2>3
<1>3. CASE RecordBillingIntentFailure(w)
  <2>1. /\ Finish(w)
        /\ UNCHANGED <<command, cachePending, claims, money, cache>>
        /\ Works \/ \E kind \in Failures : Fails(kind)
    BY <1>3 DEF RecordBillingIntentFailure, Fails
  <2>2. state' \in [Keys -> States]
    BY <1>3 DEF RecordBillingIntentFailure, RecordIfPending, TypeOK, States
  <2> QED
    BY <2>1, <2>2, TypeFinish, TypeCache, TypeFaults DEF TypeOK, claims, money
<1>4. CASE InvalidateCaches(w)
  <2>1. /\ Finish(w) \/ Goto(w, "complete")
        /\ UNCHANGED <<intents, claims, money, reserved, queued>>
        /\ Works \/ \E kind \in Failures : Fails(kind)
    BY <1>4 DEF InvalidateCaches, Fails
  <2>2. cached' \in Int /\ unseen' \subseteq Keys
    BY <1>4, BoundsAssumption DEF InvalidateCaches, TypeOK, NoBalance
  <2>3. /\ pc' \in [Workers -> Steps] /\ key' \in [Workers -> Keys]
        /\ cost' \in [Workers -> Costs \cup {0}] /\ seen' \in [Workers -> Int]
    BY <2>1, TypeFinish, TypeGoto
  <2> QED
    BY <2>1, <2>2, <2>3, TypeFaults DEF TypeOK, intents, claims, money
<1>5. CASE CompleteBillingCacheInvalidation(w)
  <2>1. /\ Finish(w)
        /\ UNCHANGED <<state, command, claims, money, cache>>
        /\ Works \/ \E kind \in Failures : Fails(kind)
    BY <1>5 DEF CompleteBillingCacheInvalidation, Fails
  <2>2. cachePending' \in [Keys -> BOOLEAN]
    BY <1>5 DEF CompleteBillingCacheInvalidation, TypeOK
  <2> QED
    BY <2>1, <2>2, TypeFinish, TypeCache, TypeFaults DEF TypeOK, claims, money
<1> QED
  BY <1>1, <1>2, <1>3, <1>4, <1>5 DEF Apply

\* Every step keeps the types: recovery, cleanup and the rest.
LEMMA TypeOthers ==
  ASSUME TypeOK,
         \/ \E r \in Recoverers, k \in Keys : ClaimBillingRecovery(r, k)
         \/ \E k \in Keys : CleanupUsageBillingDedup(k)
         \/ SetBalanceCache \/ CacheExpires
         \/ \E w \in Workers : Crash(w)
  PROVE  TypeOK'
<1>1. ASSUME NEW r \in Recoverers, NEW k \in Keys, ClaimBillingRecovery(r, k) PROVE TypeOK'
  <2>1. /\ pc' \in [Workers -> Steps] /\ key' \in [Workers -> Keys]
        /\ cost' \in [Workers -> Costs \cup {0}] /\ seen' \in [Workers -> Int]
    BY <1>1 DEF TypeOK, ClaimBillingRecovery, Steps, Workers
  <2>2. UNCHANGED <<intents, claims, money, cache>> /\ Works
    BY <1>1 DEF ClaimBillingRecovery
  <2> QED
    BY <2>1, <2>2, TypeRest, TypeCache, TypeFaults DEF TypeOK, Rest, intents, claims, money
<1>2. ASSUME NEW k \in Keys, CleanupUsageBillingDedup(k) PROVE TypeOK'
  <2>1. dedup' \in [Keys -> Costs \cup {0}] /\ archive' \in [Keys -> Costs \cup {0}]
    BY <1>2 DEF TypeOK, CleanupUsageBillingDedup
  <2>2. UNCHANGED <<paidBefore, intents, money, cache, pc, key, cost, seen, faults>>
    BY <1>2 DEF CleanupUsageBillingDedup, Works
  <2> QED
    BY <2>1, <2>2 DEF TypeOK, intents, money, cache
<1>3. CASE SetBalanceCache
  BY <1>3, BoundsAssumption DEF SetBalanceCache, TypeOK, NoBalance, Works, intents, claims, money
<1>4. CASE CacheExpires
  BY <1>4, BoundsAssumption DEF CacheExpires, TypeOK, NoBalance, Works, intents, claims, money
<1>6. ASSUME NEW w \in Workers, Crash(w) PROVE TypeOK'
  <2>1. Return(w) /\ UNCHANGED <<intents, claims, money, cache>> /\ \E kind \in Failures : Fails(kind)
    BY <1>6 DEF Crash, Fails
  <2> QED
    BY <2>1, TypeReturn, TypeRest, TypeCache, TypeFaults DEF TypeOK, Rest, intents, claims, money
<1> QED
  BY <1>1, <1>2, <1>3, <1>4, <1>6

LEMMA TypeStep == ASSUME TypeOK, [Next]_vars PROVE TypeOK'
<1>1. ASSUME NEW h \in Handlers, Handle(h) \/ ReservationExpires(h) PROVE TypeOK'
  BY <1>1, TypeAdmission, TypeApply DEF Handle, Workers
<1>2. ASSUME NEW r \in Recoverers, Recover(r) PROVE TypeOK'
  BY <1>2, TypeApply, TypeOthers DEF Recover, Workers
<1>3. CASE UNCHANGED vars
  BY <1>3 DEF TypeOK, vars, intents, claims, money, cache
<1> QED
  BY <1>1, <1>2, <1>3, TypeOthers DEF Next

-----------------------------------------------------------------------------
(* The books: steps that do not write them keep them. *)

Written == <<state, command, cachePending, dedup, archive, paidBefore, charged, usage, unseen>>

LEMMA BooksUnwritten == ASSUME Books, UNCHANGED Written PROVE Books'
<1> USE DEF Written
<1>1. Frozen' /\ Archived' /\ ClaimsArePaid'
  BY DEF Books, Frozen, Archived, ClaimsArePaid, Claimed
<1>2. ChargedOnceAsFrozen' /\ SettledIsPaid' /\ CheckpointIsHonest'
  BY DEF Books, ChargedOnceAsFrozen, SettledIsPaid, CheckpointIsHonest, Claimed
<1> QED
  BY <1>1, <1>2 DEF Books

\* A worker that returns, or goes to a step before the settlement or after it,
\* needs no plan; the plans of the others stay while commands and settled
\* intents stay and no key becomes unseen.
Kept ==
  /\ \A k \in Keys : command[k] # 0 => command'[k] = command[k]
  /\ \A k \in Keys : state[k] = "settled" => state'[k] = "settled"
  /\ unseen' \subseteq unseen

LEMMA PlansReturn ==
  ASSUME TypeOK, Plans, NEW w \in Workers, Return(w), Kept
  PROVE  Plans'
  BY DEF TypeOK, Plans, Return, Kept

LEMMA PlansGoto ==
  ASSUME TypeOK, Plans, NEW w \in Workers, NEW step, Goto(w, step), pc[w] # "idle", Kept,
         step \in {"forward", "prepare", "release"}
  PROVE  Plans'
  BY DEF TypeOK, Plans, Goto, Kept

LEMMA PlansFinish ==
  ASSUME TypeOK, Plans, NEW w \in Workers, Finish(w), pc[w] # "idle", Kept
  PROVE  Plans'
  BY PlansReturn, PlansGoto DEF Finish

LEMMA PlansKept ==
  ASSUME TypeOK, Plans, UNCHANGED <<pc, key, cost>>, Kept
  PROVE  Plans'
  BY DEF TypeOK, Plans, Kept

LEMMA UnwrittenIsKept == ASSUME UNCHANGED Written PROVE Kept
  BY DEF Written, Kept

LEMMA Admission ==
  ASSUME IInv, NEW h \in Handlers,
         \/ \E k \in Keys, c \in Costs : Begin(h, k, c)
         \/ GetUserBalance(h) \/ ReserveInflight(h) \/ Forward(h) \/ HandlerDone(h)
         \/ ReservationExpires(h)
  PROVE  Plans' /\ Books'
<1> h \in Workers
  BY DEF Workers
<1>1. UNCHANGED Written
  BY DEF Begin, GetUserBalance, ReserveInflight, HoldEstimate, Forward, HandlerDone, ReservationExpires,
         Written, intents, claims, money, cache
<1> SUFFICES Plans'
  BY <1>1, BooksUnwritten DEF IInv
<1>2. Kept /\ TypeOK /\ Plans
  BY <1>1, UnwrittenIsKept DEF IInv
<1>3. ASSUME NEW k \in Keys, NEW c \in Costs, Begin(h, k, c) PROVE Plans'
  BY <1>1, <1>2, <1>3, CostsAssumption DEF Begin, Plans, TypeOK, Written
<1>4. CASE GetUserBalance(h)
  BY <1>1, <1>2, <1>4 DEF GetUserBalance, At, Plans, TypeOK, Written
<1>5. CASE ReserveInflight(h)
  BY <1>2, <1>5, PlansReturn, PlansGoto DEF ReserveInflight, HoldEstimate, At
<1>6. CASE Forward(h)
  BY <1>2, <1>6, PlansGoto DEF Forward, At
<1>7. CASE HandlerDone(h)
  BY <1>2, <1>7, PlansReturn DEF HandlerDone
<1>8. CASE ReservationExpires(h)
  BY <1>2, <1>8, PlansKept DEF ReservationExpires
<1> QED
  BY <1>3, <1>4, <1>5, <1>6, <1>7, <1>8

LEMMA Others ==
  ASSUME IInv,
         \/ \E r \in Recoverers, k \in Keys : ClaimBillingRecovery(r, k)
         \/ \E k \in Keys : CleanupUsageBillingDedup(k)
         \/ SetBalanceCache \/ CacheExpires
         \/ \E w \in Workers : Crash(w)
  PROVE  Plans' /\ Books'
<1> USE DEF IInv
<1>1. ASSUME NEW r \in Recoverers, NEW k \in Keys, ClaimBillingRecovery(r, k) PROVE Plans' /\ Books'
  <2>1. UNCHANGED Written
    BY <1>1 DEF ClaimBillingRecovery, Written, intents, claims, money, cache
  <2>2. command[k] # 0
    BY <1>1 DEF ClaimBillingRecovery, Recoverable, Books, Frozen
  <2>3. Plans'
    BY <1>1, <2>1, <2>2 DEF ClaimBillingRecovery, Plans, TypeOK, Written, Workers
  <2> QED
    BY <2>1, <2>3, BooksUnwritten
<1>2. ASSUME NEW k \in Keys, CleanupUsageBillingDedup(k) PROVE Plans' /\ Books'
  <2>1. /\ UNCHANGED <<state, command, cachePending, paidBefore, charged, usage, unseen, pc, key, cost>>
        /\ dedup[k] # 0 /\ dedup' = [dedup EXCEPT ![k] = 0]
        /\ archive' = [archive EXCEPT ![k] = IF archive[k] = 0 THEN dedup[k] ELSE archive[k]]
    BY <1>2 DEF CleanupUsageBillingDedup, intents, money, cache
  <2>2. Plans'
    BY <2>1, PlansKept DEF Kept
  <2>3. \A j \in Keys : Claimed(j)' = Claimed(j)
    BY <2>1 DEF Claimed, TypeOK, Books, Archived
  <2>4. Frozen' /\ ChargedOnceAsFrozen' /\ CheckpointIsHonest'
    BY <2>1 DEF Books, Frozen, ChargedOnceAsFrozen, CheckpointIsHonest
  <2>5. Archived'
    BY <2>1 DEF Books, Archived, TypeOK
  <2>6. ClaimsArePaid' /\ SettledIsPaid'
    BY <2>1, <2>3 DEF Books, ClaimsArePaid, SettledIsPaid
  <2> QED
    BY <2>2, <2>4, <2>5, <2>6 DEF Books
<1>3. CASE SetBalanceCache \/ CacheExpires
  <2>1. UNCHANGED Written /\ UNCHANGED <<pc, key, cost>>
    BY <1>3 DEF SetBalanceCache, CacheExpires, Written, intents, claims, money, cache
  <2> QED
    BY <2>1, UnwrittenIsKept, PlansKept, BooksUnwritten
<1>4. ASSUME NEW w \in Workers, Crash(w) PROVE Plans' /\ Books'
  <2>1. UNCHANGED Written /\ Return(w)
    BY <1>4 DEF Crash, Written, intents, claims, money, cache
  <2> QED
    BY <2>1, UnwrittenIsKept, PlansReturn, BooksUnwritten
<1> QED
  BY <1>1, <1>2, <1>3, <1>4

-----------------------------------------------------------------------------
(* The books: the steps of Apply. *)

LEMMA PersistKeepsBooks ==
  ASSUME TypeOK, Books, NEW k \in Keys, NEW c \in Costs \cup {0}, c # 0, Persist(k, c),
         UNCHANGED <<claims, money, cache>>
  PROVE  Books' /\ Kept /\ command'[k] # 0
<1>1. CASE command[k] # 0
  <2>1. UNCHANGED Written
    BY <1>1 DEF Persist, Written, intents, claims, money, cache
  <2> QED
    BY <1>1, <2>1, BooksUnwritten, UnwrittenIsKept DEF Written
<1>2. CASE command[k] = 0
  <2>1. /\ state' = [state EXCEPT ![k] = "pending"] /\ command' = [command EXCEPT ![k] = c]
        /\ cachePending' = [cachePending EXCEPT ![k] = TRUE]
        /\ UNCHANGED <<dedup, archive, paidBefore, charged, usage, unseen>>
    BY <1>2 DEF Persist, claims, money, cache
  <2>2. state[k] = "none" /\ charged[k] = 0
    BY <1>2 DEF Books, Frozen, ChargedOnceAsFrozen
  <2>3. Frozen'
    BY <2>1 DEF Books, Frozen, TypeOK
  <2>4. Archived' /\ ClaimsArePaid'
    BY <2>1 DEF Books, Archived, ClaimsArePaid, Claimed
  <2>5. ChargedOnceAsFrozen'
    BY <2>1, <2>2 DEF Books, ChargedOnceAsFrozen, TypeOK
  <2>6. SettledIsPaid' /\ CheckpointIsHonest'
    BY <2>1 DEF Books, SettledIsPaid, CheckpointIsHonest, Claimed, TypeOK
  <2>7. Kept /\ command'[k] # 0
    BY <1>2, <2>1, <2>2 DEF Kept, TypeOK
  <2> QED
    BY <2>3, <2>4, <2>5, <2>6, <2>7 DEF Books
<1> QED
  BY <1>1, <1>2

\* The transaction takes the money of a key once: a key that was charged is
\* settled, a settled key is claimed, and a claimed key is not charged.
LEMMA SettleKeepsBooks ==
  ASSUME TypeOK, Books, NEW w \in Workers, Settle(w), Settleable(w),
         cost[w] # 0, command[key[w]] = cost[w]
  PROVE  /\ Books'
         /\ UNCHANGED command
         /\ \A j \in Keys : state[j] = "settled" => state'[j] = "settled"
         /\ state'[key[w]] = "settled"
         /\ \A j \in Keys : j \in unseen' \ unseen => state[j] # "settled"
<1> DEFINE k == key[w]  c == cost[w]
<1>0. k \in Keys /\ c \in Costs \cup {0} /\ c # 0 /\ command[k] = c
  BY DEF TypeOK
<1>1. /\ dedup' = [dedup EXCEPT ![k] = c] /\ usage' = [usage EXCEPT ![k] = c]
      /\ state' = [state EXCEPT ![k] = "settled"]
      /\ UNCHANGED <<command, cachePending, archive, paidBefore>>
  BY DEF Settle
<1>2. \/ Claimed(k) = 0 /\ charged' = [charged EXCEPT ![k] = charged[k] + c] /\ unseen' = unseen \cup {k}
      \/ Claimed(k) = c /\ UNCHANGED <<charged, unseen>>
  BY <1>0 DEF Settle, Settleable
<1>3. Claimed(k) = 0 => state[k] # "settled" /\ charged[k] = 0
  BY <1>0 DEF Books, SettledIsPaid, ChargedOnceAsFrozen
<1>4. \/ Claimed(k) = 0 /\ charged' = [charged EXCEPT ![k] = c] /\ unseen' = unseen \cup {k}
      \/ Claimed(k) = c /\ UNCHANGED <<charged, unseen>>
  <2>1. c \in Nat
    BY <1>0, CostsAssumption
  <2> QED
    BY <1>2, <1>3, <2>1
<1>5. \A j \in Keys : Claimed(j)' = IF j = k THEN c ELSE Claimed(j)
  BY <1>0, <1>1 DEF Claimed, TypeOK
<1>6. Claimed(k) # 0 /\ k \notin paidBefore => charged[k] = c
  BY <1>0 DEF Books, ClaimsArePaid, ChargedOnceAsFrozen
<1>7. Frozen'
  BY <1>0, <1>1 DEF Books, Frozen, TypeOK
<1>8. Archived'
  <2>1. archive[k] \in {0, c}
    BY <1>0, <1>4 DEF Books, Archived, Claimed, TypeOK
  <2> QED
    BY <1>0, <1>1, <2>1 DEF Books, Archived, TypeOK
<1>9. ClaimsArePaid'
  BY <1>0, <1>1, <1>4, <1>5, <1>6 DEF Books, ClaimsArePaid, TypeOK
<1>10. ChargedOnceAsFrozen'
  BY <1>0, <1>1, <1>4 DEF Books, ChargedOnceAsFrozen, TypeOK
<1>11. SettledIsPaid'
  <2> SUFFICES ASSUME NEW j \in Keys, state'[j] = "settled"
               PROVE  /\ Claimed(j)' = command'[j] /\ usage'[j] = command'[j]
                      /\ j \notin paidBefore' => charged'[j] = command'[j]
    BY DEF SettledIsPaid
  <2>1. CASE j = k
    BY <1>0, <1>1, <1>4, <1>5, <1>6, <2>1 DEF TypeOK
  <2>2. CASE j # k
    <3>1. state[j] = "settled" /\ charged'[j] = charged[j] /\ usage'[j] = usage[j] /\ Claimed(j)' = Claimed(j)
      BY <1>0, <1>1, <1>4, <1>5, <2>2 DEF TypeOK
    <3> QED
      BY <1>1, <3>1 DEF Books, SettledIsPaid
  <2> QED
    BY <2>1, <2>2
<1>12. CheckpointIsHonest'
  <2>1. \A j \in Keys : state[j] = "settled" /\ ~cachePending[j] => j \notin unseen
    BY DEF Books, CheckpointIsHonest
  <2>2. ~cachePending[k] => state[k] = "settled"
    BY <1>0 DEF Books, Frozen, TypeOK, States
  <2> QED
    BY <1>0, <1>1, <1>3, <1>4, <2>1, <2>2 DEF CheckpointIsHonest, TypeOK
<1>13. /\ \A j \in Keys : state[j] = "settled" => state'[j] = "settled"
       /\ state'[k] = "settled"
       /\ \A j \in Keys : j \in unseen' \ unseen => state[j] # "settled"
  BY <1>0, <1>1, <1>3, <1>4 DEF TypeOK
<1> QED
  BY <1>1, <1>7, <1>8, <1>9, <1>10, <1>11, <1>12, <1>13 DEF Books

LEMMA ApplyKeeps ==
  ASSUME IInv, NEW w \in Workers, Apply(w)
  PROVE  Plans' /\ Books'
<1> USE DEF IInv
<1> DEFINE k == key[w]  c == cost[w]
<1>0. k \in Keys /\ c \in Costs \cup {0}
  BY DEF TypeOK
<1>1. CASE PrepareBillingIntent(w)
  <2>1. /\ pc[w] # "idle" /\ c # 0
        /\ UNCHANGED <<claims, money, cache>>
        /\ \/ Persist(k, c) /\ command'[k] = c /\ Goto(w, "settle")
           \/ Persist(k, c) /\ Finish(w)
           \/ UNCHANGED intents /\ Finish(w)
    BY <1>1 DEF PrepareBillingIntent, At, Plans
  <2>2. Persist(k, c) => Books' /\ Kept
    BY <1>0, <2>1, PersistKeepsBooks
  <2>3. UNCHANGED intents => Books' /\ Kept
    BY <2>1, BooksUnwritten, UnwrittenIsKept DEF Written, intents, claims, money, cache
  <2>4. CASE Persist(k, c) /\ command'[k] = c /\ Goto(w, "settle")
    <3>1. Plans'
      BY <2>1, <2>2, <2>4 DEF Plans, Goto, Kept, TypeOK
    <3> QED
      BY <2>2, <2>4, <3>1
  <2>5. CASE Finish(w)
    BY <2>1, <2>2, <2>3, <2>5, PlansFinish
  <2> QED
    BY <2>1, <2>4, <2>5
<1>2. CASE ApplySettlement(w)
  <2>1. /\ pc[w] = "settle" /\ c # 0 /\ command[k] = c
        /\ \/ Settleable(w) /\ Settle(w) /\ (Goto(w, "drop") \/ Goto(w, "retry"))
           \/ UNCHANGED <<intents, claims, money, cache>> /\ (Goto(w, "review") \/ Goto(w, "retry"))
    BY <1>2 DEF ApplySettlement, At, Plans
  <2>2. CASE Settleable(w) /\ Settle(w) /\ (Goto(w, "drop") \/ Goto(w, "retry"))
    <3>1. /\ Books'
          /\ UNCHANGED command
          /\ \A j \in Keys : state[j] = "settled" => state'[j] = "settled"
          /\ state'[k] = "settled"
          /\ \A j \in Keys : j \in unseen' \ unseen => state[j] # "settled"
      BY <2>1, <2>2, SettleKeepsBooks
    <3>2. /\ pc'[w] \in {"drop", "retry"} /\ UNCHANGED <<key, cost>>
          /\ \A v \in Workers : v # w => pc'[v] = pc[v]
      BY <2>2 DEF Goto, TypeOK
    <3>3. Plans'
      BY <2>1, <3>1, <3>2 DEF Plans, TypeOK
    <3> QED
      BY <3>1, <3>3
  <2>3. CASE UNCHANGED <<intents, claims, money, cache>> /\ (Goto(w, "review") \/ Goto(w, "retry"))
    <3>1. UNCHANGED Written
      BY <2>3 DEF Written, intents, claims, money, cache
    <3>2. Plans'
      BY <2>1, <2>3, <3>1 DEF Plans, Goto, TypeOK, Written
    <3> QED
      BY <3>1, <3>2, BooksUnwritten
  <2> QED
    BY <2>1, <2>2, <2>3
<1>3. CASE RecordBillingIntentFailure(w)
  <2>1. /\ pc[w] # "idle" /\ Finish(w)
        /\ UNCHANGED <<command, cachePending, dedup, archive, paidBefore, charged, usage, unseen>>
    BY <1>3 DEF RecordBillingIntentFailure, At, claims, money, cache
  <2>2. \/ UNCHANGED state
        \/ state[k] = "pending" /\ \E s \in {"pending", "review"} : state' = [state EXCEPT ![k] = s]
    BY <1>3 DEF RecordBillingIntentFailure, RecordIfPending
  <2>3. CASE UNCHANGED state
    BY <2>1, <2>3, BooksUnwritten, UnwrittenIsKept, PlansFinish DEF Written
  <2>4. CASE state[k] = "pending" /\ \E s \in {"pending", "review"} : state' = [state EXCEPT ![k] = s]
    <3>1. Kept
      BY <1>0, <2>1, <2>4 DEF Kept, TypeOK
    <3>2. \A j \in Keys : \/ state'[j] = state[j]
                          \/ state[j] = "pending" /\ state'[j] \in {"pending", "review"}
      BY <1>0, <2>4 DEF TypeOK
    <3>3. Frozen' /\ Archived' /\ ClaimsArePaid'
      BY <2>1, <3>2 DEF Books, Frozen, Archived, ClaimsArePaid, Claimed
    <3>4. ChargedOnceAsFrozen' /\ SettledIsPaid' /\ CheckpointIsHonest'
      BY <2>1, <3>2 DEF Books, ChargedOnceAsFrozen, SettledIsPaid, CheckpointIsHonest, Claimed
    <3> QED
      BY <2>1, <3>1, <3>3, <3>4, PlansFinish DEF Books
  <2> QED
    BY <2>2, <2>3, <2>4
<1>4. CASE InvalidateCaches(w)
  <2>1. /\ pc[w] = "drop"
        /\ UNCHANGED <<state, command, cachePending, dedup, archive, paidBefore, charged, usage>>
        /\ \/ unseen' = unseen \ {k} /\ Goto(w, "complete")
           \/ unseen' = unseen /\ Finish(w)
    BY <1>4 DEF InvalidateCaches, At, intents, claims, money
  <2>2. Kept
    BY <2>1 DEF Kept
  <2>3. Books'
    <3>1. Frozen' /\ Archived' /\ ClaimsArePaid' /\ ChargedOnceAsFrozen' /\ SettledIsPaid'
      BY <2>1 DEF Books, Frozen, Archived, ClaimsArePaid, ChargedOnceAsFrozen, SettledIsPaid, Claimed
    <3>2. CheckpointIsHonest'
      BY <2>1 DEF Books, CheckpointIsHonest
    <3> QED
      BY <3>1, <3>2 DEF Books
  <2>4. CASE unseen' = unseen \ {k} /\ Goto(w, "complete")
    <3>1. Plans'
      BY <2>1, <2>4 DEF Plans, Goto, TypeOK
    <3> QED
      BY <2>3, <3>1
  <2>5. CASE Finish(w)
    BY <2>1, <2>2, <2>3, <2>5, PlansFinish
  <2> QED
    BY <2>1, <2>4, <2>5
<1>5. CASE CompleteBillingCacheInvalidation(w)
  <2>1. /\ pc[w] = "complete" /\ Finish(w)
        /\ UNCHANGED <<state, command, dedup, archive, paidBefore, charged, usage, unseen>>
    BY <1>5 DEF CompleteBillingCacheInvalidation, At, claims, money, cache
  <2>2. state[k] = "settled" /\ k \notin unseen
    BY <2>1 DEF Plans
  <2>3. \A j \in Keys : j # k => cachePending'[j] = cachePending[j]
    BY <1>5, <1>0 DEF CompleteBillingCacheInvalidation, TypeOK
  <2>4. Frozen' /\ Archived' /\ ClaimsArePaid'
    BY <2>1, <2>2, <2>3 DEF Books, Frozen, Archived, ClaimsArePaid, Claimed
  <2>5. ChargedOnceAsFrozen' /\ SettledIsPaid' /\ CheckpointIsHonest'
    BY <2>1, <2>2, <2>3 DEF Books, ChargedOnceAsFrozen, SettledIsPaid, CheckpointIsHonest, Claimed
  <2>6. Kept
    BY <2>1 DEF Kept
  <2> QED
    BY <2>1, <2>4, <2>5, <2>6, PlansFinish DEF Books
<1> QED
  BY <1>1, <1>2, <1>3, <1>4, <1>5 DEF Apply

-----------------------------------------------------------------------------
(* The theorems. *)

LEMMA InitInv == Init => IInv
<1> SUFFICES ASSUME Init PROVE IInv
  OBVIOUS
<1>1. TypeOK
  BY InitType
<1>2. Plans
  BY DEF Init, Plans
<1>3. Frozen /\ Archived /\ ClaimsArePaid
  BY DEF Init, Frozen, Archived, ClaimsArePaid, Claimed
<1>4. ChargedOnceAsFrozen /\ SettledIsPaid /\ CheckpointIsHonest
  BY DEF Init, ChargedOnceAsFrozen, SettledIsPaid, CheckpointIsHonest
<1> QED
  BY <1>1, <1>2, <1>3, <1>4 DEF IInv, Books

LEMMA StepInv == ASSUME IInv, [Next]_vars PROVE IInv'
<1>1. TypeOK'
  BY TypeStep DEF IInv
<1>2. Plans' /\ Books'
  <2>1. ASSUME NEW h \in Handlers, Handle(h) \/ ReservationExpires(h) PROVE Plans' /\ Books'
    BY <2>1, Admission, ApplyKeeps DEF Handle, Workers
  <2>2. ASSUME NEW r \in Recoverers, Recover(r) PROVE Plans' /\ Books'
    BY <2>2, Others, ApplyKeeps DEF Recover, Workers
  <2>3. CASE UNCHANGED vars
    BY <2>3, UnwrittenIsKept, PlansKept, BooksUnwritten DEF IInv, Written, vars, intents, claims, money, cache
  <2> QED
    BY <2>1, <2>2, <2>3, Others DEF Next
<1> QED
  BY <1>1, <1>2 DEF IInv

LEMMA Invariance == Spec => []IInv
  BY InitInv, StepInv, PTL DEF Spec

\* Every variable of usage billing keeps its type, for any constants.
THEOREM UsageTypeCorrect == Spec => []TypeOK
  BY Invariance, PTL DEF IInv

\* No interleaving of handlers, recovery services, archiving and failures of
\* Apply charges a request twice, or with another price than the one persisted
\* first for its key.
THEOREM UsageIsChargedOnce == Spec => []ChargedOnceAsFrozen
  BY Invariance, PTL DEF IInv, Books

\* What lockBillingIntent finds settled was paid for.
THEOREM SettledUsageIsPaid == Spec => []SettledIsPaid
  BY Invariance, PTL DEF IInv, Books

\* cache_pending is cleared only after the cached balance was dropped, also
\* when recovery services and handlers settle the same intent.
THEOREM CheckpointIsSafe == Spec => []CheckpointIsHonest
  BY Invariance, PTL DEF IInv, Books

-----------------------------------------------------------------------------
(* Steps: what is settled stays settled, and the ledger is implemented. *)

LEMMA StepsOutsideApply ==
  ASSUME [Next]_vars, \A w \in Workers : ~Apply(w)
  PROVE  UNCHANGED <<state, command, charged, balance>>
<1> USE DEF intents, claims, money
<1>1. ASSUME NEW h \in Handlers, Handle(h) \/ ReservationExpires(h)
      PROVE  UNCHANGED <<state, command, charged, balance>>
  BY <1>1 DEF Handle, Workers, Begin, GetUserBalance, ReserveInflight, HoldEstimate, Forward, HandlerDone,
              ReservationExpires
<1>2. ASSUME NEW r \in Recoverers, Recover(r)
      PROVE  UNCHANGED <<state, command, charged, balance>>
  BY <1>2 DEF Recover, Workers, ClaimBillingRecovery
<1>3. CASE \/ \E w \in Workers : Crash(w)
           \/ \E k \in Keys : CleanupUsageBillingDedup(k)
           \/ SetBalanceCache \/ CacheExpires
  BY <1>3 DEF Crash, CleanupUsageBillingDedup, SetBalanceCache, CacheExpires
<1>4. CASE UNCHANGED vars
  BY <1>4 DEF vars
<1> QED
  BY <1>1, <1>2, <1>3, <1>4 DEF Next

\* A step of Apply is a step of the ledger or none, and leaves settled intents
\* settled.
LEMMA StepsOfApply ==
  ASSUME IInv, NEW w \in Workers, Apply(w)
  PROVE  /\ \A k \in Keys : state[k] = "settled" => state'[k] = "settled"
         /\ Ledger!Next \/ UNCHANGED <<command, charged, balance>>
<1> USE DEF IInv
<1> DEFINE k == key[w]  c == cost[w]
<1>0. k \in Keys /\ c \in Costs \cup {0}
  BY DEF TypeOK
<1>1. CASE PrepareBillingIntent(w)
  <2>1. /\ c # 0 /\ UNCHANGED <<charged, balance>>
        /\ Persist(k, c) \/ UNCHANGED intents
    BY <1>1 DEF PrepareBillingIntent, At, Plans, money
  <2>2. CASE Persist(k, c) /\ command[k] = 0
    <3>1. /\ state' = [state EXCEPT ![k] = "pending"] /\ command' = [command EXCEPT ![k] = c]
          /\ state[k] = "none"
      BY <1>0, <2>2 DEF Persist, Books, Frozen
    <3>2. Ledger!Fix(k)
      BY <1>0, <2>1, <2>2, <3>1 DEF Ledger!Fix
    <3> QED
      BY <1>0, <3>1, <3>2 DEF Ledger!Next, TypeOK
  <2>3. CASE UNCHANGED intents
    BY <2>1, <2>3 DEF intents
  <2> QED
    BY <2>1, <2>2, <2>3 DEF Persist
<1>2. CASE ApplySettlement(w)
  <2>1. /\ c # 0 /\ command[k] = c
        /\ (Settleable(w) /\ Settle(w)) \/ UNCHANGED <<intents, claims, money, cache>>
    BY <1>2 DEF ApplySettlement, At, Plans
  <2>2. CASE Settleable(w) /\ Settle(w)
    <3>1. /\ UNCHANGED command
          /\ \A j \in Keys : state[j] = "settled" => state'[j] = "settled"
      BY <2>1, <2>2, SettleKeepsBooks
    <3>2. CASE Claimed(k) = 0
      <4>1. /\ balance' = balance - c /\ charged' = [charged EXCEPT ![k] = charged[k] + c]
        BY <2>2, <3>2 DEF Settle
      <4>2. charged[k] = 0
        BY <1>0, <2>1, <3>2 DEF Books, SettledIsPaid, ChargedOnceAsFrozen
      <4>3. charged' = [charged EXCEPT ![k] = c]
        <5>1. c \in Costs
          BY <1>0, <2>1
        <5>2. c \in Nat
          BY <5>1, CostsAssumption
        <5>3. 0 + c = c
          BY <5>2
        <5> QED
          BY <4>1, <4>2, <5>3
      <4>4. Ledger!Charge(k)
        BY <2>1, <3>1, <4>1, <4>2, <4>3 DEF Ledger!Charge
      <4> QED
        BY <1>0, <3>1, <4>4 DEF Ledger!Next
    <3>3. CASE Claimed(k) # 0
      BY <2>2, <3>1, <3>3 DEF Settle
    <3> QED
      BY <3>2, <3>3
  <2>3. CASE UNCHANGED <<intents, claims, money, cache>>
    BY <2>3 DEF intents, money
  <2> QED
    BY <2>1, <2>2, <2>3
<1>3. CASE RecordBillingIntentFailure(w)
  <2>1. UNCHANGED <<command, charged, balance>>
    BY <1>3 DEF RecordBillingIntentFailure, money
  <2>2. \/ UNCHANGED state
        \/ state[k] = "pending" /\ \E s \in {"pending", "review"} : state' = [state EXCEPT ![k] = s]
    BY <1>3 DEF RecordBillingIntentFailure, RecordIfPending
  <2> QED
    BY <1>0, <2>1, <2>2 DEF TypeOK
<1>4. CASE InvalidateCaches(w)
  BY <1>4 DEF InvalidateCaches, intents, money
<1>5. CASE CompleteBillingCacheInvalidation(w)
  BY <1>5 DEF CompleteBillingCacheInvalidation, money
<1> QED
  BY <1>1, <1>2, <1>3, <1>4, <1>5 DEF Apply

\* A failure that recordBillingIntentFailure writes late, and every other step,
\* leaves a settled intent settled.
THEOREM SettledUsageIsFinal == Spec => SettledIsFinal
<1>1. IInv /\ [Next]_vars => [\A k \in Keys : state[k] = "settled" => state'[k] = "settled"]_vars
  BY StepsOfApply, StepsOutsideApply
<1> QED
  BY <1>1, Invariance, PTL DEF Spec, SettledIsFinal

\* Usage billing implements the ledger in which a price is fixed once and paid
\* once: intents, claims and recovery are details of it.
THEOREM UsageBillingImplementsLedger == Spec => ImplementsUsageLedger
<1>1. Init => Ledger!Init
  BY BoundsAssumption DEF Init, Ledger!Init
<1>2. IInv /\ [Next]_vars => [Ledger!Next]_<<command, charged, balance>>
  BY StepsOfApply, StepsOutsideApply
<1>3. <<command, charged, balance>> = Ledger!ledger
  BY DEF Ledger!ledger
<1> QED
  BY <1>1, <1>2, <1>3, Invariance, PTL DEF Spec, ImplementsUsageLedger, Ledger!Spec, Ledger!ledger

-----------------------------------------------------------------------------
(* Sums.  MapThenSumSet is a recursive function over subsets; that it adds *)
(* up is an induction over them, here as a smallest counterexample.        *)

\* G adds up f over the subsets of S.
AddsUp(G, f, S) ==
  /\ G \in [SUBSET S -> Nat]
  /\ G[{}] = 0
  /\ \A s \in SUBSET S : \A x \in s : G[s] = G[s \ {x}] + f[x]

\* There is such a function for every finite set.
LEMMA SumExists ==
  ASSUME NEW S, IsFiniteSet(S), NEW f \in [S -> Nat]
  PROVE  \E G : AddsUp(G, f, S)
<1> DEFINE T == {s \in SUBSET S : ~\E G : AddsUp(G, f, s)}
<1> SUFFICES ASSUME T # {} PROVE FALSE
  OBVIOUS
<1>1. SUBSET S = FiniteSubsetsOf(S)
  BY FS_Subset DEF FiniteSubsetsOf
<1>2. PICK s \in T : \A t \in T : <<t, s>> \notin StrictSubsetOrdering(S)
  <2>1. IsWellFoundedOn(StrictSubsetOrdering(S), SUBSET S)
    BY <1>1, FS_StrictSubsetOrderingWellFounded
  <2>2. T \subseteq SUBSET S
    OBVIOUS
  <2> HIDE DEF T
  <2> QED
    BY <2>1, <2>2, WFMin
<1>3. s # {}
  <2>1. AddsUp([t \in SUBSET {} |-> 0], f, {})
    BY DEF AddsUp
  <2> QED
    BY <2>1
<1>4. PICK x \in s : TRUE
  BY <1>3
<1>5. PICK G : AddsUp(G, f, s \ {x})
  <2>1. s \ {x} \in SUBSET S /\ s \ {x} # s
    BY <1>4
  <2>2. <<s \ {x}, s>> \in StrictSubsetOrdering(S)
    BY <2>1 DEF StrictSubsetOrdering
  <2> QED
    BY <1>2, <2>1, <2>2
<1> DEFINE H == [t \in SUBSET s |-> IF x \in t THEN G[t \ {x}] + f[x] ELSE G[t]]
<1>6. AddsUp(H, f, s)
  <2>1. H \in [SUBSET s -> Nat] /\ H[{}] = 0
    BY <1>5 DEF AddsUp
  <2>2. ASSUME NEW t \in SUBSET s, NEW y \in t PROVE H[t] = H[t \ {y}] + f[y]
    <3>1. t \ {y} \in SUBSET s
      OBVIOUS
    <3>2. CASE y = x
      <4>1. x \in t /\ x \notin t \ {y} /\ t \ {y} = t \ {x}
        BY <3>2
      <4> QED
        BY <3>1, <3>2, <4>1
    <3>3. CASE y # x /\ x \notin t
      <4>1. t \in SUBSET (s \ {x}) /\ x \notin t \ {y}
        BY <3>3
      <4> QED
        BY <3>1, <3>3, <4>1, <1>5 DEF AddsUp
    <3>4. CASE y # x /\ x \in t
      <4>1. /\ t \ {x} \in SUBSET (s \ {x}) /\ y \in t \ {x} /\ x \in t \ {y}
            /\ (t \ {x}) \ {y} = (t \ {y}) \ {x}
        BY <3>4
      <4>2. G[t \ {x}] = G[(t \ {x}) \ {y}] + f[y]
        BY <4>1, <1>5 DEF AddsUp
      <4>3. G[(t \ {x}) \ {y}] \in Nat /\ f[x] \in Nat /\ f[y] \in Nat
        BY <4>1, <1>5 DEF AddsUp
      <4>4. H[t] = G[t \ {x}] + f[x] /\ H[t \ {y}] = G[(t \ {y}) \ {x}] + f[x]
        BY <3>1, <3>4, <4>1
      <4>5. G[(t \ {y}) \ {x}] = G[(t \ {x}) \ {y}]
        BY <4>1
      <4> HIDE DEF H
      <4> QED
        BY <4>2, <4>3, <4>4, <4>5
    <3> QED
      BY <3>2, <3>3, <3>4
  <2> QED
    BY <2>1, <2>2 DEF AddsUp
<1> QED
  BY <1>2, <1>6

\* The sum of f over S.
Total(f, S) == MapThenSumSet(LAMBDA x : f[x], S)

\* MapThenSumSet computes it.
LEMMA SumIsTotal ==
  ASSUME NEW S, IsFiniteSet(S), NEW f \in [S -> Nat], NEW G, AddsUp(G, f, S)
  PROVE  Total(f, S) = G[S]
<1> DEFINE Pick(s) == CHOOSE x \in s : TRUE
<1> DEFINE Rec(g) == [s \in SUBSET S |-> IF s = {} THEN 0 ELSE f[Pick(s)] + g[s \ {Pick(s)}]]
<1> DEFINE Iter == CHOOSE g : g = Rec(g)
<1>1. Total(f, S) = Iter[S]
  BY DEF Total, MapThenSumSet, MapThenFoldSet
<1>2. G = Rec(G)
  <2>1. ASSUME NEW s \in SUBSET S, s # {}
        PROVE  G[s] = f[Pick(s)] + G[s \ {Pick(s)}]
    <3>1. Pick(s) \in s
      BY <2>1
    <3>2. G[s \ {Pick(s)}] \in Nat /\ f[Pick(s)] \in Nat
      BY <3>1 DEF AddsUp
    <3>3. G[s] = G[s \ {Pick(s)}] + f[Pick(s)]
      BY <3>1 DEF AddsUp
    <3> HIDE DEF Pick
    <3> QED
      BY <3>2, <3>3
  <2> HIDE DEF Pick
  <2> QED
    BY <2>1 DEF AddsUp
<1>3. Iter = Rec(Iter)
  <2> HIDE DEF Rec
  <2> QED
    BY <1>2
<1> HIDE DEF Iter
<1> DEFINE T == {s \in SUBSET S : Iter[s] # G[s]}
<1>4. ASSUME T # {} PROVE FALSE
  <2>1. SUBSET S = FiniteSubsetsOf(S)
    BY FS_Subset DEF FiniteSubsetsOf
  <2>2. IsWellFoundedOn(StrictSubsetOrdering(S), SUBSET S)
    BY <2>1, FS_StrictSubsetOrderingWellFounded
  <2>3. T \subseteq SUBSET S
    OBVIOUS
  <2>4. PICK s \in T : \A t \in T : <<t, s>> \notin StrictSubsetOrdering(S)
    <3> HIDE DEF T
    <3> QED
      BY <1>4, <2>2, <2>3, WFMin
  <2>5. s # {}
    <3>1. Iter[{}] = 0
      BY <1>3
    <3> QED
      BY <3>1 DEF AddsUp
  <2>6. Pick(s) \in s /\ s \ {Pick(s)} \in SUBSET S /\ s \ {Pick(s)} # s
    BY <2>5
  <2>7. <<s \ {Pick(s)}, s>> \in StrictSubsetOrdering(S)
    BY <2>6 DEF StrictSubsetOrdering
  <2>8. Iter[s \ {Pick(s)}] = G[s \ {Pick(s)}]
    BY <2>4, <2>6, <2>7
  <2>9. Iter[s] = f[Pick(s)] + Iter[s \ {Pick(s)}]
    <3> HIDE DEF Pick
    <3> QED
      BY <1>3, <2>5
  <2>10. G[s] = f[Pick(s)] + G[s \ {Pick(s)}]
    <3> HIDE DEF Pick
    <3> QED
      BY <1>2, <2>5
  <2> QED
    BY <2>8, <2>9, <2>10
<1> QED
  BY <1>1, <1>4

\* A sum of natural numbers is one.
LEMMA TotalIsNat ==
  ASSUME NEW S, IsFiniteSet(S), NEW f \in [S -> Nat]
  PROVE  Total(f, S) \in Nat
<1>1. PICK G : AddsUp(G, f, S)
  BY SumExists
<1>2. Total(f, S) = G[S]
  BY <1>1, SumIsTotal
<1> QED
  BY <1>1, <1>2 DEF AddsUp

\* A change at one element changes the total by the same.
LEMMA TotalExcept ==
  ASSUME NEW S, IsFiniteSet(S), NEW f \in [S -> Nat], NEW w \in S,
         NEW g \in [S -> Nat], \A x \in S \ {w} : g[x] = f[x]
  PROVE  /\ Total(g, S) = Total(f, S) - f[w] + g[w]
         /\ f[w] <= Total(f, S)
<1>1. PICK G : AddsUp(G, f, S)
  BY SumExists
<1> DEFINE H == [s \in SUBSET S |-> IF w \in s THEN G[s \ {w}] + g[w] ELSE G[s]]
<1>2. AddsUp(H, g, S)
  <2>1. H \in [SUBSET S -> Nat] /\ H[{}] = 0
    BY <1>1 DEF AddsUp
  <2>2. ASSUME NEW t \in SUBSET S, NEW y \in t PROVE H[t] = H[t \ {y}] + g[y]
    <3>1. t \ {y} \in SUBSET S /\ t \ {w} \in SUBSET S
      OBVIOUS
    <3>2. CASE y = w
      <4>1. w \in t /\ w \notin t \ {y} /\ t \ {y} = t \ {w} 
        BY <3>2
      <4> QED
        BY <3>1, <4>1
    <3>3. CASE y # w /\ w \notin t
      <4>1. w \notin t \ {y} /\ g[y] = f[y] /\ G[t] = G[t \ {y}] + f[y]
        BY <3>3, <1>1 DEF AddsUp
      <4> QED
        BY <3>1, <3>3, <4>1
    <3>4. CASE y # w /\ w \in t
      <4>1. w \in t \ {y} /\ y \in t \ {w} /\ g[y] = f[y] /\ (t \ {w}) \ {y} = (t \ {y}) \ {w}
        BY <3>4
      <4>2. G[t \ {w}] = G[(t \ {w}) \ {y}] + f[y]
        BY <3>1, <4>1, <1>1 DEF AddsUp
      <4>3. G[(t \ {w}) \ {y}] \in Nat /\ f[y] \in Nat
        BY <4>1, <1>1 DEF AddsUp
      <4>4. H[t] = G[t \ {w}] + g[w] /\ H[t \ {y}] = G[(t \ {y}) \ {w}] + g[w]
        BY <3>1, <3>4, <4>1
      <4>5. G[(t \ {y}) \ {w}] = G[(t \ {w}) \ {y}] /\ g[y] = f[y]
        BY <4>1
      <4> HIDE DEF H
      <4> QED
        BY <4>2, <4>3, <4>4, <4>5
    <3> QED
      BY <3>2, <3>3, <3>4
  <2> QED
    BY <2>1, <2>2 DEF AddsUp
<1>3. G[S] = G[S \ {w}] + f[w] /\ G[S \ {w}] \in Nat /\ G[S] \in Nat
  BY <1>1 DEF AddsUp
<1>4. H[S] = G[S \ {w}] + g[w]
  OBVIOUS
<1>5. Total(f, S) = G[S]
  BY <1>1, SumIsTotal
<1>6. Total(g, S) = H[S]
  <2> HIDE DEF H
  <2> QED
    BY <1>2, SumIsTotal
<1> HIDE DEF H
<1> QED
  BY <1>3, <1>4, <1>5, <1>6

-----------------------------------------------------------------------------
(* Reservations. *)

\* No handler goes by more than the balance the user had at the start, and the
\* reservations together are covered by it.
Covered ==
  /\ cached <= NoBalance /\ queued <= NoBalance
  /\ \A w \in Workers : seen[w] <= Initial
  /\ ReservedWithinBalance

\* Reserved is the total of the reservations.
LEMMA ReservedIsTotal ==
  /\ Reserved = Total(reserved, Handlers)
  /\ Reserved' = Total(reserved', Handlers)
  BY DEF Reserved, Total, MapThenSumSet, MapThenFoldSet

LEMMA ReservationsTyped ==
  ASSUME TypeOK
  PROVE  IsFiniteSet(Handlers) /\ reserved \in [Handlers -> Nat] /\ Reserved \in Nat
<1>1. reserved \in [Handlers -> Nat]
  <2>1. reserved \in [Handlers -> Costs \cup {0}] /\ Costs \cup {0} \subseteq Nat
    BY CostsAssumption DEF TypeOK
  <2> QED
    BY <2>1
<1> QED
  BY <1>1, WorkersAssumption, ReservedIsTotal, TotalIsNat

\* A reservation that is dropped or expires makes room.
LEMMA ReservedShrinks ==
  ASSUME TypeOK, NEW h \in Handlers, ReservedWithinBalance,
         reserved' = [reserved EXCEPT ![h] = 0] \/ UNCHANGED reserved
  PROVE  ReservedWithinBalance'
<1>1. CASE UNCHANGED reserved
  BY <1>1, ReservedIsTotal DEF ReservedWithinBalance
<1>2. CASE reserved' = [reserved EXCEPT ![h] = 0]
  <2>1. IsFiniteSet(Handlers) /\ reserved \in [Handlers -> Nat] /\ Total(reserved, Handlers) \in Nat
    BY ReservationsTyped, ReservedIsTotal
  <2>2. reserved' \in [Handlers -> Nat] /\ reserved'[h] = 0 /\ \A x \in Handlers \ {h} : reserved'[x] = reserved[x]
    BY <1>2, <2>1
  <2>3. Total(reserved', Handlers) = Total(reserved, Handlers) - reserved[h] + 0
    BY <2>1, <2>2, TotalExcept
  <2> QED
    BY <2>1, <2>2, <2>3, ReservedIsTotal, BoundsAssumption DEF ReservedWithinBalance
<1> QED
  BY <1>1, <1>2

\* The script lets in what the balance covers beside all other reservations.
LEMMA ReservedGrows ==
  ASSUME TypeOK, Covered, NEW h \in Handlers, HoldEstimate(h)
  PROVE  ReservedWithinBalance'
<1>1. h \in Workers /\ cost[h] \in Nat /\ seen[h] \in Int /\ seen[h] <= Initial
  <2>1. h \in Workers
    BY DEF Workers
  <2>2. cost[h] \in Costs \cup {0} /\ seen[h] \in Int
    BY <2>1 DEF TypeOK
  <2>3. cost[h] \in Nat
    <3>1. \A c \in Costs \cup {0} : c \in Nat
      BY CostsAssumption
    <3> QED
      BY <2>2, <3>1
  <2>4. \A w \in Workers : seen[w] <= Initial
    BY DEF Covered
  <2> QED
    BY <2>1, <2>2, <2>3, <2>4
<1>2. seen[h] - Reserved >= cost[h] /\ reserved' = [reserved EXCEPT ![h] = cost[h]]
  BY DEF HoldEstimate, Covers
<1>3. IsFiniteSet(Handlers) /\ reserved \in [Handlers -> Nat] /\ Total(reserved, Handlers) \in Nat
  BY ReservationsTyped, ReservedIsTotal
<1>4. /\ reserved' \in [Handlers -> Nat] /\ reserved'[h] = cost[h]
      /\ \A x \in Handlers \ {h} : reserved'[x] = reserved[x]
  BY <1>1, <1>2, <1>3
<1>5. Total(reserved', Handlers) = Total(reserved, Handlers) - reserved[h] + reserved'[h]
  BY <1>3, <1>4, TotalExcept
<1> QED
  BY <1>1, <1>2, <1>3, <1>4, <1>5, ReservedIsTotal, BoundsAssumption DEF ReservedWithinBalance

\* What a worker has seen stays, or is forgotten when it returns.
LEMMA SeenKept ==
  ASSUME TypeOK, Covered, NEW w \in Workers, UNCHANGED seen \/ Return(w)
  PROVE  \A v \in Workers : seen'[v] <= Initial
  BY BoundsAssumption DEF TypeOK, Covered, Return

LEMMA FinishKeepsSeen ==
  ASSUME NEW w \in Workers, Finish(w) PROVE UNCHANGED seen \/ Return(w)
  BY DEF Finish, Goto

\* The steps of billing leave reservations and the queue of the cache alone.
LEMMA ApplyKeepsAdmission ==
  ASSUME TypeOK, Covered, NEW w \in Workers, Apply(w)
  PROVE  Covered'
<1>1. UNCHANGED seen \/ Return(w)
  BY FinishKeepsSeen DEF Apply, PrepareBillingIntent, ApplySettlement, RecordBillingIntentFailure,
     InvalidateCaches, CompleteBillingCacheInvalidation, Goto
<1>2. UNCHANGED <<reserved, queued>> /\ cached' \in {cached, NoBalance}
  BY DEF Apply, PrepareBillingIntent, ApplySettlement, Settle, RecordBillingIntentFailure,
     InvalidateCaches, CompleteBillingCacheInvalidation, cache
<1>3. cached' <= NoBalance /\ queued' <= NoBalance
  BY <1>2, BoundsAssumption DEF TypeOK, Covered, NoBalance
<1>4. ReservedWithinBalance'
  BY <1>2, ReservedIsTotal DEF Covered, ReservedWithinBalance
<1> QED
  BY <1>1, <1>3, <1>4, SeenKept DEF Covered

\* Nor does any other step raise them but the reservation itself.
LEMMA HandleKeepsAdmission ==
  ASSUME TypeOK, Covered, NEW h \in Handlers, Handle(h) \/ ReservationExpires(h)
  PROVE  Covered'
<1> h \in Workers
  BY DEF Workers
<1>1. ASSUME NEW k \in Keys, NEW c \in Costs, Begin(h, k, c) PROVE Covered'
  BY <1>1, ReservedIsTotal DEF Begin, Covered, ReservedWithinBalance, cache
<1>2. CASE GetUserBalance(h)
  <2>1. \A v \in Workers : seen'[v] <= Initial
    BY <1>2, BoundsAssumption DEF GetUserBalance, TypeOK, Covered, NoBalance
  <2>2. cached' <= NoBalance /\ queued' <= NoBalance
    BY <1>2, BoundsAssumption DEF GetUserBalance, TypeOK, Covered, NoBalance
  <2>3. ReservedWithinBalance'
    BY <1>2, ReservedIsTotal DEF GetUserBalance, Covered, ReservedWithinBalance
  <2> QED
    BY <2>1, <2>2, <2>3 DEF Covered
<1>3. CASE ReserveInflight(h)
  <2>1. UNCHANGED <<cached, queued>> /\ (UNCHANGED seen \/ Return(h))
    BY <1>3 DEF ReserveInflight, Goto
  <2>2. ReservedWithinBalance'
    BY <1>3, ReservedGrows, ReservedShrinks DEF ReserveInflight, Covered
  <2> QED
    BY <2>1, <2>2, SeenKept DEF Covered, NoBalance
<1>4. CASE Forward(h)
  BY <1>4, ReservedIsTotal DEF Forward, Goto, Covered, ReservedWithinBalance, cache
<1>5. CASE HandlerDone(h)
  <2>1. UNCHANGED <<cached, queued>> /\ Return(h)
    BY <1>5 DEF HandlerDone
  <2>2. ReservedWithinBalance'
    BY <1>5, ReservedShrinks DEF HandlerDone, ReleaseInflight, Covered
  <2> QED
    BY <2>1, <2>2, SeenKept DEF Covered, NoBalance
<1>6. CASE ReservationExpires(h)
  <2>1. UNCHANGED <<cached, queued, seen>>
    BY <1>6 DEF ReservationExpires
  <2>2. ReservedWithinBalance'
    BY <1>6, ReservedShrinks DEF ReservationExpires, Covered
  <2> QED
    BY <2>1, <2>2 DEF Covered, NoBalance
<1> QED
  BY <1>1, <1>2, <1>3, <1>4, <1>5, <1>6, ApplyKeepsAdmission DEF Handle

LEMMA OthersKeepAdmission ==
  ASSUME TypeOK, Covered,
         \/ \E r \in Recoverers, k \in Keys : ClaimBillingRecovery(r, k)
         \/ \E k \in Keys : CleanupUsageBillingDedup(k)
         \/ SetBalanceCache \/ CacheExpires
         \/ \E w \in Workers : Crash(w)
         \/ UNCHANGED vars
  PROVE  Covered'
<1>1. UNCHANGED seen \/ \E w \in Workers : Return(w)
  BY DEF ClaimBillingRecovery, CleanupUsageBillingDedup, SetBalanceCache, CacheExpires,
     Crash, vars
<1>2. \A v \in Workers : seen'[v] <= Initial
  BY <1>1, SeenKept DEF Covered
<1>3. UNCHANGED reserved
  BY DEF ClaimBillingRecovery, CleanupUsageBillingDedup, SetBalanceCache, CacheExpires,
     Crash, vars, cache
<1>4. cached' \in {cached, queued, NoBalance} /\ queued' \in {queued, NoBalance}
  BY DEF ClaimBillingRecovery, CleanupUsageBillingDedup, SetBalanceCache, CacheExpires,
     Crash, vars, cache
<1>5. cached' <= NoBalance /\ queued' <= NoBalance
  BY <1>4, BoundsAssumption DEF TypeOK, Covered, NoBalance
<1>6. ReservedWithinBalance'
  BY <1>3, ReservedIsTotal DEF Covered, ReservedWithinBalance
<1> QED
  BY <1>2, <1>5, <1>6 DEF Covered

LEMMA InitAdmission == ASSUME Init PROVE Covered
<1>1. Total(reserved, Handlers) = 0
  <2> DEFINE G == [s \in SUBSET Handlers |-> 0]
  <2>1. reserved = [h \in Handlers |-> 0]
    BY DEF Init
  <2>2. AddsUp(G, reserved, Handlers)
    BY <2>1 DEF AddsUp
  <2>3. reserved \in [Handlers -> Nat]
    BY <2>1
  <2>4. G[Handlers] = 0
    OBVIOUS
  <2> HIDE DEF G
  <2> QED
    BY <2>2, <2>3, <2>4, SumIsTotal, WorkersAssumption
<1>2. Reserved = 0
  BY <1>1, ReservedIsTotal
<1>3. cached <= NoBalance /\ queued <= NoBalance /\ \A w \in Workers : seen[w] <= Initial
  BY BoundsAssumption DEF Init, NoBalance
<1> QED
  BY <1>2, <1>3, BoundsAssumption DEF Covered, ReservedWithinBalance

\* However many requests are admitted at once, and whatever they saw of the
\* balance, ReserveInflight never promises them together more than the user had.
THEOREM ReservationsAreCovered == Spec => []ReservedWithinBalance
<1>1. Init => Covered
  BY InitAdmission
<1>2. TypeOK /\ Covered /\ [Next]_vars => Covered'
  <2> SUFFICES ASSUME TypeOK, Covered, [Next]_vars PROVE Covered'
    OBVIOUS
  <2>1. ASSUME NEW r \in Recoverers, Recover(r) PROVE Covered'
    BY <2>1, ApplyKeepsAdmission, OthersKeepAdmission DEF Recover, Workers
  <2> QED
    BY <2>1, HandleKeepsAdmission, OthersKeepAdmission DEF Next
<1>3. Covered => ReservedWithinBalance
  BY DEF Covered
<1> QED
  BY <1>1, <1>2, <1>3, UsageTypeCorrect, PTL DEF Spec
=============================================================================
