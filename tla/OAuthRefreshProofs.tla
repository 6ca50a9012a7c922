------------------------- MODULE OAuthRefreshProofs -------------------------
(***************************************************************************)
(* Proofs about OAuthRefresh, for any refreshers, admins and bounds.       *)
(* Whoever spent a token holds its successor, which the provider accepts,  *)
(* which nobody else has read (Fresh) and nobody else holds (Apart), and   *)
(* the document that is stored is the one that was read (DocKnown).  A     *)
(* token that is refused as revoked is dead and, while the lock keeps      *)
(* refreshes apart (Guarded), nobody holds its successor (RefusedIsDead).  *)
(* Nothing of the kind holds of a token that the provider only denied, or  *)
(* of an account that was found unusable.                                  *)
(***************************************************************************)
EXTENDS OAuthRefresh, TLAPS

Holding(r) == job[r].step = "persist"
Carrying(a) == adm[a].kind # "edit" /\ adm[a].step \in {"read", "write"}
Tok(r) == Next1(Token(job[r].used))

\* Nobody knows a token that was not issued yet.
Known(t) == t.gen <= live[t.grant] /\ t.grant <= jobs
Below ==
  /\ Known(row)
  /\ \A r \in Refreshers : Known(job[r].used)
  /\ \A a \in Admins : Known(adm[a].copy)
  /\ \A g \in Grants : jobs < g => live[g] = 0

\* Nobody has read the token t.
Newer(t, x) == x.grant = t.grant => x.gen < t.gen
Unseen(t) ==
  /\ Newer(t, FirstRow) /\ Newer(t, row)
  /\ \A r \in Refreshers : Newer(t, job[r].used)
  /\ \A a \in Admins : Newer(t, adm[a].copy)

Fine(t) == t.gen = live[t.grant] /\ t.grant <= jobs /\ Unseen(t)
Fresh ==
  /\ \A r \in Refreshers : Holding(r) => Fine(Tok(r))
  /\ \A a \in Admins : Carrying(a) => Fine(adm[a].hand)

Apart ==
  /\ \A r, s \in Refreshers : Holding(r) /\ Holding(s) /\ r # s => ~SameToken(Tok(r), Tok(s))
  /\ \A r \in Refreshers, a \in Admins :
       Holding(r) /\ Carrying(a) => ~SameToken(Tok(r), adm[a].hand)
  /\ \A a, b \in Admins :
       Carrying(a) /\ Carrying(b) /\ a # b => ~SameToken(adm[a].hand, adm[b].hand)

DocKnown ==
  \A r \in Refreshers :
    job[r].step \in {"ask", "persist"} /\ SameToken(row, job[r].used)
      => SameDoc(row, job[r].used) \/ "edited" \in mishaps

ManualKnown ==
  \A a \in Admins :
    /\ adm[a].step = "ask" => adm[a].kind = "refresh"
    /\ adm[a].kind = "refresh" /\ adm[a].step \in {"read", "write"} => "manual" \in mishaps

Guarded ==
  "unlocked" \notin mishaps =>
    \A r \in Refreshers :
      job[r].step \in {"reread", "ask", "persist", "refused", "condemn"} => job[r].held /\ lock = r

Revoked(r) == job[r].step \in {"refused", "condemn", "quarantine"} /\ job[r].why = "revoked"
RefusedIsDead ==
  \A r \in Refreshers : Revoked(r) =>
    /\ job[r].used.gen < live[job[r].used.grant]
    /\ \/ "unlocked" \in mishaps
       \/ \A s \in Refreshers : Holding(s) => ~SameToken(job[s].used, job[r].used)

\* Tokens as they are known, spent, held and stored.
Held == Below /\ Fresh /\ Apart
IInv ==
  /\ TypeOK /\ Held /\ DocKnown /\ ManualKnown /\ Guarded /\ RefusedIsDead
  /\ TokenIsKept /\ RevokedIsDead /\ ReauthorizedIsKept

-----------------------------------------------------------------------------
(* Types                                                                   *)

\* The type invariant in parts.
Attempts == [step : Steps, held : BOOLEAN, used : Rows, why : Reasons]
Requests == [kind : {"edit", "reauth", "refresh"}, step : AdmSteps, hand : Tokens, copy : Rows]
TypeRow == row \in Rows
TypeLive == live \in [Grants -> Nat]
TypeLock == lock \in Refreshers \cup {Free}
TypeJob == job \in [Refreshers -> Attempts]
TypeAdm == adm \in [Admins -> Requests]
TypeJobs == jobs \in Grants
TypeApplied == applied \in Grants
TypeMishaps == mishaps \subseteq Mishaps
TypeFaults == faults \in Nat

\* TypeOK is its parts.
LEMMA TypeParts ==
  TypeOK <=> /\ TypeRow /\ TypeLive /\ TypeLock /\ TypeJob /\ TypeAdm
             /\ TypeJobs /\ TypeApplied /\ TypeMishaps /\ TypeFaults
BY DEF TypeOK, TypeRow, TypeLive, TypeLock, TypeJob, TypeAdm, TypeJobs, TypeApplied,
       TypeMishaps, TypeFaults, Attempts, Requests

\* The same after a step.
LEMMA TypePartsNext ==
  TypeOK' <=> /\ TypeRow' /\ TypeLive' /\ TypeLock' /\ TypeJob' /\ TypeAdm'
              /\ TypeJobs' /\ TypeApplied' /\ TypeMishaps' /\ TypeFaults'
BY DEF TypeOK, TypeRow, TypeLive, TypeLock, TypeJob, TypeAdm, TypeJobs, TypeApplied,
       TypeMishaps, TypeFaults, Attempts, Requests

\* The empty values have their types.
LEMMA EmptyTyped ==
  /\ 0 \in Grants /\ FirstRow \in Rows /\ NoJob \in Attempts /\ NoAdm \in Requests
<1>1. 0 \in Grants
  BY BoundsAssumption DEF Grants
<1>2. FirstRow \in Rows
  BY <1>1 DEF FirstRow, Rows
<1>3. NoJob \in Attempts
  BY <1>2 DEF NoJob, Attempts, Steps, Reasons
<1>4. [grant |-> 0, gen |-> 0] \in Tokens
  BY <1>1 DEF Tokens
<1>5. NoAdm \in Requests
  BY <1>2, <1>4 DEF NoAdm, Requests, AdmSteps
<1> QED
  BY <1>1, <1>2, <1>3, <1>5

\* What an attempt and a request remember are accounts.
LEMMA ReadTyped ==
  ASSUME TypeOK
  PROVE  /\ row.grant \in Grants /\ row.gen \in Nat
         /\ \A r \in Refreshers : job[r].used \in Rows /\ job[r].used.grant \in Grants /\ job[r].used.gen \in Nat
         /\ \A a \in Admins : /\ adm[a].copy \in Rows /\ adm[a].copy.grant \in Grants /\ adm[a].copy.gen \in Nat
                              /\ adm[a].hand.grant \in Grants /\ adm[a].hand.gen \in Nat
<1>1. row.grant \in Grants /\ row.gen \in Nat
  BY TypeParts DEF TypeRow, Rows
<1>2. \A r \in Refreshers : job[r].used \in Rows
  BY TypeParts DEF TypeJob, Attempts
<1>3. \A a \in Admins : adm[a].copy \in Rows /\ adm[a].hand \in Tokens
  BY TypeParts DEF TypeAdm, Requests
<1> QED
  BY <1>1, <1>2, <1>3 DEF Rows, Tokens

\* Spending a token and storing the next keep the types.
LEMMA SpendTyped ==
  ASSUME TypeLive, NEW x, x.grant \in Grants, Spend(x)
  PROVE  TypeLive'
BY DEF TypeLive, Spend

\* The account with the next token is an account.
LEMMA StoreTyped ==
  ASSUME TypeOK, NEW r \in Refreshers, Store(r)
  PROVE  TypeRow'
<1>1. job[r].used.gen + 1 \in Nat
  BY ReadTyped
<1> QED
  BY <1>1, TypeParts DEF Store, TypeRow, Rows

\* Every step keeps the types.
LEMMA TypeStep ==
  ASSUME TypeOK, [Next]_vars
  PROVE  TypeOK'
<1> USE TypeParts
<1>1. ASSUME NEW r \in Refreshers, AcquireRefreshLock(r) PROVE TypeOK'
  <2>1. TypeLock'
    BY <1>1 DEF AcquireRefreshLock, TypeLock
  <2>2. TypeJob'
    BY <1>1, EmptyTyped DEF AcquireRefreshLock, TypeJob, Attempts, Steps
  <2>3. TypeRow' /\ TypeLive' /\ TypeAdm' /\ TypeJobs' /\ TypeApplied' /\ TypeMishaps' /\ TypeFaults'
    BY <1>1 DEF AcquireRefreshLock, admins, TypeRow, TypeLive, TypeAdm, TypeJobs, TypeApplied,
       TypeMishaps, TypeFaults
  <2> QED
    BY TypePartsNext, <2>1, <2>2, <2>3
<1>2. ASSUME NEW r \in Refreshers, DegradeToUnlocked(r) PROVE TypeOK'
  <2>1. TypeLock'
    BY <1>2 DEF DegradeToUnlocked, TypeLock
  <2>2. TypeJob'
    BY <1>2, EmptyTyped DEF DegradeToUnlocked, TypeJob, Attempts, Steps
  <2>3. TypeMishaps'
    BY <1>2 DEF DegradeToUnlocked, Mishap, TypeMishaps, Mishaps
  <2>4. TypeFaults'
    BY <1>2 DEF DegradeToUnlocked, Fault, TypeFaults
  <2>5. TypeRow' /\ TypeLive' /\ TypeAdm' /\ TypeJobs' /\ TypeApplied'
    BY <1>2 DEF DegradeToUnlocked, admins, TypeRow, TypeLive, TypeAdm, TypeJobs, TypeApplied
  <2> QED
    BY TypePartsNext, <2>1, <2>2, <2>3, <2>4, <2>5
<1>3. ASSUME NEW r \in Refreshers, RereadAccount(r) PROVE TypeOK'
  <2>1. TypeJob'
    BY <1>3 DEF RereadAccount, TypeJob, Attempts, Steps, TypeRow
  <2>2. TypeRow' /\ TypeLive' /\ TypeLock' /\ TypeAdm' /\ TypeJobs' /\ TypeApplied' /\ TypeMishaps' /\ TypeFaults'
    BY <1>3 DEF RereadAccount, admins, TypeRow, TypeLive, TypeLock, TypeAdm, TypeJobs,
       TypeApplied, TypeMishaps, TypeFaults
  <2> QED
    BY TypePartsNext, <2>1, <2>2
<1>4. ASSUME NEW r \in Refreshers, Refresh(r) PROVE TypeOK'
  <2>1. TypeLive'
    BY <1>4 DEF Refresh, Spend, TypeLive, TypeJob, Attempts, Rows
  <2>2. TypeJob'
    BY <1>4 DEF Refresh, Goto, TypeJob, Attempts, Steps
  <2>3. TypeRow' /\ TypeLock' /\ TypeAdm' /\ TypeJobs' /\ TypeApplied' /\ TypeMishaps' /\ TypeFaults'
    BY <1>4 DEF Refresh, admins, TypeRow, TypeLock, TypeAdm, TypeJobs, TypeApplied,
       TypeMishaps, TypeFaults
  <2> QED
    BY TypePartsNext, <2>1, <2>2, <2>3
<1>5. ASSUME NEW r \in Refreshers, Persist(r) PROVE TypeOK'
  <2>1. TypeRow'
    BY <1>5, StoreTyped DEF Persist, TypeRow
  <2>2. TypeJob'
    BY <1>5 DEF Persist, Goto, TypeJob, Attempts, Steps
  <2>3. TypeLive' /\ TypeLock' /\ TypeAdm' /\ TypeJobs' /\ TypeApplied' /\ TypeMishaps' /\ TypeFaults'
    BY <1>5 DEF Persist, admins, TypeLive, TypeLock, TypeAdm, TypeJobs, TypeApplied,
       TypeMishaps, TypeFaults
  <2> QED
    BY TypePartsNext, <2>1, <2>2, <2>3
<1>6. ASSUME NEW r \in Refreshers, TryRecoverFromRefreshRace(r) PROVE TypeOK'
  <2>1. TypeJob'
    BY <1>6 DEF TryRecoverFromRefreshRace, Goto, TypeJob, Attempts, Steps
  <2>2. TypeRow' /\ TypeLive' /\ TypeLock' /\ TypeAdm' /\ TypeJobs' /\ TypeApplied' /\ TypeMishaps' /\ TypeFaults'
    BY <1>6 DEF TryRecoverFromRefreshRace, admins, TypeRow, TypeLive, TypeLock, TypeAdm,
       TypeJobs, TypeApplied, TypeMishaps, TypeFaults
  <2> QED
    BY TypePartsNext, <2>1, <2>2
<1>7. ASSUME NEW r \in Refreshers, ReleaseRefreshLock(r) PROVE TypeOK'
  <2>1. TypeLock'
    BY <1>7 DEF ReleaseRefreshLock, TypeLock
  <2>2. TypeJob'
    BY <1>7, EmptyTyped DEF ReleaseRefreshLock, Released, TypeJob, Attempts, Steps
  <2>3. TypeMishaps'
    BY <1>7 DEF ReleaseRefreshLock, Mishap, TypeMishaps, Mishaps
  <2>4. TypeRow' /\ TypeLive' /\ TypeAdm' /\ TypeJobs' /\ TypeApplied' /\ TypeFaults'
    BY <1>7 DEF ReleaseRefreshLock, admins, TypeRow, TypeLive, TypeAdm, TypeJobs, TypeApplied,
       TypeFaults
  <2> QED
    BY TypePartsNext, <2>1, <2>2, <2>3, <2>4
<1>8. ASSUME NEW r \in Refreshers, Quarantine(r) PROVE TypeOK'
  <2>1. TypeRow'
    BY <1>8 DEF Quarantine, TypeRow, TypeJob, Attempts, Rows
  <2>2. TypeJob'
    BY <1>8, EmptyTyped DEF Quarantine, Idle, TypeJob, Attempts, Steps
  <2>3. TypeLive' /\ TypeLock' /\ TypeAdm' /\ TypeJobs' /\ TypeApplied' /\ TypeMishaps' /\ TypeFaults'
    BY <1>8 DEF Quarantine, admins, TypeLive, TypeLock, TypeAdm, TypeJobs, TypeApplied,
       TypeMishaps, TypeFaults
  <2> QED
    BY TypePartsNext, <2>1, <2>2, <2>3
<1>9. ASSUME NEW r \in Refreshers, AttemptFails(r) PROVE TypeOK'
  <2>1. TypeRow'
    BY <1>9, StoreTyped DEF AttemptFails, TypeRow
  <2>2. TypeLive'
    BY <1>9, ReadTyped, SpendTyped DEF AttemptFails, TypeLive
  <2>3. TypeJob'
    <3>1. \A step \in Steps : Goto(r, step) => TypeJob'
      BY DEF Goto, TypeJob, Attempts
    <3>2. Idle(r) => TypeJob'
      BY EmptyTyped DEF Idle, TypeJob
    <3> QED
      BY <1>9, <3>1, <3>2 DEF AttemptFails, Steps
  <2>4. TypeMishaps'
    BY <1>9 DEF AttemptFails, Mishap, TypeMishaps, Mishaps
  <2>5. TypeFaults'
    BY <1>9 DEF AttemptFails, Fault, TypeFaults
  <2>6. TypeLock' /\ TypeAdm' /\ TypeJobs' /\ TypeApplied'
    BY <1>9 DEF AttemptFails, admins, TypeLock, TypeAdm, TypeJobs, TypeApplied
  <2> QED
    BY TypePartsNext, <2>1, <2>2, <2>3, <2>4, <2>5, <2>6
<1>10. ASSUME NEW r \in Refreshers, ReleaseFails(r) PROVE TypeOK'
  <2>1. TypeJob'
    BY <1>10, EmptyTyped DEF ReleaseFails, Released, TypeJob, Attempts, Steps
  <2>2. TypeFaults'
    BY <1>10 DEF ReleaseFails, Fault, TypeFaults
  <2>3. TypeRow' /\ TypeLive' /\ TypeLock' /\ TypeAdm' /\ TypeJobs' /\ TypeApplied' /\ TypeMishaps'
    BY <1>10 DEF ReleaseFails, admins, TypeRow, TypeLive, TypeLock, TypeAdm, TypeJobs,
       TypeApplied, TypeMishaps
  <2> QED
    BY TypePartsNext, <2>1, <2>2, <2>3
<1>11. ASSUME NEW r \in Refreshers, Stall(r) PROVE TypeOK'
  <2>1. TypeLock'
    BY <1>11 DEF Stall, TypeLock
  <2>2. TypeJob'
    BY <1>11 DEF Stall, Goto, TypeJob, Attempts, Steps
  <2>3. TypeMishaps'
    BY <1>11 DEF Stall, Mishap, TypeMishaps, Mishaps
  <2>4. TypeFaults'
    BY <1>11 DEF Stall, Fault, TypeFaults
  <2>5. TypeRow' /\ TypeLive' /\ TypeAdm' /\ TypeJobs' /\ TypeApplied'
    BY <1>11 DEF Stall, admins, TypeRow, TypeLive, TypeAdm, TypeJobs, TypeApplied
  <2> QED
    BY TypePartsNext, <2>1, <2>2, <2>3, <2>4, <2>5
<1>12. ASSUME NEW r \in Refreshers, Crash(r) PROVE TypeOK'
  <2>1. TypeJob'
    BY <1>12, EmptyTyped DEF Crash, Idle, TypeJob, Attempts, Steps
  <2>2. TypeMishaps'
    BY <1>12 DEF Crash, Mishap, TypeMishaps, Mishaps
  <2>3. TypeFaults'
    BY <1>12 DEF Crash, Fault, TypeFaults
  <2>4. TypeRow' /\ TypeLive' /\ TypeLock' /\ TypeAdm' /\ TypeJobs' /\ TypeApplied'
    BY <1>12 DEF Crash, admins, TypeRow, TypeLive, TypeLock, TypeAdm, TypeJobs, TypeApplied
  <2> QED
    BY TypePartsNext, <2>1, <2>2, <2>3, <2>4
<1>13. CASE LockExpires
  <2>1. TypeLock'
    BY <1>13 DEF LockExpires, TypeLock
  <2>2. TypeRow' /\ TypeLive' /\ TypeJob' /\ TypeAdm' /\ TypeJobs' /\ TypeApplied' /\ TypeMishaps' /\ TypeFaults'
    BY <1>13 DEF LockExpires, admins, TypeRow, TypeLive, TypeJob, TypeAdm, TypeJobs,
       TypeApplied, TypeMishaps, TypeFaults
  <2> QED
    BY TypePartsNext, <2>1, <2>2
<1>14. CASE TokenAges
  <2>1. TypeRow'
    BY <1>14 DEF TokenAges, TypeRow, Rows
  <2>2. TypeLive' /\ TypeLock' /\ TypeJob' /\ TypeAdm' /\ TypeJobs' /\ TypeApplied' /\ TypeMishaps' /\ TypeFaults'
    BY <1>14 DEF TokenAges, admins, TypeLive, TypeLock, TypeJob, TypeAdm, TypeJobs,
       TypeApplied, TypeMishaps, TypeFaults
  <2> QED
    BY TypePartsNext, <2>1, <2>2
<1>15. ASSUME NEW a \in Admins, NEW kind \in Kinds, AdminStarts(a, kind) PROVE TypeOK'
  <2>1. TypeAdm'
    BY <1>15, BoundsAssumption, KindsAssumption DEF AdminStarts, TypeAdm, Requests, AdmSteps,
       TypeRow, TypeJobs, Tokens, Grants
  <2>2. TypeJobs'
    BY <1>15, BoundsAssumption, KindsAssumption DEF AdminStarts, TypeJobs, Grants
  <2>3. TypeRow' /\ TypeLive' /\ TypeLock' /\ TypeJob' /\ TypeApplied' /\ TypeMishaps' /\ TypeFaults'
    BY <1>15 DEF AdminStarts, admins, TypeRow, TypeLive, TypeLock, TypeJob, TypeApplied,
       TypeMishaps, TypeFaults
  <2> QED
    BY TypePartsNext, <2>1, <2>2, <2>3
<1>16. ASSUME NEW a \in Admins, AdminRefreshes(a) PROVE TypeOK'
  <2>1. TypeLive'
    BY <1>16, ReadTyped, SpendTyped DEF AdminRefreshes, TypeLive
  <2>2. TypeAdm'
    <3>1. Next1(Token(adm[a].copy)) \in Tokens
      BY ReadTyped DEF Next1, Token, Tokens
    <3>2. CASE adm' = [adm EXCEPT ![a].step = "read", ![a].hand = Next1(Token(adm[a].copy))]
      BY <3>1, <3>2 DEF TypeAdm, Requests, AdmSteps
    <3>3. CASE AdmDone(a)
      BY <3>3, EmptyTyped DEF AdmDone, TypeAdm
    <3> QED
      BY <1>16, <3>2, <3>3 DEF AdminRefreshes
  <2>3. TypeMishaps'
    BY <1>16 DEF AdminRefreshes, Mishap, TypeMishaps, Mishaps
  <2>4. TypeRow' /\ TypeLock' /\ TypeJob' /\ TypeJobs' /\ TypeApplied' /\ TypeFaults'
    BY <1>16 DEF AdminRefreshes, admins, TypeRow, TypeLock, TypeJob, TypeJobs, TypeApplied,
       TypeFaults
  <2> QED
    BY TypePartsNext, <2>1, <2>2, <2>3, <2>4
<1>17. ASSUME NEW a \in Admins, AdminReads(a) PROVE TypeOK'
  <2>1. TypeAdm'
    BY <1>17 DEF AdminReads, TypeAdm, Requests, AdmSteps, TypeRow
  <2>2. TypeRow' /\ TypeLive' /\ TypeLock' /\ TypeJob' /\ TypeJobs' /\ TypeApplied' /\ TypeMishaps' /\ TypeFaults'
    BY <1>17 DEF AdminReads, admins, TypeRow, TypeLive, TypeLock, TypeJob, TypeJobs,
       TypeApplied, TypeMishaps, TypeFaults
  <2> QED
    BY TypePartsNext, <2>1, <2>2
<1>18. ASSUME NEW a \in Admins, AdminWrites(a) PROVE TypeOK'
  <2>1. TypeRow'
    <3>1. PICK conf \in 0..jobs : row' = Written(a, conf)
      BY <1>18 DEF AdminWrites
    <3>2. conf \in Nat
      BY DEF TypeJobs, Grants
    <3>3. adm[a].copy \in Rows /\ adm[a].hand.grant \in Grants /\ adm[a].hand.gen \in Nat
      BY ReadTyped
    <3> QED
      BY <3>1, <3>2, <3>3 DEF Written, TypeRow, Rows
  <2>2. TypeMishaps'
    BY <1>18 DEF AdminWrites, Mishap, TypeMishaps, Mishaps
  <2>3. TypeApplied'
    BY <1>18 DEF AdminWrites, TypeApplied, TypeAdm, Requests, Tokens, Rows
  <2>4. TypeAdm'
    BY <1>18, EmptyTyped DEF AdminWrites, AdmDone, AdmGoto, TypeAdm, Requests, AdmSteps
  <2>5. TypeLive' /\ TypeLock' /\ TypeJob' /\ TypeJobs' /\ TypeFaults'
    BY <1>18 DEF AdminWrites, admins, TypeLive, TypeLock, TypeJob, TypeJobs, TypeFaults
  <2> QED
    BY TypePartsNext, <2>1, <2>2, <2>3, <2>4, <2>5
<1>19. ASSUME NEW a \in Admins, AdminClears(a) PROVE TypeOK'
  <2>1. TypeRow'
    BY <1>19 DEF AdminClears, TypeRow, Rows
  <2>2. TypeAdm'
    BY <1>19, EmptyTyped DEF AdminClears, AdmDone, TypeAdm, Requests, AdmSteps
  <2>3. TypeLive' /\ TypeLock' /\ TypeJob' /\ TypeJobs' /\ TypeApplied' /\ TypeMishaps' /\ TypeFaults'
    BY <1>19 DEF AdminClears, admins, TypeLive, TypeLock, TypeJob, TypeJobs, TypeApplied,
       TypeMishaps, TypeFaults
  <2> QED
    BY TypePartsNext, <2>1, <2>2, <2>3
<1>20. ASSUME NEW a \in Admins, AdminFails(a) PROVE TypeOK'
  <2>1. TypeAdm'
    BY <1>20, EmptyTyped DEF AdminFails, AdmDone, TypeAdm, Requests, AdmSteps
  <2>2. TypeLive'
    BY <1>20, ReadTyped, SpendTyped DEF AdminFails, TypeLive
  <2>3. TypeMishaps'
    BY <1>20 DEF AdminFails, Mishap, TypeMishaps, Mishaps
  <2>4. TypeFaults'
    BY <1>20 DEF AdminFails, Fault, TypeFaults
  <2>5. TypeRow' /\ TypeLock' /\ TypeJob' /\ TypeJobs' /\ TypeApplied'
    BY <1>20 DEF AdminFails, admins, TypeRow, TypeLock, TypeJob, TypeJobs, TypeApplied
  <2> QED
    BY TypePartsNext, <2>1, <2>2, <2>3, <2>4, <2>5
<1>21. CASE UNCHANGED vars
  BY <1>21 DEF vars, TypeOK
<1>22. ASSUME NEW r \in Refreshers, ProviderDenies(r) PROVE TypeOK'
  <2>1. TypeJob'
    BY <1>22 DEF ProviderDenies, TypeJob, Attempts, Steps, Reasons
  <2>2. TypeRow' /\ TypeLive' /\ TypeLock' /\ TypeAdm' /\ TypeJobs' /\ TypeApplied' /\ TypeMishaps' /\ TypeFaults'
    BY <1>22 DEF ProviderDenies, admins, TypeRow, TypeLive, TypeLock, TypeAdm, TypeJobs,
       TypeApplied, TypeMishaps, TypeFaults
  <2> QED
    BY TypePartsNext, <2>1, <2>2
<1>23. ASSUME NEW r \in Refreshers, RequestFindsUnusable(r) PROVE TypeOK'
  <2>1. TypeJob'
    BY <1>23, EmptyTyped DEF RequestFindsUnusable, TypeJob, Attempts, Steps, Reasons, TypeRow
  <2>2. TypeFaults'
    BY <1>23 DEF RequestFindsUnusable, Fault, TypeFaults
  <2>3. TypeRow' /\ TypeLive' /\ TypeLock' /\ TypeAdm' /\ TypeJobs' /\ TypeApplied' /\ TypeMishaps'
    BY <1>23 DEF RequestFindsUnusable, admins, TypeRow, TypeLive, TypeLock, TypeAdm, TypeJobs,
       TypeApplied, TypeMishaps
  <2> QED
    BY TypePartsNext, <2>1, <2>2, <2>3
<1> QED
  BY <1>1, <1>2, <1>3, <1>4, <1>5, <1>6, <1>7, <1>8, <1>9, <1>10, <1>11, <1>12, <1>13, <1>14,
     <1>15, <1>16, <1>17, <1>18, <1>19, <1>20, <1>21, <1>22, <1>23 DEF Next, Attempt

-----------------------------------------------------------------------------
(* What the helpers do, point by point                                     *)

OthersSame(r) == \A s \in Refreshers \ {r} : job'[s] = job[s]
AdminsSame(a) == \A b \in Admins \ {a} : adm'[b] = adm[b]

\* An attempt goes on, ends or gives up the lock; others are not touched.
LEMMA GotoEffect ==
  ASSUME TypeOK, NEW r \in Refreshers, NEW step, Goto(r, step)
  PROVE  /\ job'[r].step = step /\ job'[r].held = job[r].held /\ job'[r].used = job[r].used
         /\ job'[r].why = job[r].why /\ OthersSame(r)
BY TypeParts DEF Goto, TypeJob, Attempts, OthersSame

\* An attempt that ends forgets what it read.
LEMMA IdleEffect ==
  ASSUME TypeOK, NEW r \in Refreshers, Idle(r)
  PROVE  /\ job'[r].step = "idle" /\ ~job'[r].held /\ job'[r].used = FirstRow
         /\ OthersSame(r)
BY TypeParts DEF Idle, NoJob, TypeJob, Attempts, OthersSame

\* After the release only a refused attempt goes on, to the quarantine.
LEMMA ReleasedEffect ==
  ASSUME TypeOK, NEW r \in Refreshers, Released(r), job[r].step \in {"release", "condemn"}
  PROVE  /\ \/ job'[r].step = "idle" /\ job'[r].used = FirstRow
            \/ /\ job[r].step = "condemn" /\ job'[r].step = "quarantine"
               /\ job'[r].used = job[r].used /\ job'[r].why = job[r].why
         /\ OthersSame(r)
BY TypeParts DEF Released, NoJob, TypeJob, Attempts, OthersSame

\* With the lock or without, an attempt starts from nothing.
LEMMA AcquireEffect ==
  ASSUME TypeOK, NEW r \in Refreshers, AcquireRefreshLock(r) \/ DegradeToUnlocked(r)
  PROVE  /\ job'[r].step = "reread" /\ job'[r].used = FirstRow
         /\ AcquireRefreshLock(r) => job'[r].held
         /\ OthersSame(r)
<1>1. CASE AcquireRefreshLock(r)
  BY <1>1, TypeParts DEF AcquireRefreshLock, NoJob, TypeJob, Attempts, OthersSame
<1>2. CASE DegradeToUnlocked(r)
  <2>1. job' = [job EXCEPT ![r] = [NoJob EXCEPT !.step = "reread"]]
    BY <1>2 DEF DegradeToUnlocked
  <2>2. job'[r].step = "reread" /\ job'[r].used = FirstRow /\ OthersSame(r)
    BY <2>1, TypeParts DEF NoJob, TypeJob, OthersSame
  <2>3. AcquireRefreshLock(r) => job'[r].held
    BY TypeParts DEF AcquireRefreshLock, TypeJob
  <2> QED
    BY <2>2, <2>3
<1> QED
  BY <1>1, <1>2

\* An attempt uses the account as it is stored now.
LEMMA RereadEffect ==
  ASSUME TypeOK, NEW r \in Refreshers, RereadAccount(r)
  PROVE  /\ job'[r].step \in {"ask", "release"} /\ job'[r].used = row
         /\ job'[r].held = job[r].held
         /\ OthersSame(r)
BY TypeParts DEF RereadAccount, TypeJob, Attempts, OthersSame

\* A quarantine changes the account's status at most.
LEMMA QuarantineEffect ==
  ASSUME TypeOK, NEW r \in Refreshers, Quarantine(r)
  PROVE  /\ job[r].step = "quarantine" /\ job'[r].step = "idle" /\ job'[r].used = FirstRow
         /\ SameDoc(row', row)
         /\ OthersSame(r) /\ UNCHANGED <<live, lock, adm, jobs, applied, mishaps>>
<1>1. SameDoc(row', row)
  BY TypeParts DEF Quarantine, TypeRow, Rows, SameDoc, SameToken
<1> QED
  BY <1>1, IdleEffect DEF Quarantine, admins

\* An attempt that is denied keeps what it read.
LEMMA DenyEffect ==
  ASSUME TypeOK, NEW r \in Refreshers, ProviderDenies(r)
  PROVE  /\ job[r].step = "ask" /\ job'[r].step = "condemn" /\ job'[r].why = "denied"
         /\ job'[r].used = job[r].used /\ job'[r].held = job[r].held
         /\ OthersSame(r) /\ UNCHANGED <<row, live, lock, adm, jobs, applied, mishaps>>
BY TypeParts DEF ProviderDenies, TypeJob, Attempts, OthersSame, admins

\* A request that finds the account unusable knows the account as it is stored now.
LEMMA UnusableEffect ==
  ASSUME TypeOK, NEW r \in Refreshers, RequestFindsUnusable(r)
  PROVE  /\ job'[r].step = "quarantine" /\ job'[r].why = "unusable" /\ job'[r].used = row
         /\ OthersSame(r)
BY TypeParts DEF RequestFindsUnusable, NoJob, TypeJob, Attempts, OthersSame

\* A spent token has a successor; no other grant is touched.
LEMMA SpendEffect ==
  ASSUME TypeOK, NEW x, x.grant \in Grants, Spend(x)
  PROVE  /\ live'[x.grant] = live[x.grant] + 1
         /\ \A g \in Grants \ {x.grant} : live'[g] = live[g]
BY TypeParts DEF Spend, TypeLive

\* Storing the next token changes no grant, document or status.
LEMMA StoreEffect ==
  ASSUME TypeOK, NEW r \in Refreshers, Store(r)
  PROVE  /\ row'.grant = row.grant /\ row'.gen = job[r].used.gen + 1
         /\ row'.conf = row.conf /\ row'.status = row.status
BY TypeParts DEF Store, TypeRow, Rows

\* The same for admins.
LEMMA AdmDoneEffect ==
  ASSUME TypeOK, NEW a \in Admins, AdmDone(a)
  PROVE  adm'[a].step = "idle" /\ adm'[a].copy = FirstRow /\ AdminsSame(a)
BY TypeParts DEF AdmDone, NoAdm, TypeAdm, Requests, AdminsSame

\* A request that goes on keeps what it has.
LEMMA AdmGotoEffect ==
  ASSUME TypeOK, NEW a \in Admins, NEW step, AdmGoto(a, step)
  PROVE  /\ adm'[a].step = step /\ adm'[a].kind = adm[a].kind
         /\ adm'[a].hand = adm[a].hand /\ adm'[a].copy = adm[a].copy
         /\ AdminsSame(a)
BY TypeParts DEF AdmGoto, TypeAdm, Requests, AdminsSame

\* A request starts with a new grant in hand.
LEMMA StartEffect ==
  ASSUME TypeOK, NEW a \in Admins, NEW kind \in Kinds, AdminStarts(a, kind)
  PROVE  /\ adm'[a].kind = kind /\ adm'[a].step = (IF kind = "refresh" THEN "ask" ELSE "read")
         /\ adm'[a].hand = [grant |-> jobs + 1, gen |-> 0] /\ adm'[a].copy = row
         /\ AdminsSame(a)
BY TypeParts DEF AdminStarts, TypeAdm, Requests, AdminsSame

\* UpdateAccount reads the account as it is stored now.
LEMMA ReadEffect ==
  ASSUME TypeOK, NEW a \in Admins, AdminReads(a)
  PROVE  /\ adm'[a].step = "write" /\ adm'[a].kind = adm[a].kind
         /\ adm'[a].hand = adm[a].hand /\ adm'[a].copy = row
         /\ AdminsSame(a)
BY TypeParts DEF AdminReads, TypeAdm, Requests, AdminsSame

\* A refresh by hand has the next token in hand, or is over.
LEMMA AdminRefreshEffect ==
  ASSUME TypeOK, NEW a \in Admins, AdminRefreshes(a)
  PROVE  \/ /\ IsLive(adm[a].copy) /\ Spend(adm[a].copy)
            /\ adm'[a].step = "read" /\ adm'[a].kind = adm[a].kind
            /\ adm'[a].hand = Next1(Token(adm[a].copy)) /\ adm'[a].copy = adm[a].copy
            /\ AdminsSame(a) /\ Mishap(TRUE, "manual")
         \/ AdmDone(a) /\ UNCHANGED <<live, mishaps>>
BY TypeParts DEF AdminRefreshes, TypeAdm, Requests, AdminsSame

\* What an admin writes: the row as it was read with its tokens for an edit,
\* and else with the tokens in hand.
LEMMA WriteEffect ==
  ASSUME TypeOK, NEW a \in Admins, AdminWrites(a)
  PROVE  /\ row'.status = adm[a].copy.status
         /\ adm[a].kind = "edit" => row'.grant = adm[a].copy.grant /\ row'.gen = adm[a].copy.gen
         /\ adm[a].kind # "edit" => row'.grant = adm[a].hand.grant /\ row'.gen = adm[a].hand.gen
         /\ adm'[a].step = (IF adm[a].kind = "reauth" THEN "clear" ELSE "idle")
         /\ adm[a].kind = "reauth" => adm'[a].kind = "reauth"
         /\ adm'[a].copy \in {adm[a].copy, FirstRow}
         /\ AdminsSame(a)
<1>1. PICK conf \in 0..jobs : row' = Written(a, conf)
  BY DEF AdminWrites
<1>2. adm[a].copy \in Rows
  BY ReadTyped
<1>3. /\ row'.status = adm[a].copy.status
      /\ adm[a].kind = "edit" => row'.grant = adm[a].copy.grant /\ row'.gen = adm[a].copy.gen
      /\ adm[a].kind # "edit" => row'.grant = adm[a].hand.grant /\ row'.gen = adm[a].hand.gen
  BY <1>1, <1>2 DEF Written, Rows
<1>4. CASE adm[a].kind = "reauth"
  BY <1>3, <1>4, AdmGotoEffect DEF AdminWrites
<1>5. CASE adm[a].kind # "reauth"
  BY <1>3, <1>5, AdmDoneEffect DEF AdminWrites
<1> QED
  BY <1>4, <1>5

-----------------------------------------------------------------------------
(* What a step does to the tokens                                          *)

Origins ==
  /\ \A s \in Refreshers : job'[s].used \in {job[s].used, row, FirstRow}
  /\ \A b \in Admins : adm'[b].copy \in {adm[b].copy, row, FirstRow}

KeepHolders == \A s \in Refreshers : Holding(s)' => Holding(s) /\ job'[s].used = job[s].used
KeepCarriers == \A b \in Admins : Carrying(b)' => Carrying(b) /\ adm'[b].hand = adm[b].hand

Quiet == live' = live /\ jobs' = jobs /\ SameToken(row', row) /\ KeepHolders /\ KeepCarriers
Spends(r) ==
  /\ IsLive(job[r].used) /\ Spend(job[r].used) /\ row' = row /\ jobs' = jobs
  /\ ~Holding(r) /\ job'[r].used = job[r].used /\ OthersSame(r) /\ KeepCarriers
SpendsByHand(a) ==
  /\ IsLive(adm[a].copy) /\ Spend(adm[a].copy) /\ row' = row /\ jobs' = jobs
  /\ Carrying(a)' => adm'[a].hand = Next1(Token(adm[a].copy))
  /\ ~Carrying(a) /\ AdminsSame(a) /\ KeepHolders
Stores(r) ==
  /\ Holding(r) /\ ~Holding(r)' /\ SameToken(row', Tok(r)) /\ live' = live /\ jobs' = jobs
  /\ KeepHolders /\ KeepCarriers
Writes(a) ==
  /\ ~Carrying(a)' /\ live' = live /\ jobs' = jobs
  /\ (Carrying(a) /\ SameToken(row', adm[a].hand)) \/ SameToken(row', adm[a].copy)
  /\ KeepHolders /\ KeepCarriers
Starts(a) ==
  /\ jobs' = jobs + 1 /\ jobs' \in Grants /\ live' = live /\ row' = row /\ KeepHolders
  /\ adm'[a].hand = [grant |-> jobs + 1, gen |-> 0] /\ AdminsSame(a)

TokenStep ==
  \/ Quiet
  \/ \E r \in Refreshers : Spends(r) \/ Stores(r)
  \/ \E a \in Admins : SpendsByHand(a) \/ Writes(a) \/ Starts(a)

\* What is remembered was remembered or is read from the account.
LEMMA OriginsStep ==
  ASSUME TypeOK, [Next]_vars
  PROVE  Origins
<1>1. ASSUME NEW r \in Refreshers, AcquireRefreshLock(r) PROVE Origins
  BY <1>1, AcquireEffect DEF AcquireRefreshLock, Origins, OthersSame, AdminsSame, admins
<1>2. ASSUME NEW r \in Refreshers, DegradeToUnlocked(r) PROVE Origins
  BY <1>2, AcquireEffect DEF DegradeToUnlocked, Origins, OthersSame, AdminsSame, admins
<1>3. ASSUME NEW r \in Refreshers, RereadAccount(r) PROVE Origins
  BY <1>3, RereadEffect DEF RereadAccount, Origins, OthersSame, AdminsSame, admins
<1>4. ASSUME NEW r \in Refreshers, Refresh(r) PROVE Origins
  BY <1>4, GotoEffect, SpendEffect DEF Refresh, Origins, OthersSame, AdminsSame, admins
<1>5. ASSUME NEW r \in Refreshers, Persist(r) PROVE Origins
  BY <1>5, GotoEffect, StoreEffect DEF Persist, Origins, OthersSame, AdminsSame, admins
<1>6. ASSUME NEW r \in Refreshers, TryRecoverFromRefreshRace(r) PROVE Origins
  BY <1>6, GotoEffect DEF TryRecoverFromRefreshRace, Origins, OthersSame, AdminsSame, admins
<1>7. ASSUME NEW r \in Refreshers, ReleaseRefreshLock(r) PROVE Origins
  BY <1>7, ReleasedEffect DEF ReleaseRefreshLock, Origins, OthersSame, AdminsSame, admins
<1>8. ASSUME NEW r \in Refreshers, Quarantine(r) PROVE Origins
  BY <1>8, IdleEffect DEF Quarantine, Origins, OthersSame, AdminsSame, admins
<1>9. ASSUME NEW r \in Refreshers, AttemptFails(r) PROVE Origins
  BY <1>9, GotoEffect, IdleEffect, SpendEffect, StoreEffect DEF AttemptFails, Origins,
     OthersSame, AdminsSame, admins
<1>10. ASSUME NEW r \in Refreshers, ReleaseFails(r) PROVE Origins
  BY <1>10, ReleasedEffect DEF ReleaseFails, Origins, OthersSame, AdminsSame, admins
<1>11. ASSUME NEW r \in Refreshers, Stall(r) PROVE Origins
  BY <1>11, GotoEffect DEF Stall, Origins, OthersSame, AdminsSame, admins
<1>12. ASSUME NEW r \in Refreshers, Crash(r) PROVE Origins
  BY <1>12, IdleEffect DEF Crash, Origins, OthersSame, AdminsSame, admins
<1>13. CASE LockExpires
  BY <1>13 DEF LockExpires, Origins, OthersSame, AdminsSame, admins
<1>14. CASE TokenAges
  BY <1>14 DEF TokenAges, Origins, OthersSame, AdminsSame, admins
<1>15. ASSUME NEW a \in Admins, NEW kind \in Kinds, AdminStarts(a, kind) PROVE Origins
  BY <1>15, StartEffect DEF AdminStarts, Origins, OthersSame, AdminsSame, admins
<1>16. ASSUME NEW a \in Admins, AdminRefreshes(a) PROVE Origins
  BY <1>16, AdminRefreshEffect, AdmDoneEffect, SpendEffect DEF AdminRefreshes, Origins,
     OthersSame, AdminsSame, admins
<1>17. ASSUME NEW a \in Admins, AdminReads(a) PROVE Origins
  BY <1>17, ReadEffect DEF AdminReads, Origins, OthersSame, AdminsSame, admins
<1>18. ASSUME NEW a \in Admins, AdminWrites(a) PROVE Origins
  BY <1>18, WriteEffect DEF AdminWrites, Origins, OthersSame, AdminsSame, admins
<1>19. ASSUME NEW a \in Admins, AdminClears(a) PROVE Origins
  BY <1>19, AdmDoneEffect DEF AdminClears, Origins, OthersSame, AdminsSame, admins
<1>20. ASSUME NEW a \in Admins, AdminFails(a) PROVE Origins
  BY <1>20, AdmDoneEffect, SpendEffect DEF AdminFails, Origins, OthersSame, AdminsSame, admins
<1>21. CASE UNCHANGED vars
  BY <1>21 DEF vars, Origins, OthersSame, AdminsSame, admins
<1>22. ASSUME NEW r \in Refreshers, ProviderDenies(r) PROVE Origins
  BY <1>22, DenyEffect DEF Origins, OthersSame, AdminsSame
<1>23. ASSUME NEW r \in Refreshers, RequestFindsUnusable(r) PROVE Origins
  BY <1>23, UnusableEffect DEF RequestFindsUnusable, Origins, OthersSame, AdminsSame, admins
<1> QED
  BY <1>1, <1>2, <1>3, <1>4, <1>5, <1>6, <1>7, <1>8, <1>9, <1>10, <1>11, <1>12, <1>13, <1>14,
     <1>15, <1>16, <1>17, <1>18, <1>19, <1>20, <1>21, <1>22, <1>23 DEF Next, Attempt

\* Every step is one of the steps on tokens.
LEMMA TokenSteps ==
  ASSUME TypeOK, [Next]_vars
  PROVE  TokenStep
<1>1. ASSUME NEW r \in Refreshers, AcquireRefreshLock(r) PROVE TokenStep
  BY <1>1, AcquireEffect, ReadTyped, TypeParts DEF AcquireRefreshLock, TokenStep, Quiet,
     KeepHolders, KeepCarriers, Holding, Carrying, SameToken, OthersSame, AdminsSame, admins
<1>2. ASSUME NEW r \in Refreshers, DegradeToUnlocked(r) PROVE TokenStep
  BY <1>2, AcquireEffect, ReadTyped, TypeParts DEF DegradeToUnlocked, TokenStep, Quiet,
     KeepHolders, KeepCarriers, Holding, Carrying, SameToken, OthersSame, AdminsSame, admins
<1>3. ASSUME NEW r \in Refreshers, RereadAccount(r) PROVE TokenStep
  BY <1>3, RereadEffect, ReadTyped, TypeParts DEF RereadAccount, TokenStep, Quiet, KeepHolders,
     KeepCarriers, Holding, Carrying, SameToken, OthersSame, AdminsSame, admins
<1>4. ASSUME NEW r \in Refreshers, Refresh(r) PROVE TokenStep
  BY <1>4, GotoEffect, SpendEffect, ReadTyped, TypeParts DEF Refresh, Spends, TokenStep, Quiet,
     KeepHolders, KeepCarriers, Holding, Carrying, SameToken, OthersSame, AdminsSame, admins
<1>5. ASSUME NEW r \in Refreshers, Persist(r) PROVE TokenStep
  <2>1. CASE SameDoc(row, job[r].used)
    <3>1. Stores(r)
      BY <1>5, <2>1, GotoEffect, StoreEffect DEF Persist, Stores, SameDoc, SameToken, Tok, Next1,
         Token, Holding, KeepHolders, KeepCarriers, Carrying, OthersSame, admins
    <3> QED
      BY <3>1 DEF TokenStep
  <2>2. CASE ~SameDoc(row, job[r].used)
    <3>1. Quiet
      BY <1>5, <2>2, GotoEffect DEF Persist, Quiet, SameToken, Holding, KeepHolders, KeepCarriers,
         Carrying, OthersSame, admins
    <3> QED
      BY <3>1 DEF TokenStep
  <2> QED
    BY <2>1, <2>2
<1>6. ASSUME NEW r \in Refreshers, TryRecoverFromRefreshRace(r) PROVE TokenStep
  BY <1>6, GotoEffect, ReadTyped, TypeParts DEF TryRecoverFromRefreshRace, TokenStep, Quiet,
     KeepHolders, KeepCarriers, Holding, Carrying, SameToken, OthersSame, AdminsSame, admins
<1>7. ASSUME NEW r \in Refreshers, ReleaseRefreshLock(r) PROVE TokenStep
  BY <1>7, ReleasedEffect, ReadTyped, TypeParts DEF ReleaseRefreshLock, TokenStep, Quiet,
     KeepHolders, KeepCarriers, Holding, Carrying, SameToken, OthersSame, AdminsSame, admins
<1>8. ASSUME NEW r \in Refreshers, Quarantine(r) PROVE TokenStep
  BY <1>8, QuarantineEffect, ReadTyped, TypeParts DEF TokenStep, Quiet, KeepHolders,
     KeepCarriers, Holding, Carrying, SameDoc, SameToken, OthersSame
<1>9. ASSUME NEW r \in Refreshers, AttemptFails(r) PROVE TokenStep
  <2> adm' = adm /\ jobs' = jobs
    BY <1>9 DEF AttemptFails, admins
  <2>1. CASE job[r].step = "persist" /\ SameDoc(row, job[r].used) /\ Store(r) /\ UNCHANGED live
    <3>1. Goto(r, "release")
      BY <1>9, <2>1 DEF AttemptFails
    <3>2. Stores(r)
      BY <2>1, <3>1, GotoEffect, StoreEffect DEF Stores, SameDoc, SameToken, Tok, Next1,
         Token, Holding, KeepHolders, KeepCarriers, Carrying, OthersSame
    <3> QED
      BY <3>2 DEF TokenStep
  <2>2. CASE /\ job[r].step = "ask" /\ Goto(r, "release") /\ UNCHANGED row
             /\ IsLive(job[r].used) /\ Spend(job[r].used)
    <3>1. Spends(r)
      BY <2>2, GotoEffect DEF Spends, Holding, KeepCarriers, Carrying
    <3> QED
      BY <3>1 DEF TokenStep
  <2>3. CASE UNCHANGED <<row, live>>
    <3>1. Idle(r) \/ Goto(r, "release") \/ Goto(r, "condemn")
      BY <1>9 DEF AttemptFails
    <3>2. Quiet
      BY <2>3, <3>1, GotoEffect, IdleEffect DEF Quiet, SameToken, Holding, KeepHolders,
         KeepCarriers, Carrying, OthersSame
    <3> QED
      BY <3>2 DEF TokenStep
  <2> QED
    BY <1>9, <2>1, <2>2, <2>3 DEF AttemptFails
<1>10. ASSUME NEW r \in Refreshers, ReleaseFails(r) PROVE TokenStep
  BY <1>10, ReleasedEffect, ReadTyped, TypeParts DEF ReleaseFails, TokenStep, Quiet,
     KeepHolders, KeepCarriers, Holding, Carrying, SameToken, OthersSame, AdminsSame, admins
<1>11. ASSUME NEW r \in Refreshers, Stall(r) PROVE TokenStep
  BY <1>11, GotoEffect, ReadTyped, TypeParts DEF Stall, TokenStep, Quiet, KeepHolders,
     KeepCarriers, Holding, Carrying, SameToken, OthersSame, AdminsSame, admins
<1>12. ASSUME NEW r \in Refreshers, Crash(r) PROVE TokenStep
  BY <1>12, IdleEffect, ReadTyped, TypeParts DEF Crash, TokenStep, Quiet, KeepHolders,
     KeepCarriers, Holding, Carrying, SameToken, OthersSame, AdminsSame, admins
<1>13. CASE LockExpires
  BY <1>13, ReadTyped, TypeParts DEF LockExpires, TokenStep, Quiet, KeepHolders, KeepCarriers,
     Holding, Carrying, SameToken, OthersSame, AdminsSame, admins
<1>14. CASE TokenAges
  BY <1>14, ReadTyped, TypeParts DEF TokenAges, TokenStep, Quiet, KeepHolders, KeepCarriers,
     Holding, Carrying, SameToken, OthersSame, AdminsSame, admins
<1>15. ASSUME NEW a \in Admins, NEW kind \in Kinds, AdminStarts(a, kind) PROVE TokenStep
  <2>1. jobs' \in Grants
    BY <1>15, TypeParts, BoundsAssumption DEF AdminStarts, TypeJobs, Grants
  <2>2. Starts(a)
    BY <1>15, <2>1, StartEffect DEF AdminStarts, Starts, KeepHolders, Holding
  <2> QED
    BY <2>2 DEF TokenStep
<1>16. ASSUME NEW a \in Admins, AdminRefreshes(a) PROVE TokenStep
  BY <1>16, AdminRefreshEffect, AdmDoneEffect, SpendEffect, ReadTyped, TypeParts DEF
     AdminRefreshes, SpendsByHand, TokenStep, Quiet, KeepHolders, KeepCarriers, Holding,
     Carrying, SameToken, OthersSame, AdminsSame, admins
<1>17. ASSUME NEW a \in Admins, AdminReads(a) PROVE TokenStep
  BY <1>17, ReadEffect, ReadTyped, TypeParts DEF AdminReads, TokenStep, Quiet, KeepHolders,
     KeepCarriers, Holding, Carrying, SameToken, OthersSame, AdminsSame, admins
<1>18. ASSUME NEW a \in Admins, AdminWrites(a) PROVE TokenStep
  BY <1>18, WriteEffect, ReadTyped, TypeParts DEF AdminWrites, Writes, TokenStep, Quiet,
     KeepHolders, KeepCarriers, Holding, Carrying, SameToken, OthersSame, AdminsSame, admins
<1>19. ASSUME NEW a \in Admins, AdminClears(a) PROVE TokenStep
  BY <1>19, AdmDoneEffect, ReadTyped, TypeParts DEF AdminClears, TokenStep, Quiet, KeepHolders,
     KeepCarriers, Holding, Carrying, SameToken, OthersSame, AdminsSame, admins
<1>20. ASSUME NEW a \in Admins, AdminFails(a) PROVE TokenStep
  <2> row' = row /\ job' = job /\ jobs' = jobs /\ AdmDone(a)
    BY <1>20 DEF AdminFails
  <2>1. CASE live' = live
    <3>1. Quiet
      BY <2>1, AdmDoneEffect DEF Quiet, SameToken, Holding, KeepHolders, KeepCarriers, Carrying,
         AdminsSame
    <3> QED
      BY <3>1 DEF TokenStep
  <2>2. CASE adm[a].step = "ask" /\ IsLive(adm[a].copy) /\ Spend(adm[a].copy)
    <3>1. SpendsByHand(a)
      BY <2>2, AdmDoneEffect DEF SpendsByHand, Holding, KeepHolders, Carrying
    <3> QED
      BY <3>1 DEF TokenStep
  <2> QED
    BY <1>20, <2>1, <2>2 DEF AdminFails
<1>21. CASE UNCHANGED vars
  BY <1>21, ReadTyped, TypeParts DEF vars, TokenStep, Quiet, KeepHolders, KeepCarriers,
     Holding, Carrying, SameToken, OthersSame, AdminsSame, admins
<1>22. ASSUME NEW r \in Refreshers, ProviderDenies(r) PROVE TokenStep
  BY <1>22, DenyEffect, ReadTyped, TypeParts DEF TokenStep, Quiet, KeepHolders, KeepCarriers,
     Holding, Carrying, SameToken, OthersSame, AdminsSame
<1>23. ASSUME NEW r \in Refreshers, RequestFindsUnusable(r) PROVE TokenStep
  BY <1>23, UnusableEffect, ReadTyped, TypeParts DEF RequestFindsUnusable, TokenStep, Quiet,
     KeepHolders, KeepCarriers, Holding, Carrying, SameToken, OthersSame, AdminsSame, admins
<1> QED
  BY <1>1, <1>2, <1>3, <1>4, <1>5, <1>6, <1>7, <1>8, <1>9, <1>10, <1>11, <1>12, <1>13, <1>14,
     <1>15, <1>16, <1>17, <1>18, <1>19, <1>20, <1>21, <1>22, <1>23 DEF Next, Attempt

-----------------------------------------------------------------------------
(* Tokens that are known, and tokens that are held                         *)

\* ReadTyped and the numbers behind it, for the state after the step.
LEMMA ReadTypedNext ==
  ASSUME TypeOK'
  PROVE  /\ row'.grant \in Grants /\ row'.gen \in Nat
         /\ \A r \in Refreshers : job'[r].used.grant \in Grants /\ job'[r].used.gen \in Nat
         /\ \A a \in Admins : /\ adm'[a].copy.grant \in Grants /\ adm'[a].copy.gen \in Nat
                              /\ adm'[a].hand.grant \in Grants /\ adm'[a].hand.gen \in Nat
<1>1. row'.grant \in Grants /\ row'.gen \in Nat
  BY TypePartsNext DEF TypeRow, Rows
<1>2. \A r \in Refreshers : job'[r].used \in Rows
  BY TypePartsNext DEF TypeJob, Attempts
<1>3. \A a \in Admins : adm'[a].copy \in Rows /\ adm'[a].hand \in Tokens
  BY TypePartsNext DEF TypeAdm, Requests
<1> QED
  BY <1>1, <1>2, <1>3 DEF Rows, Tokens

\* Grants and generations are numbers.
LEMMA Numbers ==
  ASSUME TypeOK
  PROVE  /\ jobs \in Nat /\ \A g \in Grants : g \in Nat /\ live[g] \in Nat
         /\ FirstRow.grant = 0 /\ FirstRow.gen = 0 /\ 0 \in Grants
BY TypeParts, EmptyTyped, BoundsAssumption DEF TypeJobs, TypeLive, Grants, FirstRow

\* The provider only moves on, and so do the grants.
LEMMA LiveGrows ==
  ASSUME TypeOK, TokenStep
  PROVE  jobs <= jobs' /\ \A g \in Grants : live[g] <= live'[g]
<1> USE Numbers, ReadTyped
<1>1. CASE Quiet
  BY <1>1 DEF Quiet
<1>2. ASSUME NEW r \in Refreshers, Spends(r)
      PROVE  jobs <= jobs' /\ \A g \in Grants : live[g] <= live'[g]
  BY <1>2, SpendEffect DEF Spends
<1>3. ASSUME NEW r \in Refreshers, Stores(r)
      PROVE  jobs <= jobs' /\ \A g \in Grants : live[g] <= live'[g]
  BY <1>3 DEF Stores
<1>4. ASSUME NEW a \in Admins, SpendsByHand(a)
      PROVE  jobs <= jobs' /\ \A g \in Grants : live[g] <= live'[g]
  BY <1>4, SpendEffect DEF SpendsByHand
<1>5. ASSUME NEW a \in Admins, Writes(a)
      PROVE  jobs <= jobs' /\ \A g \in Grants : live[g] <= live'[g]
  BY <1>5 DEF Writes
<1>6. ASSUME NEW a \in Admins, Starts(a)
      PROVE  jobs <= jobs' /\ \A g \in Grants : live[g] <= live'[g]
  BY <1>6 DEF Starts
<1> QED
  BY <1>1, <1>2, <1>3, <1>4, <1>5, <1>6 DEF TokenStep

\* Nobody knows a token that was not issued.
LEMMA BelowStep ==
  ASSUME TypeOK, TypeOK', Held, Origins, TokenStep
  PROVE  Below'
<1> USE Numbers, ReadTyped, ReadTypedNext
<1>1. ASSUME NEW x, x.grant \in Grants, x.gen \in Nat, Known(x)
      PROVE  x.gen <= live'[x.grant] /\ x.grant <= jobs'
  <2>1. live'[x.grant] \in Nat /\ jobs' \in Nat
    BY <1>1, TypePartsNext DEF TypeLive, TypeJobs, Grants
  <2> QED
    BY <1>1, <2>1, LiveGrows DEF Known
<1>2. Known(FirstRow)
  BY DEF Known
<1>3. Known(row) /\ \A s \in Refreshers : Known(job[s].used)
  BY DEF Held, Below
<1>4. \A b \in Admins : Known(adm[b].copy)
  BY DEF Held, Below
<1>5. ASSUME NEW s \in Refreshers PROVE Known(job[s].used)'
  <2>1. Known(job'[s].used)
    BY <1>2, <1>3 DEF Origins
  <2> QED
    BY <1>1, <2>1 DEF Known
<1>6. ASSUME NEW b \in Admins PROVE Known(adm[b].copy)'
  <2>1. Known(adm'[b].copy)
    BY <1>2, <1>3, <1>4 DEF Origins
  <2> QED
    BY <1>1, <2>1 DEF Known
<1>7. Known(row')
  <2>1. CASE row'.grant = row.grant /\ row'.gen = row.gen
    BY <2>1, <1>3 DEF Known
  <2>2. ASSUME NEW r \in Refreshers, Stores(r) PROVE Known(row')
    <3>1. Fine(Tok(r))
      BY <2>2 DEF Stores, Held, Fresh
    <3>2. row'.gen = Tok(r).gen /\ row'.grant = Tok(r).grant
      BY <2>2 DEF Stores, SameToken
    <3> QED
      BY <3>1, <3>2 DEF Fine, Known
  <2>3. ASSUME NEW a \in Admins, Writes(a) PROVE Known(row')
    BY <2>3, <1>4 DEF Writes, Held, Fresh, Fine, SameToken, Known
  <2> QED
    BY <2>1, <2>2, <2>3 DEF TokenStep, Quiet, Spends, SpendsByHand, Starts, SameToken
<1>8. Known(row)'
  BY <1>1, <1>7 DEF Known
<1>9. ASSUME NEW g \in Grants, jobs' < g PROVE live'[g] = 0
  <2>1. live[g] = 0 /\ jobs < g
    BY <1>9, LiveGrows, TypePartsNext DEF Held, Below, TypeJobs, Grants
  <2>2. ASSUME NEW r \in Refreshers, Spends(r) PROVE live'[g] = 0
    BY <2>1, <2>2, <1>3, SpendEffect DEF Spends, Known
  <2>3. ASSUME NEW a \in Admins, SpendsByHand(a) PROVE live'[g] = 0
    BY <2>1, <2>3, <1>4, SpendEffect DEF SpendsByHand, Known
  <2> QED
    BY <2>1, <2>2, <2>3 DEF TokenStep, Quiet, Stores, Writes, Starts
<1> QED
  BY <1>5, <1>6, <1>8, <1>9 DEF Below

\* A token that nobody has read stays so until it is stored.
Clear(t) ==
  /\ Newer(t, FirstRow) /\ Newer(t, row')
  /\ \A s \in Refreshers : Newer(t, job'[s].used)
  /\ \A b \in Admins : Newer(t, adm'[b].copy)

\* Only storing it can make such a token known.
LEMMA UnseenStep ==
  ASSUME Origins, NEW t, Unseen(t), Newer(t, row')
  PROVE  Clear(t)
BY DEF Origins, Unseen, Clear

\* Someone spends x: other tokens that are held belong to other grants, and
\* the successor of x is new to all.
LEMMA OtherGrant ==
  ASSUME TypeOK, NEW t, NEW x, x.gen \in Nat, IsLive(x), Newer(t, x), Fine(t)
  PROVE  t.grant # x.grant
BY DEF IsLive, Newer, Fine

\* The successor of a token that is spent is known to nobody.
LEMMA SuccessorClear ==
  ASSUME TypeOK, TypeOK', Held, Origins, row' = row,
         NEW x, x.grant \in Grants, x.gen \in Nat, IsLive(x)
  PROVE  Clear(Next1(Token(x)))
<1> DEFINE t == Next1(Token(x))
<1> USE Numbers, ReadTyped
<1>0. t.grant = x.grant /\ t.gen = x.gen + 1
  BY DEF Next1, Token
<1>1. ASSUME NEW y, y.grant \in Grants, y.gen \in Nat, Known(y) PROVE Newer(t, y)
  BY <1>0, <1>1 DEF Known, IsLive, Newer
<1>2. Newer(t, FirstRow)
  BY <1>0 DEF Newer
<1>3. Unseen(t)
  BY <1>1, <1>2 DEF Held, Below, Unseen
<1>4. Newer(t, row')
  BY <1>3 DEF Unseen
<1> QED
  BY <1>3, <1>4, UnseenStep

\* Whoever spent a token holds its successor: the provider accepts it and
\* nobody has read it.
LEMMA FreshStep ==
  ASSUME TypeOK, TypeOK', Held, Origins, TokenStep
  PROVE  Fresh'
<1> USE Numbers, ReadTyped, ReadTypedNext
<1> DEFINE Good(t) == t.gen = live'[t.grant] /\ t.grant <= jobs' /\ Clear(t)
           Holders == \A s \in Refreshers : Holding(s)' => Good(Tok(s)')
           Carriers == \A b \in Admins : Carrying(b)' => Good(adm'[b].hand)
<1>1. SUFFICES Holders /\ Carriers
  BY DEF Fresh, Fine, Unseen, Clear
<1>2. /\ \A s \in Refreshers : Holding(s) => Fine(Tok(s)) /\ Tok(s).grant \in Grants /\ Tok(s).gen \in Nat
      /\ \A b \in Admins : Carrying(b) => Fine(adm[b].hand)
  BY DEF Held, Fresh, Tok, Next1, Token
<1>3. KeepHolders => \A s \in Refreshers : Holding(s)' => Holding(s) /\ Tok(s)' = Tok(s)
  BY DEF KeepHolders, Tok, Next1, Token
<1>4. ASSUME NEW t, Fine(t), Newer(t, row'), live'[t.grant] = live[t.grant], jobs' = jobs
      PROVE  Good(t)
  BY <1>4, UnseenStep DEF Fine
<1>5. CASE Quiet
  <2>1. \A t : Fine(t) => Newer(t, row')
    BY <1>5 DEF Quiet, SameToken, Fine, Unseen, Newer
  <2> QED
    BY <1>2, <1>3, <1>4, <1>5, <2>1 DEF Quiet, KeepCarriers
<1>6. ASSUME NEW r \in Refreshers, Spends(r) PROVE Holders /\ Carriers
  <2> DEFINE x == job[r].used
  <2>1. ASSUME NEW t, Fine(t), t.grant \in Grants PROVE Good(t)
    <3>1. t.grant # x.grant
      BY <1>6, <2>1, OtherGrant DEF Spends, Fine, Unseen
    <3>2. live'[t.grant] = live[t.grant]
      BY <1>6, <2>1, <3>1, SpendEffect DEF Spends
    <3>3. Newer(t, row') /\ jobs' = jobs
      BY <1>6, <2>1 DEF Spends, Fine, Unseen
    <3> QED
      BY <1>4, <2>1, <3>2, <3>3
  <2>2. Good(Next1(Token(x)))
    <3>1. live'[x.grant] = x.gen + 1 /\ jobs' = jobs /\ x.grant <= jobs
      BY <1>6, SpendEffect DEF Spends, IsLive, Held, Below, Known
    <3>2. Clear(Next1(Token(x)))
      BY <1>6, SuccessorClear DEF Spends
    <3> QED
      BY <3>1, <3>2 DEF Next1, Token
  <2>3. ASSUME NEW s \in Refreshers, Holding(s)' PROVE Good(Tok(s)')
    <3>1. CASE s = r
      BY <1>6, <2>2, <3>1 DEF Spends, Tok, Next1, Token
    <3>2. CASE s # r
      <4>1. Holding(s) /\ Tok(s)' = Tok(s)
        BY <1>6, <2>3, <3>2 DEF Spends, OthersSame, Holding, Tok, Next1, Token
      <4> QED
        BY <1>2, <2>1, <4>1
    <3> QED
      BY <3>1, <3>2
  <2>4. Carriers
    BY <1>2, <1>6, <2>1 DEF Spends, KeepCarriers
  <2> QED
    BY <2>3, <2>4
<1>7. ASSUME NEW r \in Refreshers, Stores(r) PROVE Holders /\ Carriers
  <2>1. ASSUME NEW t, Fine(t), ~SameToken(Tok(r), t) PROVE Good(t)
    <3>1. t.grant # Tok(r).grant
      BY <1>2, <1>7, <2>1 DEF Stores, Fine, SameToken
    <3>2. Newer(t, row') /\ jobs' = jobs /\ live' = live
      BY <1>7, <3>1 DEF Stores, SameToken, Newer
    <3> QED
      BY <1>4, <2>1, <3>2
  <2>2. ASSUME NEW s \in Refreshers, Holding(s)' PROVE Good(Tok(s)')
    <3>1. Holding(s) /\ Tok(s)' = Tok(s) /\ s # r
      BY <1>3, <1>7, <2>2 DEF Stores
    <3> QED
      BY <1>2, <1>7, <2>1, <3>1 DEF Stores, Held, Apart
  <2>3. Carriers
    BY <1>2, <1>7, <2>1 DEF Stores, KeepCarriers, Held, Apart
  <2> QED
    BY <2>2, <2>3
<1>8. ASSUME NEW a \in Admins, SpendsByHand(a) PROVE Holders /\ Carriers
  <2> DEFINE x == adm[a].copy
  <2>1. ASSUME NEW t, Fine(t), t.grant \in Grants PROVE Good(t)
    <3>1. t.grant # x.grant
      BY <1>8, <2>1, OtherGrant DEF SpendsByHand, Fine, Unseen
    <3>2. live'[t.grant] = live[t.grant]
      BY <1>8, <2>1, <3>1, SpendEffect DEF SpendsByHand
    <3>3. Newer(t, row') /\ jobs' = jobs
      BY <1>8, <2>1 DEF SpendsByHand, Fine, Unseen
    <3> QED
      BY <1>4, <2>1, <3>2, <3>3
  <2>2. Good(Next1(Token(x)))
    <3>1. live'[x.grant] = x.gen + 1 /\ jobs' = jobs /\ x.grant <= jobs
      BY <1>8, SpendEffect DEF SpendsByHand, IsLive, Held, Below, Known
    <3>2. Clear(Next1(Token(x)))
      BY <1>8, SuccessorClear DEF SpendsByHand
    <3> QED
      BY <3>1, <3>2 DEF Next1, Token
  <2>3. Holders
    BY <1>2, <1>3, <1>8, <2>1 DEF SpendsByHand
  <2>4. ASSUME NEW b \in Admins, Carrying(b)' PROVE Good(adm'[b].hand)
    <3>1. CASE b = a
      BY <1>8, <2>2, <2>4, <3>1 DEF SpendsByHand
    <3>2. CASE b # a
      <4>1. Carrying(b) /\ adm'[b].hand = adm[b].hand
        BY <1>8, <2>4, <3>2 DEF SpendsByHand, AdminsSame, Carrying
      <4> QED
        BY <1>2, <2>1, <4>1
    <3> QED
      BY <3>1, <3>2
  <2> QED
    BY <2>3, <2>4
<1>9. ASSUME NEW a \in Admins, Writes(a) PROVE Holders /\ Carriers
  <2>1. ASSUME NEW t, Fine(t), Carrying(a) => ~SameToken(t, adm[a].hand) PROVE Good(t)
    <3>1. CASE SameToken(row', adm[a].copy)
      BY <1>4, <1>9, <2>1, <3>1 DEF Writes, Fine, Unseen, Newer, SameToken
    <3>2. CASE Carrying(a) /\ SameToken(row', adm[a].hand)
      <4>1. t.grant # adm[a].hand.grant
        BY <1>2, <2>1, <3>2 DEF Fine, SameToken
      <4>2. Newer(t, row')
        BY <3>2, <4>1 DEF SameToken, Newer
      <4> QED
        BY <1>4, <1>9, <2>1, <4>2 DEF Writes
    <3> QED
      BY <1>9, <3>1, <3>2 DEF Writes
  <2>2. Holders
    BY <1>2, <1>3, <1>9, <2>1 DEF Writes, Held, Apart
  <2>3. ASSUME NEW b \in Admins, Carrying(b)' PROVE Good(adm'[b].hand)
    <3>1. b # a /\ Carrying(b) /\ adm'[b].hand = adm[b].hand
      BY <1>9, <2>3 DEF Writes, KeepCarriers
    <3> QED
      BY <1>2, <2>1, <3>1 DEF Held, Apart
  <2> QED
    BY <2>2, <2>3
<1>10. ASSUME NEW a \in Admins, Starts(a) PROVE Holders /\ Carriers
  <2>1. ASSUME NEW t, Fine(t), t.grant \in Grants PROVE Good(t)
    <3>1. t.gen = live'[t.grant] /\ t.grant <= jobs'
      <4>1. t.grant \in Nat /\ t.gen = live[t.grant] /\ t.grant <= jobs
        BY <2>1 DEF Fine
      <4> QED
        BY <1>10, <4>1 DEF Starts
    <3>2. Unseen(t) /\ Newer(t, row')
      BY <1>10, <2>1 DEF Starts, Fine, Unseen
    <3> QED
      BY <3>1, <3>2, UnseenStep
  <2>2. Good([grant |-> jobs + 1, gen |-> 0])
    <3> DEFINE t == [grant |-> jobs + 1, gen |-> 0]
    <3>1. \A y : Known(y) => Newer(t, y)
      BY DEF Known, Newer
    <3>2. Unseen(t)
      BY <3>1 DEF Unseen, Held, Below, Newer
    <3>3. Clear(t)
      BY <1>10, <3>2, UnseenStep DEF Starts, Unseen
    <3>4. live'[jobs + 1] = 0
      BY <1>10 DEF Starts, Held, Below
    <3> QED
      BY <1>10, <3>3, <3>4 DEF Starts
  <2>3. Holders
    BY <1>2, <1>3, <1>10, <2>1 DEF Starts
  <2>4. ASSUME NEW b \in Admins, Carrying(b)' PROVE Good(adm'[b].hand)
    <3>1. CASE b = a
      BY <1>10, <2>2, <3>1 DEF Starts
    <3>2. CASE b # a
      <4>1. Carrying(b) /\ adm'[b].hand = adm[b].hand
        BY <1>10, <2>4, <3>2 DEF Starts, AdminsSame, Carrying
      <4> QED
        BY <1>2, <2>1, <4>1
    <3> QED
      BY <3>1, <3>2
  <2> QED
    BY <2>3, <2>4
<1> QED
  BY <1>5, <1>6, <1>7, <1>8, <1>9, <1>10 DEF TokenStep

\* No two of them hold the same token.
LEMMA ApartStep ==
  ASSUME TypeOK, TypeOK', Held, TokenStep
  PROVE  Apart'
<1> USE Numbers, ReadTyped
<1>1. KeepHolders => \A s \in Refreshers : Holding(s)' => Holding(s) /\ Tok(s)' = Tok(s)
  BY DEF KeepHolders, Tok, Next1, Token
<1>2. /\ \A s \in Refreshers : Holding(s) => Fine(Tok(s))
      /\ \A b \in Admins : Carrying(b) => Fine(adm[b].hand)
  BY DEF Held, Fresh
<1>3. CASE KeepHolders /\ KeepCarriers
  BY <1>1, <1>3 DEF KeepCarriers, Held, Apart, SameToken
<1>4. ASSUME NEW x, x.grant \in Grants, x.gen \in Nat, IsLive(x), NEW t, Fine(t)
      PROVE  ~SameToken(Next1(Token(x)), t) /\ ~SameToken(t, Next1(Token(x)))
  BY <1>4 DEF IsLive, Fine, SameToken, Next1, Token
<1>5. ASSUME NEW r \in Refreshers, Spends(r) PROVE Apart'
  <2>1. \A s \in Refreshers \ {r} : Holding(s)' => Holding(s) /\ Tok(s)' = Tok(s)
    BY <1>5 DEF Spends, OthersSame, Holding, Tok, Next1, Token
  <2>2. Tok(r)' = Next1(Token(job[r].used))
    BY <1>5 DEF Spends, Tok, Next1, Token
  <2>3. \A t : Fine(t) => ~SameToken(Tok(r)', t) /\ ~SameToken(t, Tok(r)')
    BY <1>4, <1>5, <2>2 DEF Spends
  <2> QED
    BY <1>2, <1>5, <2>1, <2>3 DEF Spends, KeepCarriers, Held, Apart, SameToken
<1>6. ASSUME NEW a \in Admins, SpendsByHand(a) PROVE Apart'
  <2>1. \A b \in Admins \ {a} : Carrying(b)' => Carrying(b) /\ adm'[b].hand = adm[b].hand
    BY <1>6 DEF SpendsByHand, AdminsSame, Carrying
  <2>2. Carrying(a)' => \A t : Fine(t) => ~SameToken(adm'[a].hand, t) /\ ~SameToken(t, adm'[a].hand)
    BY <1>4, <1>6 DEF SpendsByHand
  <2> QED
    BY <1>1, <1>2, <1>6, <2>1, <2>2 DEF SpendsByHand, Held, Apart, SameToken
<1>7. ASSUME NEW a \in Admins, Starts(a) PROVE Apart'
  <2>1. \A b \in Admins \ {a} : Carrying(b)' => Carrying(b) /\ adm'[b].hand = adm[b].hand
    BY <1>7 DEF Starts, AdminsSame, Carrying
  <2>2. \A t : Fine(t) => ~SameToken(adm'[a].hand, t) /\ ~SameToken(t, adm'[a].hand)
    BY <1>7 DEF Starts, Fine, SameToken
  <2> QED
    BY <1>1, <1>2, <1>7, <2>1, <2>2 DEF Starts, Held, Apart, SameToken
<1> QED
  BY <1>3, <1>5, <1>6, <1>7 DEF TokenStep, Quiet, Stores, Writes

-----------------------------------------------------------------------------
(* Documents, refreshes by hand, the lock, and refused tokens              *)

\* A token that is about to be stored was read by no attempt.
LEMMA StoredUnread ==
  ASSUME TypeOK, Held, NEW r \in Refreshers, Holding(r)
  PROVE  \A s \in Refreshers :
           ~(job[s].used.grant = job[r].used.grant /\ job[s].used.gen = job[r].used.gen + 1)
<1>1. Unseen(Tok(r))
  BY DEF Held, Fresh, Fine
<1> QED
  BY <1>1, ReadTyped DEF Unseen, Newer, Tok, Next1, Token

\* The same for what an admin has in hand.
LEMMA WrittenUnread ==
  ASSUME TypeOK, Held, NEW a \in Admins, Carrying(a)
  PROVE  \A s \in Refreshers :
           ~(job[s].used.grant = adm[a].hand.grant /\ job[s].used.gen = adm[a].hand.gen)
<1>1. Unseen(adm[a].hand)
  BY DEF Held, Fresh, Fine
<1> QED
  BY <1>1, ReadTyped DEF Unseen, Newer

\* An attempt under way knows the stored document, unless an edit changed it.
LEMMA DocKnownStep ==
  ASSUME TypeOK, Held, DocKnown, [Next]_vars
  PROVE  DocKnown'
<1>1. ASSUME NEW r \in Refreshers, AcquireRefreshLock(r) PROVE DocKnown'
  BY <1>1, AcquireEffect DEF AcquireRefreshLock, DocKnown, SameDoc, SameToken, OthersSame,
     admins
<1>2. ASSUME NEW r \in Refreshers, DegradeToUnlocked(r) PROVE DocKnown'
  BY <1>2, AcquireEffect DEF DegradeToUnlocked, Mishap, DocKnown, SameDoc, SameToken,
     OthersSame, admins
<1>3. ASSUME NEW r \in Refreshers, RereadAccount(r) PROVE DocKnown'
  <2>1. ASSUME NEW s \in Refreshers PROVE s # r => job'[s] = job[s]
    BY <1>3, RereadEffect DEF OthersSame
  <2>2. job'[r].used = row /\ row' = row /\ mishaps' = mishaps
    BY <1>3, RereadEffect DEF RereadAccount
  <2> QED
    BY <2>1, <2>2 DEF DocKnown, SameDoc, SameToken
<1>4. ASSUME NEW r \in Refreshers, Refresh(r) PROVE DocKnown'
  BY <1>4, GotoEffect, SpendEffect DEF Refresh, DocKnown, SameDoc, SameToken, OthersSame,
     admins
<1>5. ASSUME NEW r \in Refreshers, Persist(r) PROVE DocKnown'
  <2>1. CASE SameDoc(row, job[r].used)
    <3>1. \A s \in Refreshers : ~SameToken(row', job'[s].used) \/ s = r
      BY <1>5, <2>1, GotoEffect, StoreEffect, StoredUnread DEF Persist, SameDoc, SameToken,
         OthersSame, Holding
    <3>2. job'[r].step = "release"
      BY <1>5, GotoEffect DEF Persist
    <3> QED
      BY <3>1, <3>2 DEF DocKnown
  <2>2. CASE ~SameDoc(row, job[r].used)
    BY <1>5, <2>2, GotoEffect DEF Persist, DocKnown, SameDoc, SameToken, OthersSame, admins
  <2> QED
    BY <2>1, <2>2
<1>6. ASSUME NEW r \in Refreshers, TryRecoverFromRefreshRace(r) PROVE DocKnown'
  BY <1>6, GotoEffect DEF TryRecoverFromRefreshRace, DocKnown, SameDoc, SameToken, OthersSame,
     admins
<1>7. ASSUME NEW r \in Refreshers, ReleaseRefreshLock(r) PROVE DocKnown'
  BY <1>7, ReleasedEffect DEF ReleaseRefreshLock, Mishap, DocKnown, SameDoc, SameToken,
     OthersSame, admins
<1>8. ASSUME NEW r \in Refreshers, Quarantine(r) PROVE DocKnown'
  BY <1>8, QuarantineEffect DEF DocKnown, SameDoc, SameToken, OthersSame
<1>9. ASSUME NEW r \in Refreshers, AttemptFails(r) PROVE DocKnown'
  <2>1. CASE job[r].step = "persist" /\ SameDoc(row, job[r].used) /\ Store(r) /\ Goto(r, "release")
    <3>1. \A s \in Refreshers : ~SameToken(row', job'[s].used) \/ s = r
      BY <2>1, GotoEffect, StoreEffect, StoredUnread DEF SameDoc, SameToken, OthersSame, Holding
    <3>2. job'[r].step = "release"
      BY <2>1, GotoEffect
    <3> QED
      BY <3>1, <3>2 DEF DocKnown
  <2>2. CASE UNCHANGED row
    <3>1. Goto(r, "release") \/ Goto(r, "condemn") \/ Idle(r)
      BY <1>9 DEF AttemptFails
    <3>2. job'[r].step \in {"release", "condemn", "idle"} /\ OthersSame(r)
      BY <3>1, GotoEffect, IdleEffect
    <3>3. mishaps \subseteq mishaps'
      BY <1>9 DEF AttemptFails, Mishap
    <3> QED
      BY <2>2, <3>2, <3>3 DEF DocKnown, SameDoc, SameToken, OthersSame
  <2> QED
    BY <1>9, <2>1, <2>2 DEF AttemptFails
<1>10. ASSUME NEW r \in Refreshers, ReleaseFails(r) PROVE DocKnown'
  BY <1>10, ReleasedEffect DEF ReleaseFails, DocKnown, SameDoc, SameToken, OthersSame, admins
<1>11. ASSUME NEW r \in Refreshers, Stall(r) PROVE DocKnown'
  BY <1>11, GotoEffect DEF Stall, Mishap, DocKnown, SameDoc, SameToken, OthersSame, admins
<1>12. ASSUME NEW r \in Refreshers, Crash(r) PROVE DocKnown'
  BY <1>12, IdleEffect DEF Crash, Mishap, DocKnown, SameDoc, SameToken, OthersSame, admins
<1>13. CASE LockExpires
  BY <1>13 DEF LockExpires, DocKnown, SameDoc, SameToken, OthersSame, admins
<1>14. CASE TokenAges
  BY <1>14 DEF TokenAges, DocKnown, SameDoc, SameToken, OthersSame, admins
<1>15. ASSUME NEW a \in Admins, NEW kind \in Kinds, AdminStarts(a, kind) PROVE DocKnown'
  BY <1>15, StartEffect DEF AdminStarts, DocKnown, SameDoc, SameToken, OthersSame, admins
<1>16. ASSUME NEW a \in Admins, AdminRefreshes(a) PROVE DocKnown'
  BY <1>16, AdminRefreshEffect, AdmDoneEffect, SpendEffect DEF AdminRefreshes, Mishap,
     DocKnown, SameDoc, SameToken, OthersSame, admins
<1>17. ASSUME NEW a \in Admins, AdminReads(a) PROVE DocKnown'
  BY <1>17, ReadEffect DEF AdminReads, DocKnown, SameDoc, SameToken, OthersSame, admins
<1>18. ASSUME NEW a \in Admins, AdminWrites(a) PROVE DocKnown'
  <2> job' = job /\ mishaps \subseteq mishaps'
    BY <1>18 DEF AdminWrites, Mishap
  <2>1. CASE Undoes(a)
    BY <1>18, <2>1 DEF AdminWrites, Mishap, DocKnown
  <2>2. CASE adm[a].kind = "edit" /\ ~Undoes(a)
    <3>1. SameDoc(adm[a].copy, row)
      BY <2>2 DEF Undoes
    <3>2. \A s \in Refreshers : job[s].step \in {"ask", "persist"} => ~SameToken(row, job[s].used)
      BY <2>2 DEF Undoes
    <3> QED
      BY <1>18, <2>2, <3>1, <3>2, WriteEffect DEF DocKnown, SameDoc, SameToken
  <2>3. CASE adm[a].kind # "edit"
    <3>1. Carrying(a)
      BY <1>18, <2>3 DEF AdminWrites, Carrying
    <3> QED
      BY <1>18, <2>3, <3>1, WriteEffect, WrittenUnread DEF DocKnown, SameToken
  <2> QED
    BY <2>1, <2>2, <2>3
<1>19. ASSUME NEW a \in Admins, AdminClears(a) PROVE DocKnown'
  BY <1>19, AdmDoneEffect DEF AdminClears, DocKnown, SameDoc, SameToken, OthersSame, admins
<1>20. ASSUME NEW a \in Admins, AdminFails(a) PROVE DocKnown'
  BY <1>20, AdmDoneEffect, SpendEffect DEF AdminFails, Mishap, DocKnown, SameDoc, SameToken,
     OthersSame, admins
<1>21. CASE UNCHANGED vars
  BY <1>21 DEF vars, DocKnown, SameDoc, SameToken, OthersSame, admins
<1>22. ASSUME NEW r \in Refreshers, ProviderDenies(r) PROVE DocKnown'
  BY <1>22, DenyEffect DEF DocKnown, SameDoc, SameToken, OthersSame
<1>23. ASSUME NEW r \in Refreshers, RequestFindsUnusable(r) PROVE DocKnown'
  BY <1>23, UnusableEffect DEF RequestFindsUnusable, DocKnown, SameDoc, SameToken, OthersSame,
     admins
<1> QED
  BY <1>1, <1>2, <1>3, <1>4, <1>5, <1>6, <1>7, <1>8, <1>9, <1>10, <1>11, <1>12, <1>13, <1>14,
     <1>15, <1>16, <1>17, <1>18, <1>19, <1>20, <1>21, <1>22, <1>23 DEF Next, Attempt

\* Whoever carries a token refreshed by hand is recorded.
LEMMA ManualStep ==
  ASSUME TypeOK, ManualKnown, [Next]_vars
  PROVE  ManualKnown'
<1>1. ASSUME NEW r \in Refreshers, AcquireRefreshLock(r) PROVE ManualKnown'
  BY <1>1, AcquireEffect DEF AcquireRefreshLock, ManualKnown, Mishap, AdminsSame, admins
<1>2. ASSUME NEW r \in Refreshers, DegradeToUnlocked(r) PROVE ManualKnown'
  BY <1>2, AcquireEffect DEF DegradeToUnlocked, ManualKnown, Mishap, AdminsSame, admins
<1>3. ASSUME NEW r \in Refreshers, RereadAccount(r) PROVE ManualKnown'
  BY <1>3, RereadEffect DEF RereadAccount, ManualKnown, Mishap, AdminsSame, admins
<1>4. ASSUME NEW r \in Refreshers, Refresh(r) PROVE ManualKnown'
  BY <1>4, GotoEffect, SpendEffect DEF Refresh, ManualKnown, Mishap, AdminsSame, admins
<1>5. ASSUME NEW r \in Refreshers, Persist(r) PROVE ManualKnown'
  BY <1>5, GotoEffect, StoreEffect DEF Persist, ManualKnown, Mishap, AdminsSame, admins
<1>6. ASSUME NEW r \in Refreshers, TryRecoverFromRefreshRace(r) PROVE ManualKnown'
  BY <1>6, GotoEffect DEF TryRecoverFromRefreshRace, ManualKnown, Mishap, AdminsSame, admins
<1>7. ASSUME NEW r \in Refreshers, ReleaseRefreshLock(r) PROVE ManualKnown'
  BY <1>7, ReleasedEffect DEF ReleaseRefreshLock, ManualKnown, Mishap, AdminsSame, admins
<1>8. ASSUME NEW r \in Refreshers, Quarantine(r) PROVE ManualKnown'
  BY <1>8, IdleEffect DEF Quarantine, ManualKnown, Mishap, AdminsSame, admins
<1>9. ASSUME NEW r \in Refreshers, AttemptFails(r) PROVE ManualKnown'
  BY <1>9, GotoEffect, IdleEffect, SpendEffect, StoreEffect DEF AttemptFails, ManualKnown,
     Mishap, AdminsSame, admins
<1>10. ASSUME NEW r \in Refreshers, ReleaseFails(r) PROVE ManualKnown'
  BY <1>10, ReleasedEffect DEF ReleaseFails, ManualKnown, Mishap, AdminsSame, admins
<1>11. ASSUME NEW r \in Refreshers, Stall(r) PROVE ManualKnown'
  BY <1>11, GotoEffect DEF Stall, ManualKnown, Mishap, AdminsSame, admins
<1>12. ASSUME NEW r \in Refreshers, Crash(r) PROVE ManualKnown'
  BY <1>12, IdleEffect DEF Crash, ManualKnown, Mishap, AdminsSame, admins
<1>13. CASE LockExpires
  BY <1>13 DEF LockExpires, ManualKnown, Mishap, AdminsSame, admins
<1>14. CASE TokenAges
  BY <1>14 DEF TokenAges, ManualKnown, Mishap, AdminsSame, admins
<1>15. ASSUME NEW a \in Admins, NEW kind \in Kinds, AdminStarts(a, kind) PROVE ManualKnown'
  BY <1>15, StartEffect DEF AdminStarts, ManualKnown, Mishap, AdminsSame, admins
<1>16. ASSUME NEW a \in Admins, AdminRefreshes(a) PROVE ManualKnown'
  BY <1>16, AdminRefreshEffect, AdmDoneEffect, SpendEffect DEF AdminRefreshes, ManualKnown,
     Mishap, AdminsSame, admins
<1>17. ASSUME NEW a \in Admins, AdminReads(a) PROVE ManualKnown'
  <2>1. mishaps' = mishaps /\ adm[a].step = "read"
    BY <1>17 DEF AdminReads
  <2> QED
    BY <1>17, <2>1, ReadEffect DEF ManualKnown, AdminsSame
<1>18. ASSUME NEW a \in Admins, AdminWrites(a) PROVE ManualKnown'
  BY <1>18, WriteEffect DEF AdminWrites, ManualKnown, Mishap, AdminsSame, admins
<1>19. ASSUME NEW a \in Admins, AdminClears(a) PROVE ManualKnown'
  BY <1>19, AdmDoneEffect DEF AdminClears, ManualKnown, Mishap, AdminsSame, admins
<1>20. ASSUME NEW a \in Admins, AdminFails(a) PROVE ManualKnown'
  BY <1>20, AdmDoneEffect, SpendEffect DEF AdminFails, ManualKnown, Mishap, AdminsSame, admins
<1>21. CASE UNCHANGED vars
  BY <1>21 DEF vars, ManualKnown, Mishap, AdminsSame, admins
<1>22. ASSUME NEW r \in Refreshers, ProviderDenies(r) PROVE ManualKnown'
  BY <1>22, DenyEffect DEF ManualKnown, AdminsSame
<1>23. ASSUME NEW r \in Refreshers, RequestFindsUnusable(r) PROVE ManualKnown'
  BY <1>23, UnusableEffect DEF RequestFindsUnusable, ManualKnown, Mishap, AdminsSame, admins
<1> QED
  BY <1>1, <1>2, <1>3, <1>4, <1>5, <1>6, <1>7, <1>8, <1>9, <1>10, <1>11, <1>12, <1>13, <1>14,
     <1>15, <1>16, <1>17, <1>18, <1>19, <1>20, <1>21, <1>22, <1>23 DEF Next, Attempt

\* While no refresh ran without the lock, who is refreshing owns it.
LEMMA GuardedStep ==
  ASSUME TypeOK, Guarded, [Next]_vars
  PROVE  Guarded'
<1>1. ASSUME NEW r \in Refreshers, AcquireRefreshLock(r) PROVE Guarded'
  BY <1>1, AcquireEffect, ActorsAssumption DEF AcquireRefreshLock, Guarded, Mishap, OthersSame,
     admins
<1>2. ASSUME NEW r \in Refreshers, DegradeToUnlocked(r) PROVE Guarded'
  BY <1>2, AcquireEffect, ActorsAssumption DEF DegradeToUnlocked, Guarded, Mishap, OthersSame,
     admins
<1>3. ASSUME NEW r \in Refreshers, RereadAccount(r) PROVE Guarded'
  BY <1>3, RereadEffect, ActorsAssumption DEF RereadAccount, Guarded, Mishap, OthersSame,
     admins
<1>4. ASSUME NEW r \in Refreshers, Refresh(r) PROVE Guarded'
  BY <1>4, GotoEffect, SpendEffect, ActorsAssumption DEF Refresh, Guarded, Mishap, OthersSame,
     admins
<1>5. ASSUME NEW r \in Refreshers, Persist(r) PROVE Guarded'
  BY <1>5, GotoEffect, StoreEffect, ActorsAssumption DEF Persist, Guarded, Mishap, OthersSame,
     admins
<1>6. ASSUME NEW r \in Refreshers, TryRecoverFromRefreshRace(r) PROVE Guarded'
  BY <1>6, GotoEffect, ActorsAssumption DEF TryRecoverFromRefreshRace, Guarded, Mishap,
     OthersSame, admins
<1>7. ASSUME NEW r \in Refreshers, ReleaseRefreshLock(r) PROVE Guarded'
  BY <1>7, ReleasedEffect, ActorsAssumption DEF ReleaseRefreshLock, Guarded, Mishap,
     OthersSame, admins
<1>8. ASSUME NEW r \in Refreshers, Quarantine(r) PROVE Guarded'
  BY <1>8, IdleEffect, ActorsAssumption DEF Quarantine, Guarded, Mishap, OthersSame, admins
<1>9. ASSUME NEW r \in Refreshers, AttemptFails(r) PROVE Guarded'
  BY <1>9, GotoEffect, IdleEffect, SpendEffect, StoreEffect, ActorsAssumption DEF AttemptFails,
     Guarded, Mishap, OthersSame, admins
<1>10. ASSUME NEW r \in Refreshers, ReleaseFails(r) PROVE Guarded'
  BY <1>10, ReleasedEffect, ActorsAssumption DEF ReleaseFails, Guarded, Mishap, OthersSame,
     admins
<1>11. ASSUME NEW r \in Refreshers, Stall(r) PROVE Guarded'
  BY <1>11, GotoEffect, ActorsAssumption DEF Stall, Guarded, Mishap, OthersSame, admins
<1>12. ASSUME NEW r \in Refreshers, Crash(r) PROVE Guarded'
  BY <1>12, IdleEffect, ActorsAssumption DEF Crash, Guarded, Mishap, OthersSame, admins
<1>13. CASE LockExpires
  BY <1>13, ActorsAssumption DEF LockExpires, Guarded, Mishap, OthersSame, admins
<1>14. CASE TokenAges
  BY <1>14, ActorsAssumption DEF TokenAges, Guarded, Mishap, OthersSame, admins
<1>15. ASSUME NEW a \in Admins, NEW kind \in Kinds, AdminStarts(a, kind) PROVE Guarded'
  BY <1>15, StartEffect, ActorsAssumption DEF AdminStarts, Guarded, Mishap, OthersSame, admins
<1>16. ASSUME NEW a \in Admins, AdminRefreshes(a) PROVE Guarded'
  BY <1>16, AdminRefreshEffect, AdmDoneEffect, SpendEffect, ActorsAssumption DEF
     AdminRefreshes, Guarded, Mishap, OthersSame, admins
<1>17. ASSUME NEW a \in Admins, AdminReads(a) PROVE Guarded'
  BY <1>17, ReadEffect, ActorsAssumption DEF AdminReads, Guarded, Mishap, OthersSame, admins
<1>18. ASSUME NEW a \in Admins, AdminWrites(a) PROVE Guarded'
  BY <1>18, WriteEffect, ActorsAssumption DEF AdminWrites, Guarded, Mishap, OthersSame, admins
<1>19. ASSUME NEW a \in Admins, AdminClears(a) PROVE Guarded'
  BY <1>19, AdmDoneEffect, ActorsAssumption DEF AdminClears, Guarded, Mishap, OthersSame,
     admins
<1>20. ASSUME NEW a \in Admins, AdminFails(a) PROVE Guarded'
  BY <1>20, AdmDoneEffect, SpendEffect, ActorsAssumption DEF AdminFails, Guarded, Mishap,
     OthersSame, admins
<1>21. CASE UNCHANGED vars
  BY <1>21, ActorsAssumption DEF vars, Guarded, Mishap, OthersSame, admins
<1>22. ASSUME NEW r \in Refreshers, ProviderDenies(r) PROVE Guarded'
  BY <1>22, DenyEffect, ActorsAssumption DEF Guarded, OthersSame
<1>23. ASSUME NEW r \in Refreshers, RequestFindsUnusable(r) PROVE Guarded'
  BY <1>23, UnusableEffect, ActorsAssumption DEF RequestFindsUnusable, Guarded, Mishap,
     OthersSame, admins
<1> QED
  BY <1>1, <1>2, <1>3, <1>4, <1>5, <1>6, <1>7, <1>8, <1>9, <1>10, <1>11, <1>12, <1>13, <1>14,
     <1>15, <1>16, <1>17, <1>18, <1>19, <1>20, <1>21, <1>22, <1>23 DEF Next, Attempt

\* What was refused stays refused, and no step but Refresh makes a holder.
StillRefused ==
  /\ \A s \in Refreshers : Revoked(s)' => Revoked(s) /\ job'[s].used = job[s].used
  /\ KeepHolders
  /\ mishaps \subseteq mishaps'

\* Every other step leaves attempts that were refused as they are.
LEMMA StillRefusedStep ==
  ASSUME TypeOK, [Next]_vars
  PROVE  StillRefused \/ \E p \in Refreshers : Refresh(p)
<1>1. ASSUME NEW r \in Refreshers, AcquireRefreshLock(r)
      PROVE  StillRefused \/ \E p \in Refreshers : Refresh(p)
  BY <1>1, AcquireEffect DEF AcquireRefreshLock, StillRefused, Revoked, KeepHolders, Holding, Mishap,
     OthersSame, admins
<1>2. ASSUME NEW r \in Refreshers, DegradeToUnlocked(r)
      PROVE  StillRefused \/ \E p \in Refreshers : Refresh(p)
  BY <1>2, AcquireEffect DEF DegradeToUnlocked, StillRefused, Revoked, KeepHolders, Holding, Mishap,
     OthersSame, admins
<1>3. ASSUME NEW r \in Refreshers, RereadAccount(r)
      PROVE  StillRefused \/ \E p \in Refreshers : Refresh(p)
  BY <1>3, RereadEffect DEF RereadAccount, StillRefused, Revoked, KeepHolders, Holding, Mishap,
     OthersSame, admins
<1>4. ASSUME NEW r \in Refreshers, Refresh(r)
      PROVE  StillRefused \/ \E p \in Refreshers : Refresh(p)
  BY <1>4
<1>5. ASSUME NEW r \in Refreshers, Persist(r)
      PROVE  StillRefused \/ \E p \in Refreshers : Refresh(p)
  BY <1>5, GotoEffect, StoreEffect DEF Persist, StillRefused, Revoked, KeepHolders, Holding, Mishap,
     OthersSame, admins
<1>6. ASSUME NEW r \in Refreshers, TryRecoverFromRefreshRace(r)
      PROVE  StillRefused \/ \E p \in Refreshers : Refresh(p)
  BY <1>6, GotoEffect DEF TryRecoverFromRefreshRace, StillRefused, Revoked, KeepHolders, Holding,
     Mishap, OthersSame, admins
<1>7. ASSUME NEW r \in Refreshers, ReleaseRefreshLock(r)
      PROVE  StillRefused \/ \E p \in Refreshers : Refresh(p)
  BY <1>7, ReleasedEffect DEF ReleaseRefreshLock, StillRefused, Revoked, KeepHolders, Holding, Mishap,
     OthersSame, admins
<1>8. ASSUME NEW r \in Refreshers, Quarantine(r)
      PROVE  StillRefused \/ \E p \in Refreshers : Refresh(p)
  BY <1>8, IdleEffect DEF Quarantine, StillRefused, Revoked, KeepHolders, Holding, Mishap, OthersSame,
     admins
<1>9. ASSUME NEW r \in Refreshers, AttemptFails(r)
      PROVE  StillRefused \/ \E p \in Refreshers : Refresh(p)
  BY <1>9, GotoEffect, IdleEffect, SpendEffect, StoreEffect DEF AttemptFails, StillRefused, Revoked,
     KeepHolders, Holding, Mishap, OthersSame, admins
<1>10. ASSUME NEW r \in Refreshers, ReleaseFails(r)
       PROVE  StillRefused \/ \E p \in Refreshers : Refresh(p)
  BY <1>10, ReleasedEffect DEF ReleaseFails, StillRefused, Revoked, KeepHolders, Holding, Mishap,
     OthersSame, admins
<1>11. ASSUME NEW r \in Refreshers, Stall(r)
       PROVE  StillRefused \/ \E p \in Refreshers : Refresh(p)
  BY <1>11, GotoEffect DEF Stall, StillRefused, Revoked, KeepHolders, Holding, Mishap, OthersSame,
     admins
<1>12. ASSUME NEW r \in Refreshers, Crash(r)
       PROVE  StillRefused \/ \E p \in Refreshers : Refresh(p)
  BY <1>12, IdleEffect DEF Crash, StillRefused, Revoked, KeepHolders, Holding, Mishap, OthersSame,
     admins
<1>13. CASE LockExpires
  BY <1>13 DEF LockExpires, StillRefused, Revoked, KeepHolders, Holding, Mishap, OthersSame, admins
<1>14. CASE TokenAges
  BY <1>14 DEF TokenAges, StillRefused, Revoked, KeepHolders, Holding, Mishap, OthersSame, admins
<1>15. ASSUME NEW a \in Admins, NEW kind \in Kinds, AdminStarts(a, kind)
       PROVE  StillRefused \/ \E p \in Refreshers : Refresh(p)
  BY <1>15, StartEffect DEF AdminStarts, StillRefused, Revoked, KeepHolders, Holding, Mishap,
     OthersSame, admins
<1>16. ASSUME NEW a \in Admins, AdminRefreshes(a)
       PROVE  StillRefused \/ \E p \in Refreshers : Refresh(p)
  BY <1>16, AdminRefreshEffect, AdmDoneEffect, SpendEffect DEF AdminRefreshes, StillRefused, Revoked,
     KeepHolders, Holding, Mishap, OthersSame, admins
<1>17. ASSUME NEW a \in Admins, AdminReads(a)
       PROVE  StillRefused \/ \E p \in Refreshers : Refresh(p)
  BY <1>17, ReadEffect DEF AdminReads, StillRefused, Revoked, KeepHolders, Holding, Mishap, OthersSame,
     admins
<1>18. ASSUME NEW a \in Admins, AdminWrites(a)
       PROVE  StillRefused \/ \E p \in Refreshers : Refresh(p)
  BY <1>18, WriteEffect DEF AdminWrites, StillRefused, Revoked, KeepHolders, Holding, Mishap,
     OthersSame, admins
<1>19. ASSUME NEW a \in Admins, AdminClears(a)
       PROVE  StillRefused \/ \E p \in Refreshers : Refresh(p)
  BY <1>19, AdmDoneEffect DEF AdminClears, StillRefused, Revoked, KeepHolders, Holding, Mishap,
     OthersSame, admins
<1>20. ASSUME NEW a \in Admins, AdminFails(a)
       PROVE  StillRefused \/ \E p \in Refreshers : Refresh(p)
  BY <1>20, AdmDoneEffect, SpendEffect DEF AdminFails, StillRefused, Revoked, KeepHolders, Holding,
     Mishap, OthersSame, admins
<1>21. CASE UNCHANGED vars
  BY <1>21 DEF vars, StillRefused, Revoked, KeepHolders, Holding, Mishap, OthersSame, admins
<1>22. ASSUME NEW r \in Refreshers, ProviderDenies(r)
       PROVE  StillRefused \/ \E p \in Refreshers : Refresh(p)
  BY <1>22, DenyEffect DEF StillRefused, Revoked, KeepHolders, Holding, OthersSame
<1>23. ASSUME NEW r \in Refreshers, RequestFindsUnusable(r)
       PROVE  StillRefused \/ \E p \in Refreshers : Refresh(p)
  BY <1>23, UnusableEffect DEF RequestFindsUnusable, StillRefused, Revoked, KeepHolders, Holding,
     Mishap, OthersSame, admins
<1> QED
  BY <1>1, <1>2, <1>3, <1>4, <1>5, <1>6, <1>7, <1>8, <1>9, <1>10, <1>11, <1>12, <1>13, <1>14,
     <1>15, <1>16, <1>17, <1>18, <1>19, <1>20, <1>21, <1>22, <1>23 DEF Next, Attempt

\* A token that was refused is dead, and under the lock nobody holds the next.
LEMMA RefusedStep ==
  ASSUME TypeOK, Held, Guarded, RefusedIsDead, TokenStep, [Next]_vars
  PROVE  RefusedIsDead'
<1> USE Numbers, ReadTyped
<1>1. ASSUME NEW s \in Refreshers, job[s].used.gen < live[job[s].used.grant]
      PROVE  job[s].used.gen < live'[job[s].used.grant]
  <2>1. live'[job[s].used.grant] \in Int
    BY TypeStep, TypePartsNext DEF TypeLive
  <2> QED
    BY <1>1, <2>1, LiveGrows
<1>2. CASE StillRefused
  BY <1>1, <1>2 DEF StillRefused, KeepHolders, RefusedIsDead, SameToken, Holding
<1>3. ASSUME NEW r \in Refreshers, Refresh(r) PROVE RefusedIsDead'
  <2>1. job[r].step = "ask" /\ mishaps' = mishaps
    BY <1>3 DEF Refresh
  <2>2. CASE IsLive(job[r].used)
    <3>1. job'[r].step = "persist" /\ job'[r].used = job[r].used /\ OthersSame(r)
      BY <1>3, <2>2, GotoEffect DEF Refresh
    <3>2. ASSUME NEW s \in Refreshers, Revoked(s)'
          PROVE  /\ s # r /\ job'[s] = job[s] /\ job[s].used.gen < live[job[s].used.grant]
                 /\ ~SameToken(job[r].used, job[s].used)
      <4>1. s # r /\ job'[s] = job[s]
        BY <3>1, <3>2 DEF OthersSame, Revoked
      <4>2. job[s].used.gen < live[job[s].used.grant]
        BY <3>2, <4>1 DEF RefusedIsDead, Revoked
      <4> QED
        BY <2>2, <4>1, <4>2 DEF IsLive, SameToken
    <3> QED
      BY <1>1, <2>1, <3>1, <3>2 DEF RefusedIsDead, Revoked, OthersSame, Holding, SameToken
  <2>3. CASE ~IsLive(job[r].used)
    <3>1. job'[r].step \in {"refused", "condemn"} /\ job'[r].used = job[r].used /\ OthersSame(r)
      BY <1>3, <2>3, GotoEffect DEF Refresh
    <3>2. job[r].used.gen < live[job[r].used.grant]
      BY <2>3 DEF Held, Below, Known, IsLive
    <3>3. "unlocked" \in mishaps \/ \A s \in Refreshers : ~Holding(s)
      BY <2>1 DEF Guarded, Holding
    <3> QED
      BY <1>1, <2>1, <3>1, <3>2, <3>3 DEF RefusedIsDead, Revoked, OthersSame, Holding, SameToken
  <2> QED
    BY <2>2, <2>3
<1> QED
  BY <1>2, <1>3, StillRefusedStep

-----------------------------------------------------------------------------
(* The invariants                                                          *)

HeldBy(r) == job[r].step = "persist" /\ SameDoc(row, job[r].used)
BornBy(a) ==
  /\ adm[a].kind = "refresh" /\ adm[a].step \in {"read", "write"}
  /\ adm[a].hand = Next1(Token(row))

\* The successor of the stored token is in the hands of a refresher or an admin.
LEMMA Hands ==
  /\ InHand <=> (\E r \in Refreshers : HeldBy(r)) \/ (\E a \in Admins : BornBy(a))
  /\ InHand' <=> (\E r \in Refreshers : HeldBy(r)') \/ (\E a \in Admins : BornBy(a)')
BY DEF InHand, HeldBy, BornBy

\* Storing what is held makes the stored token live.
LEMMA StoredIsLive ==
  ASSUME TypeOK, Held, NEW r \in Refreshers, HeldBy(r), Store(r), live' = live
  PROVE  IsLive(row)'
<1>1. Fine(Tok(r)) /\ row.grant = job[r].used.grant
  BY DEF Held, Fresh, HeldBy, Holding, SameDoc, SameToken
<1> QED
  BY <1>1, StoreEffect DEF Fine, Tok, Next1, Token, IsLive

\* A step that spends no token, stores none and leaves the others' hands alone.
LEMMA HandsKept ==
  ASSUME TypeOK, NEW r \in Refreshers, OthersSame(r), UNCHANGED <<row, adm>>, ~HeldBy(r), InHand
  PROVE  InHand'
<1>1. ASSUME NEW s \in Refreshers, HeldBy(s) PROVE HeldBy(s)'
  BY <1>1 DEF HeldBy, OthersSame, SameDoc, SameToken
<1>2. ASSUME NEW b \in Admins, BornBy(b) PROVE BornBy(b)'
  BY <1>2 DEF BornBy, Next1, Token
<1> QED
  BY <1>1, <1>2, Hands

\* The stored token is live, or its successor is in hand.
LEMMA KeptStep ==
  ASSUME TypeOK, Held, DocKnown, ManualKnown, TokenIsKept, [Next]_vars
  PROVE  TokenIsKept'
<1>1. ASSUME NEW r \in Refreshers, AcquireRefreshLock(r) PROVE TokenIsKept'
  BY <1>1, AcquireEffect DEF AcquireRefreshLock, TokenIsKept, InHand, IsLive, SameDoc,
     SameToken, Next1, Token, Mishap, OthersSame, AdminsSame, admins
<1>2. ASSUME NEW r \in Refreshers, DegradeToUnlocked(r) PROVE TokenIsKept'
  BY <1>2, AcquireEffect DEF DegradeToUnlocked, TokenIsKept, InHand, IsLive, SameDoc,
     SameToken, Next1, Token, Mishap, OthersSame, AdminsSame, admins
<1>3. ASSUME NEW r \in Refreshers, RereadAccount(r) PROVE TokenIsKept'
  BY <1>3, RereadEffect DEF RereadAccount, TokenIsKept, InHand, IsLive, SameDoc, SameToken,
     Next1, Token, Mishap, OthersSame, AdminsSame, admins
<1>4. ASSUME NEW r \in Refreshers, Refresh(r) PROVE TokenIsKept'
  <2>1. /\ job[r].step = "ask" /\ OthersSame(r) /\ UNCHANGED <<row, adm, mishaps>>
        /\ ~HeldBy(r)
    BY <1>4, GotoEffect DEF Refresh, admins, HeldBy
  <2>2. CASE ~IsLive(job[r].used)
    BY <1>4, <2>1, <2>2, HandsKept DEF Refresh, TokenIsKept, IsLive
  <2>3. CASE IsLive(job[r].used) /\ SameToken(row, job[r].used)
    <3>1. job'[r].step = "persist" /\ job'[r].used = job[r].used
      BY <1>4, <2>3, GotoEffect DEF Refresh
    <3>2. SameDoc(row, job[r].used) \/ "edited" \in mishaps
      BY <2>1, <2>3 DEF DocKnown
    <3>3. SameDoc(row, job[r].used) => HeldBy(r)'
      BY <2>1, <3>1 DEF HeldBy, SameDoc, SameToken
    <3> QED
      BY <2>1, <3>2, <3>3, Hands DEF TokenIsKept
  <2>4. CASE IsLive(job[r].used) /\ ~SameToken(row, job[r].used)
    <3>1. Spend(job[r].used)
      BY <1>4, <2>4 DEF Refresh
    <3>2. IsLive(row) => row.grant # job[r].used.grant
      BY <2>4 DEF IsLive, SameToken
    <3>3. IsLive(row) => IsLive(row)'
      BY <2>1, <3>1, <3>2, ReadTyped, SpendEffect DEF IsLive
    <3> QED
      BY <2>1, <3>3, HandsKept DEF TokenIsKept
  <2> QED
    BY <2>2, <2>3, <2>4
<1>5. ASSUME NEW r \in Refreshers, Persist(r) PROVE TokenIsKept'
  <2>1. job[r].step = "persist" /\ OthersSame(r) /\ UNCHANGED <<live, adm, mishaps>>
    BY <1>5, GotoEffect DEF Persist, admins
  <2>2. CASE HeldBy(r)
    BY <1>5, <2>1, <2>2, StoredIsLive DEF Persist, TokenIsKept, HeldBy
  <2>3. CASE ~HeldBy(r)
    <3>1. row' = row
      BY <1>5, <2>1, <2>3 DEF Persist, HeldBy
    <3> QED
      BY <2>1, <2>3, <3>1, HandsKept DEF TokenIsKept, IsLive
  <2> QED
    BY <2>2, <2>3
<1>6. ASSUME NEW r \in Refreshers, TryRecoverFromRefreshRace(r) PROVE TokenIsKept'
  BY <1>6, GotoEffect DEF TryRecoverFromRefreshRace, TokenIsKept, InHand, IsLive, SameDoc,
     SameToken, Next1, Token, Mishap, OthersSame, AdminsSame, admins
<1>7. ASSUME NEW r \in Refreshers, ReleaseRefreshLock(r) PROVE TokenIsKept'
  BY <1>7, ReleasedEffect DEF ReleaseRefreshLock, TokenIsKept, InHand, IsLive, SameDoc,
     SameToken, Next1, Token, Mishap, OthersSame, AdminsSame, admins
<1>8. ASSUME NEW r \in Refreshers, Quarantine(r) PROVE TokenIsKept'
  BY <1>8, QuarantineEffect DEF TokenIsKept, InHand, IsLive, SameDoc, SameToken, Next1, Token,
     OthersSame
<1>9. ASSUME NEW r \in Refreshers, AttemptFails(r) PROVE TokenIsKept'
  <2>1. OthersSame(r) /\ adm' = adm /\ mishaps \subseteq mishaps'
    BY <1>9, GotoEffect, IdleEffect DEF AttemptFails, admins, Mishap
  <2>2. CASE "lost" \in mishaps'
    BY <2>2 DEF TokenIsKept
  <2>3. CASE HeldBy(r) /\ Store(r) /\ UNCHANGED live
    BY <2>3, StoredIsLive DEF TokenIsKept
  <2>4. CASE UNCHANGED <<row, live>> /\ job[r].step # "persist"
    BY <2>1, <2>4, HandsKept DEF TokenIsKept, IsLive, HeldBy
  <2> QED
    BY <1>9, <2>2, <2>3, <2>4 DEF AttemptFails, Mishap, HeldBy
<1>10. ASSUME NEW r \in Refreshers, ReleaseFails(r) PROVE TokenIsKept'
  BY <1>10, ReleasedEffect DEF ReleaseFails, TokenIsKept, InHand, IsLive, SameDoc, SameToken,
     Next1, Token, Mishap, OthersSame, AdminsSame, admins
<1>11. ASSUME NEW r \in Refreshers, Stall(r) PROVE TokenIsKept'
  BY <1>11, GotoEffect DEF Stall, TokenIsKept, InHand, IsLive, SameDoc, SameToken, Next1,
     Token, Mishap, OthersSame, AdminsSame, admins
<1>12. ASSUME NEW r \in Refreshers, Crash(r) PROVE TokenIsKept'
  BY <1>12, IdleEffect DEF Crash, TokenIsKept, InHand, IsLive, SameDoc, SameToken, Next1,
     Token, Mishap, OthersSame, AdminsSame, admins
<1>13. CASE LockExpires
  BY <1>13 DEF LockExpires, TokenIsKept, InHand, IsLive, SameDoc, SameToken, Next1, Token,
     Mishap, OthersSame, AdminsSame, admins
<1>14. CASE TokenAges
  BY <1>14 DEF TokenAges, TokenIsKept, InHand, IsLive, SameDoc, SameToken, Next1, Token,
     Mishap, OthersSame, AdminsSame, admins
<1>15. ASSUME NEW a \in Admins, NEW kind \in Kinds, AdminStarts(a, kind) PROVE TokenIsKept'
  BY <1>15, StartEffect DEF AdminStarts, TokenIsKept, InHand, IsLive, SameDoc, SameToken,
     Next1, Token, Mishap, OthersSame, AdminsSame, admins
<1>16. ASSUME NEW a \in Admins, AdminRefreshes(a) PROVE TokenIsKept'
  <2>1. /\ UNCHANGED <<row, job>> /\ mishaps \subseteq mishaps' /\ AdminsSame(a)
        /\ adm[a].step = "ask" /\ adm[a].kind = "refresh"
    BY <1>16, AdminRefreshEffect, AdmDoneEffect DEF AdminRefreshes, Mishap, ManualKnown
  <2>2. InHand => InHand'
    <3>1. ASSUME NEW s \in Refreshers, HeldBy(s) PROVE HeldBy(s)'
      BY <2>1, <3>1 DEF HeldBy, SameDoc, SameToken
    <3>2. ASSUME NEW b \in Admins, BornBy(b) PROVE BornBy(b)'
      BY <2>1, <3>2 DEF BornBy, AdminsSame, Next1, Token
    <3> QED
      BY <3>1, <3>2, Hands
  <2>3. CASE live' = live
    BY <2>1, <2>2, <2>3 DEF TokenIsKept, IsLive
  <2>4. CASE /\ IsLive(adm[a].copy) /\ Spend(adm[a].copy)
             /\ adm'[a].step = "read" /\ adm'[a].kind = adm[a].kind
             /\ adm'[a].hand = Next1(Token(adm[a].copy))
    <3>1. CASE SameToken(row, adm[a].copy)
      <4>1. BornBy(a)'
        BY <2>1, <2>4, <3>1 DEF BornBy, SameToken, Next1, Token
      <4> QED
        BY <4>1, Hands DEF TokenIsKept
    <3>2. CASE ~SameToken(row, adm[a].copy)
      <4>1. IsLive(row) => row.grant # adm[a].copy.grant
        BY <2>4, <3>2 DEF IsLive, SameToken
      <4>2. IsLive(row) => IsLive(row)'
        BY <2>1, <2>4, <4>1, ReadTyped, SpendEffect DEF IsLive
      <4> QED
        BY <2>1, <2>2, <4>2 DEF TokenIsKept
    <3> QED
      BY <3>1, <3>2
  <2> QED
    BY <1>16, <2>3, <2>4, AdminRefreshEffect
<1>17. ASSUME NEW a \in Admins, AdminReads(a) PROVE TokenIsKept'
  <2>1. UNCHANGED <<row, live, job, mishaps>> /\ adm[a].step = "read"
    BY <1>17 DEF AdminReads
  <2>2. ASSUME NEW s \in Refreshers, HeldBy(s) PROVE HeldBy(s)'
    BY <2>1, <2>2 DEF HeldBy, SameDoc, SameToken
  <2>3. ASSUME NEW b \in Admins, BornBy(b) PROVE BornBy(b)'
    BY <1>17, <2>1, <2>3, ReadEffect DEF BornBy, AdminsSame, Next1, Token
  <2> QED
    BY <2>1, <2>2, <2>3, Hands DEF TokenIsKept, IsLive
<1>18. ASSUME NEW a \in Admins, AdminWrites(a) PROVE TokenIsKept'
  <2>1. /\ UNCHANGED <<live, job>> /\ adm[a].step = "write" /\ AdminsSame(a)
        /\ Undoes(a) => "edited" \in mishaps'
        /\ mishaps \subseteq mishaps'
    BY <1>18, WriteEffect DEF AdminWrites, Mishap
  <2>2. CASE Undoes(a)
    BY <2>1, <2>2 DEF TokenIsKept
  <2>3. CASE adm[a].kind = "edit" /\ ~Undoes(a)
    <3>1. SameDoc(adm[a].copy, row) /\ \A s \in Refreshers : ~HeldBy(s)
      BY <2>3 DEF Undoes, HeldBy, SameDoc, SameToken
    <3>2. SameToken(row', row)
      BY <1>18, <2>3, <3>1, WriteEffect DEF SameDoc, SameToken
    <3>3. ASSUME NEW b \in Admins, BornBy(b) PROVE BornBy(b)'
      BY <2>1, <2>3, <3>2, <3>3 DEF BornBy, AdminsSame, SameToken, Next1, Token
    <3> QED
      BY <2>1, <3>1, <3>2, <3>3, Hands DEF TokenIsKept, IsLive, SameToken
  <2>4. CASE adm[a].kind # "edit"
    <3>1. Fine(adm[a].hand)
      BY <2>1, <2>4 DEF Held, Fresh, Carrying
    <3> QED
      BY <1>18, <2>1, <2>4, <3>1, WriteEffect DEF Fine, TokenIsKept, IsLive
  <2> QED
    BY <2>2, <2>3, <2>4
<1>19. ASSUME NEW a \in Admins, AdminClears(a) PROVE TokenIsKept'
  BY <1>19, AdmDoneEffect DEF AdminClears, TokenIsKept, InHand, IsLive, SameDoc, SameToken,
     Next1, Token, Mishap, OthersSame, AdminsSame, admins
<1>20. ASSUME NEW a \in Admins, AdminFails(a) PROVE TokenIsKept'
  BY <1>20, AdmDoneEffect, SpendEffect DEF AdminFails, TokenIsKept, InHand, IsLive, SameDoc,
     SameToken, Next1, Token, Mishap, OthersSame, AdminsSame, admins
<1>21. CASE UNCHANGED vars
  BY <1>21 DEF vars, TokenIsKept, InHand, IsLive, SameDoc, SameToken, Next1, Token, Mishap,
     OthersSame, AdminsSame, admins
<1>22. ASSUME NEW r \in Refreshers, ProviderDenies(r) PROVE TokenIsKept'
  BY <1>22, DenyEffect DEF TokenIsKept, InHand, IsLive, SameDoc, SameToken, Next1, Token,
     OthersSame, AdminsSame
<1>23. ASSUME NEW r \in Refreshers, RequestFindsUnusable(r) PROVE TokenIsKept'
  BY <1>23, UnusableEffect DEF RequestFindsUnusable, TokenIsKept, InHand, IsLive, SameDoc,
     SameToken, Next1, Token, Mishap, OthersSame, AdminsSame, admins
<1> QED
  BY <1>1, <1>2, <1>3, <1>4, <1>5, <1>6, <1>7, <1>8, <1>9, <1>10, <1>11, <1>12, <1>13, <1>14,
     <1>15, <1>16, <1>17, <1>18, <1>19, <1>20, <1>21, <1>22, <1>23 DEF Next, Attempt

\* The grant of the last authorization is stored.
LEMMA ReauthorizedStep ==
  ASSUME TypeOK, ReauthorizedIsKept, [Next]_vars
  PROVE  ReauthorizedIsKept'
<1>1. ASSUME NEW r \in Refreshers, AcquireRefreshLock(r) PROVE ReauthorizedIsKept'
  BY <1>1, AcquireEffect, TypeParts DEF AcquireRefreshLock, ReauthorizedIsKept, Mishap,
     TypeRow, Rows, admins
<1>2. ASSUME NEW r \in Refreshers, DegradeToUnlocked(r) PROVE ReauthorizedIsKept'
  BY <1>2, AcquireEffect, TypeParts DEF DegradeToUnlocked, ReauthorizedIsKept, Mishap, TypeRow,
     Rows, admins
<1>3. ASSUME NEW r \in Refreshers, RereadAccount(r) PROVE ReauthorizedIsKept'
  BY <1>3, RereadEffect, TypeParts DEF RereadAccount, ReauthorizedIsKept, Mishap, TypeRow,
     Rows, admins
<1>4. ASSUME NEW r \in Refreshers, Refresh(r) PROVE ReauthorizedIsKept'
  BY <1>4, GotoEffect, SpendEffect, TypeParts DEF Refresh, ReauthorizedIsKept, Mishap, TypeRow,
     Rows, admins
<1>5. ASSUME NEW r \in Refreshers, Persist(r) PROVE ReauthorizedIsKept'
  BY <1>5, GotoEffect, StoreEffect, TypeParts DEF Persist, ReauthorizedIsKept, Mishap, TypeRow,
     Rows, admins
<1>6. ASSUME NEW r \in Refreshers, TryRecoverFromRefreshRace(r) PROVE ReauthorizedIsKept'
  BY <1>6, GotoEffect, TypeParts DEF TryRecoverFromRefreshRace, ReauthorizedIsKept, Mishap,
     TypeRow, Rows, admins
<1>7. ASSUME NEW r \in Refreshers, ReleaseRefreshLock(r) PROVE ReauthorizedIsKept'
  BY <1>7, ReleasedEffect, TypeParts DEF ReleaseRefreshLock, ReauthorizedIsKept, Mishap,
     TypeRow, Rows, admins
<1>8. ASSUME NEW r \in Refreshers, Quarantine(r) PROVE ReauthorizedIsKept'
  BY <1>8, IdleEffect, TypeParts DEF Quarantine, ReauthorizedIsKept, Mishap, TypeRow, Rows,
     admins
<1>9. ASSUME NEW r \in Refreshers, AttemptFails(r) PROVE ReauthorizedIsKept'
  BY <1>9, GotoEffect, IdleEffect, SpendEffect, StoreEffect, TypeParts DEF AttemptFails,
     ReauthorizedIsKept, Mishap, TypeRow, Rows, admins
<1>10. ASSUME NEW r \in Refreshers, ReleaseFails(r) PROVE ReauthorizedIsKept'
  BY <1>10, ReleasedEffect, TypeParts DEF ReleaseFails, ReauthorizedIsKept, Mishap, TypeRow,
     Rows, admins
<1>11. ASSUME NEW r \in Refreshers, Stall(r) PROVE ReauthorizedIsKept'
  BY <1>11, GotoEffect, TypeParts DEF Stall, ReauthorizedIsKept, Mishap, TypeRow, Rows, admins
<1>12. ASSUME NEW r \in Refreshers, Crash(r) PROVE ReauthorizedIsKept'
  BY <1>12, IdleEffect, TypeParts DEF Crash, ReauthorizedIsKept, Mishap, TypeRow, Rows, admins
<1>13. CASE LockExpires
  BY <1>13, TypeParts DEF LockExpires, ReauthorizedIsKept, Mishap, TypeRow, Rows, admins
<1>14. CASE TokenAges
  BY <1>14, TypeParts DEF TokenAges, ReauthorizedIsKept, Mishap, TypeRow, Rows, admins
<1>15. ASSUME NEW a \in Admins, NEW kind \in Kinds, AdminStarts(a, kind) PROVE ReauthorizedIsKept'
  BY <1>15, StartEffect, TypeParts DEF AdminStarts, ReauthorizedIsKept, Mishap, TypeRow, Rows,
     admins
<1>16. ASSUME NEW a \in Admins, AdminRefreshes(a) PROVE ReauthorizedIsKept'
  BY <1>16, AdminRefreshEffect, AdmDoneEffect, SpendEffect, TypeParts DEF AdminRefreshes,
     ReauthorizedIsKept, Mishap, TypeRow, Rows, admins
<1>17. ASSUME NEW a \in Admins, AdminReads(a) PROVE ReauthorizedIsKept'
  BY <1>17, ReadEffect, TypeParts DEF AdminReads, ReauthorizedIsKept, Mishap, TypeRow, Rows,
     admins
<1>18. ASSUME NEW a \in Admins, AdminWrites(a) PROVE ReauthorizedIsKept'
  <2>1. /\ Undoes(a) => "edited" \in mishaps'
        /\ mishaps \subseteq mishaps'
        /\ applied' = IF adm[a].kind = "reauth" THEN adm[a].hand.grant ELSE applied
    BY <1>18 DEF AdminWrites, Mishap
  <2>2. CASE adm[a].kind = "reauth"
    BY <1>18, <2>1, <2>2, WriteEffect DEF ReauthorizedIsKept
  <2>3. CASE adm[a].kind = "edit"
    BY <1>18, <2>1, <2>3, WriteEffect DEF ReauthorizedIsKept, Undoes, SameDoc, SameToken
  <2>4. CASE adm[a].kind = "refresh"
    BY <1>18, <2>1, <2>4, WriteEffect DEF ReauthorizedIsKept, Undoes
  <2> QED
    BY <2>2, <2>3, <2>4, TypeParts DEF TypeAdm, Requests
<1>19. ASSUME NEW a \in Admins, AdminClears(a) PROVE ReauthorizedIsKept'
  BY <1>19, AdmDoneEffect, TypeParts DEF AdminClears, ReauthorizedIsKept, Mishap, TypeRow,
     Rows, admins
<1>20. ASSUME NEW a \in Admins, AdminFails(a) PROVE ReauthorizedIsKept'
  BY <1>20, AdmDoneEffect, SpendEffect, TypeParts DEF AdminFails, ReauthorizedIsKept, Mishap,
     TypeRow, Rows, admins
<1>21. CASE UNCHANGED vars
  BY <1>21, TypeParts DEF vars, ReauthorizedIsKept, Mishap, TypeRow, Rows, admins
<1>22. ASSUME NEW r \in Refreshers, ProviderDenies(r) PROVE ReauthorizedIsKept'
  BY <1>22, DenyEffect, TypeParts DEF ReauthorizedIsKept, TypeRow, Rows
<1>23. ASSUME NEW r \in Refreshers, RequestFindsUnusable(r) PROVE ReauthorizedIsKept'
  BY <1>23, UnusableEffect, TypeParts DEF RequestFindsUnusable, ReauthorizedIsKept, Mishap,
     TypeRow, Rows, admins
<1> QED
  BY <1>1, <1>2, <1>3, <1>4, <1>5, <1>6, <1>7, <1>8, <1>9, <1>10, <1>11, <1>12, <1>13, <1>14,
     <1>15, <1>16, <1>17, <1>18, <1>19, <1>20, <1>21, <1>22, <1>23 DEF Next, Attempt

Excuses == {"unlocked", "manual", "edited", "uncleared"}
Clearing(a) == adm[a].kind = "reauth" /\ adm[a].step = "clear"

\* An account in quarantine for a revoked token stays dead while its document and status stay.
LEMMA StillDead ==
  ASSUME TypeOK, Held, TokenStep, ManualKnown', RevokedIsDead,
         SameDoc(row', row), row'.status = row.status, mishaps \subseteq mishaps',
         \A s \in Refreshers : HeldBy(s)' => HeldBy(s) \/ IsLive(row),
         \A a \in Admins : Clearing(a) => Clearing(a)' \/ "uncleared" \in mishaps'
  PROVE  RevokedIsDead'
<1>1. SUFFICES ASSUME row'.status = "revoked", mishaps' \cap Excuses = {},
                      \A a \in Admins : ~Clearing(a)'
               PROVE  ~IsLive(row)' /\ ~InHand'
  BY DEF RevokedIsDead, Excuses, Clearing
<1>2. ~IsLive(row) /\ ~InHand
  BY <1>1 DEF RevokedIsDead, Excuses, Clearing
<1>3. ~IsLive(row)'
  <2>1. row.gen < live[row.grant] /\ live'[row.grant] >= live[row.grant]
    BY <1>2, Numbers, ReadTyped, LiveGrows DEF Held, Below, Known, IsLive
  <2>2. row'.gen = row.gen /\ row'.grant = row.grant
    BY DEF SameDoc, SameToken
  <2> QED
    BY <2>1, <2>2, Numbers, ReadTyped DEF IsLive
<1>4. \A s \in Refreshers : ~HeldBy(s)'
  BY <1>2, Hands
<1>5. \A b \in Admins : ~BornBy(b)'
  BY <1>1 DEF ManualKnown, BornBy, Excuses
<1> QED
  BY <1>3, <1>4, <1>5, Hands

\* Only dead tokens are put into quarantine as revoked.
LEMMA QuarantineStep ==
  ASSUME TypeOK, Held, TokenStep, ManualKnown, ManualKnown', RefusedIsDead, RevokedIsDead, [Next]_vars
  PROVE  RevokedIsDead'
<1>1. ASSUME NEW r \in Refreshers, AcquireRefreshLock(r) PROVE RevokedIsDead'
  BY <1>1, AcquireEffect DEF AcquireRefreshLock, RevokedIsDead, InHand, IsLive, SameDoc,
     SameToken, Next1, Token, Mishap, OthersSame, AdminsSame, admins
<1>2. ASSUME NEW r \in Refreshers, DegradeToUnlocked(r) PROVE RevokedIsDead'
  BY <1>2, AcquireEffect DEF DegradeToUnlocked, RevokedIsDead, InHand, IsLive, SameDoc,
     SameToken, Next1, Token, Mishap, OthersSame, AdminsSame, admins
<1>3. ASSUME NEW r \in Refreshers, RereadAccount(r) PROVE RevokedIsDead'
  <2>1. UNCHANGED <<row, live, adm, mishaps>>
    BY <1>3 DEF RereadAccount, admins
  <2>2. \A s \in Refreshers : HeldBy(s)' => HeldBy(s)
    BY <1>3, <2>1, RereadEffect DEF HeldBy, OthersSame, SameDoc, SameToken
  <2> QED
    BY <2>1, <2>2, StillDead DEF SameDoc, SameToken, Clearing
<1>4. ASSUME NEW r \in Refreshers, Refresh(r) PROVE RevokedIsDead'
  <2>1. job[r].step = "ask" /\ UNCHANGED <<row, adm, mishaps>> /\ OthersSame(r)
    BY <1>4, GotoEffect DEF Refresh, admins
  <2>2. ASSUME NEW s \in Refreshers \ {r}, HeldBy(s)' PROVE HeldBy(s)
    BY <2>1, <2>2 DEF HeldBy, OthersSame, SameDoc, SameToken
  <2>3. ASSUME HeldBy(r)' PROVE IsLive(row)
    <3>1. IsLive(job[r].used)
      BY <1>4, <2>3, GotoEffect DEF Refresh, HeldBy
    <3>2. job'[r].used = job[r].used
      BY <1>4, GotoEffect DEF Refresh
    <3> QED
      BY <2>1, <2>3, <3>1, <3>2 DEF HeldBy, IsLive, SameDoc, SameToken
  <2> QED
    BY <2>1, <2>2, <2>3, StillDead DEF SameDoc, SameToken, Clearing
<1>5. ASSUME NEW r \in Refreshers, Persist(r) PROVE RevokedIsDead'
  BY <1>5, GotoEffect, StoreEffect DEF Persist, RevokedIsDead, InHand, IsLive, SameDoc,
     SameToken, Next1, Token, Mishap, OthersSame, AdminsSame, admins
<1>6. ASSUME NEW r \in Refreshers, TryRecoverFromRefreshRace(r) PROVE RevokedIsDead'
  BY <1>6, GotoEffect DEF TryRecoverFromRefreshRace, RevokedIsDead, InHand, IsLive,
     SameDoc, SameToken, Next1, Token, Mishap, OthersSame, AdminsSame, admins
<1>7. ASSUME NEW r \in Refreshers, ReleaseRefreshLock(r) PROVE RevokedIsDead'
  BY <1>7, ReleasedEffect DEF ReleaseRefreshLock, RevokedIsDead, InHand, IsLive, SameDoc,
     SameToken, Next1, Token, Mishap, OthersSame, AdminsSame, admins
<1>8. ASSUME NEW r \in Refreshers, Quarantine(r) PROVE RevokedIsDead'
  <2>1. job[r].step = "quarantine" /\ UNCHANGED <<live, adm, mishaps>> /\ OthersSame(r)
        /\ job'[r].step = "idle"
    BY <1>8, IdleEffect DEF Quarantine, admins
  <2>2. SameDoc(row', row)
    BY <1>8, TypeParts DEF Quarantine, TypeRow, Rows, SameDoc, SameToken
  <2>3. ASSUME NEW s \in Refreshers, HeldBy(s)' PROVE HeldBy(s)
    BY <2>1, <2>2, <2>3 DEF HeldBy, OthersSame, SameDoc, SameToken
  <2>4. CASE row' = row
    BY <2>1, <2>2, <2>3, <2>4, StillDead DEF Clearing
  <2>5. CASE SameDoc(row, job[r].used) /\ job[r].why = "revoked"
    <3>1. job[r].used.gen < live[job[r].used.grant]
      BY <2>1, <2>5 DEF RefusedIsDead, Revoked
    <3>2. ~IsLive(row)'
      BY <2>1, <2>2, <2>5, <3>1, Numbers, ReadTyped DEF IsLive, SameDoc, SameToken
    <3>3. "unlocked" \in mishaps \/ \A s \in Refreshers : ~HeldBy(s)
      BY <2>1, <2>5 DEF RefusedIsDead, Revoked, HeldBy, Holding, SameDoc, SameToken
    <3>4. "manual" \in mishaps' \/ \A b \in Admins : ~BornBy(b)'
      BY DEF ManualKnown, BornBy
    <3> QED
      BY <2>1, <2>3, <3>2, <3>3, <3>4, Hands DEF RevokedIsDead
  <2>6. CASE row'.status = job[r].why /\ job[r].why # "revoked"
    BY <2>6 DEF RevokedIsDead
  <2>7. row' = row \/ (SameDoc(row, job[r].used) /\ row' = [row EXCEPT !.status = job[r].why])
    BY <1>8 DEF Quarantine
  <2>8. row' = row \/ (SameDoc(row, job[r].used) /\ row'.status = job[r].why)
    BY <2>7, TypeParts DEF TypeRow, Rows
  <2> QED
    BY <2>4, <2>5, <2>6, <2>8
<1>9. ASSUME NEW r \in Refreshers, AttemptFails(r) PROVE RevokedIsDead'
  <2>1. /\ OthersSame(r) /\ adm' = adm /\ mishaps \subseteq mishaps'
        /\ job'[r].step \in {"release", "condemn", "idle"}
    BY <1>9, GotoEffect, IdleEffect DEF AttemptFails, admins, Mishap
  <2>2. CASE row' = row
    <3>1. \A s \in Refreshers : HeldBy(s)' => HeldBy(s)
      BY <2>1, <2>2 DEF HeldBy, OthersSame, SameDoc, SameToken
    <3> QED
      BY <2>1, <2>2, <3>1, StillDead DEF SameDoc, SameToken, Clearing
  <2>3. CASE HeldBy(r) /\ Store(r)
    <3>1. row'.status = row.status
      BY <2>3, StoreEffect
    <3>2. InHand
      BY <2>3, Hands
    <3>3. \A b \in Admins : adm[b].kind = "reauth" /\ adm[b].step = "clear" =>
            adm'[b].kind = "reauth" /\ adm'[b].step = "clear"
      BY <2>1
    <3> QED
      BY <2>1, <3>1, <3>2, <3>3 DEF RevokedIsDead
  <2> QED
    BY <1>9, <2>2, <2>3 DEF AttemptFails, HeldBy
<1>10. ASSUME NEW r \in Refreshers, ReleaseFails(r) PROVE RevokedIsDead'
  BY <1>10, ReleasedEffect DEF ReleaseFails, RevokedIsDead, InHand, IsLive, SameDoc,
     SameToken, Next1, Token, Mishap, OthersSame, AdminsSame, admins
<1>11. ASSUME NEW r \in Refreshers, Stall(r) PROVE RevokedIsDead'
  BY <1>11, GotoEffect DEF Stall, RevokedIsDead, InHand, IsLive, SameDoc, SameToken, Next1,
     Token, Mishap, OthersSame, AdminsSame, admins
<1>12. ASSUME NEW r \in Refreshers, Crash(r) PROVE RevokedIsDead'
  BY <1>12, IdleEffect DEF Crash, RevokedIsDead, InHand, IsLive, SameDoc, SameToken, Next1,
     Token, Mishap, OthersSame, AdminsSame, admins
<1>13. CASE LockExpires
  BY <1>13 DEF LockExpires, RevokedIsDead, InHand, IsLive, SameDoc, SameToken, Next1,
     Token, Mishap, OthersSame, AdminsSame, admins
<1>14. CASE TokenAges
  BY <1>14 DEF TokenAges, RevokedIsDead, InHand, IsLive, SameDoc, SameToken, Next1, Token,
     Mishap, OthersSame, AdminsSame, admins
<1>15. ASSUME NEW a \in Admins, NEW kind \in Kinds, AdminStarts(a, kind) PROVE RevokedIsDead'
  BY <1>15, StartEffect DEF AdminStarts, RevokedIsDead, InHand, IsLive, SameDoc, SameToken,
     Next1, Token, Mishap, OthersSame, AdminsSame, admins
<1>16. ASSUME NEW a \in Admins, AdminRefreshes(a) PROVE RevokedIsDead'
  BY <1>16, AdminRefreshEffect, AdmDoneEffect, SpendEffect DEF AdminRefreshes,
     RevokedIsDead, InHand, IsLive, SameDoc, SameToken, Next1, Token, Mishap, OthersSame,
     AdminsSame, admins
<1>17. ASSUME NEW a \in Admins, AdminReads(a) PROVE RevokedIsDead'
  <2>1. UNCHANGED <<row, live, job, mishaps>> /\ adm[a].step = "read" /\ AdminsSame(a)
    BY <1>17, ReadEffect DEF AdminReads
  <2>2. \A s \in Refreshers : HeldBy(s)' => HeldBy(s)
    BY <2>1 DEF HeldBy, SameDoc, SameToken
  <2>3. \A b \in Admins : Clearing(b) => Clearing(b)'
    BY <2>1 DEF Clearing, AdminsSame
  <2> QED
    BY <2>1, <2>2, <2>3, StillDead DEF SameDoc, SameToken
<1>18. ASSUME NEW a \in Admins, AdminWrites(a) PROVE RevokedIsDead'
  <2>1. /\ UNCHANGED <<live, job>> /\ adm[a].step = "write" /\ AdminsSame(a)
        /\ Undoes(a) => "edited" \in mishaps'
        /\ mishaps \subseteq mishaps'
    BY <1>18, WriteEffect DEF AdminWrites, Mishap
  <2>2. CASE Undoes(a)
    BY <2>1, <2>2 DEF RevokedIsDead
  <2>3. CASE adm[a].kind = "edit" /\ ~Undoes(a)
    <3>1. SameDoc(adm[a].copy, row) /\ adm[a].copy.status = row.status
      BY <2>3 DEF Undoes
    <3>2. SameToken(row', row) /\ row'.status = row.status
      BY <1>18, <2>3, <3>1, WriteEffect DEF SameDoc, SameToken
    <3>3. \A s \in Refreshers : ~HeldBy(s)'
      BY <2>1, <2>3, <3>2 DEF Undoes, HeldBy, SameDoc, SameToken
    <3>4. \A b \in Admins : ~BornBy(b)' \/ "manual" \in mishaps'
      BY DEF ManualKnown, BornBy
    <3>5. IsLive(row)' <=> IsLive(row)
      BY <2>1, <3>2 DEF IsLive, SameToken
    <3>6. \A b \in Admins : Clearing(b) => Clearing(b)'
      BY <2>1 DEF Clearing, AdminsSame
    <3> QED
      BY <2>1, <3>2, <3>3, <3>4, <3>5, <3>6, Hands DEF RevokedIsDead, Clearing
  <2>4. CASE adm[a].kind = "refresh"
    BY <2>1, <2>4 DEF ManualKnown, RevokedIsDead
  <2>5. CASE adm[a].kind = "reauth"
    BY <1>18, <2>5, WriteEffect DEF RevokedIsDead
  <2> QED
    BY <2>2, <2>3, <2>4, <2>5, TypeParts DEF TypeAdm, Requests
<1>19. ASSUME NEW a \in Admins, AdminClears(a) PROVE RevokedIsDead'
  BY <1>19, AdmDoneEffect DEF AdminClears, RevokedIsDead, InHand, IsLive, SameDoc,
     SameToken, Next1, Token, Mishap, OthersSame, AdminsSame, admins
<1>20. ASSUME NEW a \in Admins, AdminFails(a) PROVE RevokedIsDead'
  <2>1. UNCHANGED <<row, job>> /\ AdminsSame(a) /\ mishaps \subseteq mishaps'
    BY <1>20, AdmDoneEffect DEF AdminFails, Mishap
  <2>2. \A s \in Refreshers : HeldBy(s)' => HeldBy(s)
    BY <2>1 DEF HeldBy, SameDoc, SameToken
  <2>3. adm[a].step = "clear" => "uncleared" \in mishaps'
    BY <1>20 DEF AdminFails
  <2>4. \A b \in Admins : Clearing(b) => Clearing(b)' \/ "uncleared" \in mishaps'
    BY <2>1, <2>3 DEF Clearing, AdminsSame
  <2> QED
    BY <2>1, <2>2, <2>4, StillDead DEF SameDoc, SameToken
<1>21. CASE UNCHANGED vars
  BY <1>21 DEF vars, RevokedIsDead, InHand, IsLive, SameDoc, SameToken, Next1, Token,
     Mishap, OthersSame, AdminsSame, admins
<1>22. ASSUME NEW r \in Refreshers, ProviderDenies(r) PROVE RevokedIsDead'
  BY <1>22, DenyEffect DEF RevokedIsDead, InHand, IsLive, SameDoc, SameToken, Next1, Token,
     OthersSame, AdminsSame
<1>23. ASSUME NEW r \in Refreshers, RequestFindsUnusable(r) PROVE RevokedIsDead'
  BY <1>23, UnusableEffect DEF RequestFindsUnusable, RevokedIsDead, InHand, IsLive, SameDoc,
     SameToken, Next1, Token, Mishap, OthersSame, AdminsSame, admins
<1> QED
  BY <1>1, <1>2, <1>3, <1>4, <1>5, <1>6, <1>7, <1>8, <1>9, <1>10, <1>11, <1>12, <1>13, <1>14,
     <1>15, <1>16, <1>17, <1>18, <1>19, <1>20, <1>21, <1>22, <1>23 DEF Next, Attempt

-----------------------------------------------------------------------------
(* The theorems                                                            *)

\* The invariant holds at first ...
LEMMA InitHolds == Init => IInv
<1> SUFFICES ASSUME Init PROVE IInv
  OBVIOUS
<1>1. TypeOK
  BY TypeParts, EmptyTyped DEF Init, TypeRow, TypeLive, TypeLock, TypeJob, TypeAdm, TypeJobs,
     TypeApplied, TypeMishaps, TypeFaults
<1>2. /\ row = FirstRow /\ jobs = 0 /\ applied = 0 /\ \A g \in Grants : live[g] = 0
      /\ \A r \in Refreshers : job[r].step = "idle" /\ job[r].used = FirstRow
      /\ \A a \in Admins : adm[a].step = "idle" /\ adm[a].copy = FirstRow
  BY DEF Init, NoJob, NoAdm
<1>3. Held
  BY <1>1, <1>2, Numbers DEF Held, Below, Known, Fresh, Apart, Holding, Carrying
<1>4. DocKnown /\ ManualKnown /\ Guarded /\ RefusedIsDead
  BY <1>2 DEF DocKnown, ManualKnown, Guarded, RefusedIsDead, Revoked
<1>5. TokenIsKept /\ RevokedIsDead /\ ReauthorizedIsKept
  BY <1>1, <1>2, Numbers DEF TokenIsKept, RevokedIsDead, ReauthorizedIsKept, IsLive, FirstRow
<1> QED
  BY <1>1, <1>3, <1>4, <1>5 DEF IInv

\* ... and every step keeps it.
LEMMA StepHolds == IInv /\ [Next]_vars => IInv'
<1> SUFFICES ASSUME IInv, [Next]_vars PROVE IInv'
  OBVIOUS
<1> USE DEF IInv
<1>1. TypeOK'
  BY TypeStep
<1>2. TokenStep /\ Origins
  BY TokenSteps, OriginsStep
<1>3. Held'
  BY <1>1, <1>2, BelowStep, FreshStep, ApartStep DEF Held
<1>4. DocKnown' /\ ManualKnown' /\ Guarded'
  BY DocKnownStep, ManualStep, GuardedStep
<1>5. RefusedIsDead'
  BY <1>2, RefusedStep
<1>6. TokenIsKept' /\ ReauthorizedIsKept'
  BY KeptStep, ReauthorizedStep
<1>7. RevokedIsDead'
  BY <1>2, <1>4, QuarantineStep
<1> QED
  BY <1>1, <1>3, <1>4, <1>5, <1>6, <1>7

\* The inductive invariant.
LEMMA Invariance == Spec => []IInv
BY InitHolds, StepHolds, PTL DEF Spec

\* The row, the provider's tokens, attempts and requests have their types in
\* every run, for any number of refreshers and admins.
THEOREM OAuthTypeCorrect == Spec => []TypeOK
<1>1. IInv => TypeOK
  BY DEF IInv
<1> QED
  BY <1>1, Invariance, PTL

\* The stored refresh token is live or its successor is about to be stored,
\* whatever the interleaving, but for lost answers and overlapping edits.
THEOREM RefreshTokenIsKept == Spec => []TokenIsKept
<1>1. IInv => TokenIsKept
  BY DEF IInv
<1> QED
  BY <1>1, Invariance, PTL

\* An account in quarantine as revoked has a token that the provider refuses and
\* that nobody is about to replace, whoever put it there and however refusals,
\* denials and findings of requests interleave.
THEOREM QuarantineIsSound == Spec => []RevokedIsDead
<1>1. IInv => RevokedIsDead
  BY DEF IInv
<1> QED
  BY <1>1, Invariance, PTL

\* A refresh of older credentials does not displace an authorization.
THEOREM AuthorizationIsKept == Spec => []ReauthorizedIsKept
<1>1. IInv => ReauthorizedIsKept
  BY DEF IInv
<1> QED
  BY <1>1, Invariance, PTL
=============================================================================
