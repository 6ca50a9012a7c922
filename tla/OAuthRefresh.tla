---------------------------- MODULE OAuthRefresh ----------------------------
(***************************************************************************)
(* The refresh of the OAuth credentials of one Grok account.  A refresh    *)
(* token is good for one use: the provider answers with its successor and  *)
(* accepts only that one from then on, so whoever spent a token must store *)
(* the next.  Background refreshes and refreshes of requests share a lock  *)
(* in Redis and write with compare-and-set; admins edit the account,       *)
(* authorize it again or refresh it by hand, without the lock and with     *)
(* whole rows read earlier.                                                *)
(*                                                                         *)
(* Every refresher is a process of its own: the mutex inside a process     *)
(* only excludes more.  The background loop and the request path treat a   *)
(* refusal alike as far as the account goes: both quarantine it, with a    *)
(* reason, if its credentials are still those that were refused.           *)
(* Cooldowns after exhausted retries, the cache of access tokens, rate     *)
(* gates and the scheduler are left out.  mishaps records what no step of  *)
(* the code prevents; no action reads it.                                  *)
(***************************************************************************)
EXTENDS Integers

CONSTANTS
  Refreshers, Admins,
  Kinds,      \* what admins do: "edit", "reauth", "refresh"
  MaxGen,     \* bound: generations of a token that run out by time
  MaxJobs,    \* bound: requests of admins
  MaxFaults   \* bound: errors, timeouts, stalls and crashes

Free == "free"
Grants == 0..MaxJobs  \* the first authorization and those by an admin

ASSUME ActorsAssumption == Free \notin Refreshers
ASSUME BoundsAssumption == MaxGen \in Nat /\ MaxJobs \in Nat /\ MaxFaults \in Nat
ASSUME KindsAssumption == Kinds \subseteq {"edit", "reauth", "refresh"}

VARIABLES
  row,      \* the account: its tokens, the rest of its credentials, status, whether it is due;
            \* a status of error is named by its error_message
  live,     \* for each grant the generation that the provider accepts
  lock,     \* the refresh lock in Redis; whose it is, the code cannot tell
  job,      \* each refresher's attempt: step, whether it holds the lock, the row it read,
            \* and why it would quarantine the account
  adm,      \* each admin's request: kind, step, tokens to store, the row it read
  jobs,     \* requests of admins so far, and grants
  applied,  \* the grant that was last stored by an authorization
  mishaps, faults

vars == <<row, live, lock, job, adm, jobs, applied, mishaps, faults>>
admins == <<adm, jobs, applied>>

Steps == {"idle", "reread", "ask", "persist", "refused", "condemn", "release", "quarantine"}
AdmSteps == {"idle", "ask", "read", "write", "clear"}
Mishaps == {"unlocked", "lost", "edited", "manual", "uncleared"}

Reasons == {"revoked", "denied", "unusable"}
Rows == [grant : Grants, gen : Nat, conf : Nat, status : {"active"} \cup Reasons, due : BOOLEAN]
Tokens == [grant : Grants, gen : Nat]
FirstRow == [grant |-> 0, gen |-> 0, conf |-> 0, status |-> "active", due |-> FALSE]
NoJob == [step |-> "idle", held |-> FALSE, used |-> FirstRow, why |-> "revoked"]
NoAdm == [kind |-> "edit", step |-> "idle", hand |-> [grant |-> 0, gen |-> 0], copy |-> FirstRow]

Init ==
  /\ row = FirstRow
  /\ live = [g \in Grants |-> 0]
  /\ lock = Free
  /\ job = [r \in Refreshers |-> NoJob]
  /\ adm = [a \in Admins |-> NoAdm]
  /\ jobs = 0 /\ applied = 0
  /\ mishaps = {} /\ faults = 0

Fault == faults < MaxFaults /\ faults' = faults + 1

Token(x) == [grant |-> x.grant, gen |-> x.gen]
Next1(t) == [grant |-> t.grant, gen |-> t.gen + 1]
SameToken(x, y) == x.grant = y.grant /\ x.gen = y.gen
\* The credentials document and the proxy, which the compare-and-set compares.
SameDoc(x, y) == SameToken(x, y) /\ x.conf = y.conf
IsLive(x) == x.gen = live[x.grant]
Spend(x) == live' = [live EXCEPT ![x.grant] = @ + 1]

Idle(r) == job' = [job EXCEPT ![r] = NoJob]
Goto(r, step) == job' = [job EXCEPT ![r].step = step]
Mishap(happened, what) == mishaps' = IF happened THEN mishaps \cup {what} ELSE mishaps

-----------------------------------------------------------------------------
(* RefreshIfNeeded                                                         *)

\* A refresh loop, or a request that finds the token running out.  When the
\* lock is taken it leaves the account to the owner.
\* Mutant: the answer of SETNX is ignored.
AcquireAnyway(r) ==
  /\ job[r].step = "idle"
  /\ lock' = r
  /\ job' = [job EXCEPT ![r] = [NoJob EXCEPT !.step = "reread", !.held = TRUE]]
  /\ UNCHANGED <<row, live, admins, mishaps, faults>>

AcquireRefreshLock(r) ==
  /\ job[r].step = "idle" /\ lock = Free
  /\ lock' = r
  /\ job' = [job EXCEPT ![r] = [NoJob EXCEPT !.step = "reread", !.held = TRUE]]
  /\ UNCHANGED <<row, live, admins, mishaps, faults>>

\* An error of Redis, after which the lock may be set or not: the refresh
\* goes on without it.
DegradeToUnlocked(r) ==
  /\ Fault
  /\ job[r].step = "idle"
  /\ lock' \in {lock, IF lock = Free THEN r ELSE lock}
  /\ job' = [job EXCEPT ![r] = [NoJob EXCEPT !.step = "reread"]]
  /\ Mishap(TRUE, "unlocked")
  /\ UNCHANGED <<row, live, admins>>

\* The account is read again under the lock; one that is not active or not
\* due any more is left alone.
RereadAccount(r) ==
  /\ job[r].step = "reread"
  /\ job' = [job EXCEPT ![r].used = row,
                        ![r].step = IF row.status = "active" /\ row.due THEN "ask" ELSE "release"]
  /\ UNCHANGED <<row, live, lock, admins, mishaps, faults>>

\* The provider: a token that was spent is answered with invalid_grant, or with
\* another error that says so, after which no race is looked for.
Refresh(r) ==
  /\ job[r].step = "ask"
  /\ IF IsLive(job[r].used)
       THEN Spend(job[r].used) /\ Goto(r, "persist")
       ELSE UNCHANGED live /\ \E step \in {"refused", "condemn"} : Goto(r, step)
  /\ UNCHANGED <<row, lock, admins, mishaps, faults>>

\* It may refuse any token, and leave it as it is: access_denied, a subscription
\* that is required, on the request path every answer 403.
ProviderDenies(r) ==
  /\ job[r].step = "ask"
  /\ job' = [job EXCEPT ![r].step = "condemn", ![r].why = "denied"]
  /\ UNCHANGED <<row, live, lock, admins, mishaps, faults>>

Store(r) == row' = [row EXCEPT !.gen = job[r].used.gen + 1, !.due = FALSE]

\* Mutant: the credentials are stored without comparing the old ones.
PersistAlways(r) ==
  /\ job[r].step = "persist"
  /\ row' = [job[r].used EXCEPT !.gen = @ + 1, !.due = FALSE, !.status = row.status]
  /\ Goto(r, "release")
  /\ UNCHANGED <<live, lock, admins, mishaps, faults>>

\* Mutant: the status is compared as well, as the quarantine does.
PersistIfActive(r) ==
  /\ job[r].step = "persist"
  /\ IF SameDoc(row, job[r].used) /\ row.status = "active" THEN Store(r) ELSE UNCHANGED row
  /\ Goto(r, "release")
  /\ UNCHANGED <<live, lock, admins, mishaps, faults>>

\* UpdateGrokOAuthCredentialsIfUnchanged, and whatever it finds: done.
Persist(r) ==
  /\ job[r].step = "persist"
  /\ IF SameDoc(row, job[r].used) THEN Store(r) ELSE UNCHANGED row
  /\ Goto(r, "release")
  /\ UNCHANGED <<live, lock, admins, mishaps, faults>>

\* After invalid_grant: if the stored token is another one by now, somebody
\* else refreshed the account.
TryRecoverFromRefreshRace(r) ==
  /\ job[r].step = "refused"
  /\ Goto(r, IF SameToken(row, job[r].used) THEN "condemn" ELSE "release")
  /\ UNCHANGED <<row, live, lock, admins, mishaps, faults>>

Released(r) ==
  job' = [job EXCEPT ![r] =
    IF @.step = "condemn" THEN [@ EXCEPT !.step = "quarantine", !.held = FALSE] ELSE NoJob]

\* The lock is deleted whoever set it; a refused token is dealt with afterwards.
ReleaseRefreshLock(r) ==
  /\ job[r].step \in {"release", "condemn"}
  /\ lock' = IF job[r].held THEN Free ELSE lock
  /\ Released(r)
  /\ Mishap(job[r].held /\ lock \notin {Free, r}, "unlocked")
  /\ UNCHANGED <<row, live, admins, faults>>

\* A request that finds the account's proxy gone, or its credentials missing or
\* expired, asks nobody and needs no lock; MaxFaults bounds how often.
RequestFindsUnusable(r) ==
  /\ Fault
  /\ job[r].step = "idle"
  /\ job' = [job EXCEPT ![r] =
       [NoJob EXCEPT !.step = "quarantine", !.used = row, !.why = "unusable"]]
  /\ UNCHANGED <<row, live, lock, admins, mishaps>>

\* SetGrokOAuthRefreshErrorIfCredentialsUnchanged of the background loop and
\* SetGrokCredentialErrorIfMatch of the request path: only an active account
\* with the credentials that were refused.  What was unusable may be restored;
\* that a request passes over an account which is cooling down is a failure below.
Quarantine(r) ==
  /\ job[r].step = "quarantine"
  /\ \/ row' = IF row.status = "active" /\ SameDoc(row, job[r].used)
                THEN [row EXCEPT !.status = job[r].why] ELSE row
     \/ job[r].why = "unusable" /\ UNCHANGED row
  /\ Idle(r)
  /\ UNCHANGED <<live, lock, admins, mishaps, faults>>

-----------------------------------------------------------------------------
(* What can fail in an attempt                                             *)

\* A statement or call fails or exceeds the attempt's time.  A request to
\* the provider may have been served and a statement applied all the same; a
\* new token that comes late is never stored.  An unreadable account is not
\* a won race.  The answer that the background loop takes for a fault of the
\* whole provider (an unexplained 403, a misconfigured client) is one of these
\* failures: the account is left as it is.
AttemptFails(r) ==
  /\ Fault
  /\ \/ job[r].step = "reread" /\ Goto(r, "release") /\ UNCHANGED <<row, live, mishaps>>
     \/ /\ job[r].step = "ask" /\ Goto(r, "release") /\ UNCHANGED row
        /\ \/ UNCHANGED <<live, mishaps>>
           \/ IsLive(job[r].used) /\ Spend(job[r].used) /\ Mishap(TRUE, "lost")
     \/ /\ job[r].step = "persist" /\ Goto(r, "release") /\ UNCHANGED live
        /\ \/ UNCHANGED row /\ Mishap(TRUE, "lost")
           \/ SameDoc(row, job[r].used) /\ Store(r) /\ UNCHANGED mishaps
     \/ job[r].step = "refused" /\ Goto(r, "condemn") /\ UNCHANGED <<row, live, mishaps>>
     \/ job[r].step = "quarantine" /\ Idle(r) /\ UNCHANGED <<row, live, mishaps>>
  /\ UNCHANGED <<lock, admins>>

\* The lock cannot be deleted; it stays for its time to live.
ReleaseFails(r) ==
  /\ Fault
  /\ job[r].step \in {"release", "condemn"} /\ job[r].held
  /\ Released(r)
  /\ UNCHANGED <<row, live, lock, admins, mishaps>>

\* The process stands still until the lock has run out.  The attempt's time
\* is shorter than the lock's, so all it still does is to delete the lock.
Stall(r) ==
  /\ Fault
  /\ job[r].held /\ lock = r
  /\ lock' = Free
  /\ Goto(r, "release")
  /\ Mishap(job[r].step = "persist", "lost")
  /\ UNCHANGED <<row, live, admins>>

Crash(r) ==
  /\ Fault
  /\ job[r].step # "idle"
  /\ Idle(r)
  /\ Mishap(job[r].step = "persist", "lost")
  /\ UNCHANGED <<row, live, lock, admins>>

\* Mutant: the lock is set without a time to live.
LockStays == lock \in Refreshers /\ ~job[lock].held /\ UNCHANGED vars

\* The time to live of a lock whose owner is gone.
LockExpires ==
  /\ lock \in Refreshers /\ ~job[lock].held
  /\ lock' = Free
  /\ UNCHANGED <<row, live, job, admins, mishaps, faults>>

\* The access token comes close to its end.
TokenAges ==
  /\ ~row.due /\ row.gen < MaxGen
  /\ row' = [row EXCEPT !.due = TRUE]
  /\ UNCHANGED <<live, lock, job, admins, mishaps, faults>>

-----------------------------------------------------------------------------
(* Admins                                                                  *)

AdmDone(a) == adm' = [adm EXCEPT ![a] = NoAdm]
AdmGoto(a, step) == adm' = [adm EXCEPT ![a].step = step]

\* An edit goes to UpdateAccount at once, an authorization arrives with the
\* tokens of a new grant, a refresh by hand reads the account first.
AdminStarts(a, kind) ==
  /\ adm[a].step = "idle" /\ jobs < MaxJobs
  /\ jobs' = jobs + 1
  /\ adm' = [adm EXCEPT ![a] =
       [kind |-> kind, step |-> IF kind = "refresh" THEN "ask" ELSE "read",
        hand |-> [grant |-> jobs', gen |-> 0], copy |-> row]]
  /\ UNCHANGED <<row, live, lock, job, applied, mishaps, faults>>

\* refreshSingleAccount spends the token it read, without the lock.
AdminRefreshes(a) ==
  /\ adm[a].step = "ask"
  /\ IF IsLive(adm[a].copy)
       THEN /\ Spend(adm[a].copy)
            /\ adm' = [adm EXCEPT ![a].step = "read", ![a].hand = Next1(Token(adm[a].copy))]
            /\ Mishap(TRUE, "manual")
       ELSE AdmDone(a) /\ UNCHANGED <<live, mishaps>>
  /\ UNCHANGED <<row, lock, job, jobs, applied, faults>>

\* UpdateAccount reads the account ...
AdminReads(a) ==
  /\ adm[a].step = "read"
  /\ adm' = [adm EXCEPT ![a].copy = row, ![a].step = "write"]
  /\ UNCHANGED <<row, live, lock, job, jobs, applied, mishaps, faults>>

\* ... and writes all of it: the tokens it was given or else those it read,
\* and the status it read.  The rest of the document is what the admin sets
\* or what the handler or UpdateAccount read: any conf there has been.
Written(a, conf) ==
  LET c == [adm[a].copy EXCEPT !.conf = conf] IN
  IF adm[a].kind = "edit"
    THEN c
    ELSE [c EXCEPT !.grant = adm[a].hand.grant, !.gen = adm[a].hand.gen, !.due = FALSE]

\* A write that undoes what was stored since the read, or that changes the
\* document under a refresh.
Undoes(a) ==
  LET c == adm[a].copy IN
  CASE adm[a].kind = "edit" ->
         \/ ~SameDoc(c, row) \/ c.status # row.status
         \/ \E r \in Refreshers : job[r].step \in {"ask", "persist"} /\ SameToken(row, job[r].used)
    [] adm[a].kind = "refresh" -> row.grant # adm[a].hand.grant
    [] OTHER -> FALSE

AdminWrites(a) ==
  /\ adm[a].step = "write"
  /\ \E conf \in 0..jobs : row' = Written(a, conf)
  /\ Mishap(Undoes(a), "edited")
  /\ applied' = IF adm[a].kind = "reauth" THEN adm[a].hand.grant ELSE applied
  /\ IF adm[a].kind = "reauth" THEN AdmGoto(a, "clear") ELSE AdmDone(a)
  /\ UNCHANGED <<live, lock, job, jobs, faults>>

\* ClearError of ApplyOAuthCredentials.
AdminClears(a) ==
  /\ adm[a].step = "clear"
  /\ row' = [row EXCEPT !.status = "active"]
  /\ AdmDone(a)
  /\ UNCHANGED <<live, lock, job, jobs, applied, mishaps, faults>>

\* An error or a stop ends the request, a refresh by hand possibly after the
\* provider served it; that the error could not be cleared is only logged.
AdminFails(a) ==
  /\ Fault
  /\ adm[a].step # "idle"
  /\ AdmDone(a)
  /\ \/ /\ UNCHANGED live
        /\ mishaps' = mishaps
             \cup (IF adm[a].kind = "refresh" /\ adm[a].step # "ask" THEN {"lost"} ELSE {})
             \cup (IF adm[a].step = "clear" THEN {"uncleared"} ELSE {})
     \/ /\ adm[a].step = "ask" /\ IsLive(adm[a].copy)
        /\ Spend(adm[a].copy) /\ Mishap(TRUE, "lost")
  /\ UNCHANGED <<row, lock, job, jobs, applied>>

-----------------------------------------------------------------------------
Attempt(r) ==
  \/ AcquireRefreshLock(r) \/ RereadAccount(r) \/ Refresh(r) \/ ProviderDenies(r) \/ Persist(r)
  \/ TryRecoverFromRefreshRace(r) \/ ReleaseRefreshLock(r) \/ Quarantine(r)

Next ==
  \/ \E r \in Refreshers : Attempt(r)
  \/ \E r \in Refreshers :
       \/ RequestFindsUnusable(r)
       \/ DegradeToUnlocked(r) \/ AttemptFails(r) \/ ReleaseFails(r) \/ Stall(r) \/ Crash(r)
  \/ LockExpires \/ TokenAges
  \/ \E a \in Admins :
       \/ \E kind \in Kinds : AdminStarts(a, kind)
       \/ AdminRefreshes(a) \/ AdminReads(a) \/ AdminWrites(a) \/ AdminClears(a) \/ AdminFails(a)

Spec == Init /\ [][Next]_vars

\* The refresh loops run on tickers, an attempt has a time limit, and the
\* lock a time to live.  Nothing is assumed of admins.
FairSpec ==
  /\ Spec
  /\ \A r \in Refreshers : WF_vars(Attempt(r))
  /\ WF_vars(LockExpires)

-----------------------------------------------------------------------------
(* Properties                                                              *)

\* The account row, the provider's view of its tokens, attempts and requests
\* of admins have their types (Account, OAuthRefreshResult).
TypeOK ==
  /\ row \in Rows
  /\ live \in [Grants -> Nat]
  /\ lock \in Refreshers \cup {Free}
  /\ job \in [Refreshers -> [step : Steps, held : BOOLEAN, used : Rows, why : Reasons]]
  /\ adm \in [Admins -> [kind : {"edit", "reauth", "refresh"}, step : AdmSteps,
                         hand : Tokens, copy : Rows]]
  /\ jobs \in Grants /\ applied \in Grants
  /\ mishaps \subseteq Mishaps
  /\ faults \in Nat

\* Whoever spent the stored token has its successor and can still store it.
InHand ==
  \/ \E r \in Refreshers : job[r].step = "persist" /\ SameDoc(row, job[r].used)
  \/ \E a \in Admins : /\ adm[a].kind = "refresh" /\ adm[a].step \in {"read", "write"}
                       /\ adm[a].hand = Next1(Token(row))

\* The stored refresh token is accepted by the provider, or its successor is
\* about to be stored, however refreshes, requests and admins interleave
\* (UpdateGrokOAuthCredentialsIfUnchanged).  It is lost only with an answer
\* that was lost or came too late, or to an admin's edit that overlapped.
TokenIsKept == IsLive(row) \/ InHand \/ mishaps \cap {"lost", "edited"} # {}

\* An account is in quarantine for a revoked token only with a token that the
\* provider refuses and that nobody is about to replace (SetGrokOAuthRefresh-
\* ErrorIfCredentialsUnchanged, SetGrokCredentialErrorIfMatch), as long as
\* refreshes had the lock to themselves and no admin refreshed by hand or is
\* just authorizing the account.  Accounts that the provider denied, or that were
\* unusable, are in quarantine with tokens that it may well accept.
RevokedIsDead ==
  row.status = "revoked" =>
    \/ ~IsLive(row) /\ ~InHand
    \/ mishaps \cap {"unlocked", "manual", "edited", "uncleared"} # {}
    \/ \E a \in Admins : adm[a].kind = "reauth" /\ adm[a].step = "clear"

\* What an admin authorized is not displaced by a refresh of the older
\* credentials that was under way (success_cas_skipped_stale_credentials).
ReauthorizedIsKept == row.grant = applied \/ "edited" \in mishaps

\* A token that runs out is replaced, or the account is taken out of service:
\* no crash, lost lock or failed attempt stops the refreshes (refreshLoop).  The
\* provider fails an attempt without saying anything about the account only
\* finitely often.
DueIsSettled ==
  row.due /\ row.status = "active" ~> ~row.due \/ row.status \in Reasons
=============================================================================
