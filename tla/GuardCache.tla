----------------------------- MODULE GuardCache -----------------------------
(***************************************************************************)
(* CacheService.rememberWithLock as the two guards use it: what a          *)
(* credential (an API key, or a user's session) grants is loaded from the  *)
(* database, kept in the cache for its life and handed to every request    *)
(* until then.  The lock that keeps requests from loading together is a    *)
(* get, a set and a get, its release a get and a delete.  Meanwhile the    *)
(* rows behind the credential change: through ApiKeysService, which        *)
(* deletes the entry and then writes the row, or through a ban, an update  *)
(* of a link or of a company, which never touch the entry.                 *)
(*                                                                         *)
(* One cache key: entries of different credentials do not meet.  Time is   *)
(* counted in ticks and passes no deadline the constants give.             *)
(***************************************************************************)
EXTENDS Integers, FiniteSets

CONSTANTS
    Requests,    \* requests that carry the credential, each sent once
    Loadable,    \* what a credential may grant: sets of permissions or companies
    Ttl,         \* life of the entry (300 s)
    LockTtl,     \* life of the lock (lockTimeout, 3 s)
    CallMax,     \* a call on the cache or the database takes at most this
    MaxChanges,  \* bound: changes of the rows
    MaxGuardDeaths, \* bound: processes that die under a request
    Nothing

ASSUME RequestsAssumption == IsFiniteSet(Requests) /\ Nothing \notin Requests
ASSUME LoadableAssumption == Loadable # {} /\ {"none", "idle"} \cap Loadable = {}
ASSUME GuardTicksAssumption ==
    /\ Ttl \in Nat \ {0} /\ CallMax \in Nat /\ MaxChanges \in Nat /\ MaxGuardDeaths \in Nat
    /\ LockTtl \in Nat
    /\ CallMax < LockTtl      \* a lock is read back before it expires

\* Or nothing (key deleted, company not ACTIVE, user gone): the factory throws.
Grants == Loadable \cup {"none"}

VARIABLES
    granted,   \* what the rows grant now
    past,      \* ticks since each grant was last the current one, up to Horizon
    change,    \* a change that has deleted the entry and not yet written the row
    changes,   \* changes begun
    entry,     \* the cache entry: what it grants and its age
    lock,      \* the lock entry: whose value it holds and its age
    request,   \* each request
    guardDeaths

guardVars == <<granted, past, change, changes, entry, lock, request, guardDeaths>>

\* Later than this, any use of a grant is too late to tell apart.
Horizon == Ttl + CallMax + 1

NoEntry == [grants |-> "none", age |-> 0]
NoLock == [by |-> Nothing, age |-> 0]
Calls == {"lock", "take", "verify", "retry", "look", "load", "store", "check", "drop"}
Answers == {"accepted", "refused"}
Request == [at : {"unsent", "died"} \cup Calls \cup Answers,
            since : 0..CallMax,            \* ticks since the call began
            grants : Grants,             \* what it has obtained
            outdated : BOOLEAN]          \* history: that had been withdrawn for too long

GuardTypeOK ==
    /\ granted \in Grants
    /\ past \in [Grants -> 0..Horizon]
    /\ change \in Loadable \cup {"none", "idle"}
    /\ changes \in 0..MaxChanges
    /\ entry \in [grants : Grants, age : 0..Ttl]
    /\ lock \in [by : Requests \cup {Nothing}, age : 0..LockTtl]
    /\ request \in [Requests -> Request]
    /\ guardDeaths \in 0..MaxGuardDeaths

GuardInit ==
    /\ granted \in Loadable
    /\ past = [g \in Grants |-> IF g = granted THEN 0 ELSE Horizon]
    /\ change = "idle"
    /\ changes = 0
    /\ entry = NoEntry
    /\ lock = NoLock
    /\ request = [r \in Requests |-> [at |-> "unsent", since |-> 0, grants |-> "none",
                                   outdated |-> FALSE]]
    /\ guardDeaths = 0

At(r, call) == request[r].at = call
Begins(r, call) ==
    request' = [request EXCEPT ![r] = [at |-> call, since |-> 0, grants |-> @.grants,
                                       outdated |-> @.outdated]]
Obtain(r, grants, call) ==
    request' = [request EXCEPT ![r] = [at |-> call, since |-> 0, grants |-> grants,
                                       outdated |-> past[grants] > Ttl + CallMax]]
Pending(r) == request[r].at \in Calls

RowsUnchanged == UNCHANGED <<granted, past, change, changes>>

\* canActivate calls rememberWithLock: acquireLock is a get, a set, a get.
SeeLock(r) ==
    /\ At(r, "unsent") \/ At(r, "lock")
    /\ Begins(r, IF lock = NoLock THEN "take" ELSE "retry")
    /\ RowsUnchanged /\ UNCHANGED <<entry, lock, guardDeaths>>

TakeLock(r) ==
    /\ At(r, "take")
    /\ lock' = [by |-> r, age |-> 0]
    /\ Begins(r, "verify")
    /\ RowsUnchanged /\ UNCHANGED <<entry, guardDeaths>>

VerifyLock(r) ==
    /\ At(r, "verify")
    /\ Begins(r, IF lock.by = r THEN "look" ELSE "retry")
    /\ RowsUnchanged /\ UNCHANGED <<entry, lock, guardDeaths>>

\* Without the lock: look into the cache, and start over if nothing is there.
Retry(r) ==
    /\ At(r, "retry")
    /\ IF entry # NoEntry THEN Obtain(r, entry.grants, "accepted")
                          ELSE Begins(r, "lock")
    /\ RowsUnchanged /\ UNCHANGED <<entry, lock, guardDeaths>>

\* With it: look again, load what is missing, store it.
Look(r) ==
    /\ At(r, "look")
    /\ IF entry # NoEntry THEN Obtain(r, entry.grants, "check")
                          ELSE Begins(r, "load")
    /\ RowsUnchanged /\ UNCHANGED <<entry, lock, guardDeaths>>

LoadGrant(r) ==
    /\ At(r, "load")
    /\ Obtain(r, granted, IF granted \in Loadable THEN "store" ELSE "check")
    /\ RowsUnchanged /\ UNCHANGED <<entry, lock, guardDeaths>>

StoreGrant(r) ==
    /\ At(r, "store")
    /\ entry' = [grants |-> request[r].grants, age |-> 0]
    /\ Begins(r, "check")
    /\ RowsUnchanged /\ UNCHANGED <<lock, guardDeaths>>

\* releaseLock, then the answer of canActivate.
Answer(r) == IF request[r].grants \in Loadable THEN "accepted" ELSE "refused"

CheckLock(r) ==
    /\ At(r, "check")
    /\ Begins(r, IF lock.by = r THEN "drop" ELSE Answer(r))
    /\ RowsUnchanged /\ UNCHANGED <<entry, lock, guardDeaths>>

DropLock(r) ==
    /\ At(r, "drop")
    /\ lock' = NoLock
    /\ Begins(r, Answer(r))
    /\ RowsUnchanged /\ UNCHANGED <<entry, guardDeaths>>

RequestDies(r) ==
    /\ Pending(r)
    /\ guardDeaths < MaxGuardDeaths
    /\ guardDeaths' = guardDeaths + 1
    /\ Begins(r, "died")
    /\ RowsUnchanged /\ UNCHANGED <<entry, lock>>

Grant(g) ==
    /\ granted' = g
    /\ past' = [past EXCEPT ![g] = 0]

\* update, delete and regenerate of ApiKeysService.
Invalidate ==
    /\ change = "idle"
    /\ changes < MaxChanges
    /\ granted # "none"
    /\ \E g \in Grants \ {granted} : change' = g
    /\ changes' = changes + 1
    /\ entry' = NoEntry
    /\ UNCHANGED <<granted, past, lock, request, guardDeaths>>

WriteRow ==
    /\ change # "idle"
    /\ Grant(change)
    /\ change' = "idle"
    /\ UNCHANGED <<changes, entry, lock, request, guardDeaths>>

\* A link, a ban or a company's status: nobody calls invalidateUserCache.
ChangeBehind ==
    /\ change = "idle"
    /\ changes < MaxChanges
    /\ \E g \in Grants \ {granted} : Grant(g)
    /\ changes' = changes + 1
    /\ UNCHANGED <<change, entry, lock, request, guardDeaths>>

\* An age without its limit.
AgedFreely(n, limit) == n + 1

\* An age grows up to a limit.
Aged(n, limit) == IF n < limit THEN n + 1 ELSE n

\* An entry that outlives its life.
OlderForEver(x, absent, life) == IF x = absent THEN x ELSE [x EXCEPT !.age = Aged(@, life)]

\* An entry or a lock past its life is not found any more.
Older(x, absent, life) ==
    IF x = absent \/ x.age = life THEN absent ELSE [x EXCEPT !.age = Aged(@, life)]

\* Time passes, but not over the deadline of a call.
GuardTick ==
    /\ \A r \in Requests : Pending(r) => request[r].since < CallMax
    /\ request' = [r \in Requests |->
         IF Pending(r) THEN [request[r] EXCEPT !.since = @ + 1] ELSE request[r]]
    /\ past' = [g \in Grants |-> IF g = granted THEN 0 ELSE Aged(past[g], Horizon)]
    /\ entry' = Older(entry, NoEntry, Ttl)
    /\ lock' = Older(lock, NoLock, LockTtl)
    /\ UNCHANGED <<granted, change, changes, guardDeaths>>

RequestStep(r) ==
    \/ SeeLock(r) \/ TakeLock(r) \/ VerifyLock(r) \/ Retry(r) \/ Look(r)
    \/ LoadGrant(r) \/ StoreGrant(r) \/ CheckLock(r) \/ DropLock(r)

GoOn(r) == Pending(r) /\ RequestStep(r)

GuardNext ==
    \/ \E r \in Requests : RequestStep(r) \/ RequestDies(r)
    \/ Invalidate \/ WriteRow \/ ChangeBehind
    \/ GuardTick

\* Calls return and time passes; nobody has to send or to change anything.
GuardFairness ==
    /\ WF_guardVars(GuardTick)
    /\ \A r \in Requests : WF_guardVars(GoOn(r))

GuardSpec == GuardInit /\ [][GuardNext]_guardVars /\ GuardFairness

(***************************************************************************)
(* Properties.                                                             *)
(***************************************************************************)

\* What was withdrawn is still granted for at most the life of an entry and
\* the time of the call that stored it: an entry is not renewed by use, and a
\* value loaded before a change and stored after it lives no longer.
StaleIsBounded ==
    \A r \in Requests : At(r, "accepted") => ~request[r].outdated

\* Why: the rows' grant is not past, what a request has loaded was withdrawn at
\* most as long ago as it takes to store it, an entry at most an age and a call
\* ago; so nobody obtains what is outdated.
GrantedIsNow == past[granted] = 0
LoadedKeepsPace ==
    \A r \in Requests : At(r, "store") =>
        request[r].grants \in Loadable /\ past[request[r].grants] <= request[r].since
EntryKeepsPace ==
    entry # NoEntry => entry.grants \in Loadable /\ past[entry.grants] <= entry.age + CallMax
NoneOutdated == \A r \in Requests : ~request[r].outdated

GuardIInv == GuardTypeOK /\ GrantedIsNow /\ LoadedKeepsPace /\ EntryKeepsPace /\ NoneOutdated

\* Every request that did not get the lock is answered or dies itself: a lock left
\* by a dead process, taken over, or deleted by another holder keeps nobody out
\* for ever, and a lost race is retried.
GuardAnswers == \A r \in Requests : At(r, "retry") ~> (request[r].at \in Answers \cup {"died"})
=============================================================================
