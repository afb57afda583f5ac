------------------------ MODULE CacheProtocolsProofs ------------------------
(***************************************************************************)
(* The guards, the interceptor and the wallet election, for any number of  *)
(* requests, attempts and processes and any delays that satisfy the        *)
(* assumptions: first each by itself, around the inductive invariant that  *)
(* its module states, then side by side.                                   *)
(***************************************************************************)
EXTENDS CacheProtocols, TLAPS

-----------------------------------------------------------------------------
(* The guards.  The invariant relates how long ago a grant was withdrawn    *)
(* to the age of the entry and of the call that hold it.                    *)

(* The cache and the requests start empty, the rows with a current grant. *)
LEMMA GuardStarts == GuardInit => GuardIInv
BY LoadableAssumption, GuardTicksAssumption
   DEF GuardInit, GuardIInv, GuardTypeOK, Grants, Horizon, NoEntry, NoLock, Request, Calls, Answers,
       GrantedIsNow, LoadedKeepsPace, EntryKeepsPace, NoneOutdated, At

(* A function of requests with another request at one place. *)
LEMMA AnotherRequest ==
    ASSUME GuardTypeOK, NEW r \in Requests, NEW x \in Request, request' = [request EXCEPT ![r] = x]
    PROVE  request' \in [Requests -> Request]
BY DEF GuardTypeOK

(* A request that begins another call keeps what it has obtained. *)
LEMMA BeginsACall ==
    ASSUME GuardIInv, NEW r \in Requests,
           NEW call \in (Calls \ {"store"}) \cup Answers \cup {"died"}, Begins(r, call),
           UNCHANGED <<granted, past, entry>>
    PROVE  /\ request' \in [Requests -> Request]
           /\ GrantedIsNow' /\ LoadedKeepsPace' /\ EntryKeepsPace' /\ NoneOutdated'
<1>1. request' \in [Requests -> Request]
  <2> DEFINE x == [at |-> call, since |-> 0, grants |-> request[r].grants,
                   outdated |-> request[r].outdated]
  <2>1. x \in Request
    BY GuardTicksAssumption DEF GuardIInv, GuardTypeOK, Request
  <2>2. request' = [request EXCEPT ![r] = x]
    BY DEF Begins
  <2> QED BY <2>1, <2>2, AnotherRequest DEF GuardIInv
<1>2. \A q \in Requests : q # r => request'[q] = request[q]
  BY DEF Begins, GuardIInv, GuardTypeOK
<1>3. request'[r].at # "store" /\ request'[r].outdated = request[r].outdated
  BY DEF Begins, GuardIInv, GuardTypeOK, Request, Calls, Answers
<1>4. GrantedIsNow' /\ EntryKeepsPace'
  BY DEF GuardIInv, GrantedIsNow, EntryKeepsPace
<1>5. LoadedKeepsPace'
  BY <1>2, <1>3 DEF GuardIInv, LoadedKeepsPace, At
<1>6. NoneOutdated'
  BY <1>2, <1>3 DEF GuardIInv, NoneOutdated
<1> QED BY <1>1, <1>4, <1>5, <1>6

(* A request that obtains a grant withdrawn not too long ago. *)
LEMMA ObtainsAGrant ==
    ASSUME GuardIInv, NEW r \in Requests, NEW g \in Grants, NEW call \in Calls \cup Answers,
           Obtain(r, g, call), past[g] <= Ttl + CallMax,
           call = "store" => g \in Loadable /\ past[g] = 0,
           UNCHANGED <<granted, past, entry>>
    PROVE  /\ request' \in [Requests -> Request]
           /\ GrantedIsNow' /\ LoadedKeepsPace' /\ EntryKeepsPace' /\ NoneOutdated'
<1>1. past[g] \in Nat /\ Ttl + CallMax \in Nat
  BY GuardTicksAssumption DEF GuardIInv, GuardTypeOK, Horizon
<1>2. request' = [request EXCEPT ![r] = [at |-> call, since |-> 0, grants |-> g,
                                         outdated |-> FALSE]]
  <2>1. (past[g] > Ttl + CallMax) = FALSE
    BY <1>1
  <2> QED BY <2>1, Zenon DEF Obtain
<1>3. request' \in [Requests -> Request]
  <2>1. [at |-> call, since |-> 0, grants |-> g, outdated |-> FALSE] \in Request
    BY GuardTicksAssumption DEF Request
  <2> QED BY <1>2, <2>1, AnotherRequest DEF GuardIInv
<1>4. /\ \A q \in Requests : q # r => request'[q] = request[q]
      /\ request'[r] = [at |-> call, since |-> 0, grants |-> g, outdated |-> FALSE]
  BY <1>2 DEF GuardIInv, GuardTypeOK
<1>5. GrantedIsNow' /\ EntryKeepsPace'
  BY DEF GuardIInv, GrantedIsNow, EntryKeepsPace
<1>6. LoadedKeepsPace'
  BY <1>4 DEF GuardIInv, LoadedKeepsPace, At
<1>7. NoneOutdated'
  BY <1>4 DEF GuardIInv, NoneOutdated
<1> QED BY <1>3, <1>5, <1>6, <1>7

(* What is in the cache may be used: an entry is no older than its life. *)
LEMMA EntryIsNotOutdated ==
    ASSUME GuardIInv, entry # NoEntry
    PROVE  entry.grants \in Grants /\ past[entry.grants] <= Ttl + CallMax
BY GuardTicksAssumption DEF GuardIInv, GuardTypeOK, EntryKeepsPace, Horizon

(* The lock is taken, read back, waited for and released. *)
LEMMA IInvLock ==
    ASSUME GuardIInv, NEW r \in Requests,
           \/ SeeLock(r) \/ TakeLock(r) \/ VerifyLock(r) \/ CheckLock(r) \/ DropLock(r)
           \/ RequestDies(r)
    PROVE  GuardIInv'
<1>1. lock' \in [by : Requests \cup {Nothing}, age : 0..LockTtl]
  BY GuardTicksAssumption DEF SeeLock, TakeLock, VerifyLock, CheckLock, DropLock, RequestDies,
     NoLock, GuardIInv, GuardTypeOK
<1>2. guardDeaths' \in 0..MaxGuardDeaths
  BY GuardTicksAssumption DEF SeeLock, TakeLock, VerifyLock, CheckLock, DropLock, RequestDies,
     GuardIInv, GuardTypeOK
<1>3. UNCHANGED <<granted, past, change, changes, entry>>
  BY DEF SeeLock, TakeLock, VerifyLock, CheckLock, DropLock, RequestDies, RowsUnchanged
<1>4. \E call \in (Calls \ {"store"}) \cup Answers \cup {"died"} : Begins(r, call)
  BY DEF SeeLock, TakeLock, VerifyLock, CheckLock, DropLock, RequestDies, Answer, Calls, Answers
<1> QED BY <1>1, <1>2, <1>3, <1>4, BeginsACall DEF GuardIInv, GuardTypeOK

(* The cache is looked into, without the lock or with it. *)
LEMMA IInvLook ==
    ASSUME GuardIInv, NEW r \in Requests, Retry(r) \/ Look(r)
    PROVE  GuardIInv'
<1>1. UNCHANGED <<granted, past, change, changes, entry, lock, guardDeaths>>
  BY DEF Retry, Look, RowsUnchanged
<1>2. CASE entry # NoEntry
  <2>1. \E call \in {"accepted", "check"} : Obtain(r, entry.grants, call)
    BY <1>2 DEF Retry, Look
  <2> QED BY <1>1, <1>2, <2>1, EntryIsNotOutdated, ObtainsAGrant
          DEF GuardIInv, GuardTypeOK, Calls, Answers
<1>3. CASE entry = NoEntry
  <2>1. \E call \in {"lock", "load"} : Begins(r, call)
    BY <1>3 DEF Retry, Look
  <2> QED BY <1>1, <2>1, BeginsACall DEF GuardIInv, GuardTypeOK, Calls
<1> QED BY <1>2, <1>3

(* The rows are loaded: what they grant is not past. *)
LEMMA IInvLoad ==
    ASSUME GuardIInv, NEW r \in Requests, LoadGrant(r)
    PROVE  GuardIInv'
<1>1. UNCHANGED <<granted, past, change, changes, entry, lock, guardDeaths>>
  BY DEF LoadGrant, RowsUnchanged
<1>2. granted \in Grants /\ past[granted] = 0 /\ past[granted] <= Ttl + CallMax
  BY GuardTicksAssumption DEF GuardIInv, GuardTypeOK, GrantedIsNow
<1>3. PICK call \in {"store", "check"} :
        Obtain(r, granted, call) /\ (call = "store" => granted \in Loadable)
  BY DEF LoadGrant
<1> QED BY <1>1, <1>2, <1>3, ObtainsAGrant DEF GuardIInv, GuardTypeOK, Calls

(* What was loaded is stored, at most a call after it was current. *)
LEMMA IInvStore ==
    ASSUME GuardIInv, NEW r \in Requests, StoreGrant(r)
    PROVE  GuardIInv'
<1> DEFINE g == request[r].grants
<1>1. g \in Loadable /\ g \in Grants /\ past[g] <= CallMax
  <2>1. request[r].since <= CallMax /\ request[r].since \in Nat /\ past[g] \in Nat
    BY GuardTicksAssumption DEF GuardIInv, GuardTypeOK, Request, Horizon
  <2> QED BY <2>1, GuardTicksAssumption
          DEF StoreGrant, GuardIInv, GuardTypeOK, Request, LoadedKeepsPace, At, Grants
<1>2. entry' = [grants |-> g, age |-> 0]
  BY DEF StoreGrant
<1>3. entry' \in [grants : Grants, age : 0..Ttl] /\ EntryKeepsPace'
  <2>1. UNCHANGED past
    BY DEF StoreGrant, RowsUnchanged
  <2> QED BY <1>1, <1>2, <2>1, GuardTicksAssumption DEF EntryKeepsPace
<1>4. /\ UNCHANGED <<granted, past, change, changes, lock, guardDeaths>> /\ Begins(r, "check")
  BY DEF StoreGrant, RowsUnchanged
<1>5. request' \in [Requests -> Request]
  <2> DEFINE x == [at |-> "check", since |-> 0, grants |-> request[r].grants,
                   outdated |-> request[r].outdated]
  <2>1. x \in Request
    BY GuardTicksAssumption DEF GuardIInv, GuardTypeOK, Request, Calls
  <2>2. request' = [request EXCEPT ![r] = x]
    BY <1>4 DEF Begins
  <2> QED BY <2>1, <2>2, AnotherRequest DEF GuardIInv
<1>6. /\ \A q \in Requests : q # r => request'[q] = request[q]
      /\ request'[r].at = "check" /\ request'[r].outdated = request[r].outdated
  BY <1>4 DEF Begins, GuardIInv, GuardTypeOK, Request
<1>7. LoadedKeepsPace' /\ NoneOutdated' /\ GrantedIsNow'
  BY <1>4, <1>6 DEF GuardIInv, LoadedKeepsPace, NoneOutdated, GrantedIsNow, At
<1> QED BY <1>3, <1>4, <1>5, <1>7 DEF GuardIInv, GuardTypeOK

(* The rows change, behind an entry that was deleted before or that stays. *)
LEMMA IInvChange ==
    ASSUME GuardIInv, Invalidate \/ WriteRow \/ ChangeBehind
    PROVE  GuardIInv'
<1>1. UNCHANGED <<lock, request, guardDeaths>>
  BY DEF Invalidate, WriteRow, ChangeBehind
<1>2. /\ change' \in Loadable \cup {"none", "idle"} /\ changes' \in 0..MaxChanges
      /\ entry' \in [grants : Grants, age : 0..Ttl]
  BY GuardTicksAssumption DEF Invalidate, WriteRow, ChangeBehind, GuardIInv, GuardTypeOK,
     Grants, NoEntry
<1>3. entry' = NoEntry \/ entry' = entry
  BY DEF Invalidate, WriteRow, ChangeBehind
<1>4. UNCHANGED <<granted, past>> \/ \E g \in Grants : Grant(g)
  <2>1. CASE WriteRow
    BY <2>1 DEF WriteRow, GuardIInv, GuardTypeOK, Grants
  <2> QED BY <2>1 DEF Invalidate, ChangeBehind
<1>5. /\ granted' \in Grants /\ past' \in [Grants -> 0..Horizon] /\ GrantedIsNow'
      /\ \A g \in Grants : past'[g] <= past[g]
  <2>1. \A g \in Grants : past[g] \in Nat /\ 0 \in 0..Horizon
    BY GuardTicksAssumption DEF GuardIInv, GuardTypeOK, Horizon
  <2> QED BY <1>4, <2>1 DEF Grant, GuardIInv, GuardTypeOK, GrantedIsNow
<1>6. LoadedKeepsPace'
  <2> SUFFICES ASSUME NEW r \in Requests, At(r, "store")
               PROVE  request[r].grants \in Loadable /\ past'[request[r].grants] <= request[r].since
    BY <1>1 DEF LoadedKeepsPace, At
  <2>1. /\ request[r].grants \in Loadable /\ request[r].grants \in Grants
        /\ past[request[r].grants] <= request[r].since
    BY DEF GuardIInv, LoadedKeepsPace, Grants
  <2>2. /\ past[request[r].grants] \in Nat /\ past'[request[r].grants] \in Nat
        /\ request[r].since \in Nat
    BY <1>5, <2>1, GuardTicksAssumption DEF GuardIInv, GuardTypeOK, Request, Horizon
  <2> QED BY <1>5, <2>1, <2>2
<1>7. EntryKeepsPace'
  <2> SUFFICES ASSUME entry' = entry, entry # NoEntry
               PROVE  entry.grants \in Loadable /\ past'[entry.grants] <= entry.age + CallMax
    BY <1>3 DEF EntryKeepsPace
  <2>1. /\ entry.grants \in Loadable /\ entry.grants \in Grants
        /\ past[entry.grants] <= entry.age + CallMax
    BY DEF GuardIInv, EntryKeepsPace, Grants
  <2>2. past[entry.grants] \in Nat /\ past'[entry.grants] \in Nat /\ entry.age + CallMax \in Nat
    BY <1>5, <2>1, GuardTicksAssumption DEF GuardIInv, GuardTypeOK, Horizon
  <2> QED BY <1>5, <2>1, <2>2
<1> QED BY <1>1, <1>2, <1>5, <1>6, <1>7 DEF GuardIInv, GuardTypeOK, NoneOutdated

(* An age below its limit grows by one. *)
LEMMA AgeGrows ==
    ASSUME NEW limit \in Nat, NEW n \in 0..limit
    PROVE  Aged(n, limit) \in 0..limit /\ Aged(n, limit) <= n + 1
BY DEF Aged

(* A tick ages the entry, the calls and what is past alike. *)
LEMMA GuardIInvTick ==
    ASSUME GuardIInv, GuardTick
    PROVE  GuardIInv'
<1>1. /\ Horizon \in Nat /\ Ttl \in Nat /\ LockTtl \in Nat /\ CallMax \in Nat
  BY GuardTicksAssumption DEF Horizon
<1>2. /\ past' \in [Grants -> 0..Horizon] /\ GrantedIsNow'
      /\ \A g \in Grants : past'[g] \in Nat /\ past[g] \in Nat /\ past'[g] <= past[g] + 1
  BY <1>1, AgeGrows DEF GuardTick, GuardIInv, GuardTypeOK, GrantedIsNow
<1>3. /\ request' \in [Requests -> Request]
      /\ \A r \in Requests : /\ request'[r].at = request[r].at
                             /\ request'[r].grants = request[r].grants
                             /\ request'[r].outdated = request[r].outdated
                             /\ request[r].at \in Calls => request'[r].since = request[r].since + 1
  <2>1. \A r \in Requests : Pending(r) => request[r].since + 1 \in 0..CallMax
    BY <1>1 DEF GuardTick, GuardIInv, GuardTypeOK, Request
  <2> QED BY <2>1 DEF GuardTick, GuardIInv, GuardTypeOK, Request, Pending
<1>4. /\ lock' \in [by : Requests \cup {Nothing}, age : 0..LockTtl]
  BY <1>1, AgeGrows DEF GuardTick, Older, NoLock, GuardIInv, GuardTypeOK
<1>5. /\ entry' \in [grants : Grants, age : 0..Ttl]
      /\ entry' # NoEntry =>
            entry # NoEntry /\ entry'.grants = entry.grants /\ entry'.age = entry.age + 1
  <2>1. CASE entry = NoEntry \/ entry.age = Ttl
    BY <1>1, <2>1 DEF GuardTick, Older, NoEntry, Grants
  <2>2. CASE entry # NoEntry /\ entry.age # Ttl
    <3>1. entry.age \in 0..Ttl /\ Aged(entry.age, Ttl) = entry.age + 1
      BY <1>1, <2>2 DEF Aged, GuardIInv, GuardTypeOK
    <3>2. entry' = [entry EXCEPT !.age = entry.age + 1]
      BY <2>2, <3>1 DEF GuardTick, Older
    <3> QED BY <1>1, <2>2, <3>1, <3>2 DEF GuardIInv, GuardTypeOK
  <2> QED BY <2>1, <2>2
<1>6. LoadedKeepsPace'
  <2> SUFFICES ASSUME NEW r \in Requests, request[r].at = "store"
               PROVE  /\ request[r].grants \in Loadable
                      /\ past'[request[r].grants] <= request[r].since + 1
    BY <1>3 DEF LoadedKeepsPace, At, Calls
  <2>1. /\ request[r].grants \in Loadable /\ request[r].grants \in Grants
        /\ past[request[r].grants] <= request[r].since /\ request[r].since \in Nat
    BY <1>1 DEF GuardIInv, LoadedKeepsPace, At, Grants, GuardTypeOK, Request
  <2> QED BY <1>2, <2>1
<1>7. EntryKeepsPace'
  <2> SUFFICES ASSUME entry' # NoEntry
               PROVE  /\ entry.grants \in Loadable
                      /\ past'[entry.grants] <= entry.age + 1 + CallMax
    BY <1>5 DEF EntryKeepsPace
  <2>1. /\ entry.grants \in Loadable /\ entry.grants \in Grants /\ entry.age \in Nat
        /\ past[entry.grants] <= entry.age + CallMax
    BY <1>1, <1>5 DEF GuardIInv, GuardTypeOK, EntryKeepsPace, Grants
  <2> QED BY <1>1, <1>2, <2>1
<1>8. NoneOutdated'
  BY <1>3 DEF GuardIInv, NoneOutdated
<1> QED BY <1>2, <1>3, <1>4, <1>5, <1>6, <1>7, <1>8 DEF GuardTick, GuardIInv, GuardTypeOK

(* The ages of entries and of calls bound how long ago what they hold was    *)
(* withdrawn, through expired and stolen locks, changes of the rows before   *)
(* and after an invalidation, and deaths.                                    *)
LEMMA GuardStep == GuardIInv /\ [GuardNext]_guardVars => GuardIInv'
<1> SUFFICES ASSUME GuardIInv, [GuardNext]_guardVars PROVE GuardIInv'
  OBVIOUS
<1>1. ASSUME NEW r \in Requests, RequestStep(r) \/ RequestDies(r) PROVE GuardIInv'
  BY <1>1, IInvLock, IInvLook, IInvLoad, IInvStore DEF RequestStep
<1>2. CASE UNCHANGED guardVars
  BY <1>2 DEF guardVars, GuardIInv, GuardTypeOK, GrantedIsNow, LoadedKeepsPace, EntryKeepsPace,
     NoneOutdated, At
<1> QED BY <1>1, <1>2, IInvChange, GuardIInvTick DEF GuardNext

(* The invariant holds in every state of the guards by themselves. *)
THEOREM GuardInductive == GuardSpec => []GuardIInv
BY GuardStarts, GuardStep, PTL DEF GuardSpec

-----------------------------------------------------------------------------
(* The interceptor.  The invariant: the entry tells of the one request that *)
(* is under way, and names a request that has not failed.                   *)

(* The entry of a request and none are told apart. *)
LEMMA MarksDiffer ==
    /\ NoMark \in Marks /\ NoMark.state = "none"
    /\ \A a \in Attempts : /\ Processing(a) \in Marks /\ Processing(a) # NoMark
                           /\ Processing(a).state = "processing" /\ Processing(a).of = a
                           /\ Completed(a) \in Marks /\ Completed(a) # NoMark
                           /\ Completed(a).state = "completed" /\ Completed(a).of = a
BY DEF Marks, NoMark, Processing, Completed

(* Nothing is stored and nobody has asked. *)
LEMMA IdempotencyStarts == ASSUME IdempotencyInit PROVE IdempotencyIInv
<1>1. IdempotencyTypeOK
  <2>1. 0 \in 0..MaxCacheErrors
    BY CacheErrorsAssumption
  <2>2. FALSE \in BOOLEAN /\ "new" \in Places
    BY DEF Places
  <2> QED BY <2>1, <2>2, MarksDiffer, Zenon DEF IdempotencyInit, IdempotencyTypeOK
<1>2. OneUnderWay
  BY DEF IdempotencyInit, OneUnderWay, UnderWay, Succeeded
<1>3. MarkHasAnAttempt
  BY DEF IdempotencyInit, MarkHasAnAttempt
<1> QED BY <1>1, <1>2, <1>3 DEF IdempotencyIInv

(* One request moves, the others stay where they are. *)
LEMMA Goes ==
    ASSUME IdempotencyTypeOK, NEW a \in Attempts, NEW place \in Places, Go(a, place)
    PROVE  /\ attempt' \in [Attempts -> Places]
           /\ attempt'[a] = place
           /\ \A b \in Attempts : b # a => attempt'[b] = attempt[b]
BY DEF Go, IdempotencyTypeOK

(* The counter of errors only grows. *)
LEMMA ErrorsStay ==
    ASSUME IdempotencyTypeOK, CacheWorks \/ CacheFails
    PROVE  /\ cacheErrors' \in 0..MaxCacheErrors
           /\ cacheErrors' = 0 => cacheErrors = 0 /\ CacheWorks
BY CacheErrorsAssumption DEF CacheWorks, CacheFails, IdempotencyTypeOK

(* Looked up: a request goes on only if no entry is there. *)
LEMMA IInvLookUp ==
    ASSUME IdempotencyIInv, NEW a \in Attempts, LookUp(a) \/ LookUpFails(a)
    PROVE  IdempotencyIInv'
<1>1. /\ mark' = mark /\ attempt[a] = "new" /\ (CacheWorks \/ CacheFails)
      /\ mark.state \in {"none", "processing", "completed"}
  BY DEF LookUp, LookUpFails, IdempotencyIInv, IdempotencyTypeOK, Marks, NoMark,
     Processing, Completed
<1>2. PICK to \in {"marking", "conflict", "replayed"} :
        /\ Go(a, to)
        /\ to = "marking" /\ CacheWorks => mark.state = "none"
        /\ to = "marking" /\ CacheWorks /\ ~raced' =>
              ~raced /\ \A b \in Attempts : attempt[b] # "marking"
        /\ raced' \in BOOLEAN /\ (~raced' => ~raced)
  <2>1. CASE LookUpFails(a)
    <3>1. ~CacheWorks
      BY <2>1 DEF LookUpFails, CacheWorks, CacheFails, IdempotencyIInv, IdempotencyTypeOK
    <3> QED BY <2>1, <3>1 DEF LookUpFails, IdempotencyIInv, IdempotencyTypeOK
  <2>2. CASE LookUp(a)
    <3>1. raced' \in BOOLEAN /\ (~raced' => ~raced)
      BY <2>2 DEF LookUp, IdempotencyIInv, IdempotencyTypeOK
    <3>2. CASE mark.state = "none"
      BY <2>2, <3>1, <3>2 DEF LookUp
    <3>3. CASE mark.state = "processing"
      BY <2>2, <3>1, <3>3 DEF LookUp
    <3>4. CASE mark.state = "completed"
      BY <2>2, <3>1, <3>4 DEF LookUp
    <3> QED BY <1>1, <3>2, <3>3, <3>4
  <2> QED BY <2>1, <2>2
<1>3. /\ attempt' \in [Attempts -> Places] /\ attempt'[a] = to
      /\ \A b \in Attempts : b # a => attempt'[b] = attempt[b]
      /\ cacheErrors' \in 0..MaxCacheErrors
      /\ cacheErrors' = 0 => cacheErrors = 0 /\ CacheWorks
  BY <1>1, <1>2, Goes, ErrorsStay DEF IdempotencyIInv, Places, Ended, Refused
<1>4. OneUnderWay'
  <2> SUFFICES ASSUME ~raced', cacheErrors' = 0, NEW c \in Attempts, attempt'[c] \in UnderWay
               PROVE  /\ mark = MarkTellsOf(c)'
                      /\ \A b \in Attempts : attempt'[b] \in UnderWay => b = c
    BY <1>1 DEF OneUnderWay
  <2>1. ~raced /\ cacheErrors = 0 /\ CacheWorks
    BY <1>2, <1>3
  <2>2. CASE to = "marking"
    <3>1. mark = NoMark
      BY <1>2, <2>1, <2>2, MarksDiffer DEF IdempotencyIInv, IdempotencyTypeOK, Marks
    <3>2. \A b \in Attempts : attempt[b] \notin UnderWay
      <4> SUFFICES ASSUME NEW b \in Attempts, attempt[b] \in UnderWay PROVE FALSE
        OBVIOUS
      <4>1. mark = MarkTellsOf(b) /\ attempt[b] # "marking"
        BY <1>2, <2>1, <2>2 DEF IdempotencyIInv, OneUnderWay
      <4> QED BY <3>1, <4>1, MarksDiffer DEF MarkTellsOf
    <3> QED BY <1>3, <2>2, <3>1, <3>2 DEF MarkTellsOf
  <2>3. CASE to # "marking"
    <3>1. to \notin UnderWay
      BY <1>2, <2>3 DEF UnderWay, Succeeded
    <3>2. c # a /\ attempt'[c] = attempt[c]
      BY <1>3, <3>1
    <3>3. mark = MarkTellsOf(c) /\ \A b \in Attempts : attempt[b] \in UnderWay => b = c
      BY <2>1, <3>2 DEF IdempotencyIInv, OneUnderWay
    <3> QED BY <1>3, <3>1, <3>2, <3>3 DEF MarkTellsOf
  <2> QED BY <2>2, <2>3
<1>5. MarkHasAnAttempt'
  BY <1>1, <1>3 DEF IdempotencyIInv, MarkHasAnAttempt
<1> QED BY <1>1, <1>2, <1>3, <1>4, <1>5 DEF IdempotencyIInv, IdempotencyTypeOK

(* Marked, handled, stored or deleted: the entry follows its request. *)
LEMMA IInvOwn ==
    ASSUME IdempotencyIInv, NEW a \in Attempts,
           Mark(a) \/ Handle(a) \/ HandlerThrows(a) \/ StoreAnswer(a) \/ Delete(a) \/ AttemptDies(a)
    PROVE  IdempotencyIInv'
<1>1. /\ (CacheWorks \/ CacheFails) /\ raced' = raced
      /\ attempt[a] \in UnderWay
      /\ \E to \in Places \ {"new", "marking"} :
            /\ Go(a, to)
            /\ to \in Refused => attempt[a] = "deleting"
  BY DEF Mark, Handle, HandlerThrows, StoreAnswer, Delete, AttemptDies, CacheWorks, UnderWay,
     Succeeded, Places, Ended, Refused
<1>2. /\ attempt' \in [Attempts -> Places] /\ attempt'[a] \notin {"new", "marking"}
      /\ attempt'[a] \in Refused => attempt[a] = "deleting"
      /\ \A b \in Attempts : b # a => attempt'[b] = attempt[b]
      /\ cacheErrors' \in 0..MaxCacheErrors
      /\ cacheErrors' = 0 => cacheErrors = 0 /\ CacheWorks
  BY <1>1, Goes, ErrorsStay DEF IdempotencyIInv
<1>3. mark' \in Marks
  BY MarksDiffer
     DEF Mark, Handle, HandlerThrows, StoreAnswer, Delete, AttemptDies, IdempotencyIInv,
         IdempotencyTypeOK
<1>4. ASSUME cacheErrors' = 0
      PROVE  \/ mark' = mark /\ ~Delete(a)
             \/ mark' = NoMark
             \/ mark' \in {Processing(a), Completed(a)} /\ attempt'[a] \in {"handling", "done"}
  <2>1. CacheWorks /\ ~CacheFails
    BY <1>2, <1>4 DEF CacheWorks, CacheFails, IdempotencyIInv, IdempotencyTypeOK
  <2> QED BY <2>1
          DEF Mark, Handle, HandlerThrows, StoreAnswer, Delete, AttemptDies, Go, IdempotencyIInv,
              IdempotencyTypeOK
<1>5. OneUnderWay'
  <2> SUFFICES ASSUME ~raced', cacheErrors' = 0, NEW c \in Attempts, attempt'[c] \in UnderWay
               PROVE  /\ mark' = MarkTellsOf(c)'
                      /\ \A b \in Attempts : attempt'[b] \in UnderWay => b = c
    BY DEF OneUnderWay
  <2>1. ~raced /\ cacheErrors = 0 /\ CacheWorks /\ ~CacheFails
    BY <1>1, <1>2 DEF CacheWorks, CacheFails, IdempotencyIInv, IdempotencyTypeOK
  <2>2. mark = MarkTellsOf(a) /\ \A b \in Attempts : attempt[b] \in UnderWay => b = a
    BY <1>1, <2>1 DEF IdempotencyIInv, OneUnderWay
  <2>3. c = a /\ \A b \in Attempts : attempt'[b] \in UnderWay => b = a
    BY <1>2, <2>2
  <2>4. mark' = MarkTellsOf(a)'
    BY <2>1, <2>2, <2>3
       DEF Mark, Handle, HandlerThrows, StoreAnswer, Delete, AttemptDies, Go, MarkTellsOf, UnderWay,
           Succeeded, IdempotencyIInv, IdempotencyTypeOK
  <2> QED BY <2>3, <2>4
<1>6. MarkHasAnAttempt'
  <2> SUFFICES ASSUME cacheErrors' = 0, mark' # NoMark
               PROVE  mark'.of \in Attempts
                      /\ attempt'[mark'.of] \notin {"new", "marking"} \cup Refused
    BY DEF MarkHasAnAttempt
  <2>1. CASE mark' = mark /\ ~Delete(a)
    <3>1. mark.of \in Attempts /\ attempt[mark.of] \notin {"new", "marking"} \cup Refused
      BY <1>2, <2>1 DEF IdempotencyIInv, MarkHasAnAttempt
    <3>2. attempt'[a] \notin Refused
      BY <2>1 DEF Mark, Handle, HandlerThrows, StoreAnswer, AttemptDies, Go, Refused,
         IdempotencyIInv, IdempotencyTypeOK
    <3> QED BY <1>2, <2>1, <3>1, <3>2
  <2>2. CASE mark' \in {Processing(a), Completed(a)} /\ attempt'[a] \in {"handling", "done"}
    BY <2>2, MarksDiffer DEF Refused
  <2> QED BY <1>4, <2>1, <2>2
<1> QED BY <1>1, <1>2, <1>3, <1>5, <1>6 DEF IdempotencyIInv, IdempotencyTypeOK

(* Every step keeps what the entry tells. *)
LEMMA IdempotencyStep == IdempotencyIInv /\ [IdempotencyNext]_idempotencyVars => IdempotencyIInv'
<1> SUFFICES ASSUME IdempotencyIInv, [IdempotencyNext]_idempotencyVars PROVE IdempotencyIInv'
  OBVIOUS
<1>1. ASSUME NEW a \in Attempts, Step(a) \/ AttemptDies(a) PROVE IdempotencyIInv'
  BY <1>1, IInvLookUp, IInvOwn DEF Step
<1>2. CASE UNCHANGED idempotencyVars
  BY <1>2 DEF idempotencyVars, IdempotencyIInv, IdempotencyTypeOK, OneUnderWay, MarkTellsOf,
     MarkHasAnAttempt
<1> QED BY <1>1, <1>2 DEF IdempotencyNext

(* The entry of a key tells of the one request under way, and whatever raced *)
(* names a request that has not failed.                                      *)
THEOREM IdempotencyInductive == IdempotencySpec => []IdempotencyIInv
BY IdempotencyStarts, IdempotencyStep, PTL DEF IdempotencySpec

-----------------------------------------------------------------------------
(* The election.  The invariant relates the age of the bid to how long each *)
(* process has stood where it stands.                                       *)

(* How long a stage may last. *)
LEMMA Deadlines ==
    /\ Deadline("idle") = 0
    /\ Deadline("asking") = Delay
    /\ Deadline("bidding") = Delay
    /\ Deadline("waiting") = Wait + Delay
    /\ Deadline("elected") = Delay
    /\ Deadline("executing") = ExecMax
    /\ Deadline("deleting") = Delay
BY DEF Deadline

(* A deadline is a number of ticks. *)
LEMMA DeadlineIsNat ==
    ASSUME NEW st \in Stages
    PROVE  Deadline(st) \in Nat
BY Deadlines, ElectionTicksAssumption DEF Stages

(* Every process starts idle, under no bid. *)
LEMMA ElectionStarts == ElectionInit => ElectionIInv
BY Deadlines, PodsAssumption, ElectionTicksAssumption DEF ElectionInit, ElectionIInv,
    ElectionTypeOK,
    Stages, Bids, NoBid, BidsAgeWithWait, BiddersCameBefore, ElectedHoldsBid

(* What a move to another stage does to the two clocks' functions. *)
LEMMA Moves ==
    ASSUME ElectionTypeOK, NEW p \in Pods, NEW st \in Stages, To(p, st)
    PROVE  /\ stage' \in [Pods -> Stages] /\ since' \in [Pods -> Nat]
           /\ stage'[p] = st /\ since'[p] = 0
           /\ \A q \in Pods : q # p => stage'[q] = stage[q] /\ since'[q] = since[q]
           /\ \A q \in Pods : since'[q] <= Deadline(stage'[q])
<1>1. /\ stage' \in [Pods -> Stages] /\ since' \in [Pods -> Nat]
      /\ stage'[p] = st /\ since'[p] = 0
      /\ \A q \in Pods : q # p => stage'[q] = stage[q] /\ since'[q] = since[q]
  BY DEF To, ElectionTypeOK
<1>2. \A q \in Pods : since'[q] <= Deadline(stage'[q])
  <2> TAKE q \in Pods
  <2>1. CASE q = p
    BY <1>1, <2>1, DeadlineIsNat
  <2>2. CASE q # p
    BY <1>1, <2>2 DEF ElectionTypeOK
  <2> QED BY <2>1, <2>2
<1> QED BY <1>1, <1>2

(* A process that asks for the executor while another holds or awaits its bid *)
(* is sent away: the bid is younger than BidLife.                            *)
LEMMA YoungBid ==
    ASSUME ElectionIInv, NEW p \in Pods, bid.by = p,
           stage[p] \in {"waiting", "elected", "executing", "deleting"}
    PROVE  bid.by # Nobody /\ bid.age < BidLife
<1>1. since[p] \in Nat /\ since[p] <= Deadline(stage[p]) /\ bid.age \in Nat
  BY DEF ElectionIInv, ElectionTypeOK, Bids
<1>2. Delay \in Nat /\ Wait \in Nat /\ ExecMax \in Nat /\ BidLife \in Nat
      /\ Wait + 5 * Delay + ExecMax < BidLife
  BY ElectionTicksAssumption, TimingAssumption
<1>3. CASE stage[p] = "waiting"
  BY <1>1, <1>2, <1>3, Deadlines, PodsAssumption DEF ElectionIInv, BidsAgeWithWait
<1>4. CASE stage[p] = "elected"
  BY <1>1, <1>2, <1>4, Deadlines, PodsAssumption DEF ElectionIInv, ElectedHoldsBid
<1>5. CASE stage[p] = "executing"
  BY <1>1, <1>2, <1>5, Deadlines, PodsAssumption DEF ElectionIInv, ElectedHoldsBid
<1>6. CASE stage[p] = "deleting"
  BY <1>1, <1>2, <1>6, Deadlines, PodsAssumption DEF ElectionIInv, ElectedHoldsBid
<1> QED BY <1>3, <1>4, <1>5, <1>6

(* The steps of one process. *)
LEMMA IInvAskLastRun ==
    ASSUME ElectionIInv, NEW p \in Pods, AskLastRun(p)
    PROVE  ElectionIInv'
<1> USE DEF ElectionIInv
<1>1. To(p, "asking") /\ stage[p] = "idle" /\ UNCHANGED <<bid, lastRun, deaths>>
  BY DEF AskLastRun
<1>2. /\ stage' \in [Pods -> Stages] /\ since' \in [Pods -> Nat]
      /\ stage'[p] = "asking"
      /\ \A q \in Pods : q # p => stage'[q] = stage[q] /\ since'[q] = since[q]
      /\ \A q \in Pods : since'[q] <= Deadline(stage'[q])
  BY <1>1, Moves DEF Stages
<1>3. ElectionTypeOK'
  BY <1>1, <1>2 DEF ElectionTypeOK
<1>4. BidsAgeWithWait' /\ BiddersCameBefore'
  BY <1>1, <1>2 DEF BidsAgeWithWait, BiddersCameBefore
<1>5. ElectedHoldsBid'
  BY <1>1, <1>2 DEF ElectedHoldsBid
<1> QED BY <1>3, <1>4, <1>5

LEMMA IInvAskExecutor ==
    ASSUME ElectionIInv, NEW p \in Pods, AskExecutor(p)
    PROVE  ElectionIInv'
<1> USE DEF ElectionIInv
<1> DEFINE there == IF bid.by # Nobody /\ bid.age < BidLife THEN "idle" ELSE "bidding"
<1>1. To(p, there) /\ stage[p] = "asking" /\ UNCHANGED <<bid, lastRun, deaths>>
  BY DEF AskExecutor
<1>2. there \in {"idle", "bidding"}
  OBVIOUS
<1>3. there = "bidding" => ~(bid.by # Nobody /\ bid.age < BidLife)
  OBVIOUS
<1> HIDE DEF there
<1>4. /\ stage' \in [Pods -> Stages] /\ since' \in [Pods -> Nat]
      /\ stage'[p] = there
      /\ \A q \in Pods : q # p => stage'[q] = stage[q] /\ since'[q] = since[q]
      /\ \A q \in Pods : since'[q] <= Deadline(stage'[q])
  BY <1>1, <1>2, Moves DEF Stages
<1>5. ElectionTypeOK'
  BY <1>1, <1>4 DEF ElectionTypeOK
<1>6. BidsAgeWithWait'
  BY <1>1, <1>2, <1>4 DEF BidsAgeWithWait
<1>7. \A q \in Pods : bid.by = q /\ stage[q] \in {"waiting", "elected", "executing", "deleting"}
                        => there = "idle"
  BY <1>2, <1>3, YoungBid
<1>8. BiddersCameBefore'
  BY <1>1, <1>2, <1>4, <1>7 DEF BiddersCameBefore
<1>9. ElectedHoldsBid'
  BY <1>1, <1>2, <1>4, <1>7 DEF ElectedHoldsBid
<1> QED BY <1>5, <1>6, <1>8, <1>9

LEMMA IInvSetBid ==
    ASSUME ElectionIInv, NEW p \in Pods, SetBid(p)
    PROVE  ElectionIInv'
<1> USE DEF ElectionIInv
<1>1. To(p, "waiting") /\ stage[p] = "bidding" /\ UNCHANGED <<lastRun, deaths>>
  BY DEF SetBid
<1> PICK asking \in 0..Delay : bid' = [by |-> p, age |-> Least(asking + since[p], BidLife)]
  BY DEF SetBid
<1>0. /\ since[p] \in Nat /\ since[p] <= Delay
      /\ Least(asking + since[p], BidLife) \in 0..BidLife
      /\ Least(asking + since[p], BidLife) <= 2 * Delay
  BY <1>1, Deadlines, ElectionTicksAssumption DEF ElectionTypeOK, Least
<1>2. /\ stage' \in [Pods -> Stages] /\ since' \in [Pods -> Nat]
      /\ stage'[p] = "waiting" /\ since'[p] = 0
      /\ \A q \in Pods : q # p => stage'[q] = stage[q] /\ since'[q] = since[q]
      /\ \A q \in Pods : since'[q] <= Deadline(stage'[q])
  BY <1>1, Moves DEF Stages
<1>3. ElectionTypeOK'
  BY <1>0, <1>1, <1>2, ElectionTicksAssumption DEF ElectionTypeOK, Bids
<1>4. BidsAgeWithWait' /\ BiddersCameBefore'
  <2>1. BidsAgeWithWait'
    BY <1>0, <1>1, <1>2, ElectionTicksAssumption DEF BidsAgeWithWait
  <2>2. BiddersCameBefore'
    BY <1>1, <1>2 DEF BiddersCameBefore
  <2> QED BY <2>1, <2>2
<1>5. ElectedHoldsBid'
  BY <1>1, <1>2 DEF ElectedHoldsBid
<1> QED BY <1>3, <1>4, <1>5

(* Who reads his own bid back after the wait finds nobody bidding: a bidder  *)
(* from before the bid has used up its delay, and later ones were sent away. *)
LEMMA WinnerAlone ==
    ASSUME NamesDiffer, ElectionIInv, NEW p \in Pods, stage[p] = "waiting", since[p] >= Wait,
           <<p, bid.by>> \in NamePrefix
    PROVE  /\ bid.by = p
           /\ \A q \in Pods : stage[q] \notin {"bidding", "elected", "executing", "deleting"}
<1> USE DEF ElectionIInv
<1>1. bid.by = p
  BY PodsAssumption DEF NamesDiffer
<1>2. since[p] \in Nat
  BY DEF ElectionTypeOK
<1>3. \A q \in Pods : stage[q] # "bidding"
  <2> SUFFICES ASSUME NEW q \in Pods, stage[q] = "bidding" PROVE FALSE
    OBVIOUS
  <2>1. since[q] \in Nat /\ since[q] <= Delay
    BY Deadlines DEF ElectionTypeOK
  <2>2. since[q] >= since[p]
    BY <1>1 DEF BiddersCameBefore
  <2> QED BY <1>2, <2>1, <2>2, ElectionTicksAssumption, TimingAssumption
<1>4. \A q \in Pods : stage[q] \notin {"elected", "executing", "deleting"}
  BY <1>1 DEF ElectedHoldsBid
<1> QED BY <1>1, <1>3, <1>4

LEMMA IInvReadWinner ==
    ASSUME NamesDiffer, ElectionIInv, NEW p \in Pods, ReadWinner(p)
    PROVE  ElectionIInv'
<1> USE DEF ElectionIInv
<1> DEFINE there == IF <<p, bid.by>> \in NamePrefix THEN "elected" ELSE "idle"
<1>1. To(p, there) /\ stage[p] = "waiting" /\ since[p] >= Wait /\ UNCHANGED <<bid, lastRun, deaths>>
  BY DEF ReadWinner
<1>2. there \in {"idle", "elected"}
  OBVIOUS
<1>3. there = "elected" => bid.by = p /\ \A q \in Pods : stage[q] # "bidding"
  BY <1>1, WinnerAlone
<1> HIDE DEF there
<1>4. /\ stage' \in [Pods -> Stages] /\ since' \in [Pods -> Nat]
      /\ stage'[p] = there /\ since'[p] = 0
      /\ \A q \in Pods : q # p => stage'[q] = stage[q] /\ since'[q] = since[q]
      /\ \A q \in Pods : since'[q] <= Deadline(stage'[q])
  BY <1>1, <1>2, Moves DEF Stages
<1>5. ElectionTypeOK'
  BY <1>1, <1>4 DEF ElectionTypeOK
<1>6. BidsAgeWithWait' /\ BiddersCameBefore'
  BY <1>1, <1>2, <1>4 DEF BidsAgeWithWait, BiddersCameBefore
<1>7. there = "elected" => bid.age <= Wait + 3 * Delay
  BY <1>1, <1>3, Deadlines, ElectionTicksAssumption DEF ElectionTypeOK, BidsAgeWithWait, Bids
<1>8. ElectedHoldsBid'
  <2>1. Delay \in Nat /\ Wait \in Nat
    BY ElectionTicksAssumption
  <2>2. \A q \in Pods : stage'[q] # "bidding" \/ (stage[q] = "bidding" /\ q # p)
    BY <1>2, <1>4
  <2> QED BY <1>1, <1>2, <1>3, <1>4, <1>7, <2>1, <2>2 DEF ElectedHoldsBid
<1> QED BY <1>5, <1>6, <1>8

(* From one stage of an elected process to the next, the bid untouched. *)
LEMMA IInvSetLastRun ==
    ASSUME ElectionIInv, NEW p \in Pods, SetLastRun(p)
    PROVE  ElectionIInv'
<1> USE DEF ElectionIInv
<1>1. To(p, "executing") /\ stage[p] = "elected" /\ UNCHANGED <<bid, deaths>> /\ lastRun' = 0
  BY DEF SetLastRun
<1>2. /\ stage' \in [Pods -> Stages] /\ since' \in [Pods -> Nat]
      /\ stage'[p] = "executing" /\ since'[p] = 0
      /\ \A q \in Pods : q # p => stage'[q] = stage[q] /\ since'[q] = since[q]
      /\ \A q \in Pods : since'[q] <= Deadline(stage'[q])
  BY <1>1, Moves DEF Stages
<1>3. ElectionTypeOK'
  BY <1>1, <1>2, ElectionTicksAssumption DEF ElectionTypeOK
<1>4. BidsAgeWithWait' /\ BiddersCameBefore'
  BY <1>1, <1>2 DEF BidsAgeWithWait, BiddersCameBefore
<1>5. bid.age <= Wait + 4 * Delay + 0
  <2>1. bid.age <= Wait + 3 * Delay + since[p]
    BY <1>1 DEF ElectedHoldsBid
  <2>2. since[p] \in Nat /\ since[p] <= Delay /\ bid.age \in Nat
    BY <1>1, Deadlines DEF ElectionTypeOK, Bids
  <2> QED BY <2>1, <2>2, ElectionTicksAssumption
<1>6. ElectedHoldsBid'
  BY <1>1, <1>2, <1>5 DEF ElectedHoldsBid
<1> QED BY <1>3, <1>4, <1>6

LEMMA IInvEndRefresh ==
    ASSUME ElectionIInv, NEW p \in Pods, EndRefresh(p)
    PROVE  ElectionIInv'
<1> USE DEF ElectionIInv
<1>1. To(p, "deleting") /\ stage[p] = "executing" /\ UNCHANGED <<bid, lastRun, deaths>>
  BY DEF EndRefresh
<1>2. /\ stage' \in [Pods -> Stages] /\ since' \in [Pods -> Nat]
      /\ stage'[p] = "deleting" /\ since'[p] = 0
      /\ \A q \in Pods : q # p => stage'[q] = stage[q] /\ since'[q] = since[q]
      /\ \A q \in Pods : since'[q] <= Deadline(stage'[q])
  BY <1>1, Moves DEF Stages
<1>3. ElectionTypeOK'
  BY <1>1, <1>2 DEF ElectionTypeOK
<1>4. BidsAgeWithWait' /\ BiddersCameBefore'
  BY <1>1, <1>2 DEF BidsAgeWithWait, BiddersCameBefore
<1>5. bid.age <= Wait + 4 * Delay + ExecMax + 0
  <2>1. bid.age <= Wait + 4 * Delay + since[p]
    BY <1>1 DEF ElectedHoldsBid
  <2>2. since[p] \in Nat /\ since[p] <= ExecMax /\ bid.age \in Nat
    BY <1>1, Deadlines DEF ElectionTypeOK, Bids
  <2> QED BY <2>1, <2>2, ElectionTicksAssumption
<1>6. ElectedHoldsBid'
  BY <1>1, <1>2, <1>5 DEF ElectedHoldsBid
<1> QED BY <1>3, <1>4, <1>6

LEMMA IInvDeleteBid ==
    ASSUME ElectionIInv, NEW p \in Pods, DeleteBid(p)
    PROVE  ElectionIInv'
<1> USE DEF ElectionIInv
<1>1. To(p, "idle") /\ stage[p] = "deleting" /\ UNCHANGED <<lastRun, deaths>> /\ bid' = NoBid
  BY DEF DeleteBid
<1>2. /\ stage' \in [Pods -> Stages] /\ since' \in [Pods -> Nat]
      /\ stage'[p] = "idle"
      /\ \A q \in Pods : q # p => stage'[q] = stage[q] /\ since'[q] = since[q]
      /\ \A q \in Pods : since'[q] <= Deadline(stage'[q])
  BY <1>1, Moves DEF Stages
<1>3. ElectionTypeOK'
  BY <1>1, <1>2, ElectionTicksAssumption DEF ElectionTypeOK, NoBid, Bids
<1>4. BidsAgeWithWait' /\ BiddersCameBefore'
  BY <1>1, <1>2, PodsAssumption DEF NoBid, BidsAgeWithWait, BiddersCameBefore
<1>5. \A q \in Pods : q # p => stage[q] \notin {"elected", "executing", "deleting"}
  BY <1>1 DEF ElectedHoldsBid
<1>6. ElectedHoldsBid'
  BY <1>2, <1>5 DEF ElectedHoldsBid
<1> QED BY <1>3, <1>4, <1>6

(* A death takes the process out; its bid stays until it is too old. *)
LEMMA IInvDie ==
    ASSUME ElectionIInv, NEW p \in Pods, PodDies(p)
    PROVE  ElectionIInv'
<1> USE DEF ElectionIInv
<1>1. To(p, "idle") /\ UNCHANGED <<bid, lastRun>> /\ deaths < MaxDeaths /\ deaths' = deaths + 1
  BY DEF PodDies
<1>2. /\ stage' \in [Pods -> Stages] /\ since' \in [Pods -> Nat]
      /\ stage'[p] = "idle"
      /\ \A q \in Pods : q # p => stage'[q] = stage[q] /\ since'[q] = since[q]
      /\ \A q \in Pods : since'[q] <= Deadline(stage'[q])
  BY <1>1, Moves DEF Stages
<1>3. ElectionTypeOK'
  BY <1>1, <1>2, ElectionTicksAssumption DEF ElectionTypeOK
<1>4. BidsAgeWithWait' /\ BiddersCameBefore'
  BY <1>1, <1>2 DEF BidsAgeWithWait, BiddersCameBefore
<1>5. ElectedHoldsBid'
  BY <1>1, <1>2 DEF ElectedHoldsBid
<1> QED BY <1>3, <1>4, <1>5

(* Time passes for the bid and for every process alike. *)
LEMMA ElectionIInvTick ==
    ASSUME ElectionIInv, ElectionTick
    PROVE  ElectionIInv'
<1> USE DEF ElectionIInv
<1>1. /\ \A q \in Pods : stage[q] # "idle" => since[q] < Deadline(stage[q])
      /\ stage' = stage /\ deaths' = deaths
      /\ lastRun' = Least(lastRun + 1, Interval)
  BY DEF ElectionTick
<1>2. bid'.by = bid.by /\ bid'.age = Least(bid.age + 1, BidLife) /\ bid' \in Bids
      /\ bid.age \in Nat /\ bid.age <= BidLife
  BY ElectionTicksAssumption DEF ElectionTick, ElectionTypeOK, Bids, Least
<1>3. /\ since' \in [Pods -> Nat]
      /\ \A q \in Pods : since'[q] = IF stage[q] = "idle" THEN 0 ELSE since[q] + 1
  BY DEF ElectionTick, ElectionTypeOK
<1>4. ElectionTypeOK'
  <2>1. \A q \in Pods : since'[q] <= Deadline(stage[q])
    <3> TAKE q \in Pods
    <3>1. stage[q] \in Stages /\ since[q] \in Nat /\ Deadline(stage[q]) \in Nat
      BY DeadlineIsNat DEF ElectionTypeOK
    <3> QED BY <1>1, <1>3, <3>1, Deadlines
  <2>2. lastRun' \in 0..Interval
    BY <1>1, ElectionTicksAssumption DEF ElectionTypeOK, Least
  <2> QED BY <1>1, <1>2, <1>3, <2>1, <2>2 DEF ElectionTypeOK
<1>5. \A q \in Pods : bid.by = q /\ stage[q] \in {"waiting", "elected", "executing", "deleting"}
                        => bid'.age = bid.age + 1
  BY <1>2, YoungBid, ElectionTicksAssumption DEF Least
<1>6. BidsAgeWithWait'
  <2> SUFFICES ASSUME NEW q \in Pods, stage[q] = "waiting", bid.by = q
               PROVE  bid'.age <= since'[q] + 2 * Delay
    BY <1>1, <1>2 DEF BidsAgeWithWait
  <2>1. bid.age <= since[q] + 2 * Delay /\ since[q] \in Nat
    BY DEF BidsAgeWithWait, ElectionTypeOK
  <2>2. since'[q] = since[q] + 1 /\ bid'.age = bid.age + 1
    BY <1>3, <1>5
  <2> QED BY <1>2, <2>1, <2>2, ElectionTicksAssumption
<1>7. BiddersCameBefore'
  <2> SUFFICES ASSUME NEW q \in Pods, NEW r \in Pods,
                      stage[q] = "waiting", bid.by = q, stage[r] = "bidding"
               PROVE  since'[r] >= since'[q]
    BY <1>1, <1>2 DEF BiddersCameBefore
  <2>1. since[r] >= since[q] /\ since[r] \in Nat /\ since[q] \in Nat
    BY DEF BiddersCameBefore, ElectionTypeOK
  <2> QED BY <1>3, <2>1
<1>8. ElectedHoldsBid'
  <2> SUFFICES ASSUME NEW q \in Pods, stage[q] \in {"elected", "executing", "deleting"}
               PROVE  /\ bid'.by = q
                      /\ stage[q] = "elected"   => bid'.age <= Wait + 3 * Delay + since'[q]
                      /\ stage[q] = "executing" => bid'.age <= Wait + 4 * Delay + since'[q]
                      /\ stage[q] = "deleting"  => bid'.age <= Wait + 4 * Delay + ExecMax + since'[q]
                      /\ \A r \in Pods : stage[r] # "bidding"
    BY <1>1 DEF ElectedHoldsBid
  <2>1. /\ bid.by = q
        /\ stage[q] = "elected"   => bid.age <= Wait + 3 * Delay + since[q]
        /\ stage[q] = "executing" => bid.age <= Wait + 4 * Delay + since[q]
        /\ stage[q] = "deleting"  => bid.age <= Wait + 4 * Delay + ExecMax + since[q]
        /\ \A r \in Pods : stage[r] # "bidding"
    BY DEF ElectedHoldsBid
  <2>2. since'[q] = since[q] + 1 /\ since[q] \in Nat /\ bid'.age = bid.age + 1
    BY <1>3, <1>5, <2>1 DEF ElectionTypeOK
  <2> QED BY <1>2, <2>1, <2>2, ElectionTicksAssumption
<1> QED BY <1>4, <1>6, <1>7, <1>8

(* Every step keeps the bid's age in step with the stages. *)
LEMMA ElectionStep ==
    ASSUME NamesDiffer, ElectionIInv, [ElectionNext]_electionVars PROVE ElectionIInv'
<1>1. CASE ElectionTick
  BY <1>1, ElectionIInvTick
<1>2. ASSUME NEW p \in Pods, PodStep(p) \/ PodDies(p) PROVE ElectionIInv'
  BY <1>2, IInvAskLastRun, IInvAskExecutor, IInvSetBid, IInvReadWinner, IInvSetLastRun,
     IInvEndRefresh, IInvDeleteBid, IInvDie DEF PodStep
<1>3. CASE UNCHANGED electionVars
  BY <1>3 DEF electionVars, ElectionIInv, ElectionTypeOK, BidsAgeWithWait, BiddersCameBefore,
     ElectedHoldsBid
<1> QED BY <1>1, <1>2, <1>3 DEF ElectionNext

(* The invariant relates the bid's age to every process' stage and holds of  *)
(* every reachable state of the election by itself.                          *)
THEOREM ElectionInductive == ASSUME NamesDiffer PROVE ElectionSpec => []ElectionIInv
<1>1. ElectionInit => ElectionIInv
  BY ElectionStarts
<1>2. ElectionIInv /\ [ElectionNext]_electionVars => ElectionIInv'
  BY ElectionStep
<1> QED BY <1>1, <1>2, PTL DEF ElectionSpec

(* Whatever the names, every process stays in time and every age in range. *)
LEMMA ElectionTypeStep == ElectionTypeOK /\ [ElectionNext]_electionVars => ElectionTypeOK'
<1> SUFFICES ASSUME ElectionTypeOK, [ElectionNext]_electionVars PROVE ElectionTypeOK'
  OBVIOUS
<1>1. ASSUME NEW p \in Pods, NEW st \in Stages, To(p, st),
             bid' \in Bids, lastRun' \in 0..Interval, deaths' \in 0..MaxDeaths
      PROVE  ElectionTypeOK'
  BY <1>1, Moves DEF ElectionTypeOK
<1>2. ASSUME NEW p \in Pods, PodStep(p) \/ PodDies(p) PROVE ElectionTypeOK'
  <2>1. \E st \in Stages : To(p, st)
    BY <1>2 DEF PodStep, PodDies, AskLastRun, AskExecutor, SetBid, ReadWinner, SetLastRun,
       EndRefresh, DeleteBid, Stages
  <2>2. bid' = bid \/ bid' = NoBid
        \/ \E asking \in 0..Delay : bid' = [by |-> p, age |-> Least(asking + since[p], BidLife)]
    BY <1>2 DEF PodStep, PodDies, AskLastRun, AskExecutor, SetBid, ReadWinner, SetLastRun,
       EndRefresh, DeleteBid
  <2>3. bid' \in Bids
    BY <2>2, ElectionTicksAssumption DEF ElectionTypeOK, Bids, NoBid, Least
  <2>4. lastRun' \in 0..Interval /\ deaths' \in 0..MaxDeaths
    BY <1>2, ElectionTicksAssumption DEF PodStep, PodDies, AskLastRun, AskExecutor, SetBid,
       ReadWinner, SetLastRun, EndRefresh, DeleteBid, ElectionTypeOK
  <2> QED BY <1>1, <2>1, <2>3, <2>4
<1>3. CASE ElectionTick
  <2>1. /\ stage' = stage /\ since' \in [Pods -> Nat]
        /\ \A p \in Pods : since'[p] <= Deadline(stage[p])
    <3>1. \A p \in Pods : Deadline(stage[p]) \in Nat /\ since[p] \in Nat
      BY DeadlineIsNat DEF ElectionTypeOK
    <3> QED BY <1>3, <3>1 DEF ElectionTick, ElectionTypeOK
  <2>2. bid' \in Bids
    <3>1. Least(bid.age + 1, BidLife) \in 0..BidLife
      BY ElectionTicksAssumption DEF Least, ElectionTypeOK, Bids
    <3>2. bid' = [bid EXCEPT !.age = Least(bid.age + 1, BidLife)]
      BY <1>3 DEF ElectionTick
    <3> QED BY <3>1, <3>2 DEF ElectionTypeOK, Bids
  <2>3. lastRun' \in 0..Interval /\ deaths' = deaths
    BY <1>3, ElectionTicksAssumption DEF ElectionTick, Least, ElectionTypeOK
  <2> QED BY <2>1, <2>2, <2>3 DEF ElectionTypeOK
<1>4. CASE UNCHANGED electionVars
  BY <1>4 DEF electionVars, ElectionTypeOK
<1> QED BY <1>2, <1>3, <1>4 DEF ElectionNext

(* A process begins only when nobody executes: every step of the election is *)
(* a step of the contract or leaves the executors as they are.               *)
LEMMA StepsOfTheContract ==
    ASSUME NamesDiffer, ElectionIInv, [ElectionNext]_electionVars
    PROVE  [Contract!Next]_Executors
<1> USE DEF ElectionIInv
<1>1. \A q, r \in Executors : q = r
  BY DEF ElectedHoldsBid, Executors
<1>2. ASSUME NEW p \in Pods, NEW st \in Stages \ {"elected", "executing"}, To(p, st)
      PROVE  Contract!End(p) \/ UNCHANGED Executors
  <2>1. Executors' = Executors \ {p}
    BY <1>2 DEF Executors, To, ElectionTypeOK
  <2>2. CASE p \in Executors
    BY <1>1, <2>1, <2>2 DEF Contract!End
  <2>3. CASE p \notin Executors
    BY <2>1, <2>3
  <2> QED BY <2>2, <2>3
<1>3. ASSUME NEW p \in Pods, ReadWinner(p) PROVE Contract!Begin(p) \/ UNCHANGED Executors
  <2>1. CASE <<p, bid.by>> \in NamePrefix
    <3>1. Executors = {}
      BY <1>3, <2>1, WinnerAlone DEF ReadWinner, Executors
    <3>2. Executors' = {p}
      BY <1>3, <2>1, <3>1 DEF ReadWinner, Executors, To, ElectionTypeOK
    <3> QED BY <3>1, <3>2 DEF Contract!Begin
  <2>2. CASE <<p, bid.by>> \notin NamePrefix
    <3>1. Executors' = Executors
      BY <1>3, <2>2 DEF ReadWinner, Executors, To, ElectionTypeOK
    <3> QED BY <3>1
  <2> QED BY <2>1, <2>2
<1>4. ASSUME NEW p \in Pods, SetLastRun(p) PROVE UNCHANGED Executors
  BY <1>4 DEF SetLastRun, Executors, To, ElectionTypeOK
<1>5. ASSUME NEW p \in Pods, PodStep(p) \/ PodDies(p)
      PROVE  Contract!Begin(p) \/ Contract!End(p) \/ UNCHANGED Executors
  <2>1. CASE AskLastRun(p) \/ AskExecutor(p) \/ SetBid(p) \/ EndRefresh(p) \/ DeleteBid(p) \/ PodDies(p)
    BY <2>1, <1>2 DEF AskLastRun, AskExecutor, SetBid, EndRefresh, DeleteBid, PodDies, Stages
  <2> QED BY <1>5, <2>1, <1>3, <1>4 DEF PodStep
<1>6. CASE ElectionTick \/ UNCHANGED electionVars
  BY <1>6 DEF ElectionTick, Executors, electionVars
<1> QED BY <1>5, <1>6 DEF ElectionNext, Contract!Next

-----------------------------------------------------------------------------
(* Side by side: a step of the whole is a step of one protocol, and leaves   *)
(* the others as they are.                                                   *)

LEMMA OneGoesOn ==
    ASSUME [Next]_vars
    PROVE  /\ [GuardNext]_guardVars
           /\ [IdempotencyNext]_idempotencyVars
           /\ [ElectionNext]_electionVars
           /\ protocol' = protocol
BY DEF Next, vars, GuardsGoOn, InterceptorGoesOn, ElectionGoesOn

(* The invariants of the protocols hold beside each other; of the election,  *)
(* what does not depend on the pods' names.                                  *)
THEOREM ProtocolsInductive == Spec => [](GuardIInv /\ IdempotencyIInv /\ ElectionTypeOK)
<1>1. Init => GuardIInv /\ IdempotencyIInv /\ ElectionTypeOK
  BY GuardStarts, IdempotencyStarts, ElectionStarts DEF Init, ElectionIInv
<1>2. GuardIInv /\ IdempotencyIInv /\ ElectionTypeOK /\ [Next]_vars
          => (GuardIInv /\ IdempotencyIInv /\ ElectionTypeOK)'
  BY OneGoesOn, GuardStep, IdempotencyStep, ElectionTypeStep
<1> QED BY <1>1, <1>2, PTL DEF Spec

(* Entries, locks, marks and bids keep their ranges and no call outlasts its *)
(* time, for any requests, attempts, pods and lives of entries.              *)
THEOREM ProtocolTypesCorrect == Spec => []TypeOK
<1>1. Init => protocol \in Protocols
  BY DEF Init
<1>2. protocol \in Protocols /\ [Next]_vars => (protocol \in Protocols)'
  BY OneGoesOn DEF Protocols
<1>3. GuardIInv /\ IdempotencyIInv /\ ElectionTypeOK /\ protocol \in Protocols => TypeOK
  BY DEF GuardIInv, IdempotencyIInv, TypeOK
<1> QED BY <1>1, <1>2, <1>3, ProtocolsInductive, PTL DEF Spec

(* No guard accepts a request on a grant withdrawn longer ago than an entry  *)
(* lives and a call takes.                                                   *)
THEOREM StaleIsBoundedAlways == Spec => []StaleIsBounded
<1>1. GuardIInv => StaleIsBounded
  BY DEF GuardIInv, NoneOutdated, StaleIsBounded
<1> QED BY <1>1, ProtocolsInductive, PTL

(* One key creates two payments only after a race or an error of the cache,  *)
(* and is free again after failures.                                         *)
THEOREM OneCreationAlways == Spec => []OneCreation
<1>1. IdempotencyIInv => CreatedOnceUnlessRaced
  BY DEF IdempotencyIInv, OneUnderWay, UnderWay, CreatedOnceUnlessRaced
<1>2. IdempotencyIInv => FailureMayBeRetried
  BY DEF IdempotencyIInv, MarkHasAnAttempt, FailureMayBeRetried
<1> QED BY <1>1, <1>2, ProtocolsInductive, PTL DEF OneCreation

(* With names of which none is a prefix of another, the bid's age stays in   *)
(* step with the stages beside the other protocols too.                      *)
LEMMA ElectionBeside == ASSUME NamesDiffer PROVE Spec => []ElectionIInv
<1>1. Init => ElectionIInv
  BY ElectionStarts DEF Init
<1>2. ElectionIInv /\ [Next]_vars => ElectionIInv'
  BY OneGoesOn, ElectionStep
<1> QED BY <1>1, <1>2, PTL DEF Spec

(* Two processes never execute the refresh at once, for any number of them.  *)
THEOREM OneExecutorAlways == Spec => []OneExecutor
<1>1. CASE NamesDiffer
  <2>1. ElectionIInv => OneExecutor
    BY DEF ElectionIInv, ElectedHoldsBid, OneExecutor, Executors
  <2> QED BY <1>1, <2>1, ElectionBeside, PTL
<1>2. CASE ~NamesDiffer
  <2>1. OneExecutor
    BY <1>2 DEF OneExecutor
  <2> QED BY <2>1, PTL
<1> QED BY <1>1, <1>2

(* The election implements its contract: of the processes that write bids    *)
(* over each other's, one at a time begins the refresh and ends it.          *)
THEOREM ElectionIsExclusive == ASSUME NamesDiffer PROVE Spec => ImplementsExclusive
<1>1. Init => Contract!Init
  BY DEF Init, ElectionInit, Contract!Init, Executors
<1>2. ElectionIInv /\ [Next]_vars => [Contract!Next]_Executors
  BY OneGoesOn, StepsOfTheContract
<1> QED BY <1>1, <1>2, ElectionBeside, PTL DEF Spec, ImplementsExclusive, Contract!Exclusive
=============================================================================
