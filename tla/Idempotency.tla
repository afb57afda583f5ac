---------------------------- MODULE Idempotency ----------------------------
(***************************************************************************)
(* IdempotencyInterceptor around the handler that creates a payment.  The  *)
(* requests of this module carry one idempotency key on one route, so they *)
(* meet in one cache entry.  A request looks the entry up, marks it        *)
(* "processing", runs the handler and, without waiting, stores the answer; *)
(* a handler that throws deletes the entry.  Look-up and mark are separate *)
(* calls, the cache service swallows its errors (a failed get is "not      *)
(* found", a failed set or del does nothing), and a process may die at any *)
(* step.  The entry's life, 24 000 hours since the interceptor multiplies  *)
(* seconds by 1000 for a call that takes seconds, outlasts every history.  *)
(***************************************************************************)
EXTENDS Integers, FiniteSets

CONSTANTS
    Attempts,        \* requests with the key, first one and retries alike
    MaxCacheErrors,  \* bound: cache calls that fail
    NoAttempt

ASSUME AttemptsAssumption == IsFiniteSet(Attempts) /\ NoAttempt \notin Attempts
ASSUME CacheErrorsAssumption == MaxCacheErrors \in Nat

VARIABLES
    attempt,      \* where each request stands
    mark,         \* the cache entry: its status and whose answer it holds
    cacheErrors,  \* cache calls that failed
    raced         \* history: a request looked the key up before another
                  \* one that had already done so wrote its mark

idempotencyVars == <<attempt, mark, cacheErrors, raced>>

NoMark == [state |-> "none", of |-> NoAttempt]
Processing(a) == [state |-> "processing", of |-> a]
Completed(a) == [state |-> "completed", of |-> a]
Marks == {NoMark} \cup {Processing(a) : a \in Attempts} \cup {Completed(a) : a \in Attempts}

\* "storing" and "deleting" follow the handler's end; the answer to a request
\* in "storing" has already been sent.
Refused == {"conflict", "failed"}
Succeeded == {"storing", "done", "unstored"}
Ended == Refused \cup {"done", "replayed", "unstored", "died"}
Places == {"new", "marking", "handling", "deleting"} \cup Succeeded \cup Ended

IdempotencyTypeOK ==
    /\ attempt \in [Attempts -> Places]
    /\ mark \in Marks
    /\ cacheErrors \in 0..MaxCacheErrors
    /\ raced \in BOOLEAN

IdempotencyInit ==
    /\ attempt = [a \in Attempts |-> "new"]
    /\ mark = NoMark
    /\ cacheErrors = 0
    /\ raced = FALSE

Go(a, place) == attempt' = [attempt EXCEPT ![a] = place]

\* A cache call does what it should, or fails and is swallowed.
CacheWorks == UNCHANGED cacheErrors
CacheFails ==
    /\ cacheErrors < MaxCacheErrors
    /\ cacheErrors' = cacheErrors + 1

\* Only completed requests are found.
LookUpCompleted(a) ==
    /\ attempt[a] = "new"
    /\ CacheWorks
    /\ Go(a, IF mark.state = "completed" THEN "replayed" ELSE "marking")
    /\ raced' = (raced \/ (mark.state = "none" /\ \E b \in Attempts : attempt[b] = "marking"))
    /\ UNCHANGED mark

\* get: nothing there, a request being processed, or an answer to replay.
LookUp(a) ==
    /\ attempt[a] = "new"
    /\ CacheWorks
    /\ Go(a, CASE mark.state = "none"       -> "marking"
               [] mark.state = "processing" -> "conflict"
               [] mark.state = "completed"  -> "replayed")
    /\ raced' = (raced \/ (mark.state = "none" /\ \E b \in Attempts : attempt[b] = "marking"))
    /\ UNCHANGED mark

\* A get that fails is taken for nothing there.
LookUpFails(a) ==
    /\ attempt[a] = "new"
    /\ CacheFails
    /\ Go(a, "marking")
    /\ UNCHANGED <<mark, raced>>

\* set "processing", then the handler.
Mark(a) ==
    /\ attempt[a] = "marking"
    /\ Go(a, "handling")
    /\ \/ CacheWorks /\ mark' = Processing(a)
       \/ CacheFails /\ UNCHANGED mark
    /\ UNCHANGED raced

\* The handler creates the payment and its answer leaves for the client.
Handle(a) ==
    /\ attempt[a] = "handling"
    /\ Go(a, "storing")
    /\ UNCHANGED <<mark, cacheErrors, raced>>

\* Validation, the provider or the database throws.
HandlerThrows(a) ==
    /\ attempt[a] = "handling"
    /\ Go(a, "deleting")
    /\ UNCHANGED <<mark, cacheErrors, raced>>

\* tap: nobody waits for this call.
StoreAnswer(a) ==
    /\ attempt[a] = "storing"
    /\ Go(a, "done")
    /\ \/ CacheWorks /\ mark' = Completed(a)
       \/ CacheFails /\ UNCHANGED mark
    /\ UNCHANGED raced

\* catchError: the entry goes, whosever mark it is by now.
Delete(a) ==
    /\ attempt[a] = "deleting"
    /\ Go(a, "failed")
    /\ \/ CacheWorks /\ mark' = NoMark
       \/ CacheFails /\ UNCHANGED mark
    /\ UNCHANGED raced

\* A process dies; an answer already sent stays sent.
AttemptDies(a) ==
    /\ \/ attempt[a] \in {"marking", "handling", "deleting"} /\ Go(a, "died")
       \/ attempt[a] = "storing" /\ Go(a, "unstored")
    /\ UNCHANGED <<mark, cacheErrors, raced>>

Step(a) == LookUp(a) \/ LookUpFails(a) \/ Mark(a) \/ Handle(a) \/ HandlerThrows(a)
               \/ StoreAnswer(a) \/ Delete(a)

IdempotencyNext == \E a \in Attempts : Step(a) \/ AttemptDies(a)

\* Every step is a call the event loop has started or will start.
IdempotencyFairness == \A a \in Attempts : WF_idempotencyVars(Step(a))

IdempotencySpec == IdempotencyInit /\ [][IdempotencyNext]_idempotencyVars /\ IdempotencyFairness

(***************************************************************************)
(* Properties.                                                             *)
(***************************************************************************)

\* Two requests with one key create two payments only when one looked the key
\* up before the other's mark was there, or a cache call failed in silence;
\* in particular neither a failed request nor a retry opens the way.
CreatedOnceUnlessRaced ==
    (~raced /\ cacheErrors = 0) =>
        \A a, b \in Attempts : (attempt[a] \in Succeeded /\ attempt[b] \in Succeeded) => a = b

\* When every request ended, none of them with a payment and none by a death,
\* the key is free: a failure may be retried, whatever overlapped.
FailureMayBeRetried ==
    ( /\ \A a \in Attempts : attempt[a] \in {"new"} \cup Refused
      /\ cacheErrors = 0 )
    => mark = NoMark

\* One idempotency key creates two payments only after a race or an error of
\* the cache, and after failed attempts only it is free again.
OneCreation == CreatedOnceUnlessRaced /\ FailureMayBeRetried

\* Why: the entry tells of the one request that is under way or has succeeded ...
UnderWay == {"marking", "handling", "deleting"} \cup Succeeded
MarkTellsOf(a) ==
    CASE attempt[a] = "marking" -> NoMark
      [] attempt[a] = "done"    -> Completed(a)
      [] OTHER                  -> Processing(a)
OneUnderWay ==
    (~raced /\ cacheErrors = 0) =>
        \A a \in Attempts : attempt[a] \in UnderWay =>
            /\ mark = MarkTellsOf(a)
            /\ \A b \in Attempts : attempt[b] \in UnderWay => b = a

\* ... and whatever raced, the request it names has not failed yet.
MarkHasAnAttempt ==
    (cacheErrors = 0 /\ mark # NoMark) =>
        /\ mark.of \in Attempts
        /\ attempt[mark.of] \notin {"new", "marking"} \cup Refused

IdempotencyIInv == IdempotencyTypeOK /\ OneUnderWay /\ MarkHasAnAttempt

\* A request is answered or its process died.
AttemptEnds == \A a \in Attempts : (attempt[a] = "marking") ~> (attempt[a] \in Ended)
=============================================================================
