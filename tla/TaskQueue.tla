----------------------------- MODULE TaskQueue -----------------------------
(***************************************************************************)
(* The `queue' table and the two processors that poll it:                  *)
(* GeneralProcessorQueue (payment, withdrawal, infraction, release and     *)
(* anticipation tasks) and CallProviderWithdrawalProcessorQueue (payout    *)
(* tasks).  A processor claims PENDING rows with one UPDATE, splits the    *)
(* claim into one batch per task type and runs every batch without         *)
(* awaiting it, so a process has several batches in flight.  What a batch  *)
(* does to payments and withdrawals is the subject of other modules; here  *)
(* a handler is its outcome: tasks reported done, tasks reported failed,   *)
(* or an exception.                                                        *)
(***************************************************************************)
EXTENDS Integers, FiniteSets

CONSTANTS
    Tasks,            \* rows the queue table may come to hold
    TypeOf,           \* the type column of each row
    GeneralWorkers,   \* processes started with IS_WORKER_GENERAL
    PayoutWorkers,    \* processes started as call-provider workers
    BatchSize,        \* LIMIT of the claiming query (350 in the workers)
    MaxLoads,         \* bound: claims a process has in flight at one time
    MaxCrashes,       \* bound: deaths not caused by a failed batch
    MaxAdrift,        \* bound: updates in flight whose process is gone
    LeaseLapses,      \* TRUE: a batch may stay unfinished for two minutes
    NoWorker

PayoutType == "CALL_PROVIDER_WITHDRAWAL"
GeneralTypes == {"PAYMENT", "WITHDRAWAL", "INFRACTION", "SCHEDULED", "ANTICIPATION"}
QueueTypes == GeneralTypes \cup {PayoutType}
Workers == GeneralWorkers \cup PayoutWorkers
PayoutTasks == {t \in Tasks : TypeOf[t] = PayoutType}

ASSUME TypesAssumption == TypeOf \in [Tasks -> QueueTypes]
ASSUME WorkersAssumption ==
    /\ GeneralWorkers \cap PayoutWorkers = {}
    /\ NoWorker \notin Workers
ASSUME BoundsAssumption ==
    /\ BatchSize \in Nat \ {0}
    /\ MaxLoads \in Nat \ {0}
    /\ MaxCrashes \in Nat
    /\ MaxAdrift \in Nat
    /\ LeaseLapses \in BOOLEAN

VARIABLES
    status,     \* status column; NONE before the row is inserted
    lockedBy,   \* locked_by column
    stale,      \* locked_at lies more than two minutes back
    runs,       \* enqueueTask calls in flight, over all processes
    adrift,     \* report updates on their way whose process is gone
    alive,      \* processes that are up
    crashes,    \* such deaths so far
    handled,    \* history: times a handler got through a batch with the
                \* payout row, whatever it then reports of it; up to 2
    left        \* history: rows whose last mark ended with no word of them:
                \* the handler reported nothing, or the process died

vars == <<status, lockedBy, stale, runs, adrift, alive, crashes, handled, left>>

Settled == {"COMPLETED", "FAILED"}
Statuses == {"NONE", "PENDING", "IN_PROGRESS"} \cup Settled
Stages == {"claimed", "running", "reporting", "failing"}

\* An updateMany that settles rows.
Update == [tasks : SUBSET Tasks, to : Settled]

\* A call of enqueueTask; todo: the updates of its report not made yet.
Run == [worker : Workers, load : 1..MaxLoads, type : QueueTypes,
        tasks : SUBSET Tasks, stage : Stages, todo : SUBSET Update]

\* Every variable ranges over the values its column or field can hold.
TypeOK ==
    /\ status \in [Tasks -> Statuses]
    /\ lockedBy \in [Tasks -> Workers \cup {NoWorker}]
    /\ stale \in [Tasks -> BOOLEAN]
    /\ runs \subseteq Run
    /\ adrift \subseteq Update
    /\ alive \subseteq Workers
    /\ crashes \in 0..MaxCrashes
    /\ handled \in [PayoutTasks -> 0..2]
    /\ left \subseteq Tasks

Init ==
    /\ status = [t \in Tasks |-> "NONE"]
    /\ lockedBy = [t \in Tasks |-> NoWorker]
    /\ stale = [t \in Tasks |-> FALSE]
    /\ runs = {}
    /\ adrift = {}
    /\ alive = Workers
    /\ crashes = 0
    /\ handled = [t \in PayoutTasks |-> 0]
    /\ left = {}

-----------------------------------------------------------------------------
(* What a processor may claim, and what a batch may report *)

\* The type filter of each getTasksBatch.
TypesOf(w) == IF w \in PayoutWorkers THEN {PayoutType} ELSE GeneralTypes

\* The claim without the locked_at condition, and without its second half.
ClaimableIgnoringLock(w, t) ==
    /\ status[t] = "PENDING"
    /\ TypeOf[t] \in TypesOf(w)

ClaimableUnlockedOnly(w, t) ==
    /\ status[t] = "PENDING"
    /\ lockedBy[t] = NoWorker
    /\ TypeOf[t] \in TypesOf(w)

\* The WHERE clause of the claiming UPDATE.
Claimable(w, t) ==
    /\ status[t] = "PENDING"
    /\ lockedBy[t] = NoWorker \/ stale[t]
    /\ TypeOf[t] \in TypesOf(w)

\* processWithdrawal reports a devolution of a wrong amount as failed in the
\* handler and as done in the loop.
MayReportTwice(type) == type = "WITHDRAWAL"

\* processPayment reports nothing for a webhook the payment is past, and the
\* payout batch nothing for duplicates or when every withdrawal is taken.
MayOmit(type) == type \in {"PAYMENT", PayoutType}

Outcomes(r) ==
    {o \in [ok : SUBSET r.tasks, bad : SUBSET r.tasks] :
        /\ o.ok \cap o.bad = {} \/ MayReportTwice(r.type)
        /\ o.ok \cup o.bad = r.tasks \/ MayOmit(r.type)}

-----------------------------------------------------------------------------
(* Effects on the table *)

SetStatus(S, s) == status' = [t \in Tasks |-> IF t \in S THEN s ELSE status[t]]

Unlock(S) ==
    /\ lockedBy' = [t \in Tasks |-> IF t \in S THEN NoWorker ELSE lockedBy[t]]
    /\ stale' = [t \in Tasks |-> IF t \in S THEN FALSE ELSE stale[t]]

Handle(S) ==
    handled' = [t \in PayoutTasks |->
                   IF t \in S /\ handled[t] < 2 THEN handled[t] + 1 ELSE handled[t]]

Replace(r, s) == runs' = (runs \ {r}) \cup {s}

\* The two updates of a report.
Report(o) == {[tasks |-> o.ok, to |-> "COMPLETED"], [tasks |-> o.bad, to |-> "FAILED"]}

\* The database makes update u.
Make(u) ==
    /\ SetStatus(u.tasks, u.to)
    /\ Unlock(u.tasks)

\* The update u of r is through.  The call returns once both are; a batch whose
\* other update was rejected still has its catch block to go through.
Written(r, u) ==
    IF r.stage = "reporting" /\ r.todo = {u}
    THEN runs' = runs \ {r}
    ELSE Replace(r, [r EXCEPT !.todo = @ \ {u}])

RunsOf(w) == {r \in runs : r.worker = w}
Held(S) == UNION {r.tasks : r \in S}

\* Rows of S that are given up as things are.
Unsettled(S) == {t \in S : status[t] = "IN_PROGRESS"}

\* A process ends.  Of its batches nothing remains but the updates already
\* sent, which the database may make after all, or not.
End(w) ==
    /\ alive' = alive \ {w}
    /\ runs' = runs \ RunsOf(w)
    /\ \E sent \in SUBSET UNION {r.todo : r \in RunsOf(w)} :
        /\ adrift' = adrift \cup {u \in sent : u.tasks # {}}
        /\ Cardinality(adrift') <= MaxAdrift

-----------------------------------------------------------------------------
(* Steps *)

\* A row inserted with a status of another table.
CreateScheduled(t) ==
    /\ status[t] = "NONE"
    /\ status' = [status EXCEPT ![t] = "SCHEDULED"]
    /\ UNCHANGED <<lockedBy, stale, runs, adrift, alive, crashes, handled, left>>

\* queue.create: a webhook, a service or a job inserts the row.
Create(t) ==
    /\ status[t] = "NONE"
    /\ status' = [status EXCEPT ![t] = "PENDING"]
    /\ UNCHANGED <<lockedBy, stale, runs, adrift, alive, crashes, handled, left>>

FreeLoads(w) == {n \in 1..MaxLoads : \A r \in RunsOf(w) : r.load # n}

NewRuns(w, n, S) ==
    {[worker |-> w, load |-> n, type |-> type,
      tasks |-> {t \in S : TypeOf[t] = type},
      stage |-> "claimed", todo |-> {}] :
        type \in {TypeOf[t] : t \in S}}

\* loadPendingTasks: one UPDATE claims up to BatchSize rows (SKIP LOCKED may
\* pass over any of them), and each type becomes a batch nobody awaits.
Load(w) ==
    /\ w \in alive
    /\ \E n \in FreeLoads(w) :
        /\ \A m \in FreeLoads(w) : n <= m
        /\ \E S \in SUBSET {t \in Tasks : Claimable(w, t)} :
            /\ S # {}
            /\ Cardinality(S) <= BatchSize
            /\ lockedBy' = [t \in Tasks |-> IF t \in S THEN w ELSE lockedBy[t]]
            /\ stale' = [t \in Tasks |-> IF t \in S THEN FALSE ELSE stale[t]]
            /\ runs' = runs \cup NewRuns(w, n, S)
    /\ UNCHANGED <<status, adrift, alive, crashes, handled, left>>

\* enqueueTask marks its rows IN_PROGRESS, whatever has become of them.
Start(r) ==
    /\ r.stage = "claimed"
    /\ SetStatus(r.tasks, "IN_PROGRESS")
    /\ Replace(r, [r EXCEPT !.stage = "running"])
    /\ left' = left \ r.tasks
    /\ UNCHANGED <<lockedBy, stale, adrift, alive, crashes, handled>>

\* The mark is rejected, and may have been made all the same.
StartFails(r) ==
    /\ r.stage = "claimed"
    /\ UNCHANGED status \/ SetStatus(r.tasks, "IN_PROGRESS")
    /\ Replace(r, [r EXCEPT !.stage = "failing"])
    /\ UNCHANGED <<lockedBy, stale, adrift, alive, crashes, handled, left>>

\* The handler of the batch's type commits and returns its two lists.
Finish(r) ==
    /\ r.stage = "running"
    /\ \E o \in Outcomes(r) :
        /\ Replace(r, [r EXCEPT !.stage = "reporting", !.todo = Report(o)])
        /\ left' = left \cup Unsettled(r.tasks \ (o.ok \cup o.bad))
    /\ Handle(r.tasks)
    /\ UNCHANGED <<status, lockedBy, stale, adrift, alive, crashes>>

\* The handler throws, before its work is committed or after (its webhooks' log
\* comes last); the payout handler catches everything itself.
Throw(r) ==
    /\ r.stage = "running"
    /\ r.type # PayoutType
    /\ Replace(r, [r EXCEPT !.stage = "failing"])
    /\ UNCHANGED <<status, lockedBy, stale, adrift, alive, crashes, handled, left>>

\* The two updateMany of the Promise.all, in either order.
Write(r, u) ==
    /\ Make(u)
    /\ Written(r, u)
    /\ UNCHANGED <<adrift, alive, crashes, handled, left>>

\* Promise.allSettled: a rejected update is left out of account.
WriteLostReturns(r) ==
    /\ r.stage = "reporting"
    /\ \E u \in r.todo : Written(r, u)
    /\ UNCHANGED <<status, lockedBy, stale, adrift, alive, crashes, handled, left>>

\* One of them is rejected.  The other is already on its way, and the one that
\* was rejected may be made all the same.
WriteLost(r) ==
    /\ r.stage = "reporting"
    /\ \E sent \in SUBSET r.todo :
        Replace(r, [r EXCEPT !.stage = "failing", !.todo = sent])
    /\ UNCHANGED <<status, lockedBy, stale, adrift, alive, crashes, handled, left>>

\* The catch block fails the whole batch and rethrows from a promise nobody
\* awaits: the unhandled rejection ends the process and its other batches.
FailAll(r) ==
    /\ r.stage = "failing"
    /\ SetStatus(r.tasks, "FAILED")
    /\ Unlock(r.tasks)
    /\ End(r.worker)
    /\ left' = left \cup Unsettled(Held(RunsOf(r.worker) \ {r}))
    /\ UNCHANGED <<crashes, handled>>

\* A deployment, an out-of-memory kill, or the catch block's own write failing.
Crash(w) ==
    /\ w \in alive
    /\ crashes < MaxCrashes
    /\ crashes' = crashes + 1
    /\ End(w)
    /\ left' = left \cup Unsettled(Held(RunsOf(w)))
    /\ UNCHANGED <<status, lockedBy, stale, handled>>

\* The database makes an update of a process that is gone.
Land(u) ==
    /\ Make(u)
    /\ adrift' = adrift \ {u}
    /\ UNCHANGED <<runs, alive, crashes, handled, left>>

\* A reset that looks neither at the type nor at the lock.
ResetAlsoPayout ==
    {t \in Tasks :
        \/ status[t] = "IN_PROGRESS" /\ stale[t]
        \/ status[t] = "PENDING" /\ lockedBy[t] # NoWorker}

\* The rows resetInProgressTasks returns to the queue.
ResetRows ==
    {t \in Tasks :
        /\ TypeOf[t] # PayoutType
        /\ \/ status[t] = "IN_PROGRESS" /\ lockedBy[t] # NoWorker /\ stale[t]
           \/ status[t] = "PENDING" /\ lockedBy[t] # NoWorker}

\* onModuleInit of a restarted process.
Boot(w) ==
    /\ w \notin alive
    /\ alive' = alive \cup {w}
    /\ IF w \in GeneralWorkers
       THEN SetStatus(ResetRows, "PENDING") /\ Unlock(ResetRows)
       ELSE UNCHANGED <<status, lockedBy, stale>>
    /\ UNCHANGED <<runs, adrift, crashes, handled, left>>

\* Two minutes pass since locked_at.  Unless LeaseLapses, every batch and every
\* update on its way is through with the row by then.
Lapse(t) ==
    /\ lockedBy[t] # NoWorker
    /\ ~stale[t]
    /\ LeaseLapses \/ t \notin Held(runs) \cup Held(adrift)
    /\ stale' = [stale EXCEPT ![t] = TRUE]
    /\ UNCHANGED <<status, lockedBy, runs, adrift, alive, crashes, handled, left>>

RunStep(r) ==
    \/ Start(r) \/ StartFails(r)
    \/ Finish(r) \/ Throw(r)
    \/ \E u \in r.todo : Write(r, u)
    \/ WriteLost(r)
    \/ FailAll(r)

Next ==
    \/ \E t \in Tasks : Create(t) \/ Lapse(t)
    \/ \E w \in Workers : Load(w) \/ Crash(w) \/ Boot(w)
    \/ \E r \in runs : RunStep(r)
    \/ \E u \in adrift : Land(u)

Spec == Init /\ [][Next]_vars

(***************************************************************************)
(* Fairness.  Intervals poll for ever and the orchestrator restarts a dead *)
(* process (Load, Boot); time passes (Lapse); a batch that was started     *)
(* goes on to its end, one way or another.                                 *)
(***************************************************************************)
Progress ==
    \E r \in runs : RunStep(r)

FairSpec ==
    /\ Spec
    /\ \A w \in Workers : WF_vars(Load(w)) /\ WF_vars(Boot(w))
    /\ \A t \in Tasks : WF_vars(Lapse(t))
    /\ WF_vars(Progress)

-----------------------------------------------------------------------------
(* Properties *)

Overlap(t) == \E r, s \in runs : r # s /\ t \in r.tasks /\ t \in s.tasks

\* Rows whose claim only their own process gives up: payout rows, and every
\* row when a single general process runs, since only a starting process
\* resets.
Guarded == IF \A v, w \in GeneralWorkers : v = w THEN Tasks ELSE PayoutTasks

\* While no batch outlives its lease, a guarded task is in one batch at most:
\* the claiming UPDATE, the IN_PROGRESS mark, the crash and the reset never
\* hand a task to a second batch while the first still runs.
ExclusiveClaim == ~LeaseLapses => \A t \in Guarded : ~Overlap(t)

\* While no batch outlives its lease, a handler gets through a payout task at
\* most once, whatever crashes and restarts: the provider is never called
\* again for a task whose batch was cut off.
PayoutHandledOnce == ~LeaseLapses => \A t \in PayoutTasks : handled[t] <= 1

\* A row that stays IN_PROGRESS with no batch to settle it was given up: the
\* handler reported nothing of it or the process died under it.  A report of
\* which one update is rejected gives up none of its rows while the process
\* lives, even when leases lapse and batches of one row overlap.
InProgressIsWorked ==
    \A t \in Tasks : status[t] = "IN_PROGRESS" => t \in left \cup Held(runs)

\* While no batch outlives its lease, a settled guarded row never returns to
\* the queue: no late IN_PROGRESS mark, report or reset revives it.
SettledStaysSettled ==
    [][~LeaseLapses =>
        \A t \in Guarded : status[t] \in Settled => status'[t] \in Settled]_vars

\* A row never waits for ever: a claim that dies with its process lapses and
\* the row is claimed again.
PendingIsServed == \A t \in Tasks : status[t] = "PENDING" ~> status[t] # "PENDING"

-----------------------------------------------------------------------------
(* Inductive strengthenings, proved in TaskQueueProofs *)

\* A batch runs in a process that is up, on rows of its types; its report
\* is about rows of its own, and it has updates to make only at its end.
BatchShape ==
    \A r \in runs :
        /\ r.worker \in alive
        /\ \A t \in r.tasks : TypeOf[t] \in TypesOf(r.worker)
        /\ \A u \in r.todo : u.tasks \subseteq r.tasks
        /\ r.todo # {} => r.stage \in {"reporting", "failing"}

Claimed(t) == status[t] = "PENDING" /\ lockedBy[t] # NoWorker /\ ~stale[t]

\* Where a batch that alone holds t has brought it.
BatchKnows(r, t) ==
    /\ r.stage = "claimed" => Claimed(t)
    /\ r.stage = "running" => status[t] = "IN_PROGRESS"
    /\ r.stage = "reporting" => status[t] \in {"IN_PROGRESS"} \cup Settled
    /\ r.stage = "failing" =>
        \/ Claimed(t) /\ r.todo = {}
        \/ status[t] \in {"IN_PROGRESS"} \cup Settled

ClaimInv(t) ==
    /\ ~Overlap(t)
    /\ \A r \in runs : t \in r.tasks => BatchKnows(r, t) /\ ~stale[t]
    /\ \A u \in adrift : t \in u.tasks =>
        /\ t \notin Held(runs)
        /\ ~stale[t]
        /\ status[t] \in {"IN_PROGRESS"} \cup Settled

\* While no batch outlives its lease, each batch holding a guarded row holds it
\* alone and the row's status tells how far the batch went; an update of a dead
\* process finds no batch on its rows.
ClaimIInv ==
    /\ BatchShape
    /\ ~LeaseLapses => \A t \in Guarded : ClaimInv(t)

PayoutInv(t) ==
    /\ handled[t] <= 1
    /\ status[t] \in {"NONE", "PENDING"} => handled[t] = 0
    /\ \A r \in runs : t \in r.tasks /\ r.stage = "running" => handled[t] = 0

\* A payout row, which no start resets, is handled between its mark and its
\* report only: claim, mark, commit and report follow each other once.
PayoutIInv ==
    /\ ClaimIInv
    /\ ~LeaseLapses => \A t \in PayoutTasks : PayoutInv(t)

\* The batch r will yet settle t or die trying: it is at work, it has t's part
\* of its report to make, or it goes to its catch block.
Answers(r, t) ==
    /\ t \in r.tasks
    /\ \/ r.stage \in {"running", "failing"}
       \/ r.stage = "reporting" /\ \E u \in r.todo : t \in u.tasks

\* A row in progress is answered for by a batch until it is given up.
AnsweredIInv ==
    \A t \in Tasks :
        status[t] = "IN_PROGRESS" /\ t \notin left => \E r \in runs : Answers(r, t)

=============================================================================
