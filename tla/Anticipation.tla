---------------------------- MODULE Anticipation ----------------------------
(***************************************************************************)
(* Anticipations of one company: it asks to be paid scheduled money before *)
(* its date, for a discount.  A request simulates, counts the open ones    *)
(* and inserts; the general queue decides it in a transaction, but marks   *)
(* the schedules over another connection, at once and by payment, while    *)
(* the release job works on the same schedules when their date comes.      *)
(* A task is in one batch at a time (ExclusiveClaim of TaskQueue).  The    *)
(* schedules are installments of one currency: no row of another type is   *)
(* ever created as anticipatable.                                          *)
(***************************************************************************)
EXTENDS Integers, FiniteSets, FiniteSetsExt

CONSTANTS
    Requests,      \* anticipations the company asks for
    Schedules,     \* its payment_release_schedule rows of type INSTALLMENT
    PaymentOf,     \* payment_id column
    AmountNet,     \* amount_net column
    Discount,      \* what the anticipation of a schedule costs
    Anticipatable, \* schedules with is_anticipatable, past their first date
    Minimum,       \* smallest total_net of an anticipation
    MaxFaults      \* bound: crashes and failed batches

ASSUME SchedulesAssumption ==
    /\ IsFiniteSet(Schedules)
    /\ AmountNet \in [Schedules -> Nat]
    /\ Discount \in [Schedules -> Nat]
    /\ Anticipatable \subseteq Schedules
    /\ Minimum \in Nat
    /\ MaxFaults \in Nat

VARIABLES
    sched,     \* the schedule rows
    due,       \* schedules whose scheduled_date has passed
    req,       \* requests and anticipation rows
    task,      \* the ANTICIPATION task of a row, and how far its batch is
    rel,       \* release tasks: queued, or found still SCHEDULED
    ledger,    \* credits to the available account
    early,     \* history: schedules marked before their date
    faults     \* crashes and failed batches so far

vars == <<sched, due, req, task, rel, ledger, early, faults>>

Open == {"PENDING"}                    \* no code sets PROCESSING
Decided == {"APPROVED", "REJECTED"}
InBatch == {"read", "short", "covered", "marked", "committed"}
TaskStages == {"none", "queued", "lost", "over"} \cup InBatch

\* A request, from its simulation to the row and its decision; lots are the
\* schedules of the simulation.
Request == [status : {"NEW", "SIMULATED", "COUNTED"} \cup Open \cup Decided,
            lots : SUBSET Schedules]

\* A credit: the source in its key, and the request or schedule it pays.
Credit == [by : {"anticipation"}, source : Requests, of : Requests]
            \cup [by : {"release"}, source : Schedules, of : Schedules]

\* Every column ranges over the values it can hold.
TypeOK ==
    /\ sched \in [Schedules -> [status : {"SCHEDULED", "COMPLETED"},
                                anticipated : BOOLEAN]]
    /\ due \subseteq Schedules
    /\ req \in [Requests -> Request]
    /\ task \in [Requests -> TaskStages]
    /\ rel \in [Schedules -> {"none", "queued", "found"}]
    /\ ledger \subseteq Credit
    /\ early \subseteq Schedules
    /\ faults \in 0..MaxFaults

NoRequest == [status |-> "NEW", lots |-> {}]

Init ==
    /\ sched = [s \in Schedules |-> [status |-> "SCHEDULED", anticipated |-> FALSE]]
    /\ due = {}
    /\ req = [r \in Requests |-> NoRequest]
    /\ task = [r \in Requests |-> "none"]
    /\ rel = [s \in Schedules |-> "none"]
    /\ ledger = {}
    /\ early = {}
    /\ faults = 0

-----------------------------------------------------------------------------
(* Amounts and rows *)

NetOf(S) == MapThenSumSet(LAMBDA s : AmountNet[s], S)

\* total_net of the simulation, amount_net of the row.
TotalNet(S) == NetOf(S) - MapThenSumSet(LAMBDA s : Discount[s], S)

Scheduled == {s \in Schedules : sched[s].status = "SCHEDULED"}

\* eligibleSchedules
Eligible == (Scheduled \cap Anticipatable) \ due

SetRequest(r, s) == req' = [req EXCEPT ![r].status = s]
SetTask(r, s) == task' = [task EXCEPT ![r] = s]

-----------------------------------------------------------------------------
(* The request *)

\* simulate: what is eligible now, if its net total reaches the minimum.
Simulate(r) ==
    /\ req[r].status = "NEW"
    /\ Eligible # {}
    /\ TotalNet(Eligible) >= Minimum
    /\ req' = [req EXCEPT ![r] = [status |-> "SIMULATED", lots |-> Eligible]]
    /\ UNCHANGED <<sched, due, task, rel, ledger, early, faults>>

NoOpen == \A q \in Requests : req[q].status \notin Open

\* getPendingAnticipationCount: `Only one pending anticipation is allowed'.
Count(r) ==
    /\ req[r].status = "SIMULATED"
    /\ req' = [req EXCEPT ![r] = IF NoOpen THEN [@ EXCEPT !.status = "COUNTED"]
                                           ELSE NoRequest]
    /\ UNCHANGED <<sched, due, task, rel, ledger, early, faults>>

\* The insert without the index.
AdmittedAlways == TRUE

\* unique_active_anticipation_per_company
Admitted == NoOpen

\* One transaction inserts the row and its task, or fails on the index.
Insert(r) ==
    /\ req[r].status = "COUNTED"
    /\ IF Admitted
       THEN SetRequest(r, "PENDING") /\ SetTask(r, "queued")
       ELSE req' = [req EXCEPT ![r] = NoRequest] /\ UNCHANGED task
    /\ UNCHANGED <<sched, due, rel, ledger, early, faults>>

-----------------------------------------------------------------------------
(* The decision *)

\* processAnticipation reads the rows still PENDING; the task of another fails.
Read(r) ==
    /\ task[r] = "queued"
    /\ SetTask(r, IF req[r].status = "PENDING" THEN "read" ELSE "over")
    /\ UNCHANGED <<sched, due, req, rel, ledger, early, faults>>

\* The aggregate over all the company's schedules of the type.
Covered(r) == NetOf(Scheduled) >= TotalNet(req[r].lots)

Aggregate(r) ==
    /\ task[r] = "read"
    /\ SetTask(r, IF Covered(r) THEN "covered" ELSE "short")
    /\ UNCHANGED <<sched, due, req, rel, ledger, early, faults>>

\* An updateMany that matches no row.
RowsOfNone(r) == {}

\* All rows of the payments in payments_ids, whatever their status and date.
RowsOf(r) == {s \in Schedules : \E t \in req[r].lots : PaymentOf[s] = PaymentOf[t]}

\* this.prisma, not tx: committed at once.
Mark(r) ==
    /\ task[r] = "covered"
    /\ SetTask(r, "marked")
    /\ sched' = [s \in Schedules |->
                    IF s \in RowsOf(r) THEN [status |-> "COMPLETED", anticipated |-> TRUE]
                                       ELSE sched[s]]
    /\ early' = early \cup (req[r].lots \ due)
    /\ UNCHANGED <<due, req, rel, ledger, faults>>

\* createMany with skipDuplicates.
Post(c) ==
    IF \E d \in ledger : d.by = c.by /\ d.source = c.source THEN ledger ELSE ledger \cup {c}

\* The batch's own source, which is the same for two batches of one instant.
SourceOfBatch(r) == CHOOSE q \in Requests : TRUE

\* sourceId of the postings.
SourceOf(r) == r

\* The status of a schedule.
DecidedStatusOfSchedule(r) == IF task[r] = "marked" THEN "COMPLETED" ELSE "REJECTED"

\* A rejection that only fails the task.
DecidedStatusApprovalsOnly(r) == IF task[r] = "marked" THEN "APPROVED" ELSE "PENDING"

DecidedStatus(r) == IF task[r] = "marked" THEN "APPROVED" ELSE "REJECTED"

\* The updates and postings of the transaction.
Commit(r) ==
    /\ task[r] \in {"short", "marked"}
    /\ SetRequest(r, DecidedStatus(r))
    /\ SetTask(r, "committed")
    /\ ledger' = IF task[r] = "marked"
                 THEN Post([by |-> "anticipation", source |-> SourceOf(r), of |-> r])
                 ELSE ledger
    /\ UNCHANGED <<sched, due, rel, early, faults>>

\* The task is COMPLETED or FAILED.
Report(r) ==
    /\ task[r] = "committed"
    /\ SetTask(r, "over")
    /\ UNCHANGED <<sched, due, req, rel, ledger, early, faults>>

\* A fault leaves the transaction rolled back and what was marked marked: an
\* error fails the task for good, a death leaves it to a later reset.
Fail(r) ==
    /\ faults < MaxFaults
    /\ faults' = faults + 1
    /\ \/ task[r] \in InBatch \ {"committed"} /\ SetTask(r, "over")
       \/ task[r] \in InBatch /\ SetTask(r, "lost")
    /\ UNCHANGED <<sched, due, req, rel, ledger, early>>

\* resetInProgressTasks
Boot(r) ==
    /\ task[r] = "lost"
    /\ SetTask(r, "queued")
    /\ UNCHANGED <<sched, due, req, rel, ledger, early, faults>>

-----------------------------------------------------------------------------
(* The schedules' own way *)

FallDue(s) ==
    /\ due' = due \cup {s}
    /\ UNCHANGED <<sched, req, task, rel, ledger, early, faults>>

SetRel(s, x) == rel' = [rel EXCEPT ![s] = x]

\* The job enqueues what is due and SCHEDULED ...
EnqueueRelease(s) ==
    /\ rel[s] = "none"
    /\ s \in due \cap Scheduled
    /\ SetRel(s, "queued")
    /\ UNCHANGED <<sched, due, req, task, ledger, early, faults>>

\* ... the queue reads it again ...
ReadRelease(s) ==
    /\ rel[s] = "queued"
    /\ SetRel(s, IF s \in Scheduled THEN "found" ELSE "none")
    /\ UNCHANGED <<sched, due, req, task, ledger, early, faults>>

\* ... and moves the money of what it found.
ApplyRelease(s) ==
    /\ rel[s] = "found"
    /\ SetRel(s, "none")
    /\ sched' = [sched EXCEPT ![s].status = "COMPLETED"]
    /\ ledger' = Post([by |-> "release", source |-> s, of |-> s])
    /\ UNCHANGED <<due, req, task, early, faults>>

DropRelease(s) ==
    /\ rel[s] # "none"
    /\ SetRel(s, "none")
    /\ UNCHANGED <<sched, due, req, task, ledger, early, faults>>

-----------------------------------------------------------------------------
TaskStep(r) == Read(r) \/ Aggregate(r) \/ Mark(r) \/ Commit(r) \/ Report(r)

Next ==
    \/ \E r \in Requests : Simulate(r) \/ Count(r) \/ Insert(r) \/ TaskStep(r) \/ Fail(r) \/ Boot(r)
    \/ \E s \in Schedules :
        \/ FallDue(s)
        \/ EnqueueRelease(s) \/ ReadRelease(s) \/ ApplyRelease(s) \/ DropRelease(s)

Spec == Init /\ [][Next]_vars

\* The poller takes up every queued task, and batches run to their end.
FairSpec == Spec /\ \A r \in Requests : WF_vars(TaskStep(r))

-----------------------------------------------------------------------------
(* Properties *)

PaidBy(r) == \E c \in ledger : c.by = "anticipation" /\ c.of = r
Released(s) == \E c \in ledger : c.by = "release" /\ c.of = s

\* `Only one pending anticipation is allowed at a time': requests that all
\* counted none before any of them inserted do not open two.
OneOpen ==
    \A q, r \in Requests : req[q].status \in Open /\ req[r].status \in Open => q = r

\* A schedule an anticipation marked before its date is not paid again by the
\* release job when the date comes, though the mark is outside the transaction
\* and the batch may fail and be repeated.
MarkedEarlyIsNotReleased == \A s \in early : ~Released(s)

\* APPROVED and the credit of the discounted total go together,
\* through failed batches, repeated tasks and a second request.
ApprovedIsPaid ==
    \A r \in Requests : req[r].status = "APPROVED" <=> PaidBy(r)

\* An open request does not block the company for ever, unless a batch failed.
OpenIsDecided ==
    \A r \in Requests : req[r].status = "PENDING" ~> req[r].status \in Decided \/ faults > 0

(* What the documentation of the endpoint says, and the code does not do *)

\* `process the anticipation and transfer funds to the available balance': once
\* no batch is at work, the money of each anticipated schedule is there.
AnticipatedIsTransferred ==
    (\A r \in Requests : task[r] \notin InBatch) =>
        \A s \in Schedules : sched[s].anticipated /\ rel[s] = "none" =>
            Released(s) \/ \E r \in Requests : s \in req[r].lots /\ PaidBy(r)

(* Inductive strengthenings, proved in AnticipationProofs *)

\* A request in a batch that has not committed is open, and a credit's key
\* names the request it pays.
PaidIInv ==
    /\ ApprovedIsPaid
    /\ \A r \in Requests : task[r] \in InBatch \ {"committed"} => req[r].status = "PENDING"
    /\ \A c \in ledger : c.by = "anticipation" => c.source = c.of

\* Only what has fallen due is enqueued or released, and what was marked before
\* stays COMPLETED with no release under way.
EarlyIInv ==
    \A s \in Schedules :
        /\ rel[s] # "none" \/ Released(s) => s \in due
        /\ s \in early => sched[s].status = "COMPLETED" /\ rel[s] = "none" /\ ~Released(s)

=============================================================================
