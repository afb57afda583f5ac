------------------------- MODULE AnticipationProofs -------------------------
(* Proofs about Anticipation, for any requests, schedules and bounds. *)
EXTENDS Anticipation, TLAPS

-----------------------------------------------------------------------------
(* Type correctness *)

\* What a posting leaves in the ledger: what was there, and at most the new one.
LEMMA PostAddsOne ==
    ASSUME NEW c
    PROVE  /\ ledger \subseteq Post(c)
           /\ Post(c) \subseteq ledger \cup {c}
  BY DEF Post

LEMMA TypeOfInit == Init => TypeOK
  BY SchedulesAssumption DEF Init, TypeOK, Request, NoRequest, TaskStages

\* The steps of a request before its row exists, and its insert.
LEMMA TypeOfRequest ==
    ASSUME TypeOK, NEW r \in Requests, Simulate(r) \/ Count(r) \/ Insert(r)
    PROVE  TypeOK'
<1>1. CASE Simulate(r)
  <2>1. Eligible \subseteq Schedules
    BY DEF Eligible, Scheduled
  <2> QED
    BY <1>1, <2>1 DEF Simulate, TypeOK, Request
<1>2. CASE Count(r)
  <2>1. req[r] \in Request
    BY DEF TypeOK
  <2>2. NoRequest \in Request
    BY DEF NoRequest, Request
  <2>3. req' \in [Requests -> Request]
    BY <1>2, <2>1, <2>2 DEF Count, TypeOK, Request
  <2> QED
    BY <1>2, <2>3 DEF Count, TypeOK
<1>3. CASE Insert(r)
  <2>1. NoRequest \in Request
    BY DEF NoRequest, Request
  <2>2. req' \in [Requests -> Request]
    BY <1>3, <2>1 DEF Insert, SetRequest, TypeOK, Request, Open
  <2>3. task' \in [Requests -> TaskStages]
    BY <1>3 DEF Insert, SetTask, TypeOK, TaskStages
  <2> QED
    BY <1>3, <2>2, <2>3 DEF Insert, TypeOK
<1> QED
  BY <1>1, <1>2, <1>3

\* The steps of the task.
LEMMA TypeOfTask ==
    ASSUME TypeOK, NEW r \in Requests, TaskStep(r) \/ Fail(r) \/ Boot(r)
    PROVE  TypeOK'
<1>1. CASE Read(r) \/ Aggregate(r) \/ Report(r) \/ Boot(r)
  BY <1>1 DEF Read, Aggregate, Report, Boot, SetTask, TypeOK, TaskStages, InBatch
<1>2. CASE Mark(r)
  <2>1. sched' \in [Schedules -> [status : {"SCHEDULED", "COMPLETED"}, anticipated : BOOLEAN]]
    BY <1>2 DEF Mark, TypeOK
  <2>2. task' \in [Requests -> TaskStages]
    BY <1>2 DEF Mark, SetTask, TypeOK, TaskStages, InBatch
  <2>3. early' \subseteq Schedules
    BY <1>2 DEF Mark, TypeOK, Request
  <2> QED
    BY <1>2, <2>1, <2>2, <2>3 DEF Mark, TypeOK
<1>3. CASE Commit(r)
  <2>1. DecidedStatus(r) \in Decided
    BY DEF DecidedStatus, Decided
  <2>2. [by |-> "anticipation", source |-> SourceOf(r), of |-> r] \in Credit
    BY DEF Credit, SourceOf
  <2>3. ledger' \subseteq Credit
    BY <1>3, <2>2, PostAddsOne DEF Commit, TypeOK
  <2>4. /\ req' \in [Requests -> Request]
        /\ task' \in [Requests -> TaskStages]
    BY <1>3, <2>1 DEF Commit, SetRequest, SetTask, TypeOK, Request, TaskStages, InBatch
  <2> QED
    BY <1>3, <2>3, <2>4 DEF Commit, TypeOK
<1>4. CASE Fail(r)
  <2>1. faults' \in 0..MaxFaults
    BY <1>4, SchedulesAssumption DEF Fail, TypeOK
  <2>2. task' \in [Requests -> TaskStages]
    BY <1>4 DEF Fail, SetTask, TypeOK, TaskStages
  <2> QED
    BY <1>4, <2>1, <2>2 DEF Fail, TypeOK
<1> QED
  BY <1>1, <1>2, <1>3, <1>4 DEF TaskStep

\* The steps of a schedule.
LEMMA TypeOfSchedule ==
    ASSUME TypeOK, NEW s \in Schedules,
           \/ FallDue(s) \/ EnqueueRelease(s) \/ ReadRelease(s)
           \/ ApplyRelease(s) \/ DropRelease(s)
    PROVE  TypeOK'
<1>1. CASE FallDue(s)
  BY <1>1 DEF FallDue, TypeOK
<1>2. CASE EnqueueRelease(s) \/ ReadRelease(s) \/ DropRelease(s)
  BY <1>2 DEF EnqueueRelease, ReadRelease, DropRelease, SetRel, TypeOK
<1>3. CASE ApplyRelease(s)
  <2>1. [by |-> "release", source |-> s, of |-> s] \in Credit
    BY DEF Credit
  <2>2. ledger' \subseteq Credit
    BY <1>3, <2>1, PostAddsOne DEF ApplyRelease, TypeOK
  <2>3. /\ sched' \in [Schedules -> [status : {"SCHEDULED", "COMPLETED"},
                                     anticipated : BOOLEAN]]
        /\ rel' \in [Schedules -> {"none", "queued", "found"}]
    BY <1>3 DEF ApplyRelease, SetRel, TypeOK
  <2> QED
    BY <1>3, <2>2, <2>3 DEF ApplyRelease, TypeOK
<1> QED
  BY <1>1, <1>2, <1>3

LEMMA TypeOfStep == TypeOK /\ [Next]_vars => TypeOK'
<1> SUFFICES ASSUME TypeOK, [Next]_vars PROVE TypeOK'
  OBVIOUS
<1>1. CASE Next
  BY <1>1, TypeOfRequest, TypeOfTask, TypeOfSchedule DEF Next
<1>2. CASE UNCHANGED vars
  BY <1>2 DEF vars, TypeOK
<1> QED
  BY <1>1, <1>2

\* Every column keeps its range.
THEOREM TypeCorrect == Spec => []TypeOK
  BY TypeOfInit, TypeOfStep, PTL DEF Spec

-----------------------------------------------------------------------------
(* One open request *)

\* What the steps before the row do to a request, and to no other.
LEMMA RequestStep ==
    ASSUME TypeOK, NEW r \in Requests, Simulate(r) \/ Count(r) \/ Insert(r)
    PROVE  /\ req[r].status \in {"NEW", "SIMULATED", "COUNTED"}
           /\ \/ req'[r].status \in {"NEW", "SIMULATED", "COUNTED"}
              \/ /\ req'[r].status = "PENDING"
                 /\ NoOpen
           /\ \A q \in Requests \ {r} : req'[q] = req[q]
<1>1. CASE Simulate(r)
  BY <1>1 DEF Simulate, TypeOK
<1>2. CASE Count(r)
  <2>1. req'[r] \in {[req[r] EXCEPT !.status = "COUNTED"], NoRequest}
    BY <1>2 DEF Count, TypeOK
  <2>2. [req[r] EXCEPT !.status = "COUNTED"].status = "COUNTED"
    BY DEF TypeOK, Request
  <2>3. NoRequest.status = "NEW"
    BY DEF NoRequest
  <2> QED
    BY <1>2, <2>1, <2>2, <2>3 DEF Count, TypeOK
<1>3. CASE Insert(r)
  <2>1. \/ /\ req'[r] = [req[r] EXCEPT !.status = "PENDING"]
           /\ NoOpen
        \/ req'[r] = NoRequest
    BY <1>3 DEF Insert, SetRequest, Admitted, TypeOK
  <2>2. [req[r] EXCEPT !.status = "PENDING"].status = "PENDING"
    BY DEF TypeOK, Request
  <2>3. NoRequest.status = "NEW"
    BY DEF NoRequest
  <2> QED
    BY <1>3, <2>1, <2>2, <2>3 DEF Insert, SetRequest, TypeOK
<1> QED
  BY <1>1, <1>2, <1>3

\* Only Insert opens a request, and only when none is open: the count that came
\* before it is not needed.
LEMMA OneOpenStep == TypeOK /\ OneOpen /\ [Next]_vars => OneOpen'
<1> SUFFICES ASSUME TypeOK, OneOpen, [Next]_vars PROVE OneOpen'
  OBVIOUS
<1>1. ASSUME NEW r \in Requests, Simulate(r) \/ Count(r) \/ Insert(r) PROVE OneOpen'
  BY <1>1, RequestStep DEF OneOpen, NoOpen, Open
<1>2. ASSUME NEW r \in Requests, Commit(r) PROVE OneOpen'
  BY <1>2 DEF Commit, SetRequest, DecidedStatus, OneOpen, Open, TypeOK
<1>3. ASSUME UNCHANGED req PROVE OneOpen'
  BY <1>3 DEF OneOpen
<1>4. ASSUME NEW r \in Requests,
             Read(r) \/ Aggregate(r) \/ Mark(r) \/ Report(r) \/ Fail(r) \/ Boot(r)
      PROVE  UNCHANGED req
  BY <1>4 DEF Read, Aggregate, Mark, Report, Fail, Boot
<1>5. ASSUME NEW s \in Schedules,
             \/ FallDue(s) \/ EnqueueRelease(s) \/ ReadRelease(s)
             \/ ApplyRelease(s) \/ DropRelease(s)
      PROVE  UNCHANGED req
  BY <1>5 DEF FallDue, EnqueueRelease, ReadRelease, ApplyRelease, DropRelease
<1> QED
  BY <1>1, <1>2, <1>3, <1>4, <1>5 DEF Next, TaskStep, vars

\* However many requests run at once, one anticipation is open.
THEOREM OneOpenAlways == Spec => []OneOpen
<1>1. Init => OneOpen
  BY DEF Init, OneOpen, NoRequest, Open
<1> QED
  BY <1>1, TypeCorrect, OneOpenStep, PTL DEF Spec

-----------------------------------------------------------------------------
(* Approved and paid *)

\* Steps that leave the rows and the ledger alone, and bring no request into a
\* batch, change nothing PaidIInv speaks of.
LEMMA PaidFrame ==
    ASSUME PaidIInv, UNCHANGED <<req, ledger>>,
           \A r \in Requests : task'[r] \in InBatch \ {"committed"} =>
                task[r] \in InBatch \ {"committed"} \/ req[r].status = "PENDING"
    PROVE  PaidIInv'
  BY DEF PaidIInv, ApprovedIsPaid, PaidBy

LEMMA PaidStep == TypeOK /\ PaidIInv /\ [Next]_vars => PaidIInv'
<1> SUFFICES ASSUME TypeOK, PaidIInv, [Next]_vars PROVE PaidIInv'
  OBVIOUS
<1>1. ASSUME NEW r \in Requests, Simulate(r) \/ Count(r) \/ Insert(r) PROVE PaidIInv'
  <2>1. UNCHANGED ledger
    BY <1>1 DEF Simulate, Count, Insert
  <2>2. /\ req[r].status \in {"NEW", "SIMULATED", "COUNTED"}
        /\ req'[r].status \in {"NEW", "SIMULATED", "COUNTED", "PENDING"}
        /\ \A q \in Requests \ {r} : req'[q] = req[q]
    BY <1>1, RequestStep
  <2>3. /\ task[r] \notin InBatch \ {"committed"}
        /\ task'[r] \in {task[r], "queued"}
        /\ \A q \in Requests \ {r} : task'[q] = task[q]
    BY <1>1, <2>2 DEF Simulate, Count, Insert, SetTask, TypeOK, PaidIInv
  <2> QED
    BY <2>1, <2>2, <2>3 DEF PaidIInv, ApprovedIsPaid, PaidBy, InBatch
<1>2. ASSUME NEW r \in Requests,
             Read(r) \/ Aggregate(r) \/ Mark(r) \/ Report(r) \/ Fail(r) \/ Boot(r)
      PROVE  PaidIInv'
  <2>1. UNCHANGED <<req, ledger>>
    BY <1>2 DEF Read, Aggregate, Mark, Report, Fail, Boot
  <2>2. \A q \in Requests : task'[q] \in InBatch \ {"committed"} =>
             task[q] \in InBatch \ {"committed"} \/ req[q].status = "PENDING"
    BY <1>2 DEF Read, Aggregate, Mark, Report, Fail, Boot, SetTask, TypeOK, InBatch
  <2> QED
    BY <2>1, <2>2, PaidFrame
<1>3. ASSUME NEW r \in Requests, Commit(r) PROVE PaidIInv'
  <2> DEFINE c == [by |-> "anticipation", source |-> r, of |-> r]
  <2>1. req[r].status = "PENDING" /\ ~PaidBy(r)
    BY <1>3 DEF Commit, PaidIInv, ApprovedIsPaid, InBatch
  <2>2. /\ task'[r] = "committed"
        /\ \A q \in Requests \ {r} : task'[q] = task[q] /\ req'[q] = req[q]
    BY <1>3 DEF Commit, SetTask, SetRequest, TypeOK
  <2>3. \A d \in ledger : d.by = "anticipation" => d.source = d.of /\ d.of # r
    BY <2>1 DEF PaidIInv, PaidBy
  <2>4. CASE task[r] = "marked"
    <3>1. req'[r].status = "APPROVED"
      BY <1>3, <2>4 DEF Commit, SetRequest, DecidedStatus, TypeOK
    <3>2. ledger' = ledger \cup {c}
      BY <1>3, <2>3, <2>4 DEF Commit, Post, SourceOf
    <3>3. /\ PaidBy(r)'
          /\ \A q \in Requests \ {r} : PaidBy(q)' <=> PaidBy(q)
      <4>1. c.by = "anticipation" /\ c.of = r
        OBVIOUS
      <4>2. c \in ledger' /\ \A d : d \in ledger' <=> d \in ledger \/ d = c
        BY <3>2
      <4>3. \A q : (\E d \in ledger : d.by = "anticipation" /\ d.of = q)
                      => \E d \in ledger' : d.by = "anticipation" /\ d.of = q
        BY <4>2
      <4>4. \A q : q # r => \A d \in ledger' :
                 d.by = "anticipation" /\ d.of = q => d \in ledger
        BY <4>1, <4>2
      <4> HIDE DEF c
      <4>5. PaidBy(r)'
        BY <4>1, <4>2 DEF PaidBy
      <4> QED
        BY <4>3, <4>4, <4>5 DEF PaidBy
    <3>4. ApprovedIsPaid'
      BY <2>2, <3>1, <3>3 DEF PaidIInv, ApprovedIsPaid
    <3> QED
      BY <2>2, <3>2, <3>4 DEF PaidIInv, InBatch
  <2>5. CASE task[r] # "marked"
    <3>1. req'[r].status = "REJECTED"
      BY <1>3, <2>5 DEF Commit, SetRequest, DecidedStatus, TypeOK
    <3>2. UNCHANGED ledger
      BY <1>3, <2>5 DEF Commit
    <3> QED
      BY <2>1, <2>2, <3>1, <3>2 DEF PaidIInv, ApprovedIsPaid, PaidBy, InBatch
  <2> QED
    BY <2>4, <2>5
<1>4. ASSUME NEW s \in Schedules, ApplyRelease(s) PROVE PaidIInv'
  <2>1. UNCHANGED <<req, task>>
    BY <1>4 DEF ApplyRelease
  <2>2. \A d : d.by = "anticipation" => (d \in ledger' <=> d \in ledger)
    BY <1>4 DEF ApplyRelease, Post
  <2> QED
    BY <2>1, <2>2 DEF PaidIInv, ApprovedIsPaid, PaidBy
<1>5. ASSUME NEW s \in Schedules,
             FallDue(s) \/ EnqueueRelease(s) \/ ReadRelease(s) \/ DropRelease(s)
      PROVE  PaidIInv'
  BY <1>5, PaidFrame DEF FallDue, EnqueueRelease, ReadRelease, DropRelease
<1>6. ASSUME UNCHANGED vars PROVE PaidIInv'
  BY <1>6, PaidFrame DEF vars
<1> QED
  BY <1>1, <1>2, <1>3, <1>4, <1>5, <1>6 DEF Next, TaskStep

\* The strengthened form of the next theorem.
THEOREM PaidInductive == Spec => []PaidIInv
<1>1. Init => PaidIInv
  BY DEF Init, PaidIInv, ApprovedIsPaid, PaidBy, NoRequest, InBatch
<1> QED
  BY <1>1, TypeCorrect, PaidStep, PTL DEF Spec

\* APPROVED if and only if credited, through any number of failed batches and
\* repeated tasks.
THEOREM ApprovedIsPaidAlways == Spec => []ApprovedIsPaid
<1>1. PaidIInv => ApprovedIsPaid
  BY DEF PaidIInv
<1> QED
  BY <1>1, PaidInductive, PTL

-----------------------------------------------------------------------------
(* Marked early and not released *)

LEMMA EarlyStep == TypeOK /\ EarlyIInv /\ [Next]_vars => EarlyIInv'
<1> SUFFICES ASSUME TypeOK, EarlyIInv, [Next]_vars PROVE EarlyIInv'
  OBVIOUS
<1>1. ASSUME NEW r \in Requests,
             \/ Simulate(r) \/ Count(r) \/ Insert(r) \/ Read(r)
             \/ Aggregate(r) \/ Report(r) \/ Fail(r) \/ Boot(r)
      PROVE  UNCHANGED <<sched, due, rel, ledger, early>>
  BY <1>1 DEF Simulate, Count, Insert, Read, Aggregate, Report, Fail, Boot
<1>2. ASSUME UNCHANGED <<sched, due, rel, ledger, early>> PROVE EarlyIInv'
  BY <1>2 DEF EarlyIInv, Released
<1>3. ASSUME NEW r \in Requests, Mark(r) PROVE EarlyIInv'
  <2>1. req[r].lots \subseteq RowsOf(r)
    BY DEF TypeOK, Request, RowsOf
  <2>2. \A s \in Schedules : sched'[s].status = sched[s].status \/ sched'[s].status = "COMPLETED"
    BY <1>3 DEF Mark
  <2>3. \A s \in early' : s \in early \/ s \in RowsOf(r) \ due
    BY <1>3, <2>1 DEF Mark
  <2>4. \A s \in RowsOf(r) : sched'[s].status = "COMPLETED"
    BY <1>3 DEF Mark, RowsOf
  <2> QED
    BY <1>3, <2>2, <2>3, <2>4 DEF Mark, EarlyIInv, Released
<1>4. ASSUME NEW r \in Requests, Commit(r) PROVE EarlyIInv'
  <2>1. UNCHANGED <<sched, due, rel, early>>
    BY <1>4 DEF Commit
  <2>2. \A d : d.by = "release" => (d \in ledger' <=> d \in ledger)
    BY <1>4 DEF Commit, Post
  <2> QED
    BY <2>1, <2>2 DEF EarlyIInv, Released
<1>5. ASSUME NEW s \in Schedules, FallDue(s) PROVE EarlyIInv'
  BY <1>5 DEF FallDue, EarlyIInv, Released
<1>6. ASSUME NEW s \in Schedules, EnqueueRelease(s) \/ ReadRelease(s) \/ DropRelease(s)
      PROVE  EarlyIInv'
  BY <1>6 DEF EnqueueRelease, ReadRelease, DropRelease, SetRel, Scheduled, EarlyIInv,
              Released, TypeOK
<1>7. ASSUME NEW s \in Schedules, ApplyRelease(s) PROVE EarlyIInv'
  <2>1. s \in due /\ s \notin early
    BY <1>7 DEF ApplyRelease, EarlyIInv
  <2>2. /\ rel'[s] = "none"
        /\ \A t \in Schedules \ {s} : rel'[t] = rel[t] /\ sched'[t] = sched[t]
    BY <1>7 DEF ApplyRelease, SetRel, TypeOK
  <2>3. \A t \in Schedules \ {s} : Released(t)' <=> Released(t)
    BY <1>7 DEF ApplyRelease, Post, Released
  <2> QED
    BY <1>7, <2>1, <2>2, <2>3 DEF ApplyRelease, EarlyIInv
<1> QED
  BY <1>1, <1>2, <1>3, <1>4, <1>5, <1>6, <1>7 DEF Next, TaskStep, vars

\* The strengthened form of the next theorem.
THEOREM EarlyInductive == Spec => []EarlyIInv
<1>1. Init => EarlyIInv
  BY DEF Init, EarlyIInv, Released
<1> QED
  BY <1>1, TypeCorrect, EarlyStep, PTL DEF Spec

\* What is anticipated before its date is not released on its date.
THEOREM EarlyNotReleased == Spec => []MarkedEarlyIsNotReleased
<1>1. TypeOK /\ EarlyIInv => MarkedEarlyIsNotReleased
  BY DEF TypeOK, EarlyIInv, MarkedEarlyIsNotReleased
<1> QED
  BY <1>1, TypeCorrect, EarlyInductive, PTL

=============================================================================
