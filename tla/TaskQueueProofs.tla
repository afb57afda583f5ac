-------------------------- MODULE TaskQueueProofs --------------------------
(***************************************************************************)
(* What TaskQueue guarantees for any number of rows, processes, batch      *)
(* sizes and crashes.                                                      *)
(***************************************************************************)
EXTENDS TaskQueue, TLAPS

-----------------------------------------------------------------------------
(* Type correctness *)

\* A batch cut from a claim is well formed.
LEMMA NewRunsType ==
    ASSUME NEW w \in Workers, NEW n \in 1..MaxLoads, NEW S \in SUBSET Tasks
    PROVE  NewRuns(w, n, S) \subseteq Run
BY TypesAssumption DEF NewRuns, Run, Stages

\* Changing the stage or the pending updates keeps a batch well formed.
LEMMA RunUpdateType ==
    ASSUME NEW r \in Run, NEW st \in Stages, NEW td \in SUBSET Update
    PROVE  /\ [r EXCEPT !.stage = st] \in Run
           /\ [r EXCEPT !.todo = td] \in Run
           /\ [r EXCEPT !.stage = st, !.todo = td] \in Run
BY DEF Run

\* The end of a process leaves updates of its batches behind.
LEMMA EndType ==
    ASSUME TypeOK, NEW w \in Workers, End(w)
    PROVE  /\ runs' \subseteq Run /\ adrift' \subseteq Update /\ alive' \subseteq Workers
BY DEF TypeOK, End, RunsOf, Run

\* An update writes statuses and locks of its rows.
LEMMA MakeType ==
    ASSUME TypeOK, NEW u \in Update, Make(u)
    PROVE  /\ status' \in [Tasks -> Statuses]
           /\ lockedBy' \in [Tasks -> Workers \cup {NoWorker}]
           /\ stale' \in [Tasks -> BOOLEAN]
BY DEF TypeOK, Make, SetStatus, Unlock, Update, Statuses

\* An empty table with every process up is well typed.
LEMMA InitType == Init => TypeOK
BY BoundsAssumption DEF Init, TypeOK, Statuses

\* Every step keeps every variable in its type.
LEMMA NextType == TypeOK /\ [Next]_vars => TypeOK'
<1> SUFFICES ASSUME TypeOK, [Next]_vars PROVE TypeOK'
    OBVIOUS
<1> USE DEF TypeOK
<1>1. ASSUME NEW t \in Tasks, Create(t) PROVE TypeOK'
    BY <1>1 DEF Create, Statuses
<1>2. ASSUME NEW t \in Tasks, Lapse(t) PROVE TypeOK'
    BY <1>2 DEF Lapse
<1>3. ASSUME NEW w \in Workers, Load(w) PROVE TypeOK'
    <2>1. PICK n \in FreeLoads(w), S \in SUBSET {t \in Tasks : Claimable(w, t)} :
             /\ lockedBy' = [t \in Tasks |-> IF t \in S THEN w ELSE lockedBy[t]]
             /\ stale' = [t \in Tasks |-> IF t \in S THEN FALSE ELSE stale[t]]
             /\ runs' = runs \cup NewRuns(w, n, S)
        BY <1>3 DEF Load
    <2>2. n \in 1..MaxLoads /\ S \in SUBSET Tasks
        BY DEF FreeLoads
    <2>3. runs' \subseteq Run
        BY <2>1, <2>2, NewRunsType
    <2> QED BY <1>3, <2>1, <2>2, <2>3 DEF Load
<1>4. ASSUME NEW w \in Workers, Crash(w) PROVE TypeOK'
    <2>1. crashes' \in 0..MaxCrashes /\ left' \subseteq Tasks
        BY <1>4, BoundsAssumption DEF Crash, Unsettled, Held, RunsOf, Run
    <2> QED BY <1>4, <2>1, EndType DEF Crash
<1>5. ASSUME NEW w \in Workers, Boot(w) PROVE TypeOK'
    BY <1>5 DEF Boot, SetStatus, Unlock, Statuses
<1>6. ASSUME NEW r \in runs, RunStep(r) PROVE TypeOK'
    <2>0. r \in Run
        OBVIOUS
    <2>1. CASE Start(r)
        <3>1. [r EXCEPT !.stage = "running"] \in Run
            BY <2>0, RunUpdateType DEF Stages
        <3> QED BY <2>1, <3>1 DEF Start, SetStatus, Replace, Statuses
    <2>2. CASE StartFails(r)
        <3>1. [r EXCEPT !.stage = "failing"] \in Run
            BY <2>0, RunUpdateType DEF Stages
        <3> QED BY <2>2, <3>1 DEF StartFails, Replace, SetStatus, Statuses
    <2>3. CASE Finish(r)
        <3>1. PICK o \in Outcomes(r) :
                /\ runs' = (runs \ {r}) \cup {[r EXCEPT !.stage = "reporting", !.todo = Report(o)]}
                /\ left' = left \cup Unsettled(r.tasks \ (o.ok \cup o.bad))
            BY <2>3 DEF Finish, Replace
        <3>2. r.tasks \subseteq Tasks
            BY <2>0 DEF Run
        <3>3. Report(o) \subseteq Update
            BY <3>2 DEF Outcomes, Report, Update, Settled
        <3>4. [r EXCEPT !.stage = "reporting", !.todo = Report(o)] \in Run
            BY <2>0, <3>3, RunUpdateType DEF Stages
        <3>5. handled' \in [PayoutTasks -> 0..2]
            BY <2>3 DEF Finish, Handle
        <3>6. left' \subseteq Tasks
            BY <3>1, <3>2 DEF Unsettled
        <3> QED BY <2>3, <3>1, <3>4, <3>5, <3>6 DEF Finish
    <2>4. CASE Throw(r)
        <3>1. [r EXCEPT !.stage = "failing"] \in Run
            BY <2>0, RunUpdateType DEF Stages
        <3> QED BY <2>4, <3>1 DEF Throw, Replace
    <2>5. ASSUME NEW u \in r.todo, Write(r, u) PROVE TypeOK'
        <3>1. u \in Update
            BY <2>0 DEF Run
        <3>2. [r EXCEPT !.todo = @ \ {u}] \in Run
            BY <2>0 DEF Run
        <3>3. runs' \subseteq Run
            BY <2>5, <3>2 DEF Write, Written, Replace
        <3> QED BY <2>5, <3>1, <3>3, MakeType DEF Write
    <2>6. CASE WriteLost(r)
        <3>1. \A sent \in SUBSET r.todo : [r EXCEPT !.stage = "failing", !.todo = sent] \in Run
            BY <2>0 DEF Run, Stages
        <3> QED BY <2>6, <3>1 DEF WriteLost, Replace
    <2>7. CASE FailAll(r)
        <3>1. r.worker \in Workers
            BY <2>0 DEF Run
        <3>2. left' \subseteq Tasks
            BY <2>7 DEF FailAll, Unsettled, Held, RunsOf, Run
        <3>3. status' \in [Tasks -> Statuses]
            BY <2>7 DEF FailAll, SetStatus, Statuses, Settled
        <3>4. lockedBy' \in [Tasks -> Workers \cup {NoWorker}] /\ stale' \in [Tasks -> BOOLEAN]
            BY <2>7 DEF FailAll, Unlock
        <3> QED BY <2>7, <3>1, <3>2, <3>3, <3>4, EndType DEF FailAll
    <2> QED BY <1>6, <2>1, <2>2, <2>3, <2>4, <2>5, <2>6, <2>7 DEF RunStep
<1>8. ASSUME NEW u \in adrift, Land(u) PROVE TypeOK'
    BY <1>8, MakeType DEF Land
<1>7. CASE UNCHANGED vars
    BY <1>7 DEF vars
<1> QED BY <1>1, <1>2, <1>3, <1>4, <1>5, <1>6, <1>7, <1>8 DEF Next

\* The queue's variables keep their types in every behaviour: no claim, report,
\* reset or crash writes a value its column cannot hold.
THEOREM TypeCorrect == Spec => []TypeOK
BY InitType, NextType, PTL DEF Spec

-----------------------------------------------------------------------------
(* The shape of a batch *)

\* Every step keeps each batch in a living process, its report about rows of its
\* own and its updates at its end.
LEMMA ShapeStep == TypeOK /\ BatchShape /\ [Next]_vars => BatchShape'
<1> SUFFICES ASSUME TypeOK, BatchShape, [Next]_vars PROVE BatchShape'
    OBVIOUS
<1>1. ASSUME runs' \subseteq runs, alive \subseteq alive' PROVE BatchShape'
    BY <1>1 DEF BatchShape
<1>2. ASSUME NEW w \in Workers, Load(w) PROVE BatchShape'
    <2>1. PICK n \in FreeLoads(w), S \in SUBSET {t \in Tasks : Claimable(w, t)} :
             runs' = runs \cup NewRuns(w, n, S)
        BY <1>2 DEF Load
    <2>2. \A r \in NewRuns(w, n, S) :
            r.worker = w /\ r.tasks \subseteq S /\ r.todo = {}
        BY DEF NewRuns
    <2>3. \A t \in S : TypeOf[t] \in TypesOf(w)
        BY DEF Claimable
    <2>4. w \in alive /\ alive' = alive
        BY <1>2 DEF Load
    <2> QED BY <2>1, <2>2, <2>3, <2>4 DEF BatchShape
<1>3. ASSUME NEW w \in Workers, runs' = runs \ RunsOf(w), alive' = alive \ {w} PROVE BatchShape'
    BY <1>3 DEF BatchShape, RunsOf
<1>4. ASSUME NEW r \in runs, NEW s, runs' = (runs \ {r}) \cup {s}, alive' = alive,
             s.worker = r.worker, s.tasks = r.tasks,
             \A u \in s.todo : u.tasks \subseteq r.tasks,
             s.todo # {} => s.stage \in {"reporting", "failing"}
      PROVE  BatchShape'
    BY <1>4 DEF BatchShape
<1>5. ASSUME NEW r \in runs, RunStep(r) PROVE BatchShape'
    <2>0. r \in Run /\ \A u \in r.todo : u.tasks \subseteq r.tasks
        BY DEF TypeOK, BatchShape
    <2>1. ASSUME NEW st \in Stages, NEW td,
                 runs' = (runs \ {r}) \cup {[r EXCEPT !.stage = st, !.todo = td]},
                 \A u \in td : u.tasks \subseteq r.tasks,
                 td # {} => st \in {"reporting", "failing"}, alive' = alive
          PROVE  BatchShape'
        <3> DEFINE s == [r EXCEPT !.stage = st, !.todo = td]
        <3>1. s.worker = r.worker /\ s.tasks = r.tasks /\ s.stage = st /\ s.todo = td
            BY <2>0 DEF Run
        <3>2. runs' = (runs \ {r}) \cup {s}
            BY <2>1
        <3> HIDE DEF s
        <3> QED BY <1>4, <2>1, <3>1, <3>2
    <2>2. CASE Start(r) \/ StartFails(r) \/ Throw(r)
        <3>1. r.todo = {}
            BY <2>2 DEF Start, StartFails, Throw, BatchShape
        <3>2. PICK st \in {"running", "failing"} : runs' = (runs \ {r}) \cup {[r EXCEPT !.stage = st]}
            BY <2>2 DEF Start, StartFails, Throw, Replace
        <3>3. [r EXCEPT !.stage = st] = [r EXCEPT !.stage = st, !.todo = {}]
            BY <2>0, <3>1 DEF Run
        <3>4. st \in Stages /\ alive' = alive
            BY <2>2 DEF Start, StartFails, Throw, Stages
        <3> DEFINE td == {}
        <3>5. runs' = (runs \ {r}) \cup {[r EXCEPT !.stage = st, !.todo = td]}
            BY <3>2, <3>3
        <3>6. (\A u \in td : u.tasks \subseteq r.tasks) /\ (td # {} => st \in {"reporting", "failing"})
            OBVIOUS
        <3> HIDE DEF td
        <3> QED BY <2>1, <3>4, <3>5, <3>6
    <2>3. CASE Finish(r)
        <3>1. PICK o \in Outcomes(r) :
                runs' = (runs \ {r}) \cup {[r EXCEPT !.stage = "reporting", !.todo = Report(o)]}
            BY <2>3 DEF Finish, Replace
        <3>2. \A u \in Report(o) : u.tasks \subseteq r.tasks
            BY DEF Outcomes, Report
        <3> QED BY <2>1, <2>3, <3>1, <3>2 DEF Finish, Stages
    <2>4. ASSUME NEW u \in r.todo, Write(r, u) PROVE BatchShape'
        <3>1. CASE runs' = runs \ {r}
            BY <1>1, <2>4, <3>1 DEF Write
        <3>2. CASE runs' = (runs \ {r}) \cup {[r EXCEPT !.todo = @ \ {u}]}
            <4>1. [r EXCEPT !.todo = @ \ {u}] = [r EXCEPT !.stage = r.stage, !.todo = r.todo \ {u}]
                BY <2>0 DEF Run
            <4>2. r.stage \in Stages /\ r.stage \in {"reporting", "failing"}
                BY <2>0 DEF Run, BatchShape
            <4>3. \A v \in r.todo \ {u} : v.tasks \subseteq r.tasks
                BY <2>0
            <4> QED BY <2>1, <2>4, <3>2, <4>1, <4>2, <4>3 DEF Write
        <3> QED BY <2>4, <3>1, <3>2 DEF Write, Written, Replace
    <2>5. CASE WriteLost(r)
        <3>1. PICK sent \in SUBSET r.todo :
                runs' = (runs \ {r}) \cup {[r EXCEPT !.stage = "failing", !.todo = sent]}
            BY <2>5 DEF WriteLost, Replace
        <3> QED BY <2>0, <2>1, <2>5, <3>1 DEF WriteLost, Stages
    <2>6. CASE FailAll(r)
        BY <1>3, <2>0, <2>6 DEF FailAll, End, Run
    <2> QED BY <1>5, <2>2, <2>3, <2>4, <2>5, <2>6 DEF RunStep
<1>6. ASSUME NEW w \in Workers, Crash(w) PROVE BatchShape'
    BY <1>3, <1>6 DEF Crash, End
<1>7. ASSUME NEW w \in Workers, Boot(w) PROVE BatchShape'
    BY <1>1, <1>7 DEF Boot
<1>8. CASE UNCHANGED vars \/ \E t \in Tasks : Create(t) \/ Lapse(t)
    BY <1>1, <1>8 DEF vars, Create, Lapse
<1>9. ASSUME NEW u \in adrift, Land(u) PROVE BatchShape'
    BY <1>1, <1>9 DEF Land
<1> QED BY <1>2, <1>5, <1>6, <1>7, <1>8, <1>9 DEF Next

-----------------------------------------------------------------------------
(* A guarded row is in one batch *)

\* A batch replaced by one with the same tasks that knows where the row is.
LEMMA ClaimReplace ==
    ASSUME TypeOK, NEW t \in Tasks, ClaimInv(t),
           NEW r \in runs, NEW s, s.tasks = r.tasks,
           runs' = (runs \ {r}) \cup {s}, adrift' = adrift,
           t \in r.tasks => BatchKnows(s, t)' /\ ~stale'[t],
           t \notin r.tasks =>
               /\ status'[t] = status[t] /\ lockedBy'[t] = lockedBy[t]
               /\ stale'[t] = stale[t]
    PROVE  ClaimInv(t)'
<1>1. CASE t \in r.tasks
    <2>1. \A q \in runs : t \in q.tasks => q = r
        BY <1>1 DEF ClaimInv, Overlap
    <2>2. \A q \in runs' : t \in q.tasks => q = s
        BY <2>1
    <2>3. \A u \in adrift' : t \notin u.tasks
        BY <1>1 DEF ClaimInv, Held
    <2> QED BY <1>1, <2>2, <2>3 DEF ClaimInv, Overlap
<1>2. CASE t \notin r.tasks
    <2>1. \A q \in runs' : t \in q.tasks => q \in runs
        BY <1>2
    <2>2. \A q \in runs : t \in q.tasks => BatchKnows(q, t)' /\ ~stale'[t]
        BY <1>2 DEF ClaimInv, BatchKnows, Claimed
    <2>3. t \in Held(runs)' => t \in Held(runs)
        BY <2>1 DEF Held
    <2>4. \A u \in adrift' : t \in u.tasks =>
            t \notin Held(runs)' /\ ~stale'[t] /\ status'[t] \in {"IN_PROGRESS"} \cup Settled
        BY <1>2, <2>3 DEF ClaimInv
    <2> QED BY <1>2, <2>1, <2>2, <2>4 DEF ClaimInv, Overlap
<1> QED BY <1>1, <1>2

\* Batches ended with their process, on a row left as it is or settled: what
\* remains of them are updates no batch on the row stands beside.
LEMMA ClaimEnd ==
    ASSUME TypeOK, BatchShape, NEW t \in Tasks, ClaimInv(t),
           NEW w \in Workers, End(w),
           \/ /\ status'[t] = status[t] /\ lockedBy'[t] = lockedBy[t]
              /\ stale'[t] = stale[t]
           \/ /\ status'[t] \in Settled /\ ~stale'[t]
              /\ \A q \in runs' : t \notin q.tasks
    PROVE  ClaimInv(t)'
<1>1. runs' \subseteq runs /\ \A r \in runs' : r.worker # w
    BY DEF End, RunsOf
<1>2. t \in Held(runs)' => t \in Held(runs)
    BY <1>1 DEF Held
<1>3. ASSUME NEW u \in adrift', t \in u.tasks
      PROVE  /\ t \notin Held(runs)' /\ ~stale'[t]
             /\ status'[t] \in {"IN_PROGRESS"} \cup Settled
    <2>1. CASE u \in adrift
        <3>1. t \notin Held(runs) /\ ~stale[t] /\ status[t] \in {"IN_PROGRESS"} \cup Settled
            BY <1>3, <2>1 DEF ClaimInv
        <3> QED BY <1>2, <3>1
    <2>2. CASE u \notin adrift
        <3>1. PICK r \in runs : r.worker = w /\ u \in r.todo
            BY <2>2 DEF End, RunsOf
        <3>2. t \in r.tasks /\ r.stage \in {"reporting", "failing"} /\ r.todo # {}
            BY <1>3, <3>1 DEF BatchShape
        <3>3. BatchKnows(r, t) /\ ~stale[t]
            BY <3>2 DEF ClaimInv
        <3>4. status[t] \in {"IN_PROGRESS"} \cup Settled
            BY <3>2, <3>3 DEF BatchKnows
        <3>5. \A q \in runs' : t \notin q.tasks
            BY <1>1, <3>1, <3>2 DEF ClaimInv, Overlap
        <3> QED BY <3>3, <3>4, <3>5 DEF Held
    <2> QED BY <2>1, <2>2
<1>4. \A q \in runs' : t \in q.tasks => BatchKnows(q, t)' /\ ~stale'[t]
    BY <1>1 DEF ClaimInv, BatchKnows, Claimed
<1> QED BY <1>1, <1>3, <1>4 DEF ClaimInv, Overlap

\* Within the lease, every step keeps what is known of a guarded row.
LEMMA ClaimStep ==
    TypeOK /\ BatchShape /\ ~LeaseLapses /\ [Next]_vars
        => \A t \in Guarded : ClaimInv(t) => ClaimInv(t)'
<1> SUFFICES ASSUME TypeOK, BatchShape, ~LeaseLapses, [Next]_vars,
                    NEW t \in Guarded, ClaimInv(t)
             PROVE  ClaimInv(t)'
    OBVIOUS
<1>0. t \in Tasks
    BY DEF Guarded, PayoutTasks
<1>1. CASE UNCHANGED vars
    BY <1>1 DEF vars, ClaimInv, Overlap, BatchKnows, Claimed, Held
<1>2. ASSUME NEW u \in Tasks, Create(u) PROVE ClaimInv(t)'
    BY <1>0, <1>2 DEF Create, TypeOK, ClaimInv, Overlap, BatchKnows, Claimed, Settled, Held
<1>3. ASSUME NEW u \in Tasks, Lapse(u) PROVE ClaimInv(t)'
    <2>1. CASE u = t
        <3>1. /\ \A r \in runs : t \notin r.tasks
              /\ \A v \in adrift : t \notin v.tasks
            BY <1>3, <2>1 DEF Lapse, Held
        <3> QED BY <1>3, <3>1 DEF Lapse, ClaimInv, Overlap
    <2>2. CASE u # t
        BY <1>0, <1>3, <2>2 DEF Lapse, TypeOK, ClaimInv, Overlap, BatchKnows, Claimed, Held
    <2> QED BY <2>1, <2>2
<1>4. ASSUME NEW w \in Workers, Load(w) PROVE ClaimInv(t)'
    <2>1. PICK n \in FreeLoads(w), S \in SUBSET {u \in Tasks : Claimable(w, u)} :
             /\ lockedBy' = [u \in Tasks |-> IF u \in S THEN w ELSE lockedBy[u]]
             /\ stale' = [u \in Tasks |-> IF u \in S THEN FALSE ELSE stale[u]]
             /\ runs' = runs \cup NewRuns(w, n, S)
        BY <1>4 DEF Load
    <2>2. UNCHANGED <<status, adrift>>
        BY <1>4 DEF Load
    <2>3. CASE t \notin S
        <3>1. \A r \in runs' : t \in r.tasks => r \in runs
            BY <2>1, <2>3 DEF NewRuns
        <3>2. t \in Held(runs)' => t \in Held(runs)
            BY <3>1 DEF Held
        <3>3. stale'[t] = stale[t] /\ lockedBy'[t] = lockedBy[t]
            BY <1>0, <2>1, <2>3
        <3>4. \A r \in runs' : t \in r.tasks => BatchKnows(r, t)' /\ ~stale'[t]
            BY <2>2, <3>1, <3>3 DEF ClaimInv, BatchKnows, Claimed
        <3> QED BY <2>2, <3>1, <3>2, <3>3, <3>4 DEF ClaimInv, Overlap
    <2>4. CASE t \in S
        <3>1. status[t] = "PENDING" /\ (lockedBy[t] = NoWorker \/ stale[t])
            BY <2>4 DEF Claimable
        <3>2. \A v \in adrift : t \notin v.tasks
            BY <3>1 DEF ClaimInv, Settled
        <3>3. \A r \in runs : t \notin r.tasks
            BY <3>1 DEF ClaimInv, BatchKnows, Claimed, TypeOK, Run, Stages, Settled
        <3>4. \A r \in NewRuns(w, n, S) : t \in r.tasks =>
                /\ r = [worker |-> w, load |-> n, type |-> TypeOf[t],
                        tasks |-> {u \in S : TypeOf[u] = TypeOf[t]},
                        stage |-> "claimed", todo |-> {}]
                /\ r.stage = "claimed"
            BY DEF NewRuns
        <3>5. Claimed(t)'
            BY <1>0, <2>1, <2>2, <2>4, <3>1, WorkersAssumption DEF Claimed
        <3>6. \A r \in runs' : t \in r.tasks => BatchKnows(r, t)' /\ ~stale'[t]
            BY <2>1, <3>3, <3>4, <3>5 DEF BatchKnows, Claimed
        <3>7. ~Overlap(t)'
            BY <2>1, <3>3, <3>4 DEF Overlap
        <3> QED BY <2>2, <3>2, <3>6, <3>7 DEF ClaimInv
    <2> QED BY <2>3, <2>4
<1>5. ASSUME NEW w \in Workers, Crash(w) PROVE ClaimInv(t)'
    BY <1>0, <1>5, ClaimEnd DEF Crash
<1>6. ASSUME NEW w \in Workers, Boot(w) PROVE ClaimInv(t)'
    <2>1. CASE t \in ResetRows /\ w \in GeneralWorkers
        <3>1. TypeOf[t] # PayoutType /\ t \notin PayoutTasks
            BY <2>1 DEF ResetRows, PayoutTasks
        <3>2. \A v \in GeneralWorkers : v = w
            BY <2>1, <3>1 DEF Guarded
        <3>3. \A r \in runs : t \in r.tasks => r.worker = w
            BY <3>1, <3>2 DEF BatchShape, TypeOK, Run, TypesOf, Workers
        <3>4. \A r \in runs' : t \notin r.tasks
            BY <1>6, <3>3 DEF BatchShape, Boot
        <3>5. \A u \in adrift' : t \notin u.tasks
            BY <1>6, <2>1 DEF Boot, ResetRows, ClaimInv, Settled
        <3> QED BY <3>4, <3>5 DEF ClaimInv, Overlap
    <2>2. CASE ~(t \in ResetRows /\ w \in GeneralWorkers)
        <3>1. /\ status'[t] = status[t] /\ lockedBy'[t] = lockedBy[t]
              /\ stale'[t] = stale[t]
            BY <1>0, <1>6, <2>2 DEF Boot, SetStatus, Unlock
        <3> QED BY <1>6, <3>1 DEF Boot, ClaimInv, Overlap, BatchKnows, Claimed, Held
    <2> QED BY <2>1, <2>2
<1>7. ASSUME NEW r \in runs, RunStep(r) PROVE ClaimInv(t)'
    <2>0. r \in Run /\ (t \in r.tasks => BatchKnows(r, t) /\ ~stale[t])
        BY DEF TypeOK, ClaimInv
    <2>1. CASE Start(r)
        <3> DEFINE s == [r EXCEPT !.stage = "running"]
        <3>1. s.tasks = r.tasks /\ s.stage = "running"
            BY <2>0 DEF Run
        <3>2. runs' = (runs \ {r}) \cup {s}
            BY <2>1 DEF Start, Replace
        <3>3. status'[t] = IF t \in r.tasks THEN "IN_PROGRESS" ELSE status[t]
            BY <1>0, <2>1 DEF Start, SetStatus
        <3>4. UNCHANGED <<lockedBy, stale, adrift>>
            BY <2>1 DEF Start
        <3>7. t \in r.tasks => BatchKnows(s, t)'
            BY <3>1, <3>3 DEF BatchKnows
        <3> HIDE DEF s
        <3> QED BY <1>0, <2>0, <3>1, <3>2, <3>3, <3>4, <3>7, ClaimReplace
    <2>2. CASE StartFails(r)
        <3> DEFINE s == [r EXCEPT !.stage = "failing"]
        <3>1. s.tasks = r.tasks /\ s.stage = "failing" /\ s.todo = {}
            BY <2>0, <2>2 DEF Run, StartFails, BatchShape
        <3>2. runs' = (runs \ {r}) \cup {s} /\ UNCHANGED <<lockedBy, stale, adrift>>
            BY <2>2 DEF StartFails, Replace
        <3>3. status'[t] = status[t] \/ (t \in r.tasks /\ status'[t] = "IN_PROGRESS")
            BY <1>0, <2>2 DEF StartFails, SetStatus
        <3>4. t \in r.tasks => BatchKnows(s, t)'
            BY <2>0, <2>2, <3>1, <3>2, <3>3 DEF BatchKnows, Claimed, StartFails
        <3> HIDE DEF s
        <3> QED BY <1>0, <2>0, <3>1, <3>2, <3>3, <3>4, ClaimReplace
    <2>3. CASE Finish(r)
        <3>1. PICK o \in Outcomes(r) :
                runs' = (runs \ {r}) \cup {[r EXCEPT !.stage = "reporting", !.todo = Report(o)]}
            BY <2>3 DEF Finish, Replace
        <3> DEFINE s == [r EXCEPT !.stage = "reporting", !.todo = Report(o)]
        <3>2. s.tasks = r.tasks /\ s.stage = "reporting"
            BY <2>0 DEF Run
        <3>3. UNCHANGED <<status, lockedBy, stale, adrift>>
            BY <2>3 DEF Finish
        <3>4. t \in r.tasks => status[t] = "IN_PROGRESS"
            BY <2>0, <2>3 DEF BatchKnows, Finish
        <3>7. t \in r.tasks => BatchKnows(s, t)'
            BY <3>2, <3>3, <3>4 DEF BatchKnows
        <3>10. runs' = (runs \ {r}) \cup {s}
            BY <3>1
        <3> HIDE DEF s
        <3> QED BY <1>0, <2>0, <3>10, <3>2, <3>3, <3>7, ClaimReplace
    <2>4. CASE Throw(r)
        <3> DEFINE s == [r EXCEPT !.stage = "failing"]
        <3>1. s.tasks = r.tasks /\ s.stage = "failing"
            BY <2>0 DEF Run
        <3>2. runs' = (runs \ {r}) \cup {s} /\ UNCHANGED <<status, lockedBy, stale, adrift>>
            BY <2>4 DEF Throw, Replace
        <3>3. t \in r.tasks => status[t] = "IN_PROGRESS"
            BY <2>0, <2>4 DEF BatchKnows, Throw
        <3>7. t \in r.tasks => BatchKnows(s, t)'
            BY <3>1, <3>2, <3>3 DEF BatchKnows
        <3> HIDE DEF s
        <3> QED BY <1>0, <2>0, <3>1, <3>2, <3>7, ClaimReplace
    <2>5. CASE WriteLost(r)
        <3>1. PICK sent \in SUBSET r.todo :
                runs' = (runs \ {r}) \cup {[r EXCEPT !.stage = "failing", !.todo = sent]}
            BY <2>5 DEF WriteLost, Replace
        <3> DEFINE s == [r EXCEPT !.stage = "failing", !.todo = sent]
        <3>2. s.tasks = r.tasks /\ s.stage = "failing"
            BY <2>0 DEF Run
        <3>3. runs' = (runs \ {r}) \cup {s} /\ UNCHANGED <<status, lockedBy, stale, adrift>>
            BY <2>5, <3>1 DEF WriteLost
        <3>4. t \in r.tasks => BatchKnows(s, t)'
            BY <2>0, <2>5, <3>2, <3>3 DEF BatchKnows, WriteLost
        <3> HIDE DEF s
        <3> QED BY <1>0, <2>0, <3>2, <3>3, <3>4, ClaimReplace
    <2>6. ASSUME NEW u \in r.todo, Write(r, u) PROVE ClaimInv(t)'
        <3>1. r.stage \in {"reporting", "failing"} /\ u.tasks \subseteq r.tasks
            BY <2>6 DEF BatchShape
        <3>2. u \in Update
            BY <2>0 DEF Run
        <3>3. /\ status'[t] = (IF t \in u.tasks THEN u.to ELSE status[t])
              /\ t \in u.tasks => ~stale'[t]
              /\ t \notin u.tasks => lockedBy'[t] = lockedBy[t] /\ stale'[t] = stale[t]
            BY <1>0, <2>6 DEF Write, Make, SetStatus, Unlock
        <3>4. u.to \in Settled /\ adrift' = adrift
            BY <2>6, <3>2 DEF Update, Write
        <3>5. CASE runs' = runs \ {r}
            <4>1. CASE t \in r.tasks
                <5>1. \A q \in runs' : t \notin q.tasks
                    BY <3>5, <4>1 DEF ClaimInv, Overlap
                <5>2. \A v \in adrift' : t \notin v.tasks
                    BY <3>4, <4>1 DEF ClaimInv, Held
                <5> QED BY <5>1, <5>2 DEF ClaimInv, Overlap
            <4>2. CASE t \notin r.tasks
                <5>1. status'[t] = status[t] /\ lockedBy'[t] = lockedBy[t] /\ stale'[t] = stale[t]
                    BY <3>1, <3>3, <4>2
                <5> QED BY <3>4, <3>5, <5>1 DEF ClaimInv, Overlap, BatchKnows, Claimed, Held
            <4> QED BY <4>1, <4>2
        <3>6. CASE runs' = (runs \ {r}) \cup {[r EXCEPT !.todo = @ \ {u}]}
            <4> DEFINE s == [r EXCEPT !.todo = @ \ {u}]
            <4>1. s.tasks = r.tasks /\ s.stage = r.stage
                BY <2>0 DEF Run
            <4>2. runs' = (runs \ {r}) \cup {s}
                BY <3>6
            <4>3. t \in r.tasks => status[t] \in {"IN_PROGRESS"} \cup Settled
                BY <2>0, <2>6, <3>1 DEF BatchKnows
            <4>4. t \in r.tasks => BatchKnows(s, t)' /\ ~stale'[t]
                BY <2>0, <3>1, <3>3, <3>4, <4>1, <4>3 DEF BatchKnows
            <4> HIDE DEF s
            <4> QED BY <1>0, <3>1, <3>3, <3>4, <4>1, <4>2, <4>4, ClaimReplace
        <3> QED BY <2>6, <3>5, <3>6 DEF Write, Written, Replace
    <2>7. CASE FailAll(r)
        <3>1. r.worker \in Workers
            BY <2>0 DEF Run
        <3>2. /\ status'[t] = (IF t \in r.tasks THEN "FAILED" ELSE status[t])
              /\ t \in r.tasks => ~stale'[t]
              /\ t \notin r.tasks => lockedBy'[t] = lockedBy[t] /\ stale'[t] = stale[t]
            BY <1>0, <2>7 DEF FailAll, SetStatus, Unlock
        <3>3. t \in r.tasks => \A q \in runs' : t \notin q.tasks
            BY <2>7 DEF FailAll, End, RunsOf, ClaimInv, Overlap
        <3>4. End(r.worker) /\ "FAILED" \in Settled
            BY <2>7 DEF FailAll, Settled
        <3> QED BY <1>0, <3>1, <3>2, <3>3, <3>4, ClaimEnd
    <2> QED BY <1>7, <2>1, <2>2, <2>3, <2>4, <2>5, <2>6, <2>7 DEF RunStep
<1>8. ASSUME NEW u \in adrift, Land(u) PROVE ClaimInv(t)'
    <2>1. CASE t \in u.tasks
        <3>1. status'[t] \in Settled /\ ~stale'[t]
            BY <1>0, <1>8, <2>1 DEF Land, Make, SetStatus, Unlock, TypeOK, Update
        <3>2. t \notin Held(runs)'
            BY <1>8, <2>1 DEF Land, ClaimInv, Held
        <3> QED BY <3>1, <3>2 DEF ClaimInv, Overlap, Held
    <2>2. CASE t \notin u.tasks
        <3>1. status'[t] = status[t] /\ lockedBy'[t] = lockedBy[t] /\ stale'[t] = stale[t]
            BY <1>0, <1>8, <2>2 DEF Land, Make, SetStatus, Unlock
        <3> QED BY <1>8, <3>1 DEF Land, ClaimInv, Overlap, BatchKnows, Claimed, Held
    <2> QED BY <2>1, <2>2
<1> QED BY <1>1, <1>2, <1>3, <1>4, <1>5, <1>6, <1>7, <1>8 DEF Next

\* Claims exclude each other as long as no batch outlives its lease: the
\* inductive invariant of the guarded rows, whatever crashes and restarts.
THEOREM ClaimInductive == Spec => []ClaimIInv
<1>1. Init => ClaimIInv
    BY DEF Init, ClaimIInv, BatchShape, ClaimInv, Overlap
<1>2. TypeOK /\ ClaimIInv /\ [Next]_vars => ClaimIInv'
    <2>1. CASE LeaseLapses
        BY <2>1, ShapeStep DEF ClaimIInv
    <2>2. CASE ~LeaseLapses
        BY <2>2, ShapeStep, ClaimStep DEF ClaimIInv
    <2> QED BY <2>1, <2>2
<1> QED BY <1>1, <1>2, TypeCorrect, PTL DEF Spec

\* For any number of rows, processes, restarts and crashes, no second batch
\* gets a guarded row while the first still holds it, unless a lease runs out.
THEOREM ExclusiveClaimAlways == Spec => []ExclusiveClaim
<1>1. ClaimIInv => ExclusiveClaim
    BY DEF ClaimIInv, ClaimInv, ExclusiveClaim
<1> QED BY <1>1, ClaimInductive, PTL

\* A settled guarded row never returns to the queue within the lease: only a
\* mark or a reset rewrites a status, and neither finds a settled row.
THEOREM SettledForGood == Spec => SettledStaysSettled
<1>1. ASSUME TypeOK, ClaimIInv, [Next]_vars, ~LeaseLapses,
             NEW t \in Guarded, status[t] \in Settled
      PROVE  status'[t] \in Settled
    <2>0. t \in Tasks /\ ClaimInv(t)
        BY <1>1 DEF Guarded, PayoutTasks, ClaimIInv
    <2>1. CASE status'[t] = status[t]
        BY <1>1, <2>1
    <2>2. ASSUME NEW u \in Tasks, Create(u) PROVE status'[t] = status[t]
        BY <1>1, <2>0, <2>2 DEF Create, TypeOK, Settled
    <2>3. ASSUME NEW w \in Workers, Boot(w) PROVE status'[t] = status[t]
        <3>1. t \notin ResetRows
            BY <1>1 DEF ResetRows, Settled
        <3> QED BY <2>0, <2>3, <3>1 DEF Boot, SetStatus
    <2>4. ASSUME NEW r \in runs, RunStep(r) PROVE status'[t] \in Settled
        <3>1. CASE Start(r) \/ StartFails(r)
            <4>1. t \notin r.tasks
                BY <1>1, <2>0, <3>1 DEF Start, StartFails, ClaimInv, BatchKnows, Claimed, Settled
            <4> QED BY <1>1, <2>0, <3>1, <4>1 DEF Start, StartFails, SetStatus
        <3>2. CASE FailAll(r)
            BY <1>1, <2>0, <3>2 DEF FailAll, SetStatus, Settled
        <3>3. ASSUME NEW u \in r.todo, Write(r, u) PROVE status'[t] \in Settled
            <4>1. u \in Update
                BY <1>1 DEF TypeOK, Run
            <4> QED BY <1>1, <2>0, <3>3, <4>1 DEF Write, Make, SetStatus, Update
        <3>4. CASE Finish(r) \/ Throw(r) \/ WriteLost(r)
            BY <2>1, <3>4 DEF Finish, Throw, WriteLost
        <3> QED BY <2>4, <3>1, <3>2, <3>3, <3>4 DEF RunStep
    <2>5. ASSUME NEW u \in adrift, Land(u) PROVE status'[t] \in Settled
        BY <1>1, <2>0, <2>5 DEF Land, Make, SetStatus, TypeOK, Update
    <2> QED BY <1>1, <2>1, <2>2, <2>3, <2>4, <2>5
            DEF Next, vars, Lapse, Load, Crash
<1>2. TypeOK /\ ClaimIInv /\ [Next]_vars
        => (~LeaseLapses =>
              \A t \in Guarded : status[t] \in Settled => status'[t] \in Settled)
    BY <1>1
<1> QED BY <1>2, ClaimInductive, TypeCorrect, PTL DEF Spec, SettledStaysSettled

-----------------------------------------------------------------------------
(* A payout row is handled at most once *)

\* Within the lease, every step keeps what is known of a payout row's commits.
LEMMA PayoutStep ==
    TypeOK /\ BatchShape /\ ~LeaseLapses /\ [Next]_vars
        => \A t \in PayoutTasks : ClaimInv(t) /\ PayoutInv(t) => PayoutInv(t)'
<1> SUFFICES ASSUME TypeOK, BatchShape, ~LeaseLapses, [Next]_vars,
                    NEW t \in PayoutTasks, ClaimInv(t), PayoutInv(t)
             PROVE  PayoutInv(t)'
    OBVIOUS
<1>0. t \in Tasks /\ TypeOf[t] = PayoutType
    BY DEF PayoutTasks
<1>1. ASSUME handled'[t] = handled[t],
             status'[t] \in {"NONE", "PENDING"} => status[t] \in {"NONE", "PENDING"},
             \A q \in runs' : t \in q.tasks /\ q.stage = "running" => q \in runs
      PROVE  PayoutInv(t)'
    BY <1>1 DEF PayoutInv
<1>2. CASE UNCHANGED vars
    BY <1>1, <1>2 DEF vars
<1>3. ASSUME NEW u \in Tasks, Create(u) \/ Lapse(u) PROVE PayoutInv(t)'
    BY <1>0, <1>1, <1>3 DEF Create, Lapse, TypeOK
<1>4. ASSUME NEW w \in Workers, Load(w) PROVE PayoutInv(t)'
    <2>1. PICK n \in FreeLoads(w), S \in SUBSET {u \in Tasks : Claimable(w, u)} :
             runs' = runs \cup NewRuns(w, n, S)
        BY <1>4 DEF Load
    <2>2. \A q \in NewRuns(w, n, S) : q.stage = "claimed"
        BY DEF NewRuns
    <2> QED BY <1>1, <1>4, <2>1, <2>2 DEF Load
<1>5. ASSUME NEW w \in Workers, Crash(w) PROVE PayoutInv(t)'
    BY <1>1, <1>5 DEF Crash, End
<1>6. ASSUME NEW w \in Workers, Boot(w) PROVE PayoutInv(t)'
    <2>1. t \notin ResetRows
        BY <1>0 DEF ResetRows
    <2> QED BY <1>0, <1>1, <1>6, <2>1 DEF Boot, SetStatus
<1>7. ASSUME NEW r \in runs, RunStep(r) PROVE PayoutInv(t)'
    <2>0. r \in Run /\ (t \in r.tasks => BatchKnows(r, t))
        BY DEF TypeOK, ClaimInv
    <2>1. ASSUME NEW s, runs' = (runs \ {r}) \cup {s}, s.stage # "running"
          PROVE  \A q \in runs' : q.stage = "running" => q \in runs
        BY <2>1
    <2>2. CASE Start(r)
        <3> DEFINE s == [r EXCEPT !.stage = "running"]
        <3>1. runs' = (runs \ {r}) \cup {s}
            BY <2>2 DEF Start, Replace
        <3>2. s.tasks = r.tasks
            BY <2>0 DEF Run
        <3>3. t \in r.tasks => handled[t] = 0
            BY <2>0, <2>2 DEF Start, BatchKnows, Claimed, PayoutInv
        <3>4. handled' = handled /\ (status'[t] = status[t] \/ status'[t] = "IN_PROGRESS")
            BY <1>0, <2>2 DEF Start, SetStatus
        <3>5. \A q \in runs' : t \in q.tasks => q \in runs \/ handled[t] = 0
            BY <3>1, <3>2, <3>3
        <3> HIDE DEF s
        <3>6. \A q \in runs' : t \in q.tasks /\ q.stage = "running" => handled'[t] = 0
            BY <3>4, <3>5 DEF PayoutInv
        <3> QED BY <3>4, <3>6 DEF PayoutInv
    <2>3. CASE StartFails(r) \/ WriteLost(r) \/ Throw(r)
        <3>1. \E s : runs' = (runs \ {r}) \cup {s} /\ s.stage = "failing"
            <4>1. CASE StartFails(r) \/ Throw(r)
                <5>1. [r EXCEPT !.stage = "failing"].stage = "failing"
                    BY <2>0 DEF Run
                <5> QED BY <4>1, <5>1 DEF StartFails, Throw, Replace
            <4>2. CASE WriteLost(r)
                <5>1. \A w : [r EXCEPT !.stage = "failing", !.todo = w].stage = "failing"
                    BY <2>0 DEF Run
                <5> QED BY <4>2, <5>1 DEF WriteLost, Replace
            <4> QED BY <2>3, <4>1, <4>2
        <3>2. handled' = handled /\ (status'[t] = status[t] \/ status'[t] = "IN_PROGRESS")
            BY <1>0, <2>3 DEF StartFails, WriteLost, Throw, SetStatus
        <3>3. \A q \in runs' : t \in q.tasks /\ q.stage = "running" => q \in runs
            BY <2>1, <3>1
        <3> QED BY <1>1, <3>2, <3>3
    <2>4. CASE Finish(r)
        <3>1. \E s : runs' = (runs \ {r}) \cup {s} /\ s.stage # "running"
            <4>1. PICK o \in Outcomes(r) :
                    runs' = (runs \ {r}) \cup {[r EXCEPT !.stage = "reporting", !.todo = Report(o)]}
                BY <2>4 DEF Finish, Replace
            <4>2. [r EXCEPT !.stage = "reporting", !.todo = Report(o)].stage = "reporting"
                BY <2>0 DEF Run
            <4> QED BY <4>1, <4>2
        <3>2. status' = status /\ \A q \in runs' : q.stage = "running" => q \in runs \ {r}
            BY <2>1, <2>4, <3>1 DEF Finish
        <3>3. CASE t \notin r.tasks
            <4>1. handled'[t] = handled[t]
                BY <2>4, <3>3 DEF Finish, Handle
            <4>2. \A q \in runs' : t \in q.tasks /\ q.stage = "running" => q \in runs
                BY <3>2
            <4> QED BY <1>1, <3>2, <4>1, <4>2
        <3>4. CASE t \in r.tasks
            <4>1. status[t] = "IN_PROGRESS" /\ handled[t] = 0
                BY <2>0, <2>4, <3>4 DEF Finish, BatchKnows, PayoutInv
            <4>2. handled'[t] \in {0, 1}
                BY <2>4, <3>4, <4>1 DEF Finish, Handle
            <4>3. \A q \in runs \ {r} : t \notin q.tasks
                BY <3>4 DEF ClaimInv, Overlap
            <4> QED BY <3>2, <4>1, <4>2, <4>3 DEF PayoutInv
        <3> QED BY <3>3, <3>4
    <2>5. ASSUME NEW u \in r.todo, Write(r, u) PROVE PayoutInv(t)'
        <3>1. \A q \in runs' : q.stage = "running" => q \in runs
            <4>1. r.stage # "running"
                BY <2>5 DEF BatchShape
            <4>2. [r EXCEPT !.todo = @ \ {u}].stage = r.stage
                BY <2>0 DEF Run
            <4> QED BY <2>5, <4>1, <4>2 DEF Write, Written, Replace
        <3>2. u \in Update
            BY <2>0 DEF Run
        <3>3. status'[t] \in {"NONE", "PENDING"} => status[t] \in {"NONE", "PENDING"}
            BY <1>0, <2>5, <3>2 DEF Write, Make, SetStatus, Update, Settled
        <3> QED BY <1>1, <2>5, <3>1, <3>3 DEF Write
    <2>6. CASE FailAll(r)
        BY <1>0, <1>1, <2>6 DEF FailAll, End, SetStatus
    <2> QED BY <1>7, <2>2, <2>3, <2>4, <2>5, <2>6 DEF RunStep
<1>8. ASSUME NEW u \in adrift, Land(u) PROVE PayoutInv(t)'
    <2>1. status'[t] \in {"NONE", "PENDING"} => status[t] \in {"NONE", "PENDING"}
        BY <1>0, <1>8 DEF Land, Make, SetStatus, TypeOK, Update, Settled
    <2> QED BY <1>1, <1>8, <2>1 DEF Land
<1> QED BY <1>2, <1>3, <1>4, <1>5, <1>6, <1>7, <1>8 DEF Next

\* Claim, mark, commit and report of a payout row follow each other once, as
\* long as no batch outlives its lease: the inductive invariant of the queue.
THEOREM PayoutInductive == Spec => []PayoutIInv
<1>1. Init => PayoutIInv
    BY DEF Init, PayoutIInv, ClaimIInv, BatchShape, ClaimInv, PayoutInv, Overlap, PayoutTasks
<1>2. \A t \in PayoutTasks : t \in Guarded
    BY DEF Guarded, PayoutTasks
<1>3. TypeOK /\ PayoutIInv /\ [Next]_vars => PayoutIInv'
    <2>1. CASE LeaseLapses
        BY <2>1, ShapeStep DEF PayoutIInv, ClaimIInv
    <2>2. CASE ~LeaseLapses
        BY <1>2, <2>2, ShapeStep, ClaimStep, PayoutStep DEF PayoutIInv, ClaimIInv
    <2> QED BY <2>1, <2>2
<1> QED BY <1>1, <1>3, TypeCorrect, PTL DEF Spec

\* For any number of processes, restarts and crashes, a payout's handler
\* commits at most once unless a batch outlives its two-minute lease.
THEOREM PayoutAtMostOnce == Spec => []PayoutHandledOnce
<1>1. PayoutIInv => PayoutHandledOnce
    BY DEF PayoutIInv, PayoutInv, PayoutHandledOnce
<1> QED BY <1>1, PayoutInductive, PTL

-----------------------------------------------------------------------------
(* A row in progress has a batch or was given up *)

\* Every step that leaves a row alone, and replaces no batch that answers for
\* it but by one that does, keeps it answered for.
LEMMA AnsweredKept ==
    ASSUME NEW t \in Tasks, AnsweredIInv,
           status'[t] = "IN_PROGRESS" /\ t \notin left' =>
               /\ status[t] = "IN_PROGRESS" /\ t \notin left
               /\ \A r \in runs : Answers(r, t) => \E s \in runs' : Answers(s, t)'
    PROVE  status'[t] = "IN_PROGRESS" /\ t \notin left' => \E s \in runs' : Answers(s, t)'
BY DEF AnsweredIInv

\* Every step keeps each row in progress answered for.
LEMMA AnsweredStep == TypeOK /\ BatchShape /\ AnsweredIInv /\ [Next]_vars => AnsweredIInv'
<1> SUFFICES ASSUME TypeOK, BatchShape, AnsweredIInv, [Next]_vars, NEW t \in Tasks
             PROVE  status'[t] = "IN_PROGRESS" /\ t \notin left'
                        => \E s \in runs' : Answers(s, t)'
    BY DEF AnsweredIInv
<1> DEFINE Goal == status'[t] = "IN_PROGRESS" /\ t \notin left'
                        => \E s \in runs' : Answers(s, t)'
<1>0. \A r : Answers(r, t)' <=> Answers(r, t)
    BY DEF Answers
<1>1. ASSUME runs \subseteq runs', left \subseteq left',
             status'[t] = "IN_PROGRESS" => status[t] = "IN_PROGRESS"
      PROVE  Goal
    BY <1>0, <1>1, AnsweredKept
<1>2. ASSUME NEW u \in Tasks, Create(u) \/ Lapse(u) PROVE Goal
    BY <1>1, <1>2 DEF Create, Lapse, TypeOK
<1>3. ASSUME NEW w \in Workers, Load(w) PROVE Goal
    BY <1>1, <1>3 DEF Load
<1>4. ASSUME NEW w \in Workers, Boot(w) PROVE Goal
    BY <1>1, <1>4 DEF Boot, SetStatus
<1>5. ASSUME NEW w \in Workers, Crash(w) PROVE Goal
    <2>1. ASSUME status[t] = "IN_PROGRESS", t \notin left' PROVE t \notin Held(RunsOf(w))
        BY <1>5, <2>1 DEF Crash, Unsettled
    <2>2. \A r \in runs : Answers(r, t) /\ t \notin Held(RunsOf(w)) => r \in runs'
        BY <1>5 DEF Crash, End, Held, Answers
    <2> QED BY <1>0, <1>5, <2>1, <2>2, AnsweredKept DEF Crash
<1>6. CASE UNCHANGED vars
    BY <1>1, <1>6 DEF vars
<1>7. ASSUME NEW u \in adrift, Land(u) PROVE Goal
    <2>1. status'[t] = "IN_PROGRESS" => status[t] = "IN_PROGRESS"
        BY <1>7 DEF Land, Make, SetStatus, TypeOK, Update, Settled
    <2> QED BY <1>1, <1>7, <2>1 DEF Land
<1>8. ASSUME NEW r \in runs, RunStep(r) PROVE Goal
    <2>0. r \in Run /\ r.stage \in Stages
        BY DEF TypeOK, Run
    <2>1. ASSUME NEW s, runs' = (runs \ {r}) \cup {s},
                 left \subseteq left' \/ Answers(s, t),
                 status'[t] = "IN_PROGRESS" => status[t] = "IN_PROGRESS" \/ Answers(s, t),
                 status'[t] = "IN_PROGRESS" /\ t \notin left' /\ Answers(r, t)
                    => Answers(s, t)
          PROVE  Goal
        <3>1. CASE Answers(s, t)
            BY <1>0, <2>1, <3>1
        <3>2. CASE ~Answers(s, t)
            <4>1. ASSUME status'[t] = "IN_PROGRESS", t \notin left', NEW q \in runs, Answers(q, t)
                  PROVE  \E v \in runs' : Answers(v, t)'
                BY <1>0, <2>1, <3>2, <4>1
            <4> QED BY <2>1, <3>2, <4>1, AnsweredKept
        <3> QED BY <3>1, <3>2
    <2>2. CASE Start(r)
        <3> DEFINE s == [r EXCEPT !.stage = "running"]
        <3>1. s.tasks = r.tasks /\ s.stage = "running"
            BY <2>0 DEF Run
        <3>2. runs' = (runs \ {r}) \cup {s}
            BY <2>2 DEF Start, Replace
        <3>3. t \in r.tasks <=> Answers(s, t)
            BY <3>1 DEF Answers
        <3>4. ~Answers(r, t)
            BY <2>2 DEF Start, Answers
        <3> HIDE DEF s
        <3>5. CASE t \in r.tasks
            BY <1>0, <3>2, <3>3, <3>5
        <3>6. CASE t \notin r.tasks
            <4>1. status'[t] = status[t] /\ (t \in left <=> t \in left')
                BY <2>2, <3>6 DEF Start, SetStatus
            <4> QED BY <1>0, <3>2, <3>4, <4>1, AnsweredKept
        <3> QED BY <3>5, <3>6
    <2>3. CASE StartFails(r) \/ Throw(r) \/ WriteLost(r)
        <3>1. PICK s : runs' = (runs \ {r}) \cup {s} /\ s.stage = "failing" /\ s.tasks = r.tasks
            <4>1. CASE StartFails(r) \/ Throw(r)
                <5>1. /\ [r EXCEPT !.stage = "failing"].stage = "failing"
                      /\ [r EXCEPT !.stage = "failing"].tasks = r.tasks
                    BY <2>0 DEF Run
                <5> QED BY <4>1, <5>1 DEF StartFails, Throw, Replace
            <4>2. CASE WriteLost(r)
                <5>1. \A w : /\ [r EXCEPT !.stage = "failing", !.todo = w].stage = "failing"
                             /\ [r EXCEPT !.stage = "failing", !.todo = w].tasks = r.tasks
                    BY <2>0 DEF Run
                <5> QED BY <4>2, <5>1 DEF WriteLost, Replace
            <4> QED BY <2>3, <4>1, <4>2
        <3>2. t \in r.tasks => Answers(s, t)
            BY <3>1 DEF Answers
        <3>3. left' = left /\ (t \notin r.tasks => status'[t] = status[t])
            BY <2>3 DEF StartFails, Throw, WriteLost, SetStatus
        <3> QED BY <2>1, <3>1, <3>2, <3>3 DEF Answers
    <2>4. CASE Finish(r)
        <3>1. PICK o \in Outcomes(r) :
                /\ runs' = (runs \ {r}) \cup {[r EXCEPT !.stage = "reporting", !.todo = Report(o)]}
                /\ left' = left \cup Unsettled(r.tasks \ (o.ok \cup o.bad))
            BY <2>4 DEF Finish, Replace
        <3> DEFINE s == [r EXCEPT !.stage = "reporting", !.todo = Report(o)]
        <3>2. s.tasks = r.tasks /\ s.stage = "reporting" /\ s.todo = Report(o)
            BY <2>0 DEF Run
        <3>3. runs' = (runs \ {r}) \cup {s} /\ left \subseteq left' /\ status' = status
            BY <2>4, <3>1 DEF Finish
        <3>4. t \in r.tasks /\ t \in o.ok \cup o.bad => Answers(s, t)
            <4>1. /\ [tasks |-> o.ok, to |-> "COMPLETED"] \in s.todo
                  /\ [tasks |-> o.bad, to |-> "FAILED"] \in s.todo
                BY <3>2 DEF Report
            <4> HIDE DEF s
            <4> QED BY <3>2, <4>1 DEF Answers
        <3>5. t \in r.tasks /\ status[t] = "IN_PROGRESS" /\ t \notin left' => t \in o.ok \cup o.bad
            BY <3>1 DEF Unsettled
        <3> HIDE DEF s
        <3> QED BY <2>1, <3>3, <3>4, <3>5 DEF Answers
    <2>5. ASSUME NEW u \in r.todo, Write(r, u) PROVE Goal
        <3>1. u \in Update /\ r.stage \in {"reporting", "failing"}
            BY <2>0 DEF Run, BatchShape
        <3>2. t \in u.tasks => status'[t] # "IN_PROGRESS"
            BY <2>5, <3>1 DEF Write, Make, SetStatus, Update, Settled
        <3>3. t \notin u.tasks => status'[t] = status[t]
            BY <2>5 DEF Write, Make, SetStatus
        <3>4. left' = left
            BY <2>5 DEF Write
        <3>5. CASE t \in u.tasks
            BY <3>2, <3>5
        <3>6. CASE t \notin u.tasks /\ r.stage = "reporting" /\ r.todo = {u}
            <4>1. runs' = runs \ {r}
                BY <2>5, <3>6 DEF Write, Written
            <4>2. ~Answers(r, t)
                BY <3>6 DEF Answers
            <4> QED BY <1>0, <3>3, <3>4, <3>6, <4>1, <4>2, AnsweredKept
        <3>7. CASE t \notin u.tasks /\ ~(r.stage = "reporting" /\ r.todo = {u})
            <4> DEFINE s == [r EXCEPT !.todo = @ \ {u}]
            <4>1. s.tasks = r.tasks /\ s.stage = r.stage /\ s.todo = r.todo \ {u}
                BY <2>0 DEF Run
            <4>2. runs' = (runs \ {r}) \cup {s}
                BY <2>5, <3>7 DEF Write, Written, Replace
            <4>3. Answers(r, t) => Answers(s, t)
                BY <3>7, <4>1 DEF Answers
            <4> HIDE DEF s
            <4> QED BY <2>1, <3>3, <3>4, <3>7, <4>2, <4>3
        <3> QED BY <3>5, <3>6, <3>7
    <2>6. CASE FailAll(r)
        <3>1. CASE t \in r.tasks
            BY <2>6, <3>1 DEF FailAll, SetStatus
        <3>2. CASE t \notin r.tasks
            <4>1. status'[t] = status[t]
                BY <2>6, <3>2 DEF FailAll, SetStatus
            <4>2. ASSUME status[t] = "IN_PROGRESS", t \notin left'
                  PROVE  t \notin left /\ t \notin Held(RunsOf(r.worker) \ {r})
                BY <2>6, <4>2 DEF FailAll, Unsettled
            <4>3. \A q \in runs : Answers(q, t) /\ t \notin Held(RunsOf(r.worker) \ {r})
                        => q \in runs'
                BY <2>6, <3>2 DEF FailAll, End, Held, Answers
            <4> QED BY <1>0, <4>1, <4>2, <4>3, AnsweredKept
        <3> QED BY <3>1, <3>2
    <2> QED BY <1>8, <2>2, <2>3, <2>4, <2>5, <2>6 DEF RunStep
<1> QED BY <1>2, <1>3, <1>4, <1>5, <1>6, <1>7, <1>8 DEF Next

\* A row stays IN_PROGRESS with no batch on it only when its handler reported
\* nothing of it or its process died: a rejected update of a report loses no
\* row, for any overlaps, lapses, deaths and resets.
THEOREM InProgressWorked == Spec => []InProgressIsWorked
<1>1. Init => BatchShape /\ AnsweredIInv
    BY DEF Init, BatchShape, AnsweredIInv
<1>2. TypeOK /\ (BatchShape /\ AnsweredIInv) /\ [Next]_vars
        => (BatchShape /\ AnsweredIInv)'
    BY ShapeStep, AnsweredStep
<1>3. AnsweredIInv => InProgressIsWorked
    BY DEF AnsweredIInv, InProgressIsWorked, Answers, Held
<1> QED BY <1>1, <1>2, <1>3, TypeCorrect, PTL DEF Spec

=============================================================================
