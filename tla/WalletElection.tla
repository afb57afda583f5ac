--------------------------- MODULE WalletElection ---------------------------
(***************************************************************************)
(* executeUpdateWalletWithLock of the call-provider worker: which process  *)
(* refreshes the wallets, decided over two cache keys without an atomic    *)
(* operation.  A process whose timer fires reads the time of the last run, *)
(* reads the executor's bid, writes its own bid, waits, and is elected     *)
(* when the bid it then reads is still its own.  That is sound only by     *)
(* timing: the wait outlasts any delay between reading and writing, and a  *)
(* bid outlives the execution it announces.  Time is counted in ticks, and *)
(* time does not pass a deadline the constants give.                       *)
(***************************************************************************)
EXTENDS Integers, FiniteSets

CONSTANTS
    Pods,        \* processes started as call-provider workers
    NamePrefix,  \* pairs of pods, the name of the first a prefix of the second's
    Delay,       \* a call on the cache and what follows it take at most this
    Wait,        \* the pause before the bid is read back (100 ms)
    ExecMax,     \* the refresh takes at most this
    BidLife,     \* LOCK_TTL: a bid as old as this is ignored (5 s)
    Interval,    \* EXECUTION_INTERVAL less one second (9 s)
    MaxDeaths,   \* bound: processes that die and come up again
    Nobody

ASSUME PodsAssumption ==
    /\ Nobody \notin Pods
    /\ NamePrefix \subseteq Pods \X Pods
    /\ \A p \in Pods : <<p, p>> \in NamePrefix
ASSUME ElectionTicksAssumption ==
    /\ Delay \in Nat /\ Wait \in Nat /\ ExecMax \in Nat
    /\ BidLife \in Nat /\ Interval \in Nat /\ MaxDeaths \in Nat

\* The timing the code relies on.
ASSUME TimingAssumption ==
    /\ Delay < Wait
    /\ Wait + 5 * Delay + ExecMax < BidLife

VARIABLES
    stage,     \* where each process stands in executeUpdateWalletWithLock
    since,     \* ticks since it got there, up to its deadline
    bid,       \* wallet:balance:executor: whose bid, and its age up to BidLife
    lastRun,   \* age of wallet:balance:last_execution, up to Interval
    deaths

electionVars == <<stage, since, bid, lastRun, deaths>>

Stages == {"idle", "asking", "bidding", "waiting", "elected", "executing", "deleting"}
NoBid == [by |-> Nobody, age |-> BidLife]
Bids == [by : Pods \cup {Nobody}, age : 0..BidLife]

\* How long a process may stay where it is.
Deadline(st) ==
    CASE st = "waiting"   -> Wait + Delay
      [] st = "executing" -> ExecMax
      [] st = "idle"      -> 0
      [] OTHER            -> Delay

\* Ages are not told apart beyond the limit that matters.
Least(a, b) == IF a < b THEN a ELSE b

ElectionTypeOK ==
    /\ stage \in [Pods -> Stages]
    /\ since \in [Pods -> Nat]
    /\ \A p \in Pods : since[p] <= Deadline(stage[p])
    /\ bid \in Bids
    /\ lastRun \in 0..Interval
    /\ deaths \in 0..MaxDeaths

ElectionInit ==
    /\ stage = [p \in Pods |-> "idle"]
    /\ since = [p \in Pods |-> 0]
    /\ bid = NoBid
    /\ lastRun = Interval
    /\ deaths = 0

To(p, st) ==
    /\ stage' = [stage EXCEPT ![p] = st]
    /\ since' = [since EXCEPT ![p] = 0]

\* The timer fires and the last run was long enough ago.
AskLastRun(p) ==
    /\ stage[p] = "idle"
    /\ lastRun = Interval
    /\ To(p, "asking")
    /\ UNCHANGED <<bid, lastRun, deaths>>

\* A bid that is never too old.
AskExecutorAnyAge(p) ==
    /\ stage[p] = "asking"
    /\ To(p, IF bid.by # Nobody THEN "idle" ELSE "bidding")
    /\ UNCHANGED <<bid, lastRun, deaths>>

\* Somebody's bid stands and is young enough.
AskExecutor(p) ==
    /\ stage[p] = "asking"
    /\ To(p, IF bid.by # Nobody /\ bid.age < BidLife THEN "idle" ELSE "bidding")
    /\ UNCHANGED <<bid, lastRun, deaths>>

\* Written over whatever bid is there by now, with the time at which the
\* process began to ask for the executor.
SetBid(p) ==
    /\ stage[p] = "bidding"
    /\ \E asking \in 0..Delay :
         bid' = [by |-> p, age |-> Least(asking + since[p], BidLife)]
    /\ To(p, "waiting")
    /\ UNCHANGED <<lastRun, deaths>>

\* Without the pause.
ReadWinnerAtOnce(p) ==
    /\ stage[p] = "waiting"
    /\ To(p, IF <<p, bid.by>> \in NamePrefix THEN "elected" ELSE "idle")
    /\ UNCHANGED <<bid, lastRun, deaths>>

\* winner.startsWith(this.podName)
ReadWinner(p) ==
    /\ stage[p] = "waiting"
    /\ since[p] >= Wait
    /\ To(p, IF <<p, bid.by>> \in NamePrefix THEN "elected" ELSE "idle")
    /\ UNCHANGED <<bid, lastRun, deaths>>

\* The elected process notes the time before it executes.
SetLastRun(p) ==
    /\ stage[p] = "elected"
    /\ lastRun' = 0
    /\ To(p, "executing")
    /\ UNCHANGED <<bid, deaths>>

\* The query ends, with an error or without: the error is logged and dropped.
EndRefresh(p) ==
    /\ stage[p] = "executing"
    /\ To(p, "deleting")
    /\ UNCHANGED <<bid, lastRun, deaths>>

\* The key is deleted whosever bid it holds by now.
DeleteBid(p) ==
    /\ stage[p] = "deleting"
    /\ bid' = NoBid
    /\ To(p, "idle")
    /\ UNCHANGED <<lastRun, deaths>>

\* A process dies and is started again; its query ends with its connection.
PodDies(p) ==
    /\ stage[p] # "idle"
    /\ deaths < MaxDeaths
    /\ deaths' = deaths + 1
    /\ To(p, "idle")
    /\ UNCHANGED <<bid, lastRun>>

\* Time passes, but not over a deadline.
ElectionTick ==
    /\ \A p \in Pods : stage[p] # "idle" => since[p] < Deadline(stage[p])
    /\ since' = [p \in Pods |-> IF stage[p] = "idle" THEN 0 ELSE since[p] + 1]
    /\ bid' = [bid EXCEPT !.age = Least(@ + 1, BidLife)]
    /\ lastRun' = Least(lastRun + 1, Interval)
    /\ UNCHANGED <<stage, deaths>>

PodStep(p) ==
    \/ AskLastRun(p) \/ AskExecutor(p) \/ SetBid(p) \/ ReadWinner(p)
    \/ SetLastRun(p) \/ EndRefresh(p) \/ DeleteBid(p)

ElectionNext == ElectionTick \/ \E p \in Pods : PodStep(p) \/ PodDies(p)

\* The timers fire again and again, calls return, and time passes.
ElectionFairness ==
    /\ WF_electionVars(ElectionTick)
    /\ \A p \in Pods : WF_electionVars(PodStep(p))

ElectionSpec == ElectionInit /\ [][ElectionNext]_electionVars /\ ElectionFairness

(***************************************************************************)
(* Properties.                                                             *)
(***************************************************************************)

Executors == {p \in Pods : stage[p] \in {"elected", "executing"}}

\* No pod's name is a prefix of another's.
NamesDiffer == \A p, q \in Pods : <<p, q>> \in NamePrefix => p = q

\* Two processes never execute the refresh at the same time, although the
\* key is read and written in separate calls, as long as no pod's name is a
\* prefix of another's.
OneExecutor == NamesDiffer => \A p, q \in Executors : p = q

\* Why: the standing bid is little older than its bidder's wait ...
BidsAgeWithWait ==
    \A p \in Pods : (stage[p] = "waiting" /\ bid.by = p) => bid.age <= since[p] + 2 * Delay

\* ... whoever read the key before it was written has been bidding since, and
\* has written by the time it is read back ...
BiddersCameBefore ==
    \A p, q \in Pods :
        (stage[p] = "waiting" /\ bid.by = p /\ stage[q] = "bidding") => since[q] >= since[p]

\* ... and from its election to the deletion a process' bid is there, too young
\* to be ignored, so that nobody else bids.
ElectedHoldsBid ==
    \A p \in Pods : stage[p] \in {"elected", "executing", "deleting"} =>
        /\ bid.by = p
        /\ stage[p] = "elected"   => bid.age <= Wait + 3 * Delay + since[p]
        /\ stage[p] = "executing" => bid.age <= Wait + 4 * Delay + since[p]
        /\ stage[p] = "deleting"  => bid.age <= Wait + 4 * Delay + ExecMax + since[p]
        /\ \A q \in Pods : stage[q] # "bidding"

ElectionIInv == ElectionTypeOK /\ BidsAgeWithWait /\ BiddersCameBefore /\ ElectedHoldsBid

\* The contract: what the processes execute is exclusive, and recurs.
Contract == INSTANCE RefreshContract WITH executing <- Executors
ImplementsExclusive == Contract!Exclusive
ImplementsRecurrent == Contract!Recurrent
=============================================================================
