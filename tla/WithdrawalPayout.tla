-------------------------- MODULE WithdrawalPayout --------------------------
(***************************************************************************)
(* One company's withdrawals from request to payout and back: the request  *)
(* check, the payout batch (lock, validate, deduct, call the provider,     *)
(* store its answer or refund) and the provider's webhooks, applied by     *)
(* the general queue from rows it read before its transaction.  Rows and   *)
(* ledger are shared by batches in different processes; the wallet is the  *)
(* materialised ledger sum, which several transactions overwrite.          *)
(* Devolution rows, which nothing reads, and the company's own webhooks    *)
(* are left out.                                                           *)
(***************************************************************************)
EXTENDS Integers, FiniteSets, Functions

CONSTANTS
    Withdrawals,
    Batches,        \* micro-batches of the payout queue that may be in flight
    Amount,         \* amount column of each withdrawal
    Fee,            \* amount_fee column
    Blocked,        \* the company's balance_blocked and open infractions
    Deposits,       \* ledger sum before the first withdrawal
    MaxDeliveries,  \* bound: times the queue hands out one payout task
    Environments    \* what may happen around the payout, see EnvironmentsAssumption

FaultKinds == {"crash", "database", "timeout", "lostAnswer"}

ASSUME AmountAssumption ==
    /\ Amount \in [Withdrawals -> Nat \ {0}]
    /\ Fee \in [Withdrawals -> Nat]
    /\ Blocked \in Nat /\ Deposits \in Nat
ASSUME PayoutBoundsAssumption ==
    /\ MaxDeliveries \in Nat \ {0}
    /\ IsFiniteSet(Withdrawals)
\* The faults that may happen, a bound on the copies of one webhook, and the
\* withdrawals that may be asked for.
ASSUME EnvironmentsAssumption ==
    /\ Environments \subseteq [faults : SUBSET FaultKinds, copies : Nat \ {0}, asked : SUBSET Withdrawals]
    /\ IsFiniteSet(Environments)

VARIABLES
    env,      \* the environment of this behaviour
    row,      \* the withdrawal rows
    ledger,   \* amount posted under each idempotency key, 0 when absent
    wallet,   \* balance column of the BALANCE_AVAILABLE wallet
    snap,     \* sums computed by wallet updates that wait to write them
    tasks,    \* deliveries of the payout task still possible
    batch,    \* the micro-batches
    call,     \* where the payout of a deducted withdrawal stands
    prov,     \* what the provider did with it
    calls,    \* history: createWithdrawal calls
    hooks,    \* WITHDRAWAL tasks of the general queue
    rejected  \* history: withdrawals whose ledger row the entity refused

money == <<ledger, wallet>>
vars == <<env, row, money, snap, tasks, batch, call, prov, calls, hooks, rejected>>

Statuses == {"NONE", "CHECKED", "PENDING", "PROCESSING", "APPROVED", "FAILED", "REFUNDED"}
Keys == {"APPROVED-WITHDRAWAL-DEBIT", "FAILED-REFUND_OUT-CREDIT", "REFUNDED-REFUND_OUT-CREDIT"}
Debit == "APPROVED-WITHDRAWAL-DEBIT"
FailCredit == "FAILED-REFUND_OUT-CREDIT"
RefundCredit == "REFUNDED-REFUND_OUT-CREDIT"
WebhookStatuses == {"APPROVED", "FAILED", "REFUNDED"}
Stages == {"idle", "read", "locked", "negative"}
Calls == {"no", "ready", "answered", "refused", "erring", "refunding", "emergency", "over", "cut", "abandoned"}

\* total_amount as the request computes it.
Total(w) == Amount[w] + Fee[w] + Blocked

Totals(S) == SumFunction([w \in S |-> Total(w)])

\* update_company_wallet_balances: the sum of the company's ledger.
Balance(l) ==
    Deposits + SumFunction([w \in Withdrawals |->
                              l[w][FailCredit] + l[w][RefundCredit] - l[w][Debit]])

Idle == [stage |-> "idle", ids |-> {}, got |-> {}, other |-> {}, gaveUp |-> FALSE]

Job == "job"   \* the periodic update_recent_wallet_balances
NoSum == [taken |-> FALSE, sum |-> 0]

\* The rows of every table, the batches, and what the provider holds.
RowsTypeOK ==
    /\ env \in Environments
    /\ row \in [Withdrawals -> [status : Statuses, deducted : BOOLEAN,
                                known : BOOLEAN, refunded : BOOLEAN]]
    /\ ledger \in [Withdrawals -> [Keys -> Nat]]
    /\ tasks \in [Withdrawals -> 0..MaxDeliveries]
    /\ batch \in [Batches -> [stage : Stages, ids : SUBSET Withdrawals,
                              got : SUBSET Withdrawals, other : SUBSET Withdrawals,
                              gaveUp : BOOLEAN]]
    /\ call \in [Withdrawals -> Calls]
    /\ prov \in [Withdrawals -> {"none", "accepted", "failed", "paid", "returned"}]
    /\ calls \in [Withdrawals -> Nat]
    /\ hooks \subseteq [w : Withdrawals, st : WebhookStatuses, copy : Nat,
                        seen : {"unread", "can", "cannot"}]
    /\ rejected \subseteq Withdrawals

\* The sums of the ledger that were taken and written.
SumsTypeOK ==
    /\ wallet \in Int
    /\ snap \in [Withdrawals \cup {Job} -> [taken : BOOLEAN, sum : Int]]

TypeOK == RowsTypeOK /\ SumsTypeOK

Init ==
    /\ env \in Environments
    /\ row = [w \in Withdrawals |-> [status |-> "NONE", deducted |-> FALSE,
                                      known |-> FALSE, refunded |-> FALSE]]
    /\ ledger = [w \in Withdrawals |-> [k \in Keys |-> 0]]
    /\ wallet = Deposits
    /\ snap = [x \in Withdrawals \cup {Job} |-> NoSum]
    /\ tasks = [w \in Withdrawals |-> 0]
    /\ batch = [b \in Batches |-> Idle]
    /\ call = [w \in Withdrawals |-> "no"]
    /\ prov = [w \in Withdrawals |-> "none"]
    /\ calls = [w \in Withdrawals |-> 0]
    /\ hooks = {}
    /\ rejected = {}

-----------------------------------------------------------------------------
(* The ledger *)

\* createMany with skipDuplicates on the unique idempotency key.
Post(w, key, amount) ==
    IF ledger[w][key] = 0 THEN [ledger EXCEPT ![w][key] = amount] ELSE ledger

\* INSERT ... ON CONFLICT DO UPDATE aggregates when the statement starts ...
TakeSum(x, l) ==
    /\ ~snap[x].taken
    /\ snap' = [snap EXCEPT ![x] = [taken |-> TRUE, sum |-> Balance(l)]]

\* ... and writes that sum once it holds the wallet row.
WriteSum(x) ==
    /\ snap[x].taken
    /\ wallet' = snap[x].sum
    /\ snap' = [snap EXCEPT ![x] = NoSum]

SetStatus(w, s) == row' = [row EXCEPT ![w].status = s]

-----------------------------------------------------------------------------
(* The request *)

\* WithdrawalService.create reads the wallet and compares ...
Check(w) ==
    /\ w \in env.asked /\ row[w].status = "NONE"
    /\ wallet >= Total(w)
    /\ SetStatus(w, "CHECKED")
    /\ UNCHANGED <<env, money, snap, tasks, batch, call, prov, calls, hooks, rejected>>

\* ... and inserts the row; the payout task follows when the company has
\* automatic withdrawals and the insert of the task does not fail.
Insert(w) ==
    /\ row[w].status = "CHECKED"
    /\ SetStatus(w, "PENDING")
    /\ \/ tasks' = [tasks EXCEPT ![w] = MaxDeliveries]
       \/ UNCHANGED tasks
    /\ UNCHANGED <<env, money, snap, batch, call, prov, calls, hooks, rejected>>

-----------------------------------------------------------------------------
(* The payout batch *)

SetBatch(b, rec) == batch' = [batch EXCEPT ![b] = rec]

LockedRows == UNION {batch[b].got : b \in Batches}

\* A batch of tasks arrives; the withdrawals no longer PENDING are reported.
Deliver(b) ==
    /\ batch[b].stage = "idle"
    /\ \E S \in SUBSET {w \in Withdrawals : tasks[w] > 0} :
        LET open == {w \in S : row[w].status = "PENDING"}
        IN  /\ S # {}
            /\ tasks' = [w \in Withdrawals |-> IF w \in S THEN tasks[w] - 1 ELSE tasks[w]]
            /\ SetBatch(b, IF open = {} THEN Idle
                           ELSE [Idle EXCEPT !.stage = "read", !.ids = open])
    /\ UNCHANGED <<env, row, money, snap, call, prov, calls, hooks, rejected>>

\* The lock query without the balance_deducted condition.
ObtainableIgnoringDeducted(b) ==
    {w \in batch[b].ids : row[w].status = "PENDING" /\ w \notin LockedRows}

\* SELECT ... status = 'PENDING' AND balance_deducted = false FOR UPDATE SKIP LOCKED
Obtainable(b) ==
    {w \in batch[b].ids :
        /\ row[w].status = "PENDING"
        /\ ~row[w].deducted
        /\ w \notin LockedRows}

\* otherPendingWithdrawals: deducted and not yet settled, outside the batch.
OtherPending(b) ==
    {w \in Withdrawals \ batch[b].ids :
        row[w].deducted /\ row[w].status \in {"PENDING", "PROCESSING"}}

\* The stored balance is looked at as well, to choose between a wallet that is
\* locked and one that is read; but the array of rows has no total_balance, and
\* the choice always falls on the lock.
LockRows(b) ==
    /\ batch[b].stage = "read"
    /\ IF Obtainable(b) = {}
       THEN SetBatch(b, Idle)
       ELSE SetBatch(b, [batch[b] EXCEPT !.stage = "locked", !.got = Obtainable(b),
                                         !.other = OtherPending(b)])
    /\ UNCHANGED <<env, row, money, snap, tasks, call, prov, calls, hooks, rejected>>

\* What the greedy loop may keep: the smallest totals first, while they fit.
Affordable(S, available) ==
    {V \in SUBSET S :
        /\ \A v \in V, u \in S \ V : Total(v) <= Total(u)
        /\ V # {} => Totals(V) <= available
        /\ \A u \in S \ V : Totals(V) + Total(u) > available}

\* A debit with the sign of the amount that was passed.
DebitedSigned(V) ==
    [w \in Withdrawals |->
        IF w \in V /\ ledger[w][Debit] = 0 THEN [ledger[w] EXCEPT ![Debit] = -Total(w)]
                                           ELSE ledger[w]]

\* createTransactionWallet: one debit per valid withdrawal, once.
Debited(V) ==
    [w \in Withdrawals |->
        IF w \in V /\ ledger[w][Debit] = 0 THEN [ledger[w] EXCEPT ![Debit] = Total(w)]
                                           ELSE ledger[w]]

\* Transaction.validate on amount -Total, amountFee Fee, amountNet -Total.
PassesEntity(w) == -Total(w) = -Total(w) - Fee[w]

\* No check after the deduction.
NoBalanceCheck(l) == TRUE

\* finalBalanceCheck, after the wallet was recomputed in the transaction.
StayedPositive(l) == Balance(l) >= 0

\* The second UPDATE left out.
RefusedForgotten(b, V) == {}

\* invalidWithdrawals: locked, but not covered.
Refused(b, V) == batch[b].got \ V

\* From the wallet lock to the commit or the rollback; of the two ways the
\* one with the lock, which balances below 500000 take.  The wallet is the
\* stored one, or recomputed when it is more than a minute old.
Deduct(b) ==
    /\ batch[b].stage = "locked"
    /\ \E balance \in {wallet, Balance(ledger)} :
       \E V \in Affordable(batch[b].got, balance - Blocked - Totals(batch[b].other)) :
          \/ /\ \E v \in V : ~PassesEntity(v)
             /\ rejected' = rejected \cup {v \in V : ~PassesEntity(v)}
             /\ SetBatch(b, Idle)
             /\ UNCHANGED <<env, row, money, call>>
          \/ /\ \A v \in V : PassesEntity(v)
             /\ V # {} /\ ~StayedPositive(Debited(V))
             /\ SetBatch(b, IF batch[b].gaveUp THEN Idle
                            ELSE [batch[b] EXCEPT !.stage = "negative", !.got = {}])
             /\ UNCHANGED <<env, row, money, call, rejected>>
          \/ /\ \A v \in V : PassesEntity(v)
             /\ V = {} \/ StayedPositive(Debited(V))
             /\ row' = [w \in Withdrawals |->
                          [row[w] EXCEPT !.deducted = @ \/ w \in V,
                                         !.status = IF w \in Refused(b, V) THEN "FAILED" ELSE @]]
             /\ ledger' = Debited(V)
             /\ wallet' = IF V = {} THEN balance ELSE Balance(Debited(V))
             /\ call' = [w \in Withdrawals |->
                           IF w \notin V THEN call[w]
                           ELSE IF batch[b].gaveUp THEN "abandoned" ELSE "ready"]
             /\ SetBatch(b, Idle)
             /\ UNCHANGED rejected
    /\ UNCHANGED <<env, snap, tasks, prov, calls, hooks>>

\* The catch block after `Negative balance detected'; the update waits for
\* rows another batch has locked.
MarkNegative(b) ==
    /\ batch[b].stage = "negative"
    /\ batch[b].ids \cap LockedRows = {}
    /\ row' = [w \in Withdrawals |->
                 IF w \in batch[b].ids /\ row[w].status = "PENDING" /\ ~row[w].deducted
                 THEN [row[w] EXCEPT !.status = "FAILED"] ELSE row[w]]
    /\ SetBatch(b, Idle)
    /\ UNCHANGED <<env, money, snap, tasks, call, prov, calls, hooks, rejected>>

\* Promise.race: the 30 s timer wins, the tasks are reported failed and the
\* validation goes on by itself.
TimeOut(b) ==
    /\ "timeout" \in env.faults
    /\ batch[b].stage \in {"read", "locked"}
    /\ ~batch[b].gaveUp
    /\ SetBatch(b, [batch[b] EXCEPT !.gaveUp = TRUE])
    /\ UNCHANGED <<env, row, money, snap, tasks, call, prov, calls, hooks, rejected>>

\* The transaction is rolled back: an error, or the process died.
RollBack(b) ==
    /\ env.faults \cap {"crash", "database"} # {}
    /\ batch[b].stage # "idle"
    /\ SetBatch(b, Idle)
    /\ UNCHANGED <<env, row, money, snap, tasks, call, prov, calls, hooks, rejected>>

-----------------------------------------------------------------------------
(* The provider call and its error path *)

SetCall(w, c) == call' = [call EXCEPT ![w] = c]

\* Calls for what is still PENDING, deducted or not.
CallableWhilePending(w) == row[w].status = "PENDING" /\ call[w] \in {"no", "ready"}

\* A call that is tried again when it threw, while the error path has begun.
CallableRetrying(w) == call[w] \in {"ready", "refunding"}

\* processValidatedWithdrawals works on what the validation returned.
Callable(w) == call[w] = "ready"

\* createWithdrawal of the gateway: what the provider keeps, and what the
\* caller gets.  It is accepted, answered with status FAILED, or throws:
\* before anything was sent, or after the provider accepted.
createWithdrawal(w) ==
    {[prov |-> "accepted", call |-> "answered"],
     [prov |-> "failed",   call |-> "refused"],
     [prov |-> prov[w],    call |-> "erring"]}
    \cup IF "lostAnswer" \in env.faults THEN {[prov |-> "accepted", call |-> "erring"]} ELSE {}

CallProvider(w) ==
    /\ Callable(w)
    /\ calls' = [calls EXCEPT ![w] = @ + 1]
    /\ \E outcome \in createWithdrawal(w) :
          prov' = [prov EXCEPT ![w] = outcome.prov] /\ SetCall(w, outcome.call)
    /\ UNCHANGED <<env, row, money, snap, tasks, batch, hooks, rejected>>

AfterAnswer(w) == IF call[w] = "refused" THEN "erring" ELSE "over"

\* handleAcquirerResponse: stored whatever the row's status, then a FAILED
\* answer is thrown.
StoreAnswer(w) ==
    /\ call[w] \in {"answered", "refused"}
    /\ \/ /\ row' = [row EXCEPT ![w].status = "PROCESSING", ![w].known = TRUE]
          /\ SetCall(w, AfterAnswer(w))
       \/ /\ "database" \in env.faults
          /\ SetCall(w, "erring")
          /\ UNCHANGED row
    /\ UNCHANGED <<env, money, snap, tasks, batch, prov, calls, hooks, rejected>>

\* handleWithdrawalError: mark FAILED ...
MarkFailed(w) ==
    /\ call[w] = "erring"
    /\ \/ SetStatus(w, "FAILED") /\ SetCall(w, "refunding")
       \/ "database" \in env.faults /\ SetCall(w, "emergency") /\ UNCHANGED row
    /\ UNCHANGED <<env, money, snap, tasks, batch, prov, calls, hooks, rejected>>

\* ... and refund: the transaction inserts the credit and sums the ledger it
\* sees; the sum waits for the wallet row and is written at the commit.
RefundSum(w) ==
    /\ call[w] \in {"refunding", "emergency"}
    /\ TakeSum(w, Post(w, RefundCredit, Total(w)))
    /\ UNCHANGED <<env, row, money, tasks, batch, call, prov, calls, hooks, rejected>>

RefundCommit(w) ==
    /\ call[w] \in {"refunding", "emergency"}
    /\ WriteSum(w)
    /\ ledger' = Post(w, RefundCredit, Total(w))
    /\ SetCall(w, "over")
    /\ UNCHANGED <<env, row, tasks, batch, prov, calls, hooks, rejected>>

\* The refund transaction fails: once more as an emergency, then never again.
RefundFails(w) ==
    /\ "database" \in env.faults
    /\ call[w] \in {"refunding", "emergency"}
    /\ SetCall(w, IF call[w] = "refunding" THEN "emergency" ELSE "over")
    /\ snap' = [snap EXCEPT ![w] = NoSum]
    /\ UNCHANGED <<env, row, money, tasks, batch, prov, calls, hooks, rejected>>

\* The process dies between two of these steps, or the company is not read
\* before the first; nothing takes the payout up.
Cut(w) ==
    /\ \/ "crash" \in env.faults /\ call[w] \in Calls \ {"no", "over", "cut", "abandoned"}
       \/ "database" \in env.faults /\ call[w] = "ready"
    /\ SetCall(w, "cut")
    /\ snap' = [snap EXCEPT ![w] = NoSum]
    /\ UNCHANGED <<env, row, money, tasks, batch, prov, calls, hooks, rejected>>

-----------------------------------------------------------------------------
(* The wallet job *)

\* update_recent_wallet_balances aggregates, then waits for the wallet row.
JobSum ==
    /\ TakeSum(Job, ledger)
    /\ UNCHANGED <<env, row, money, tasks, batch, call, prov, calls, hooks, rejected>>

JobWrite ==
    /\ WriteSum(Job)
    /\ UNCHANGED <<env, row, ledger, tasks, batch, call, prov, calls, hooks, rejected>>

-----------------------------------------------------------------------------
(* The provider and its webhooks *)

ProviderSettles(w) ==
    /\ \/ prov[w] = "accepted" /\ \E p \in {"paid", "failed"} : prov' = [prov EXCEPT ![w] = p]
       \/ prov[w] = "paid" /\ prov' = [prov EXCEPT ![w] = "returned"]
    /\ UNCHANGED <<env, row, money, snap, tasks, batch, call, calls, hooks, rejected>>

\* What the provider announces of the payout, as parseWithdrawalStatus reads
\* it; a payout under way is PENDING, which the receiver only acknowledges.
Announced(w) ==
    CASE prov[w] = "paid" -> {"APPROVED"}
      [] prov[w] = "returned" -> {"APPROVED", "REFUNDED"}
      [] prov[w] = "failed" -> {"FAILED"}
      [] OTHER -> {}

\* handleWithdrawalWebhook: a row found by provider id, in another status.
Receive(w, st, c) ==
    /\ st \in Announced(w)
    /\ row[w].known
    /\ row[w].status # st
    /\ \A h \in hooks : ~(h.w = w /\ h.st = st /\ h.copy = c)
    /\ hooks' = hooks \cup {[w |-> w, st |-> st, copy |-> c, seen |-> "unread"]}
    /\ UNCHANGED <<env, row, money, snap, tasks, batch, call, prov, calls, rejected>>

\* canApprove, canFail and canRefund of the entity; approved_at and failed_at
\* are null while the row is PROCESSING.
Can(w, st) ==
    CASE st = "APPROVED" -> row[w].status = "PROCESSING"
      [] st = "FAILED" -> row[w].status = "PROCESSING"
      [] st = "REFUNDED" -> row[w].status = "APPROVED" /\ ~row[w].refunded

\* processWithdrawal reads the rows of its batch ...
ReadHook(h) ==
    /\ h.seen = "unread"
    /\ hooks' = (hooks \ {h}) \cup
                {[h EXCEPT !.seen = IF Can(h.w, h.st) THEN "can" ELSE "cannot"]}
    /\ UNCHANGED <<env, row, money, snap, tasks, batch, call, prov, calls, rejected>>

\* What comes back with a payout that the provider returned.
Returned(w) == Amount[w] + Fee[w]

\* ... and writes what it concluded in a later transaction.
ApplyHook(h) ==
    /\ h.seen # "unread"
    /\ hooks' = hooks \ {h}
    /\ IF h.seen = "cannot" THEN UNCHANGED <<row, ledger>>
       ELSE CASE h.st = "APPROVED" ->
                    SetStatus(h.w, "APPROVED") /\ UNCHANGED ledger
              [] h.st = "FAILED" ->
                    /\ SetStatus(h.w, "FAILED")
                    /\ ledger' = Post(h.w, FailCredit, Total(h.w))
              [] h.st = "REFUNDED" ->
                    /\ row' = [row EXCEPT ![h.w].status = "REFUNDED", ![h.w].refunded = TRUE]
                    /\ ledger' = Post(h.w, RefundCredit, Returned(h.w))
    /\ UNCHANGED <<env, wallet, snap, tasks, batch, call, prov, calls, rejected>>

\* The task fails, or names a devolution of another amount, and is not retried.
DropHook(h) ==
    /\ hooks' = hooks \ {h}
    /\ UNCHANGED <<env, row, money, snap, tasks, batch, call, prov, calls, rejected>>

-----------------------------------------------------------------------------
BatchStep(b) == Deliver(b) \/ LockRows(b) \/ Deduct(b) \/ MarkNegative(b)
PayoutStep(w) ==
    CallProvider(w) \/ StoreAnswer(w) \/ MarkFailed(w) \/ RefundSum(w) \/ RefundCommit(w)

Next ==
    \/ \E w \in Withdrawals :
        \/ Check(w) \/ Insert(w) \/ PayoutStep(w) \/ RefundFails(w) \/ Cut(w)
        \/ ProviderSettles(w)
        \/ \E st \in WebhookStatuses, c \in 1..env.copies : Receive(w, st, c)
    \/ \E b \in Batches : BatchStep(b) \/ TimeOut(b) \/ RollBack(b)
    \/ \E h \in hooks : ReadHook(h) \/ ApplyHook(h) \/ DropHook(h)
    \/ JobSum \/ JobWrite

Spec == Init /\ [][Next]_vars

\* Batches and calls that were started run to their end; the poller keeps
\* delivering tasks.
FairSpec ==
    /\ Spec
    /\ \A b \in Batches : WF_vars(BatchStep(b))
    /\ \A w \in Withdrawals : WF_vars(PayoutStep(w))

-----------------------------------------------------------------------------
(* Properties *)

Posted(w, key) == ledger[w][key] > 0

\* Concurrent batches, stale wallets, refunds and crashes never take the
\* company's ledger below zero: the check inside the deducting transaction holds.
NeverOverdrawn == Balance(ledger) >= 0

\* The flag that keeps a second delivery away says exactly whether the money
\* was taken, at every commit point.
DeductedIffDebited == \A w \in Withdrawals : row[w].deducted <=> Posted(w, Debit)

\* The provider is asked at most once per withdrawal, though its task may be
\* delivered to several batches.
CalledOnce == \A w \in Withdrawals : calls[w] <= 1

\* A FAILED withdrawal never comes back, whichever of batch, error path and
\* stale webhook writes last.
FailedIsFinal ==
    [][\A w \in Withdrawals : row[w].status = "FAILED" => row'[w].status = "FAILED"]_vars

\* Without faults and fees, every delivered withdrawal gets a decision: it does
\* not stay PENDING behind a lock, a lost race or another batch.
DeliveredIsDecided ==
    \A w \in Withdrawals :
        env.faults = {} /\ row[w].status = "PENDING" /\ tasks[w] > 0 ~> row[w].status # "PENDING"

Credited(w) == Posted(w, FailCredit) \/ Posted(w, RefundCredit)

\* Where the company's account stands with a withdrawal.
AccountOf(w) ==
    IF Credited(w) THEN "given back" ELSE IF Posted(w, Debit) THEN "taken" ELSE "held"

Contract == INSTANCE PayoutContract WITH
    heard <- env.faults \cap {"lostAnswer", "database"} = {},
    account <- [w \in Withdrawals |-> AccountOf(w)],
    provider <- prov

\* Through batches that overlap, abandoned validations, crashes between any two
\* steps and stale webhooks, a withdrawal's money is taken before the provider
\* gets it to pay out, once and never after a refund, and (`Refund for failed
\* withdraw') only what the provider does not have is credited back, as long as
\* its answers arrive and are stored.
ImplementsPayoutContract == Contract!Spec

(* The inductive invariant behind these *)

\* The provider was asked and its answer stored, or the error path has begun.
Past == {"erring", "refunding", "emergency", "over", "cut"}

\* A withdrawal's row, its ledger, the call and the provider's view of it: the
\* debit comes before the call, the call before anything the provider or the
\* error path can do, and FAILED with a known payout means the provider failed.
InStep(w) ==
    /\ row[w].deducted <=> Posted(w, Debit)
    /\ row[w].deducted <=> call[w] # "no"
    /\ calls[w] <= 1
    /\ call[w] \in {"no", "ready"} => calls[w] = 0 /\ prov[w] = "none"
    /\ row[w].known \/ Credited(w) => call[w] \in Past
    /\ call[w] \in {"ready", "answered", "refused"} => row[w].status = "PENDING"
    /\ call[w] = "refused" => prov[w] = "failed"
    /\ row[w].known /\ call[w] = "erring" => prov[w] = "failed"
    /\ row[w].known /\ prov[w] # "failed" => row[w].status # "FAILED"

\* While answers arrive and are stored, the error path has what the provider
\* does not keep.
InError(w) ==
    env.faults \cap {"lostAnswer", "database"} = {} =>
        /\ call[w] \in {"erring", "refunding", "emergency"} => prov[w] \in {"none", "failed"}
        /\ Posted(w, RefundCredit) => prov[w] \in {"none", "failed", "returned"}

\* Rows a batch holds locked are PENDING, not deducted, and its alone.
LocksHold ==
    /\ \A b \in Batches, w \in Withdrawals :
         w \in batch[b].got => row[w].status = "PENDING" /\ ~row[w].deducted
    /\ \A b, c \in Batches : b # c => batch[b].got \cap batch[c].got = {}

\* A webhook is of a payout the row knows, and tells what cannot change back.
HooksTell ==
    \A h \in hooks :
        /\ row[h.w].known
        /\ h.st = "FAILED" => prov[h.w] = "failed"
        /\ h.st = "APPROVED" => prov[h.w] \in {"paid", "returned"}
        /\ h.st = "REFUNDED" => prov[h.w] = "returned"

WithdrawalIInv ==
    /\ RowsTypeOK /\ LocksHold /\ HooksTell
    /\ \A w \in Withdrawals : InStep(w) /\ InError(w)

(* What the code says of itself, and does not do *)

\* transaction.entity: amount_net is amount less fee in every row proposed.
PostingsAccepted == rejected = {}

=============================================================================
