# Verification of the payment back end

TLA+ models, TLC runs and TLAPS proofs for the NestJS payment back end of this
repository: companies take payments (PIX, boleto, card) through a provider, the
money passes through pending, reserve and available accounts, and is withdrawn
again. All of it runs through one `queue` table polled by several processes.
The repository has no tests, and its only document is a short README, so every
definition is read off the source; what a log line, an error text, a comment or
an entity method promises is the yardstick where the code promises anything.

## 1. The system

Paths are relative to `src/src/`.

| Component | State | Operations | Interacts with |
|---|---|---|---|
| Task queue: `infrastructure/queue/services/*.queue.ts`, `infrastructure/workers/*` | `queue` rows: status, type, `locked_by`, `locked_at`, `attempt` | claim (`getTasksBatch`), split into batches (`loadPendingTasks`), mark, work and report a batch (`enqueueTask`), reset at start-up (`resetInProgressTasks`) | rows inserted by webhook receiver, withdrawal service, anticipation service, release job |
| Withdrawals and payout: `modules/withdrawal`, `call-provider-withdrawal-processor.queue.ts`, `processWithdrawal` | `withdrawal` rows, ledger, wallet | request, micro-batch (lock, validate, deduct), provider call, answer, error path and refunds, webhooks APPROVED / FAILED / REFUNDED | provider, ledger, wallet, queue |
| Payment settlement: `queue/handlers/payment-*.handler.ts`, `processPayment`, `processPaymentReleaseSchedule`, `jobs/`, `PaymentService.refund` | `payment` rows, `payment_release_schedule` rows, ledger | approve, release balance / reserve / installment, refund request, refund | provider, queue, release job |
| Ledger: `modules/transaction` | `transaction` rows, unique `idempotency_key` | `createMany`, `createManyPaymentSchedules`, entity validation | all of the above |
| Wallet: SQL procedures, `worker-call-provider-withdrawal-and-wallet.service.ts` | `wallet` rows (sums of the ledger) | recompute one company, recompute recent ones on a timer after an election on the cache | payout batch, withdrawal request |
| Anticipation: `modules/anticipation`, `processAnticipation` | `anticipation` rows, release schedules | simulate, create, process | queue, release schedules, ledger |
| Infractions: `modules/infraction`, `processInfraction` | `infraction` rows | notice of the provider, batch that inserts or updates, refund of the payment | webhook receiver, queue, withdrawals (blocked amount) |
| Outgoing webhooks: `modules/webhook-sender`, `modules/webhook`, `worker-general.service.ts` | cached list `webhook:queue`, `webhook` and `webhook_log` rows | register, update, remove; append, take, send, put back | all handlers, cache |
| Request idempotency: `common/decorators` | one cache entry per key | look up, mark, run, store or delete | payment creation, cache |
| Guards: `common/guards`, `rememberWithLock` | cached grants, their locks | lock, load, store, answer, invalidate | API keys, links, companies |
| Cache: `infrastructure/cache` | keys with time to live | get, set, del (errors are swallowed), lock, remember | all of the above |
| Payment creation: `modules/payment/services/*`, `modules/customer` | `payment`, `customer`, `customer_config` rows, the provider's charge | check, charge, customer, row, approval at once | provider, queue, receiver |
| Receivers and withdrawal requests: `modules/receiver`, `withdrawal.service.ts` | `receiver` and `withdrawal` rows | register, decide, delete; request | payout |
| Sessions: `modules/auth` | `user_refresh_token`, `user_password_reset_token`, password | login, refresh, logout, change, forgot, reset | guards |
| API keys: `modules/api-key` | `company_api_keys` | create, delete, regenerate, update | guards |
| Company links: `modules/link-user-company` | `link_user_company`, `company_invitation` | invite, accept, update, remove, ban, unban | guards |
| Companies, users, providers | rows of a company, documents and files, tax configurations, sub-accounts, a user's documents and status | create row by row, upload, activate, change the reserve | payment creation, file store |
| Fees and installments | none | pure arithmetic | payments, withdrawals |
| Currency conversion | `currency_conversion` rows | calculate, create | wallet |
| Gateways, devolutions, clients | single rows | one call each | |

What is hard here: batches are started without being awaited, so a process has
several in flight and dies with all of them on an unhandled rejection; claims
lapse after two minutes; handlers read their rows before the transaction they
write in; the provider's webhooks repeat, reorder and race the error path; the
wallet is a sum that several transactions overwrite; a 30 s timer races a
transaction it cannot stop; repeated postings are dropped by a unique key that
must tell apart exactly what is different. Around this core nearly every service
method is a row of awaited reads that check, and a write at the end that does not
look again; and whatever is coordinated over the cache is done with single gets
and sets, whose errors the cache service swallows. `PROJECT.json` lists each of these
hazards at its line, with the properties that cover it.

What makes each component correct:

- **Queue**: a row is in one batch at a time while claims last; a payout is
  worked at most once; a settled row stays settled; a report that is half made
  leaves no row IN_PROGRESS; no row waits for ever.
- **Payout**: the company's ledger never goes below zero; the flag
  `balance_deducted` and the ledger agree; one provider call per withdrawal, and
  none without a debit; no credit without its debit, and none for a payout the
  provider keeps; FAILED is final; a delivered withdrawal is decided.
- **Settlement**: the net amount is credited once; accounts hold what the
  schedules will take out; a COMPLETED schedule moved its amount; a refund takes
  everything back.
- **Anticipation**: one open request; APPROVED means credited; a schedule marked
  before its date is not released on it as well; the money of what was marked
  arrives; an open request is decided.
- **Cache protocols**: what was withdrawn is not granted for longer than an
  entry lives; no request waits for a lock for ever; a key creates once and is
  free after a failure; one process refreshes the wallets at a time, and
  refreshes recur.
- **Services**: what each check is there to keep (one webhook of a type, an owner
  in each company, one use of an invitation or a reset token, ten keys, one
  charge or payout for an external_id, an accepted receiver, a final
  infraction), broken at most by the overlaps the code leaves open, which each
  property names.

## 2. Modules

### TaskQueue

One row is one task; `status`, `lockedBy` and `stale` are the columns `status`,
`locked_by` and the comparison of `locked_at` with two minutes ago. A call of
`enqueueTask` is a record in `runs` with its stage: `claimed` until its rows are
marked IN_PROGRESS, `running` the handler, `reporting` while the two `updateMany`
of the `Promise.all` are under way, `failing` in the catch block. What a handler
does to money belongs to the other modules; here it is its outcome (`Outcomes`):
which tasks it reports done, failed, both or neither. `handled` and `left` are
history.

The two updates of a report are records in the run's `todo` and are made in either
order (`Write`). When one is rejected (`WriteLost`), the batch goes to its catch
block while what was sent is still on its way: the other update, and the rejected
one itself, since an error of the connection says nothing of the statement.
Before the catch block's update they are made by `Write`; the catch block
(`FailAll`) marks all rows FAILED and rethrows from a promise nobody awaits, which
ends the process (main.ts installs no handler). Of a process that ends, here or by
`Crash`, the updates sent are kept in `adrift`, and the database makes them
at any later time (`Land`), or loses them.

`Load` is the claiming UPDATE and the batches it starts; `Boot` is the restart;
`ResetRows` is what `resetInProgressTasks` gives back; `Lapse` lets two minutes
pass. `LeaseLapses` says whether a batch, or an update adrift, may still be under
way then. A mark (IN_PROGRESS) that was sent before a death is taken to be made
before the restart: only the updates of a report are kept adrift.

### WithdrawalPayout

One company. `row` has the columns the code decides on, `ledger` the amount under
each idempotency key (a key is status, operation and movement of one
withdrawal), `wallet` the materialised balance. A wallet procedure is two steps,
since its aggregate is taken when the statement starts and written when the row
lock is granted (`TakeSum`, `WriteSum`). A micro-batch goes through `Deliver`,
`LockRows` and `Deduct`; the transaction's locks are the `got` sets. `TimeOut`
is the lost race: the batch goes on with `gaveUp` set. After the commit a
withdrawal's own path is in `call`: `CallProvider`, `StoreAnswer`, `MarkFailed`,
`RefundSum`, `RefundCommit`, and `Cut` for a process that dies. Webhooks are read
(`ReadHook`) and applied (`ApplyHook`) apart. The provider is external: it
accepts, rejects, settles, returns, and announces it any number of times.
`env.faults` selects crashes, database errors, timeouts and lost answers.

`PayoutContract` is what all this is for: the money of a withdrawal is held, taken,
or given back, and the provider has it or not. `AccountOf` reads the first from the
ledger's keys; statuses, flags, locks, batches and sums are gone.

### PaymentSettlement

One payment on one of several `terms` (method, delays, reserve, installments).
`pay` has the columns the handlers decide on, `ledger` the postings, `sched` the
release schedules, `hooks` and `releases` the tasks in flight with what they
read. `Approve`, `Refund` and `ApplyRelease` are the handlers' transactions on
what `ReadHook` and `ReadRelease` saw; `RequestRefund` and `SaveRequest` are the
API's refund before and after the provider's answer. `SameKey` is
`createIdempotencyKey`. Dates are abstracted to their order: `Mature` for
`completed_available_date`; the others are due at any time.

### Anticipation

One company and its installments. `req` is a request until its row exists and the
row afterwards; `lots` are the schedules of its simulation, from which
`payments_ids` and the amounts follow. `Simulate`, `Count` and `Insert` are the
service's three database calls, `Admitted` the partial unique index. `task` is the
row's queue task: `Read`, `Aggregate`, `Mark` (the `updateMany` on `this.prisma`,
committed at once), `Commit` (the rest of the transaction) and `Report`. `Fail` is
an error or a death between them, `Boot` a later reset. `FallDue` lets a date
pass; `EnqueueRelease`, `ReadRelease`, `ApplyRelease` are the release job as in
PaymentSettlement. That a task is in one batch at a time is `ExclusiveClaim` of
TaskQueue. Rows of type PENDING_TO_AVAILABLE can be asked for, but the approval
handler never creates one as anticipatable, so the simulation always refuses.

### GuardCache, Idempotency, WalletElection; CacheProtocols

Three protocols on `CacheService`, one module each, and `CacheProtocols` that
extends all three. They use different cache keys and read nothing of each other,
so a behaviour of the composition follows the one it began with: what could
happen to two of them at once is what happens to each alone.

`GuardCache` is `rememberWithLock` for one credential: `request` is a request at one
of its calls, `entry` and `lock` the two keys with their ages, `granted` what the
rows grant now, `change` an update that has deleted the entry and not yet written
the row. Time is counted in ticks; a call takes at most `CallMax`.

`Idempotency` is the interceptor around the handler that creates a payment: one
entry `mark`, and `attempt` for each request. The answer is stored after it was
sent (`storing`).

`WalletElection` is `executeUpdateWalletWithLock`: `bid` and `lastRun` are the two
keys, `stage` a process in the election. Nothing on the cache is atomic here: the
election is sound by timing (a Fischer lock), which `TimingAssumption` states:
a cache call takes less than the wait of 100 ms, and a bid outlives the wait, the
refresh and five calls (5 s). A bid's time is taken before the executor is asked for,
so the bid that `SetBid` writes is already as old as up to two calls. `RefreshContract` is what it promises, without
clocks or cache; `Contract` maps `executing` to the processes that are elected or
execute, and `ImplementsExclusive`, `RefreshRecurs` are the contract's
specification under that mapping.

### The services; Services

Nine modules of check-then-write methods, each with its tables. `Services` puts
them side by side as above. A request is a record in the module's call variable,
`at` is the await it has reached; the check and the write are actions of their
own, and other requests act between them. `Cut*` is a request that ends between
two statements. Bookkeeping variables marked *history* note exactly the overlap
that excuses a broken rule (a write whose checks no longer held, two requests
that looked before either wrote); the code does not have them.

| Module | Code | Notes |
|---|---|---|
| `OutgoingWebhooks` | `WebhookService`, `WebhookSenderService`, `processWebhooks` | `list` is the cached list, written back whole; `batch` an append, `drainer` a drain; `Event` says which types of webhooks an event calls |
| `Membership` | `LinkUserCompanyService` | one company; `overtaken` notes a write whose checks no longer held |
| `Sessions` | `AuthService` | one user; tokens are named by the second they were made in, since the signed payload has nothing finer and the column is unique |
| `ApiKeys` | `ApiKeysService` | one company |
| `Onboarding` | `CompanyService`, `UserService`, `ProviderService` | clients that want the same e-mail, CNPJ or sub-account; `tax` and `file` of one company |
| `UserDocuments` | `UserService.uploadDocuments`, `S3Service` | one user; `flying` is what `Promise.all` has started and not settled, which goes on when the request has been refused |
| `PaymentIntake` | `PaymentService.create`, `PaymentProcessorService`, `CustomerService`, receiver | fees and reserve as integer arithmetic in basis points; the provider's word, which production passes on: `Parsed` is what the validator sees of it, the row gets the word itself, REFUNDED stands for the words of `payment_status` that no approval follows, UNKNOWN for all that are none |
| `Infractions` | receiver, `processInfraction`, refund of the payment | a notice is checked, queued, and worked from rows a batch read before its transaction |
| `PayoutIntake` | `ReceiverService`, `WithdrawalService.create` | `known` is what a request had seen when it looked |

### Composition

The MC modules only name instances. Modules compose by what they share: TaskQueue
establishes how often a handler may run and what a crash leaves; the others
take from it that a task may be delivered more than once, dropped, or delivered
to two processes (`MaxDeliveries`, `copies` and `runs` of the terms and
environments, `Drop*`). PaymentIntake ends where PaymentSettlement begins, and
PayoutIntake leaves the balance to WithdrawalPayout.

## 3. Runs

| Run | Question | Answer |
|---|---|---|
| `queue_timely` | one general and two payout processes, three rows, two deaths, report updates rejected, made late or made after the process died, no batch outliving its claim | `ExclusiveClaim`, `PayoutHandledOnce`, `SettledStaysSettled` hold, and `InProgressIsWorked`: a row is left IN_PROGRESS only by a handler that said nothing of it or by a death |
| `queue_lapsing` | two general processes that reset each other, batches that outlive their claims, fairness | `PendingIsServed` holds |
| `payout_money` | two withdrawals of 2 and 3 with 1 blocked on deposits of 6, two batches, wallet job, crashes, timeouts | `NeverOverdrawn`; the payout implements its contract (`ImplementsPayoutContract`) |
| `payout_faults` | one withdrawal, two batches, all faults, two copies of each webhook; or two without faults, with fair batches | `CalledOnce`, `ImplementsPayoutContract`, `FailedIsFinal`; without faults `DeliveredIsDecided` |
| `payout_postings` | is each proposed posting valid for the transaction entity? | no: with a fee the debit's net is not amount less fee, and the batch rolls back |
| `anticipation_decided` | two requests, three schedules of two payments falling due at any time, the release job, one fault, fairness | `OneOpen`, `ApprovedIsPaid`, `MarkedEarlyIsNotReleased`; `OpenIsDecided` unless a batch failed |
| `anticipation_transferred` | does the anticipation `transfer funds to the available balance`? | no: an installment that is due but not released yet is marked with its payment and paid by nobody |
| `settlement` | a card with a reserve in two installments (approved twice, released twice or refunded), a delayed payment, once with two approvals around its date, an immediate one with a delayed reserve; refunds of company and provider | `ApprovalConserved` (credited once but for those two approvals), `HoldsWhatIsScheduled`, `CompletedIsPosted`, `TakenBackInFull` hold |
| `settlement_reserve_lost` | the same for balance and reserve both delayed | no: both releases credit under one key, the later credit is dropped |
| `settlement_refunded_twice` | is a refunded payment refunded once? | no: the refund request saves the row it had read and clears `refunded_at` |
| `cache_protocols` | guards' cached grants; three attempts with one idempotency key; three processes electing the one that refreshes; time, deaths, cache errors, fairness | `StaleIsBounded`, `OneCreation` but for races, `RequestsAreAnswered`, `RefreshRecurs`; the election implements its contract (`ImplementsExclusive`) |
| `services` | nine services with two to four requests each, cuts, refused files and lost cache lists | the ten rules below, each but for the overlaps it names |

The rules of `services`: `ChecksHoldUnlessRaced` (what each check promises about
rows: one webhook of a type unless two requests checked it together or an update
wrote back, unchecked, the type it had read, ten keys, one company of a CNPJ and one sub-account, the
files of a company's and of a user's document row, which makes the user active, one
receiver of a destination, one withdrawal of an external_id), `LostOnlyByOverwriting` (an outgoing webhook is lost only through an
overwritten or unread list, or a death), `OwnerRemains`, `UsedByWhomItWasGiven`
(memberships come of invitations of that person, each invitation and reset token
is used once), `SessionsEnd` (a session comes of a login and ends with the
password), `ChargesAreKnown` (a charge has its row, unless the provider's word is no
`payment_status`, and one external_id one charge),
`AcknowledgedIsQueued` (an approval the receiver dismisses as known has its task,
unless the row was REFUNDED from the start),
`ReserveIsHeld` (a reserve a payment takes is held for some days),
`PaidToAccepted`, and `DisputesEnd` (a closed infraction, or one of a refunded
payment, changes only by a notice checked before that; a final notice reported
done has closed it). Most combine rules of one or several services; each part is
named and explained in its module.

Deadlock checking is off where the bounds stop a finished instance.

### Bounds

- Queue: three rows of which two are payouts, so that a claim splits by type and two
  payout processes compete; two claims per process in flight (the code has no
  bound); two deaths besides those by failed batches, so that a restarted process
  dies again. `BatchSize` 2 is below the number of rows, as 350 is in a busy queue.
  Two updates adrift (`MaxAdrift`) are the whole report of a batch that dies. One
  row is a withdrawal, whose handler may report it done and failed. The run with
  fairness keeps no update adrift, since a late one only settles rows; for reports
  of batches that overlap because claims lapsed, `InProgressIsWorked` rests on
  its theorem.
- Payout: amounts 2 and 3 with deposits 6 are the smallest with which one of two
  withdrawals fits and the other does not once the blocked amount is counted; two
  batches show every race on the same withdrawal; two deliveries let a task come
  back after a batch.
- Anticipation: two installments of one payment and one of another separate what
  is selected by schedule from what is marked by payment; two requests race the
  count; one fault leaves a mark without its commit and repeats the task.
- Settlement: amount 10, fee 1, reserve 2, two installments: 7 does not divide by
  2, so the last installment differs; two copies of a webhook or two release
  tasks of one schedule give every overlap of two handlers. A card has one of
  the three (two approvals, two releases, one refund request) at a time, the
  other payments two release tasks beside a request, a delayed one also two
  approvals around its date.
- Cache protocols: a third attempt sees what the race of two left behind, a third
  process bids into the election of two. Ticks are the smallest with which every
  comparison of the code goes both ways (`Delay` 1 below `Wait` 2; `BidLife` 9 is
  the least the assumption allows with `ExecMax` 1).
- Services: two requests make each race, a third or fourth comes after it or
  undoes it (an invitation, its acceptance, a removal and an update; a rotation
  beside a reset). Of webhooks two requests reach an unchecked write of a type; the
  second webhook of the type needs a third request, which the theorem covers.
  Two webhooks, one company key below a limit of two, three receivers of which two
  share a PIX key. One cut and one lost list, since a second one repeats the first. Offers: without and with reserve, and two that
  must be refused.

### Fairness

`TaskQueue`: intervals poll for ever (`Load`), the orchestrator restarts
processes (`Boot`), time passes (`Lapse`), and the started batches of a process
come to an end one way or another (`Progress`, one condition for all batches, as a
process that dies takes its batches with it). `WithdrawalPayout`: each batch and
each provider call proceeds (`WF` of `BatchStep` and `PayoutStep`), since nothing
but a fault stops an awaited call. `Anticipation`: the queue takes up and
finishes each task (`WF` of `TaskStep`), and `OpenIsDecided` claims nothing once a
batch failed. `CacheProtocols`: a request, an attempt and a process in the election
proceed, timers fire and time passes (`WF` of each protocol's steps), since
nothing but a death or a failing cache stops them, and both are bounded. Faults,
webhooks and the wallet and release jobs have no fairness; the services need none.
No liveness is claimed for settlement, whose tasks are not retried.

## 4. Proofs

Eight modules of proofs, each for all values of the constants its assumptions admit.
Every strengthening was model-checked as an invariant of the same instance before
it was proved. Every safety invariant and every action property the passing runs
check is a theorem; what stays with TLC is liveness.

`SumTheorems` has the lemmas on sums. The ledger's sums are folds of the community
modules (`SumFunctionOnSet`, `SumFunction`); the module unfolds that fold once and
shows what a sum does when an element is added, when two sets are disjoint, when a
function grows or is zero. Induction over a set is done with a minimal
counterexample (`MinimalSubset`, from the library's well-founded order of finite
subsets), since the library's induction rule takes an operator.

`TaskQueueProofs`, from `TypesAssumption`, `WorkersAssumption`,
`BoundsAssumption`:

- `TypeCorrect`: `Spec => []TypeOK`.
- `ClaimInductive`, `ExclusiveClaimAlways`, `SettledForGood`: that no two batches
  hold a row says nothing of a row that a running batch left PENDING and unlocked,
  which could be claimed again. `ClaimIInv` adds that a batch's process is up and
  works rows of its types, and that the batch's stage tells the row's status:
  claimed rows are PENDING, locked and fresh, running rows IN_PROGRESS, later ones
  never PENDING. It is about the guarded rows: payout rows, which no start
  resets, and every row when one general process runs; then a reset comes from the
  process whose batches are gone. `SettledStaysSettled` is an action property:
  neither a mark nor a reset finds a settled row.
- `PayoutInductive`, `PayoutAtMostOnce`: on top of that, a payout row's handler has
  not committed before its mark, nor commits again after it.
- `InProgressWorked`: `Spec => []InProgressIsWorked`. The property alone does not
  tell a batch that has yet to settle the row from one whose update is through:
  `AnsweredIInv` has some batch at work on it, at its catch block, or with the row's
  part of the report to make (`Answers`). When one update is rejected the whole
  batch turns to the catch block, which is why the other's rows are never left.
  It needs no assumption on leases: any overlap of batches is allowed.

`AnticipationProofs`, from `SchedulesAssumption`:

- `TypeCorrect`; `OneOpenAlways`, which is inductive by itself: the proof does not
  use the count before the insert, so the index alone carries it.
- `PaidInductive`, `ApprovedIsPaidAlways`: `ApprovedIsPaid` says nothing of a task
  in its batch, which could approve a row decided before, or find its key taken.
  `PaidIInv` adds that such a row is still PENDING, and that a credit's key names
  its request.
- `EarlyInductive`, `EarlyNotReleased`: `EarlyIInv` adds that a release task or a
  release exists only for what is due, and that what was marked early stays
  COMPLETED with no release under way.

`WithdrawalPayoutProofs`, from `AmountAssumption`, `PayoutBoundsAssumption`,
`EnvironmentsAssumption`: any number of withdrawals and batches, all faults, any number of
copies of a webhook.

- `WithdrawalInductive`: `WithdrawalIInv` follows a withdrawal through its row, its
  ledger, its call and the provider (`InStep`): the debit comes before the call,
  the call before anything the provider or the error path does; rows a batch has
  locked are PENDING, not deducted and its alone (`LocksHold`); a webhook under
  way tells what cannot change back (`HooksTell`). Each of these properties
  alone is violated from a state the others exclude.
- `CalledAtMostOnce`, `FailedForGood` (an action property), and `DeductedIsDebited`:
  the flag says exactly whether the debit is posted.
- `PayoutKeepsItsContract`: `Spec => ImplementsPayoutContract`. Under `WithdrawalIInv`
  initial states map to initial states and every step to a step of `PayoutContract`
  or a stutter: a committed deduction is `Take`, the call `Ask`, each first credit
  (error path, FAILED or REFUNDED webhook) `GiveBack`; everything else leaves ledger
  and provider alone.
- `AccountNeverOverdrawn`: `NeverOverdrawn` is inductive beside the rows' types. A
  posting changes `Balance` by its net amount; every posting but a deduction is a
  credit, and a deduction commits only the ledger its own check saw stay positive.
  Wallet, stale sums and webhooks play no part.
- `PayoutTypeCorrect`: wallet, snapshots and balances are integers, as sums of natural
  numbers are.

`PaymentSettlementProofs`, from `AmountsAssumption`, `TermsAssumption`: any amounts,
any number of installments, copies of a webhook, release tasks and refund requests.

- `TypeCorrect` is not inductive: a release writes the schedule its task names, and a
  task whose schedule did not exist would write anything. `SettlementIInv` adds that
  every release task has its schedule, which no step deletes.
- `CompletedIsPostedAlways`: a release whose key was taken posts nothing, and is
  COMPLETED all the same. `SettlementIInv` adds that whatever a release has posted is
  what some schedule moves, in full, so a taken key was taken for the same money. The
  premise is that no terms delay a balance and also withhold a reserve: there one
  key stands for both credits, and the run `settlement_reserve_lost` shows what happens.
- `MoneyInductive`, and from it `ApprovalConservedAlways`, `HoldsWhatIsScheduledAlways` and
  `TakenBackInFullAlways` (the same premise): the totals alone do not say which
  postings make them up. `MoneyIInv` says that postings come in whole groups, an
  approval with its reserve and schedules, a release with both sides and a COMPLETED
  schedule (`WholeGroups`); where an approval lands by the date (`LandsAtHome`); that with one
  copy of each webhook no decision is made twice, whatever was read before
  (`RowsAsRead`); and, until an installment is posted, that a card's row counts all of it
  as pending. Each account's sum then changes by whole groups, as what the open
  schedules owe (`Owed`).

`CacheProtocolsProofs`: for each protocol its inductive invariant, and then the
properties of the composed `Spec`, of which a step is a step of one protocol and
leaves the others alone (`OneGoesOn`). `ProtocolTypesCorrect` is its type
correctness.

The election, from `PodsAssumption`, `ElectionTicksAssumption`, `TimingAssumption`, and
with the premise `NamesDiffer` (no pod's name is a prefix of another's), which `OneExecutor`
itself states:

- `ElectionInductive`, `OneExecutorAlways`: mutual exclusion alone does not say
  why two processes that both saw no bid cannot both read their own back.
  `ElectionIInv` adds ages: a standing bid is at most two calls older than its
  bidder's wait; who is about to bid looked before it was written, so it has written
  when it is read back;
  from its election to the deletion the winner's bid is there and too young to
  be ignored.
- `ElectionIsExclusive`: the election implements `RefreshContract`'s safety
  specification: initial states map to initial states, every step to a step of
  the contract or a stutter.

The guards, from `RequestsAssumption`, `LoadableAssumption`,
`GuardTicksAssumption`: `StaleIsBoundedAlways`. `GuardIInv` adds how long ago, at
most, what a request has loaded or the entry holds was withdrawn. The locks play no
part in it: the bound is the entry's life and one call, however many hold the
lock at once.

The interceptor, from `AttemptsAssumption`, `CacheErrorsAssumption`:
`OneCreationAlways`. `IdempotencyIInv` adds that without a race at most one request
is past its lookup, that the entry tells of it, and that, whatever raced, the
request an entry names has not failed yet.

`AccountProofs` and `ServicesProofs`, from `ServicesAssumption` (the assumptions of the
nine modules: sets of requests, tokens, keys and notices are finite where the
invariants count them, the webhooks there are at the beginning differ in type,
limits are natural numbers). Each service has an inductive invariant in its module
(`...IInv`), lemmas `...Start` and `...Step`, and one lemma per operation between them.
Every instance has a `Cardinality` of its own; `CountsAlike` identifies them with the
library's. `ServicesInductive` composes the nine; the properties of `Services` follow
from it, `DisputesEndAlways` (action properties) from the infractions' step. What
the invariants add:

- keys: a request about to create has counted room for one key more, up to the
  overruns noted since (`CountedRoom`);
- webhooks: a request about to write names a type no live row has and no other such
  request (`TypesApart`), unless two checked one type or an update wrote back a
  type its webhook had lost; a sender that has not begun
  holds nothing;
- members: an invitation that was not accepted has brought nobody in, and whoever
  is about to accept is the user it was sent to; `OwnerRemains` itself is
  inductive, since a write whose checks no longer held is noted;
- sessions: live tokens and refreshes between their two statements together are no
  more than the logins and doubled refreshes (`RotationsFromLogins`), a reset under way
  has a token that was handed out, and used tokens bound the passwords written;
- companies: who will insert a row looked when there was none; uploads that met
  nobody are one at a time, with the files of the names they have passed
  (`UploadsInTurn`); a reserve about to be written has days;
- payment creation: how far a request is says what it has charged and written
  (`FarAsItsPlace`), requests for one customer at the insert know of each other
  (`RacesForCustomers`), and one request at most has a claim to an external_id;
- infractions: the notices at work are the tasks of exactly one process, and a
  process alone with its dispute has read what still holds (`UnknownIsAbsent`);
- receivers: the rows and requests a request saw when it looked are there and
  name other destinations (`SawOthers`, `SawOtherIds`), and status, history of
  acceptances and decisions agree (`AcceptedByStatus`);
- documents of a user: unless uploads met, one at a time has anything to write, and
  of a request that still waits what no longer flies has landed (`OneAtATime`).

Only model-checked: liveness (`PendingIsServed`, `DeliveredIsDecided`, `OpenIsDecided`,
`RequestsAreAnswered`, `RefreshRecurs`), which with fairness and ENABLED is out of the
provers' reach. What the four runs with a counterexample show is no theorem either.

## 5. What the models found

Four runs end in a counterexample on purpose, each against a line of the code
itself (`findings` in `PROJECT.json`). Beyond these, the following was seen while
modelling and restricts what the properties claim. Names in brackets are lines of
files under `src/src/`: GP `general-processor.queue.ts`, CP
`call-provider-withdrawal-processor.queue.ts`, PR `payment-refunded.handler.ts`, all in
`infrastructure/queue`.

Queue:

- A general row claimed less than two minutes before its process restarts stays
  IN_PROGRESS: the reset at start-up skips it and no later step takes it up.
- The limit `maxActiveProcessTask` does not limit: batches are not awaited.
- A batch that obtains no withdrawal returns before it reports its tasks [CP:396].
- When one update of a report is rejected, the catch block marks the whole batch
  FAILED, the tasks that were worked too, and the process dies; an update that lands
  after it makes its rows COMPLETED again. A batch whose claim lapsed marks a row
  IN_PROGRESS that another batch has settled and unlocked: if it then dies, the
  reset, which asks for a lock, does not find the row.

Payout:

- A validation that lost against the 30 s timer, and was reported as `Validation
  timeout before balance deduction`, still commits the deduction; nobody calls
  the provider (`call = "abandoned"`).
- The error path refunds after any exception, so a lost answer refunds a
  paid withdrawal; the contract excepts lost and unstored answers (`heard`).
- A withdrawal the provider answers FAILED can be credited twice, by the error path
  under a REFUNDED key and by the FAILED webhook under a FAILED key, when the
  webhook was read before the error path marked the row. A late second APPROVED
  webhook overwrites a REFUNDED withdrawal.
- Amounts already debited are subtracted once more (`otherPendingWithdrawals`,
  [CP:425]), so that what the balance covers may be refused.
- A withdrawal's `external_id` is not unique and is looked up across companies.
  `validateTypeWithdrawal` inverts its conditions (`withdrawal-validator.service.ts:35`). An
  APPROVED withdrawal calls the company's REFUND_OUT webhooks only [GP:863].
- A receiver's status is decided with the company's own API key; the documented way
  back to pending is refused by the DTO.

Settlement and anticipation:

- After the first installment the pending amount of a card is 0 [GP:1530], so its
  refund takes too little; INSTALLMENT schedules survive a refund [PR:385], as
  `handleRefund` has no caller.
- A refund that read the payment before a release committed takes from an account
  the release has emptied (the total is right, one account negative). Two copies of
  the REFUNDED webhook, one read before a release and one after it, take back twice.
- Two copies of an approval, one worked before `completed_available_date` and one
  after it, credit the pending and the available account under two keys;
  `ApprovalConserved` names this as the only way to two credits.
- Devolution rows are written outside the transaction that refunds [GP:685].
- An anticipation whose transaction rolls back leaves its schedules COMPLETED and
  unpaid; its row stays PENDING and blocks later requests. A schedule released, or
  anticipated by another request, between the simulation and the insert is paid a
  second time when the company's other schedules cover the sum.

Payment creation and infractions:

- The row's status is the provider's raw word. What is no `payment_status` (REJECTED,
  BLOCKED, REFUND, or a word `parseStatus` does not know and maps to ERROR_SYSTEM)
  passes the validator, but for a rejected PIX, and makes the insert throw after the
  charge: a charge without a row. A word that is another `payment_status` is stored
  as it came, and no approval task follows it. No word at all leaves the column's
  default, PENDING; `authCodeCreditCard` is absent from production answers. A
  conflict on `external_id` becomes a 500. A customer created by two payments at
  once fails one of them on the unique e-mail, after its charge.
- The fee table is indexed by installments less one (`(2x até 12x)` in its
  comment), and an organization's share may come out negative. `configAffiliates` and
  `configPartners` are used without a declaration (`payment.service.ts:216`).
- The provider's `is_active` is written and never read by a flow.
- A refund should close the payment's infractions, but payment ids are compared
  with provider ids ([PR:399], [GP:703]): no row is found. The infraction's webhook
  tells the old status [GP:1183].

Cache, webhooks, sessions, keys, companies:

- `CacheService.set` takes seconds, and several callers pass milliseconds: their
  entries live a thousand times longer (an idempotency mark 24 000 h). The
  idempotency key is not qualified by the company.
- Errors of the cache are swallowed, so `rememberWithLock` retries for as long as
  the cache is down.
- `immediately invalidated` (`api-key.controller.ts:194`, `:254`) is true up to
  `Ttl + CallMax`: the entry is deleted before the row is written.
- `processWebhooks` is started once per process and only its own flag
  (`isProcessingWebhooks`) keeps it from running twice; `processRetries` and
  `cleanOldLogs` have no caller, and `findPendingRetries` selects RETRYING rows,
  which `canRetry` refuses, as it needs FAILED.
- A refresh in the second of the login signs the same token, which the unique column
  refuses after the old one was revoked: the session is lost.
- An update of a member without a type demotes the last owner.
- An update of a webhook that names the type it has just read looks for no other
  webhook and writes the type all the same (`webhook.service.ts:78`): when another
  request has changed the type in between, and a third has registered a new webhook of
  it, the company has two. `OneHookPerType` notes such a write in `reverted`.
- Creating a company and rotating a key are several statements without a
  transaction (`company.service.ts:98`, `api-key.service.ts:263`): a cut leaves a
  company without its other rows, or a company with no key.
- A user's pictures are sent at once and `Promise.all` refuses the request at the
  first that fails (`user.service.ts:94`): one of a refused attempt may land after a
  retry's row, under its name. A request cut between the row and the status leaves
  a user whom every retry refuses.

## 6. Not modelled

- Currency conversion: one pending row per company is created and never processed.
- Devolution rows, and the company's own webhooks inside the modelled handlers:
  nothing reads them back. A webhook that cannot be logged fails its batch after
  the commit; that is in TaskQueue (`Throw`).
- Operations without a caller: `defend`, `close` and `cancel` of infractions,
  `restore`, `createLog`, `deleteLog`, `cleanOldLogs`, `processRetries` of webhooks,
  `handleRefund` of schedules, `stopAcceptingJobs`.
- The manual approval of withdrawals for companies without automatic withdrawals:
  the code has none; such rows stay PENDING.
- A reserve without a release delay: the schedule has no date and every approval
  fails (`TermsAssumption` leaves it out).
- The gateways' field mapping, signatures and hashing; what the provider may answer
  is in the modules that call it. Withdrawal, refund and anticipation fees are constants.
- The wallet read without a lock in the payout [CP:502] is never taken: the result of
  the balance query, an array of rows, is used as one row, so its `total_balance` is
  undefined, every comparison with it is false, and each batch locks.
- Listings and single-row updates no decision reads (addresses, provider fields, the
  last company, the last use of a key), DTOs, controllers, the database, e-mail
  and log clients, the HTTP filter and the health check: no protocol of several
  steps.

## 7. What is left

1. A contract of the settlement (net amount pending, reserved, available or taken
   back), implemented by PaymentSettlement: `MoneyIInv` gives the totals it needs.
2. A contract of the queue (a task is open, taken, or settled) that TaskQueue
   implements while claims last.
3. The totals of a settlement on the terms with balance and reserve both delayed:
   what remains true there once a credit is lost.
