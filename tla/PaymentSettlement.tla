------------------------- MODULE PaymentSettlement -------------------------
(***************************************************************************)
(* One payment after the customer paid: approval, the release of pending   *)
(* and reserved money, and the refund.  Every handler of the general queue *)
(* reads the rows of its batch first and writes in a later transaction, so *)
(* handlers of batches that overlap act on rows others have changed.       *)
(* Money is a ledger of postings under unique idempotency keys.            *)
(* Devolution rows, which nothing reads, and outgoing webhooks are left    *)
(* out.                                                                    *)
(***************************************************************************)
EXTENDS Integers, FiniteSets, Functions

CONSTANTS
    Terms,            \* the terms a payment may be made on, see TermsAssumption
    Amount,           \* amount column
    AmountFee,        \* amount_fee column
    Penalty           \* what the company pays for a refund

ASSUME AmountsAssumption ==
    Amount \in Nat /\ AmountFee \in Nat /\ Penalty \in Nat /\ AmountFee <= Amount
\* installments is 0 unless the payment is a CREDIT_CARD; a reserve without a
\* release date makes every approval fail.  copies, runs and requests bound the
\* copies of one webhook and the release tasks of one schedule in flight, and
\* the refund requests of the company.
ASSUME TermsAssumption ==
    /\ Terms \subseteq [card : BOOLEAN, delayed : BOOLEAN, reserveDelayed : BOOLEAN,
                         reserve : 0..(Amount - AmountFee), installments : Nat,
                         copies : Nat \ {0}, runs : Nat \ {0}, requests : Nat]
    /\ \A t \in Terms :
        /\ t.card => ~t.delayed
        /\ t.card <=> t.installments > 0
        /\ t.reserve > 0 => t.reserveDelayed
ASSUME SettlementBoundsAssumption == IsFiniteSet(Terms) /\ Terms # {}

VARIABLES
    terms,    \* the terms of this payment, in columns that never change
    pay,      \* the payment row
    ledger,   \* postings of this payment
    sched,    \* payment_release_schedule rows
    hooks,    \* PAYMENT tasks: queued, or read and not yet applied
    releases, \* SCHEDULED tasks: queued, or read and not yet applied
    req,      \* a refund request in the API
    requests, \* refund requests so far
    prov,     \* the payment at the provider
    matured   \* completed_available_date has passed

vars == <<terms, pay, ledger, sched, hooks, releases, req, requests, prov, matured>>

Card == terms.card                       \* otherwise PIX or BILLET
Delayed == terms.delayed                 \* the balance is available some days after
ReserveDelayed == terms.reserveDelayed   \* the reserve is released some days after
Reserve == terms.reserve                 \* amount_reserve column
Installments == terms.installments

Net == Amount - AmountFee

-----------------------------------------------------------------------------
(* Rows *)

Payment == [status : {"PENDING", "APPROVED", "REFUNDED_PROCESSING", "REFUNDED"},
            approved : BOOLEAN, processing : BOOLEAN, refunded : BOOLEAN,
            available : BOOLEAN, reserveOut : BOOLEAN,
            qty : 0..Installments, received : Nat, pending : Nat]

\* buildPaymentData; a card may come back APPROVED at once.
NewPayment(s) ==
    [status |-> s, approved |-> FALSE, processing |-> FALSE, refunded |-> FALSE,
     available |-> ~Card /\ ~Delayed, reserveOut |-> ~ReserveDelayed,
     qty |-> 0, received |-> 0, pending |-> IF Card THEN Net - Reserve ELSE 0]

Accounts == {"PENDING", "AVAILABLE", "RESERVE"}
Webhooks == {"APPROVED", "REFUNDED"}

\* A posting: its idempotency key and its amount_net.
Posting == [hook : Webhooks, op : {"PAYMENT", "RESERVE", "SYSTEM", "REFUND_IN"},
            account : Accounts, move : {"CREDIT", "DEBIT"},
            inst : 0..Installments, net : Int]

Entry(hook, op, account, move, inst, net) ==
    [hook |-> hook, op |-> op, account |-> account, move |-> move,
     inst |-> inst, net |-> net]

\* createIdempotencyKey without its installments suffix.
SameKeyNoInstallment(e, f) ==
    [e EXCEPT !.net = 0, !.inst = 0] = [f EXCEPT !.net = 0, !.inst = 0]

SameKey(e, f) == [e EXCEPT !.net = 0] = [f EXCEPT !.net = 0]

SumNet(E) == SumFunction([e \in E |-> e.net])

\* Postings without a unique key: a repeated one adds up.
PostAgain(E) ==
    ledger' = {f \in ledger : \A e \in E : ~SameKey(e, f)} \cup
              {[e EXCEPT !.net = @ + SumNet({f \in ledger : SameKey(e, f)})] : e \in E}

\* createMany with skipDuplicates: a key that was posted stays as it is.
Post(E) == ledger' = ledger \cup {e \in E : \A f \in ledger : ~SameKey(e, f)}

BalanceOf(account) == SumNet({e \in ledger : e.account = account})

\* What is scheduled: the balance, the reserve, or installment i.
Balance == [type |-> "PENDING_TO_AVAILABLE", inst |-> 0]
Reserved == [type |-> "RESERVE_RELEASE", inst |-> 0]
Parcel(i) == [type |-> "INSTALLMENT", inst |-> i]
Slots == {Balance, Reserved} \cup {Parcel(i) : i \in 1..Installments}

\* Equal parts that leave the rest out.
PartFloored(total, i) == total \div Installments

\* An equal part of total, the last installment taking the rest.
Part(total, i) ==
    LET part == total \div Installments
    IN  IF i < Installments THEN part ELSE total - part * (Installments - 1)

SlotNet(s) ==
    CASE s = Balance -> Net
      [] s = Reserved -> Reserve
      [] OTHER -> Part(Net - Reserve, s.inst)

\* by: the copy of the approval that created the row.
Schedule == [slot : Slots, by : 1..terms.copies,
             status : {"SCHEDULED", "COMPLETED", "CANCELLED"}]

Hook == [st : Webhooks, copy : 1..terms.copies, read : BOOLEAN, seen : Payment]
Release == [slot : Slots, by : 1..terms.copies, run : 1..terms.runs,
            read : BOOLEAN, found : BOOLEAN]

\* Every variable ranges over the values its rows can hold.
TypeOK ==
    /\ terms \in Terms
    /\ pay \in Payment
    /\ ledger \subseteq Posting
    /\ sched \subseteq Schedule
    /\ hooks \subseteq Hook
    /\ releases \subseteq Release
    /\ req \in [open : BOOLEAN, seen : Payment]
    /\ requests \in 0..terms.requests
    /\ prov \in {"charged", "paid", "returned"}
    /\ matured \in BOOLEAN

NewHook(st, c) == [st |-> st, copy |-> c, read |-> FALSE, seen |-> NewPayment("PENDING")]

Init ==
    /\ terms \in Terms
    /\ \/ /\ pay = NewPayment("PENDING")
          /\ prov = "charged"
          /\ hooks = {}
       \* createQueueTaskForApprovedPayment
       \/ /\ Card
          /\ pay = NewPayment("APPROVED")
          /\ prov = "paid"
          /\ hooks = {NewHook("APPROVED", 1)}
    /\ ledger = {}
    /\ sched = {}
    /\ releases = {}
    /\ req = [open |-> FALSE, seen |-> NewPayment("PENDING")]
    /\ requests = 0
    /\ matured = FALSE

-----------------------------------------------------------------------------
(* Webhooks *)

ProviderSettles ==
    /\ \/ prov = "charged" /\ prov' = "paid"
       \/ prov = "paid" /\ prov' = "returned"
    /\ UNCHANGED <<pay, ledger, sched, hooks, releases, req, requests, matured>>

\* handlePaymentWebhook: a status the row does not have, and not after a refund.
Receive(st, c) ==
    /\ prov \in IF st = "APPROVED" THEN {"paid", "returned"} ELSE {"returned"}
    /\ pay.status # st
    /\ pay.status # "REFUNDED"
    /\ \A h \in hooks : h.st # st \/ h.copy # c
    /\ hooks' = hooks \cup {NewHook(st, c)}
    /\ UNCHANGED <<pay, ledger, sched, releases, req, requests, prov, matured>>

\* processPayment reads the payments of its batch.
ReadHook(h) ==
    /\ ~h.read
    /\ hooks' = (hooks \ {h}) \cup {[h EXCEPT !.read = TRUE, !.seen = pay]}
    /\ UNCHANGED <<pay, ledger, sched, releases, req, requests, prov, matured>>

\* The batch fails before its commit and is not retried.
DropHook(h) ==
    /\ hooks' = hooks \ {h}
    /\ UNCHANGED <<pay, ledger, sched, releases, req, requests, prov, matured>>

-----------------------------------------------------------------------------
(* Approval *)

CanApprove(p) == p.status \in {"PENDING", "APPROVED"} /\ ~p.approved

\* The account the payment lands in, and whether the reserve is taken from it.
Landing == IF Card \/ (Delayed /\ ~matured) THEN "PENDING" ELSE "AVAILABLE"
Withheld == Reserve > 0 /\ ~(Delayed /\ matured)

ApprovalPostings ==
    {Entry("APPROVED", "PAYMENT", Landing, "CREDIT", 0, Net)}
        \cup IF Withheld
             THEN {Entry("APPROVED", "RESERVE", Landing, "DEBIT", 0, -Reserve),
                   Entry("APPROVED", "RESERVE", "RESERVE", "CREDIT", 0, Reserve)}
             ELSE {}

ApprovalSlots ==
    {Parcel(i) : i \in 1..Installments}
        \cup (IF Delayed /\ ~matured THEN {Balance} ELSE {})
        \cup (IF Withheld THEN {Reserved} ELSE {})

\* PaymentApprovedHandlerQueue, in the transaction of its batch.
Approve(h) ==
    /\ h.read /\ h.st = "APPROVED"
    /\ hooks' = hooks \ {h}
    /\ IF CanApprove(h.seen)
       THEN /\ pay' = [pay EXCEPT !.status = "APPROVED", !.approved = TRUE]
            /\ Post(ApprovalPostings)
            /\ sched' = sched \cup [slot : ApprovalSlots, by : {h.copy}, status : {"SCHEDULED"}]
       ELSE UNCHANGED <<pay, ledger, sched>>
    /\ UNCHANGED <<releases, req, requests, prov, matured>>

-----------------------------------------------------------------------------
(* Release *)

\* completed_available_date passes.
Mature ==
    /\ Delayed /\ ~matured
    /\ matured' = TRUE
    /\ UNCHANGED <<pay, ledger, sched, hooks, releases, req, requests, prov>>

\* scheduled_date has passed; the balance waits for completed_available_date.
Due(s) == s.slot = Balance => matured

\* The job enqueues every due schedule on each of its runs.
EnqueueRelease(s, n) ==
    /\ s.status = "SCHEDULED"
    /\ Due(s)
    /\ \A r \in releases : r.slot # s.slot \/ r.by # s.by \/ r.run # n
    /\ releases' = releases \cup {[slot |-> s.slot, by |-> s.by, run |-> n,
                                   read |-> FALSE, found |-> FALSE]}
    /\ UNCHANGED <<pay, ledger, sched, hooks, req, requests, prov, matured>>

ScheduleOf(r) == CHOOSE s \in sched : s.slot = r.slot /\ s.by = r.by

\* processPaymentReleaseSchedule reads the schedules still SCHEDULED.
ReadRelease(r) ==
    /\ ~r.read
    /\ releases' = (releases \ {r}) \cup
           {[r EXCEPT !.read = TRUE, !.found = (ScheduleOf(r).status = "SCHEDULED")]}
    /\ UNCHANGED <<pay, ledger, sched, hooks, req, requests, prov, matured>>

SourceOf(slot) == IF slot = Reserved THEN "RESERVE" ELSE "PENDING"

ReleasePostings(slot) ==
    {Entry("APPROVED", "SYSTEM", SourceOf(slot), "DEBIT", slot.inst, -SlotNet(slot)),
     Entry("APPROVED", "SYSTEM", "AVAILABLE", "CREDIT", slot.inst, SlotNet(slot))}

\* Pending counted down by what each installment was worth.
ReleasedSubtracting(slot) ==
    IF slot.inst = 0 THEN pay
    ELSE [pay EXCEPT !.qty = slot.inst, !.pending = @ - Part(Amount, slot.inst),
                     !.received = @ + SlotNet(slot)]

\* The payment after a release.
Released(slot) ==
    CASE slot = Balance -> [pay EXCEPT !.available = TRUE]
      [] slot = Reserved -> [pay EXCEPT !.reserveOut = TRUE]
      [] slot = Parcel(Installments) ->
            [pay EXCEPT !.available = TRUE, !.qty = Installments, !.pending = 0,
                        !.received = Part(Amount, Installments)]
      [] OTHER ->
            [pay EXCEPT !.qty = slot.inst, !.pending = 0,
                        !.received = slot.inst * SlotNet(slot)]

ApplyRelease(r) ==
    /\ r.read
    /\ releases' = releases \ {r}
    /\ IF r.found
       THEN /\ sched' = (sched \ {ScheduleOf(r)})
                            \cup {[ScheduleOf(r) EXCEPT !.status = "COMPLETED"]}
            /\ Post(ReleasePostings(r.slot))
            /\ pay' = Released(r.slot)
       ELSE UNCHANGED <<sched, ledger, pay>>
    /\ UNCHANGED <<hooks, req, requests, prov, matured>>

DropRelease(r) ==
    /\ releases' = releases \ {r}
    /\ UNCHANGED <<pay, ledger, sched, hooks, req, requests, prov, matured>>

-----------------------------------------------------------------------------
(* Refund *)

CanRefund(p) ==
    /\ p.approved \/ p.processing
    /\ p.status \in {"APPROVED", "REFUNDED_PROCESSING"}
    /\ ~p.refunded

\* Some installments are still to come.
Partial(p) == Card /\ p.qty # Installments

\* Of the balance without the reserve, what has come to AVAILABLE, and what is
\* PENDING while it has not come as a whole.
Received(p) ==
    IF p.available THEN Net - Reserve ELSE IF Partial(p) THEN p.received ELSE 0
StillPending(p) == IF Partial(p) THEN p.pending ELSE Net - Reserve

\* A refund that forgets what the refund costs.
RefundPostingsNoFee(p) ==
    LET debit(account, net) == Entry("REFUNDED", "REFUND_IN", account, "DEBIT", 0, -net)
    IN  {debit("AVAILABLE", IF p.available THEN Net - Reserve ELSE 0),
         debit("PENDING", IF p.available THEN 0 ELSE Net - Reserve),
         debit("RESERVE", Reserve)}

\* The four cases of PaymentRefundedHandlerQueue: each account gives back what
\* the row that was read says it holds, AVAILABLE also the fee and the penalty.
RefundPostings(p) ==
    LET fee == Penalty + AmountFee
        debit(account, net) == Entry("REFUNDED", "REFUND_IN", account, "DEBIT", 0, -net)
    IN  {debit("AVAILABLE", fee + Received(p) + IF p.reserveOut THEN Reserve ELSE 0)}
            \cup (IF p.available THEN {} ELSE {debit("PENDING", StillPending(p))})
            \cup (IF p.reserveOut THEN {} ELSE {debit("RESERVE", Reserve)})

\* The schedule types it cancels.
Cancelled(p) ==
    (IF p.available THEN {} ELSE {Balance}) \cup (IF p.reserveOut THEN {} ELSE {Reserved})

CancelSlots(S) ==
    sched' = {[s EXCEPT !.status = IF s.slot \in S /\ @ = "SCHEDULED" THEN "CANCELLED" ELSE @] :
                s \in sched}

Refund(h) ==
    /\ h.read /\ h.st = "REFUNDED"
    /\ hooks' = hooks \ {h}
    /\ IF CanRefund(h.seen)
       THEN /\ pay' = [pay EXCEPT !.status = "REFUNDED", !.refunded = TRUE]
            /\ Post(RefundPostings(h.seen))
            /\ CancelSlots(Cancelled(h.seen))
       ELSE UNCHANGED <<pay, ledger, sched>>
    /\ UNCHANGED <<releases, req, requests, prov, matured>>

\* refundPayment of the gateway: the provider returns the charge and answers,
\* or the call throws, before or after it did.
refundPayment ==
    {[prov |-> "returned", answered |-> TRUE], [prov |-> "returned", answered |-> FALSE],
     [prov |-> prov, answered |-> FALSE]}

\* PaymentService.refund: reads the payment and calls the provider ...
RequestRefund ==
    /\ ~req.open
    /\ requests < terms.requests
    /\ CanRefund(pay)
    /\ requests' = requests + 1
    /\ \E outcome \in refundPayment :
          /\ prov' = outcome.prov
          /\ req' = IF outcome.answered THEN [open |-> TRUE, seen |-> pay] ELSE req
    /\ UNCHANGED <<pay, ledger, sched, hooks, releases, matured>>

\* repository.save writes the status, dates and balances that were read;
\* transitionTo throws for a payment already being refunded.
Saved(p) ==
    IF p.status = "APPROVED"
    THEN [p EXCEPT !.status = "REFUNDED_PROCESSING", !.processing = TRUE] ELSE pay

\* ... and saves what it read.
SaveRequest ==
    /\ req.open
    /\ req' = [req EXCEPT !.open = FALSE]
    /\ pay' = Saved(req.seen)
    /\ UNCHANGED <<ledger, sched, hooks, releases, requests, prov, matured>>

-----------------------------------------------------------------------------
HookStep(h) == ReadHook(h) \/ Approve(h) \/ Refund(h)
ReleaseStep(r) == ReadRelease(r) \/ ApplyRelease(r)

Step ==
    \/ ProviderSettles \/ Mature
    \/ \E st \in Webhooks, c \in 1..terms.copies : Receive(st, c)
    \/ \E h \in hooks : HookStep(h) \/ DropHook(h)
    \/ \E s \in sched, n \in 1..terms.runs : EnqueueRelease(s, n)
    \/ \E r \in releases : ReleaseStep(r) \/ DropRelease(r)
    \/ RequestRefund \/ SaveRequest

Next == Step /\ UNCHANGED terms

Spec == Init /\ [][Next]_vars

-----------------------------------------------------------------------------
(* Properties *)

Approvals == {e \in ledger : e.hook = "APPROVED"}
Refunds == {e \in ledger : e.hook = "REFUNDED"}
Slotted(slot) == {s \in sched : s.slot = slot}
IsReleased(slot) == \E s \in Slotted(slot) : s.status = "COMPLETED"

\* The accounts the payment's own credit has been posted to.
Landings == {e.account : e \in {f \in Approvals : f.op = "PAYMENT"}}

\* However often approval and releases are delivered, overlap or read stale
\* rows, the company is credited the net amount once, and releases only move it;
\* but for two copies of an approval, of which one is worked before
\* completed_available_date and one after it: they land on two accounts.
ApprovalConserved ==
    /\ SumNet(Approvals) = Net * Cardinality(Landings)
    /\ Cardinality(Landings) > 1 => matured /\ terms.copies > 1

\* A schedule that counts as COMPLETED moved its amount, also when it is the
\* second schedule a repeated approval made for the same money.
CompletedIsPosted ==
    \A s \in sched : s.status = "COMPLETED" => ReleasePostings(s.slot) \subseteq ledger

Open == {slot \in Slots : Slotted(slot) # {} /\ ~IsReleased(slot)}
Owed(slots) == SumFunction([slot \in slots |-> SlotNet(slot)])

\* Until a refund, the pending account holds what its unreleased schedules
\* will take out of it, and the reserve account the unreleased reserve.
HoldsWhatIsScheduled ==
    Refunds = {} /\ pay.approved =>
        /\ BalanceOf("PENDING") = Owed(Open \ {Reserved})
        /\ BalanceOf("RESERVE") = Owed(Open \cap {Reserved})

\* A refund the provider announces takes back the whole payment, its fee and
\* the penalty, whichever releases of balance and reserve ran before it, beside
\* it or after it; of a card, as long as no installment has been released.  Two
\* copies of the announcement, read before and after a release, choose two cases
\* and take back more: the claim is about one copy at a time.
TakenBackInFull ==
    Refunds # {} /\ requests = 0 /\ terms.copies = 1 /\ (\A e \in ledger : e.inst = 0) =>
        SumNet(ledger) = -(AmountFee + Penalty)

(* The inductive invariant behind CompletedIsPosted *)

\* A balance is scheduled when it is delayed, a reserve when there is one.
ScheduledByTerms ==
    \A s \in sched : (s.slot = Balance => Delayed) /\ (s.slot = Reserved => Reserve > 0)

\* A release task is of a schedule that exists: schedules are never deleted.
TasksHaveSchedules == \A r \in releases : \E s \in sched : s.slot = r.slot /\ s.by = r.by

\* What releases posted is what some schedule moves, in full.
ReleasesPostSchedules ==
    \A e \in ledger : e.op = "SYSTEM" => \E s \in sched : e \in ReleasePostings(s.slot)

\* With a balance and a reserve both delayed, one key stands for two credits.
OneCreditPerKey == ~(Delayed /\ Reserve > 0)

SettlementIInv ==
    /\ TypeOK /\ ScheduledByTerms /\ TasksHaveSchedules /\ ReleasesPostSchedules
    /\ OneCreditPerKey => CompletedIsPosted

(* The inductive invariant behind the sums *)

\* The account an approval before completed_available_date lands in, what it
\* schedules, and how it takes the reserve out of the payment.
Home == IF Card \/ Delayed THEN "PENDING" ELSE "AVAILABLE"
HomeSlots ==
    {Parcel(i) : i \in 1..Installments}
        \cup (IF Delayed THEN {Balance} ELSE {})
        \cup (IF Reserve > 0 THEN {Reserved} ELSE {})
Landed(account) == Entry("APPROVED", "PAYMENT", account, "CREDIT", 0, Net)
ReservePostings ==
    {Entry("APPROVED", "RESERVE", Home, "DEBIT", 0, -Reserve),
     Entry("APPROVED", "RESERVE", "RESERVE", "CREDIT", 0, Reserve)}

\* Postings come in whole groups: the payment's credit with the reserve's pair
\* and the schedules, both sides of a release with a COMPLETED schedule.
WholeGroups ==
    /\ IsFiniteSet(ledger)
    /\ \A e \in ledger :
        \/ e = Landed(e.account) /\ e.account \in {"PENDING", "AVAILABLE"}
        \/ e \in ReservePostings /\ Reserve > 0 /\ Home \in Landings
        \/ \E slot \in Slots : IsReleased(slot) /\ e \in ReleasePostings(slot)
        \/ e.hook = "REFUNDED" /\ e.op = "REFUND_IN"
    /\ Home \in Landings /\ Reserve > 0 => ReservePostings \subseteq ledger
    /\ {s.slot : s \in sched} = IF Home \in Landings THEN HomeSlots ELSE {}

\* The payment is approved when its credit is posted, at another account than
\* Home only after completed_available_date.
LandsAtHome ==
    /\ pay.approved <=> Landings # {}
    /\ ~matured => Landings \subseteq {Home}
    /\ matured => Delayed
    /\ Cardinality(Landings) > 1 => terms.copies > 1

\* What tasks and the refund request have read of the row: an approval is never
\* taken back, and with one copy of each webhook no decision is made twice.
RowsAsRead ==
    /\ pay.processing => pay.approved
    /\ req.open => req.seen.approved /\ pay.approved /\ requests > 0
    /\ \A h, g \in hooks : h.st = g.st /\ h.copy = g.copy => h = g
    /\ \A h \in hooks : h.read =>
        /\ h.seen.approved \/ h.seen.processing => pay.approved
        /\ terms.copies = 1 /\ h.st = "APPROVED" /\ CanApprove(h.seen) => ~pay.approved
        /\ terms.copies = 1 /\ requests = 0 /\ h.st = "REFUNDED" /\ CanRefund(h.seen) => ~pay.refunded
    /\ terms.copies = 1 /\ requests = 0 /\ Refunds # {} => pay.refunded
    /\ Refunds # {} => pay.approved

\* Until an installment is posted, a card's row counts all of it as pending.
Uncounted(p) == Card => p.received = 0 /\ p.pending = Net - Reserve
NothingCounted ==
    requests = 0 /\ (\A e \in ledger : e.inst = 0) =>
        Uncounted(pay) /\ \A h \in hooks : h.read => Uncounted(h.seen)

At(account, E) == {e \in E : e.account = account}

SumsHold ==
    /\ SumNet(Approvals) = Net * Cardinality(Landings)
    /\ SumNet(At("PENDING", Approvals)) = Owed(Open \ {Reserved})
    /\ SumNet(At("RESERVE", Approvals)) = Owed(Open \cap {Reserved})
    /\ Refunds # {} /\ requests = 0 /\ terms.copies = 1 /\ (\A e \in ledger : e.inst = 0) =>
           SumNet(Refunds) = -(Net + AmountFee + Penalty)

MoneyIInv ==
    SettlementIInv /\ (OneCreditPerKey =>
        WholeGroups /\ LandsAtHome /\ RowsAsRead /\ NothingCounted /\ SumsHold)

(* What the code says of itself, and does not do *)

\* canRefund (`!this.refunded_at'): a refunded payment is not refunded again, so
\* refunds take no more than the amount and the penalty.
RefundedOnce == SumNet(Refunds) >= -(Amount + Penalty)

=============================================================================
