---------------------- MODULE PaymentSettlementProofs ----------------------
(***************************************************************************)
(* What PaymentSettlement guarantees for any terms, amounts, installments  *)
(* and number of copies and requests: types, what a COMPLETED schedule     *)
(* posted, and from the sums of the postings and of the schedules still    *)
(* open, what each account holds and what a refund takes back.             *)
(***************************************************************************)
EXTENDS PaymentSettlement, SumTheorems, TLAPS

-----------------------------------------------------------------------------
(* Amounts *)

\* Equal parts of a whole but one leave something, or nothing, for the last.
LEMMA LastPart ==
    ASSUME NEW total \in Nat, NEW n \in Nat \ {0}
    PROVE  total \div n \in Nat /\ total - (total \div n) * (n - 1) \in Nat
<1>1. total \div n \in Nat /\ (total \div n) * n <= total
    OBVIOUS
<1>2. ASSUME NEW part \in Nat, part * n <= total PROVE total - part * (n - 1) \in Nat
    <2>1. part * (n - 1) = part * n - part
        OBVIOUS
    <2>2. part * n \in Nat
        OBVIOUS
    <2> QED BY <1>2, <2>1, <2>2
<1> QED BY <1>1, <1>2

\* An installment's part is an amount.
LEMMA PartType ==
    ASSUME NEW total \in Nat, NEW i \in 1..Installments, Installments \in Nat
    PROVE  Part(total, i) \in Nat
<1>1. Installments \in Nat \ {0}
    OBVIOUS
<1>2. /\ total \div Installments \in Nat
      /\ total - (total \div Installments) * (Installments - 1) \in Nat
    BY <1>1, LastPart
<1> QED BY <1>2 DEF Part

\* What the terms of a payment are, and the amounts that follow.
LEMMA TermsType ==
    ASSUME terms \in Terms
    PROVE  /\ Installments \in Nat /\ Reserve \in Nat /\ Net \in Nat /\ Net - Reserve \in Nat
           /\ Card \in BOOLEAN /\ Delayed \in BOOLEAN /\ ReserveDelayed \in BOOLEAN
           /\ Card <=> Installments > 0
           /\ terms.requests \in Nat /\ terms.copies \in Nat \ {0} /\ terms.runs \in Nat \ {0}
BY TermsAssumption, AmountsAssumption
DEF Installments, Reserve, Net, Card, Delayed, ReserveDelayed

\* What a schedule moves is an amount.
LEMMA SlotNetType ==
    ASSUME terms \in Terms, NEW s \in Slots
    PROVE  SlotNet(s) \in Nat
<1>0. /\ Balance # Reserved
      /\ \A i \in Nat : Parcel(i) # Balance /\ Parcel(i) # Reserved
    BY DEF Balance, Reserved, Parcel
<1>1. CASE s = Balance
    BY <1>1, TermsType DEF SlotNet
<1>2. CASE s = Reserved
    BY <1>0, <1>2, TermsType DEF SlotNet
<1>3. CASE s # Balance /\ s # Reserved
    <2>1. PICK i \in 1..Installments : s = Parcel(i)
        BY <1>3 DEF Slots
    <2>2. Part(Net - Reserve, i) \in Nat
        BY TermsType, PartType
    <2> QED BY <1>3, <2>1, <2>2 DEF SlotNet, Parcel
<1> QED BY <1>1, <1>2, <1>3

\* A new payment is a row.
LEMMA NewPaymentType ==
    ASSUME terms \in Terms, NEW s \in {"PENDING", "APPROVED"}
    PROVE  NewPayment(s) \in Payment
<1>1. 0 \in 0..Installments /\ Net - Reserve \in Nat
    BY TermsType
<1> QED BY <1>1, TermsType DEF NewPayment, Payment

-----------------------------------------------------------------------------
(* Postings *)

LEMMA EntryType ==
    ASSUME NEW hook \in Webhooks, NEW op \in {"PAYMENT", "RESERVE", "SYSTEM", "REFUND_IN"},
           NEW account \in Accounts, NEW move \in {"CREDIT", "DEBIT"},
           NEW inst \in 0..Installments, NEW net \in Int
    PROVE  Entry(hook, op, account, move, inst, net) \in Posting
BY DEF Entry, Posting

\* Posting what is well formed leaves a well formed ledger.
LEMMA PostType ==
    ASSUME NEW E, E \subseteq Posting, ledger \subseteq Posting, Post(E)
    PROVE  ledger' \subseteq Posting
BY DEF Post

\* What an approval posts and schedules is well formed.
LEMMA ApprovalType ==
    ASSUME terms \in Terms
    PROVE  ApprovalPostings \subseteq Posting /\ ApprovalSlots \subseteq Slots
<1>1. Landing \in Accounts /\ "RESERVE" \in Accounts
    BY DEF Landing, Accounts
<1>2. 0 \in 0..Installments /\ Net \in Int /\ Reserve \in Int /\ -Reserve \in Int
    BY TermsType
<1>3. /\ Entry("APPROVED", "PAYMENT", Landing, "CREDIT", 0, Net) \in Posting
      /\ Entry("APPROVED", "RESERVE", Landing, "DEBIT", 0, -Reserve) \in Posting
      /\ Entry("APPROVED", "RESERVE", "RESERVE", "CREDIT", 0, Reserve) \in Posting
    BY <1>1, <1>2, EntryType DEF Webhooks
<1> QED BY <1>3 DEF ApprovalPostings, ApprovalSlots, Slots

\* What a release posts is well formed.
LEMMA ReleaseType ==
    ASSUME terms \in Terms, NEW s \in Slots
    PROVE  ReleasePostings(s) \subseteq Posting
<1>1. SourceOf(s) \in Accounts /\ "AVAILABLE" \in Accounts
    BY DEF SourceOf, Accounts
<1>2. SlotNet(s) \in Int /\ -SlotNet(s) \in Int
    BY SlotNetType
<1>3. s.inst \in 0..Installments
    BY TermsType DEF Slots, Balance, Reserved, Parcel
<1>4. /\ Entry("APPROVED", "SYSTEM", SourceOf(s), "DEBIT", s.inst, -SlotNet(s)) \in Posting
      /\ Entry("APPROVED", "SYSTEM", "AVAILABLE", "CREDIT", s.inst, SlotNet(s)) \in Posting
    BY <1>1, <1>2, <1>3, EntryType DEF Webhooks
<1> QED BY <1>4 DEF ReleasePostings

\* What a refund takes back is well formed.
LEMMA RefundType ==
    ASSUME terms \in Terms, NEW p \in Payment
    PROVE  RefundPostings(p) \subseteq Posting
<1> DEFINE fee == Penalty + AmountFee
           back == fee + Received(p) + IF p.reserveOut THEN Reserve ELSE 0
           debit(account, net) == Entry("REFUNDED", "REFUND_IN", account, "DEBIT", 0, -net)
<1>1. p.received \in Nat /\ p.pending \in Nat
    BY DEF Payment
<1>2. Received(p) \in Nat /\ StillPending(p) \in Nat /\ fee \in Nat /\ Reserve \in Nat
    BY <1>1, TermsType, AmountsAssumption DEF Received, StillPending
<1>3. back \in Nat
    BY <1>2
<1> HIDE DEF fee, back
<1>4. \A account \in Accounts, net \in Nat : debit(account, net) \in Posting
    <2>1. 0 \in 0..Installments
        BY TermsType
    <2> QED BY <2>1, EntryType DEF Webhooks
<1>5. RefundPostings(p) \subseteq
        {debit("AVAILABLE", back), debit("PENDING", StillPending(p)), debit("RESERVE", Reserve)}
    BY DEF RefundPostings, fee, back
<1> QED BY <1>2, <1>3, <1>4, <1>5 DEF Accounts

\* A release leaves the payment a row.
LEMMA ReleasedType ==
    ASSUME terms \in Terms, pay \in Payment, NEW s \in Slots
    PROVE  Released(s) \in Payment
<1>0. /\ Balance # Reserved
      /\ \A i \in Nat : Parcel(i) # Balance /\ Parcel(i) # Reserved
    BY DEF Balance, Reserved, Parcel
<1>1. CASE s = Balance \/ s = Reserved
    <2>1. s # Parcel(Installments) /\ Balance # Reserved
        BY <1>0, <1>1, TermsType
    <2>2. CASE s = Balance
        <3>1. Released(s) = [pay EXCEPT !.available = TRUE]
            BY <2>1, <2>2 DEF Released
        <3> QED BY <3>1 DEF Payment
    <2>3. CASE s = Reserved
        <3>1. Released(s) = [pay EXCEPT !.reserveOut = TRUE]
            BY <2>1, <2>3 DEF Released
        <3> QED BY <3>1 DEF Payment
    <2> QED BY <1>1, <2>2, <2>3
<1>2. CASE s # Balance /\ s # Reserved
    <2>1. PICK i \in 1..Installments : s = Parcel(i)
        BY <1>2 DEF Slots
    <2>2. s.inst = i /\ i \in Nat /\ i \in 0..Installments /\ Installments \in 0..Installments
        BY <2>1, TermsType DEF Parcel
    <2>3. Part(Amount, Installments) \in Nat
        BY <2>1, TermsType, PartType, AmountsAssumption
    <2>4. s.inst * SlotNet(s) \in Nat
        BY <2>2, SlotNetType
    <2>5. CASE s = Parcel(Installments)
        BY <1>2, <2>2, <2>3, <2>5 DEF Released, Payment
    <2>6. CASE s # Parcel(Installments)
        BY <1>2, <2>2, <2>4, <2>6 DEF Released, Payment
    <2> QED BY <2>5, <2>6
<1> QED BY <1>1, <1>2

-----------------------------------------------------------------------------
(* Type correctness *)

\* The terms of a payment never change, so what its rows can hold does not.
LEMMA RowsStay ==
    ASSUME terms' = terms
    PROVE  /\ Payment' = Payment /\ Posting' = Posting /\ Schedule' = Schedule
           /\ Hook' = Hook /\ Release' = Release
BY DEF Payment, Posting, Schedule, Hook, Release, Slots, Installments

\* A task that was queued is well formed.
LEMMA NewHookType ==
    ASSUME terms \in Terms, NEW st \in Webhooks, NEW c \in 1..terms.copies
    PROVE  NewHook(st, c) \in Hook
<1>1. NewPayment("PENDING") \in Payment
    BY NewPaymentType
<1> QED BY <1>1 DEF NewHook, Hook

\* A payment starts as a row, with at most one task.
LEMMA SettlementInitType == Init => TypeOK
<1> SUFFICES ASSUME Init PROVE TypeOK
    OBVIOUS
<1>1. terms \in Terms
    BY DEF Init
<1>2. pay \in Payment
    BY <1>1, NewPaymentType DEF Init
<1>3. hooks \subseteq Hook
    <2>1. 1 \in 1..terms.copies
        BY <1>1, TermsType
    <2>2. NewHook("APPROVED", 1) \in Hook
        BY <1>1, <2>1, NewHookType DEF Webhooks
    <2> QED BY <2>2 DEF Init
<1>4. req \in [open : BOOLEAN, seen : Payment]
    BY <1>1, NewPaymentType DEF Init
<1>5. requests \in 0..terms.requests
    BY <1>1, TermsType DEF Init
<1> QED BY <1>1, <1>2, <1>3, <1>4, <1>5 DEF Init, TypeOK

\* Every step keeps every row in its columns' ranges.
LEMMA SettlementNextType == TypeOK /\ TasksHaveSchedules /\ [Next]_vars => TypeOK'
<1> SUFFICES ASSUME TypeOK, TasksHaveSchedules, [Next]_vars PROVE TypeOK'
    OBVIOUS
<1>0. terms \in Terms /\ terms' = terms
    BY DEF TypeOK, Next, vars
<1>1. ASSUME pay' \in Payment, ledger' \subseteq Posting, sched' \subseteq Schedule,
             hooks' \subseteq Hook, releases' \subseteq Release,
             req' \in [open : BOOLEAN, seen : Payment], requests' \in 0..terms.requests,
             prov' \in {"charged", "paid", "returned"}, matured' \in BOOLEAN
      PROVE  TypeOK'
    BY <1>0, <1>1, RowsStay DEF TypeOK
<1>2. CASE UNCHANGED vars
    BY <1>1, <1>2 DEF vars, TypeOK
<1>3. CASE ProviderSettles \/ Mature
    BY <1>1, <1>3 DEF ProviderSettles, Mature, TypeOK
<1>4. ASSUME NEW st \in Webhooks, NEW c \in 1..terms.copies, Receive(st, c) PROVE TypeOK'
    <2>1. NewHook(st, c) \in Hook
        BY <1>0, NewHookType
    <2> QED BY <1>1, <1>4, <2>1 DEF Receive, TypeOK
<1>5. ASSUME NEW h \in hooks, HookStep(h) \/ DropHook(h) PROVE TypeOK'
    <2>0. h \in Hook /\ h.seen \in Payment /\ h.copy \in 1..terms.copies
        BY DEF TypeOK, Hook
    <2>1. CASE DropHook(h)
        BY <1>1, <2>1 DEF DropHook, TypeOK
    <2>2. CASE ReadHook(h)
        <3>1. [h EXCEPT !.read = TRUE, !.seen = pay] \in Hook
            BY <2>0 DEF Hook, TypeOK
        <3> QED BY <1>1, <2>2, <3>1 DEF ReadHook, TypeOK
    <2>3. CASE Approve(h)
        <3>1. [pay EXCEPT !.status = "APPROVED", !.approved = TRUE] \in Payment
            BY DEF TypeOK, Payment
        <3>2. pay' \in Payment
            BY <2>3, <3>1 DEF Approve, TypeOK
        <3>3. ledger' \subseteq Posting
            BY <1>0, <2>3, ApprovalType, PostType DEF Approve, TypeOK
        <3>4. [slot : ApprovalSlots, by : {h.copy}, status : {"SCHEDULED"}] \subseteq Schedule
            BY <1>0, <2>0, ApprovalType DEF Schedule
        <3>5. sched' \subseteq Schedule
            BY <2>3, <3>4 DEF Approve, TypeOK
        <3> QED BY <1>1, <2>3, <3>2, <3>3, <3>5 DEF Approve, TypeOK
    <2>4. CASE Refund(h)
        <3>1. [pay EXCEPT !.status = "REFUNDED", !.refunded = TRUE] \in Payment
            BY DEF TypeOK, Payment
        <3>2. pay' \in Payment
            BY <2>4, <3>1 DEF Refund, TypeOK
        <3>3. ledger' \subseteq Posting
            BY <1>0, <2>0, <2>4, RefundType, PostType DEF Refund, TypeOK
        <3>4. ASSUME NEW S, CancelSlots(S) PROVE sched' \subseteq Schedule
            <4>1. \A s \in sched, st \in {"SCHEDULED", "COMPLETED", "CANCELLED"} :
                    [s EXCEPT !.status = st] \in Schedule
                BY DEF TypeOK, Schedule
            <4>2. \A s \in sched : s.status \in {"SCHEDULED", "COMPLETED", "CANCELLED"}
                BY DEF TypeOK, Schedule
            <4>3. \A s \in sched :
                    [s EXCEPT !.status = IF s.slot \in S /\ @ = "SCHEDULED" THEN "CANCELLED" ELSE @]
                        \in Schedule
                BY <4>1, <4>2
            <4> QED BY <3>4, <4>3 DEF CancelSlots
        <3>5. sched' \subseteq Schedule
            BY <2>4, <3>4 DEF Refund, TypeOK
        <3> QED BY <1>1, <2>4, <3>2, <3>3, <3>5 DEF Refund, TypeOK
    <2> QED BY <1>5, <2>1, <2>2, <2>3, <2>4 DEF HookStep
<1>6. ASSUME NEW s \in sched, NEW n \in 1..terms.runs, EnqueueRelease(s, n) PROVE TypeOK'
    <2>1. s.slot \in Slots /\ s.by \in 1..terms.copies
        BY DEF TypeOK, Schedule
    <2>2. [slot |-> s.slot, by |-> s.by, run |-> n, read |-> FALSE, found |-> FALSE] \in Release
        BY <2>1 DEF Release
    <2> QED BY <1>1, <1>6, <2>2 DEF EnqueueRelease, TypeOK
<1>7. ASSUME NEW r \in releases, ReleaseStep(r) \/ DropRelease(r) PROVE TypeOK'
    <2>0. r \in Release /\ r.slot \in Slots
        BY DEF TypeOK, Release
    <2>1. CASE DropRelease(r)
        BY <1>1, <2>1 DEF DropRelease, TypeOK
    <2>2. CASE ReadRelease(r)
        <3>1. \A b \in BOOLEAN : [r EXCEPT !.read = TRUE, !.found = b] \in Release
            BY <2>0 DEF Release
        <3> QED BY <1>1, <2>2, <3>1 DEF ReadRelease, TypeOK
    <2>3. CASE ApplyRelease(r)
        <3>1. pay' \in Payment
            BY <1>0, <2>0, <2>3, ReleasedType DEF ApplyRelease, TypeOK
        <3>2. ledger' \subseteq Posting
            BY <1>0, <2>0, <2>3, ReleaseType, PostType DEF ApplyRelease, TypeOK
        <3>3. ScheduleOf(r) \in Schedule
            BY DEF ScheduleOf, TasksHaveSchedules, TypeOK
        <3>4. [ScheduleOf(r) EXCEPT !.status = "COMPLETED"] \in Schedule
            BY <3>3 DEF Schedule
        <3>5. sched' \subseteq Schedule
            BY <2>3, <3>4 DEF ApplyRelease, TypeOK
        <3> QED BY <1>1, <2>3, <3>1, <3>2, <3>5 DEF ApplyRelease, TypeOK
    <2> QED BY <1>7, <2>1, <2>2, <2>3 DEF ReleaseStep
<1>8. CASE RequestRefund
    <2>1. requests + 1 \in 0..terms.requests
        BY <1>0, <1>8, TermsType DEF RequestRefund, TypeOK
    <2>2. req' \in [open : BOOLEAN, seen : Payment]
        BY <1>8 DEF RequestRefund, TypeOK
    <2>3. prov' \in {"charged", "paid", "returned"}
        BY <1>8 DEF RequestRefund, refundPayment, TypeOK
    <2> QED BY <1>1, <1>8, <2>1, <2>2, <2>3 DEF RequestRefund, TypeOK
<1>9. CASE SaveRequest
    <2>1. Saved(req.seen) \in Payment
        BY DEF Saved, TypeOK, Payment
    <2> QED BY <1>1, <1>9, <2>1 DEF SaveRequest, TypeOK
<1> QED BY <1>2, <1>3, <1>4, <1>5, <1>6, <1>7, <1>8, <1>9 DEF Next, Step

-----------------------------------------------------------------------------
(* A completed schedule was posted *)

\* What a schedule posts does not change.
LEMMA PostingsStay ==
    ASSUME terms' = terms, NEW s
    PROVE  ReleasePostings(s)' = ReleasePostings(s)
BY DEF ReleasePostings, SlotNet, Part, Net, Reserve, Installments

\* Postings with one key agree in everything but the amount.
LEMMA KeyFields ==
    ASSUME NEW e \in Posting, NEW f \in Posting, SameKey(e, f)
    PROVE  e.op = f.op /\ e.account = f.account /\ e.move = f.move /\ e.inst = f.inst
<1>1. [e EXCEPT !.net = 0] = [f EXCEPT !.net = 0]
    BY DEF SameKey
<1>2. \A g \in Posting : LET z == [g EXCEPT !.net = 0]
                         IN  z.op = g.op /\ z.account = g.account /\ z.move = g.move /\ z.inst = g.inst
    BY DEF Posting
<1> QED BY <1>1, <1>2

\* The two postings of a release, by their fields.
LEMMA ReleaseFields ==
    ASSUME NEW s, NEW e \in ReleasePostings(s)
    PROVE  /\ e.op = "SYSTEM" /\ e.inst = s.inst
           /\ \A f \in ReleasePostings(s) : f.move = e.move => f = e
BY DEF ReleasePostings, Entry

\* Two scheduled releases with one number are one, unless balance and reserve
\* are both delayed.
LEMMA OneSlot ==
    ASSUME terms \in Terms, ScheduledByTerms, OneCreditPerKey, sched \subseteq Schedule,
           NEW s \in sched, NEW q \in sched, s.slot.inst = q.slot.inst
    PROVE  s.slot = q.slot
<1>1. s.slot \in Slots /\ q.slot \in Slots
    BY DEF Schedule
<1>2. \A i \in 1..Installments : Parcel(i).inst = i /\ i # 0
    BY TermsType DEF Parcel
<1>3. Balance.inst = 0 /\ Reserved.inst = 0
    BY DEF Balance, Reserved
<1>4. ~(s.slot = Balance /\ q.slot = Reserved) /\ ~(s.slot = Reserved /\ q.slot = Balance)
    BY DEF ScheduledByTerms, OneCreditPerKey
<1> QED BY <1>1, <1>2, <1>3, <1>4 DEF Slots

\* A release whose keys are taken finds exactly its own postings under them.
LEMMA ReleasePosted ==
    ASSUME SettlementIInv, OneCreditPerKey, NEW s \in sched, Post(ReleasePostings(s.slot))
    PROVE  ReleasePostings(s.slot) \subseteq ledger'
<1> SUFFICES ASSUME NEW e \in ReleasePostings(s.slot), NEW f \in ledger, SameKey(e, f)
             PROVE  e \in ledger'
    BY DEF Post
<1>1. terms \in Terms /\ s.slot \in Slots /\ f \in Posting
    BY DEF SettlementIInv, TypeOK, Schedule
<1>2. e \in Posting
    BY <1>1, ReleaseType
<1>3. f.op = "SYSTEM" /\ f.inst = s.slot.inst /\ f.move = e.move
    BY <1>1, <1>2, KeyFields, ReleaseFields
<1>4. PICK q \in sched : f \in ReleasePostings(q.slot)
    BY <1>3 DEF SettlementIInv, ReleasesPostSchedules
<1>5. q.slot = s.slot
    BY <1>3, <1>4, ReleaseFields, OneSlot DEF SettlementIInv, TypeOK
<1>6. f = e
    BY <1>3, <1>4, <1>5, ReleaseFields
<1> QED BY <1>6 DEF Post

\* Every step keeps: tasks have schedules, releases post what schedules move.
LEMMA SettlementStep == SettlementIInv /\ [Next]_vars => SettlementIInv'
<1> SUFFICES ASSUME SettlementIInv, [Next]_vars PROVE SettlementIInv'
    OBVIOUS
<1>0. TypeOK /\ terms \in Terms /\ terms' = terms /\ TypeOK'
    BY SettlementNextType DEF SettlementIInv, TypeOK, Next, vars
<1>1. /\ Delayed' = Delayed /\ Reserve' = Reserve
      /\ \A s : ReleasePostings(s)' = ReleasePostings(s)
    BY <1>0, PostingsStay DEF Delayed, Reserve
<1>2. ASSUME \A s \in sched' :
                 /\ s.slot \in {q.slot : q \in sched} \cup ApprovalSlots
                 /\ s.status = "COMPLETED" =>
                        \/ \E q \in sched : q.slot = s.slot /\ q.status = "COMPLETED"
                        \/ OneCreditPerKey => ReleasePostings(s.slot) \subseteq ledger',
             \A q \in sched : \E s \in sched' : s.slot = q.slot /\ s.by = q.by,
             \A r \in releases' : \E s \in sched : s.slot = r.slot /\ s.by = r.by,
             ledger \subseteq ledger',
             \A e \in ledger' : e \in ledger \/ e.op # "SYSTEM"
                                  \/ \E s \in sched : e \in ReleasePostings(s.slot)
      PROVE  SettlementIInv'
    <2>1. \A s \in sched : (s.slot = Balance => Delayed) /\ (s.slot = Reserved => Reserve > 0)
        BY DEF SettlementIInv, ScheduledByTerms
    <2>2. \A slot \in ApprovalSlots : (slot = Balance => Delayed) /\ (slot = Reserved => Reserve > 0)
        BY <1>0 DEF ApprovalSlots, Withheld, Parcel, Balance, Reserved
    <2>3. ScheduledByTerms'
        BY <1>1, <1>2, <2>1, <2>2 DEF ScheduledByTerms, Balance, Reserved
    <2>4. TasksHaveSchedules'
        BY <1>2 DEF TasksHaveSchedules
    <2>5. ReleasesPostSchedules'
        BY <1>1, <1>2 DEF SettlementIInv, ReleasesPostSchedules
    <2>6. OneCreditPerKey' <=> OneCreditPerKey
        BY <1>1 DEF OneCreditPerKey
    <2>7. ASSUME OneCreditPerKey PROVE CompletedIsPosted'
        BY <1>1, <1>2, <2>7 DEF SettlementIInv, CompletedIsPosted
    <2> QED BY <1>0, <2>3, <2>4, <2>5, <2>6, <2>7 DEF SettlementIInv
<1>3. ASSUME sched' = sched, ledger' = ledger, releases' \subseteq releases PROVE SettlementIInv'
    BY <1>2, <1>3 DEF SettlementIInv, TasksHaveSchedules
<1>4. CASE \/ UNCHANGED vars \/ ProviderSettles \/ Mature \/ RequestRefund \/ SaveRequest
           \/ \E st \in Webhooks, c \in 1..terms.copies : Receive(st, c)
    BY <1>3, <1>4 DEF vars, ProviderSettles, Mature, RequestRefund, SaveRequest, Receive
<1>5. ASSUME NEW h \in hooks, HookStep(h) \/ DropHook(h) PROVE SettlementIInv'
    <2>1. CASE DropHook(h) \/ ReadHook(h)
        BY <1>3, <2>1 DEF DropHook, ReadHook
    <2>2. CASE Approve(h)
        <3>1. CASE UNCHANGED <<ledger, sched>>
            BY <1>3, <2>2, <3>1 DEF Approve
        <3>2. CASE /\ Post(ApprovalPostings)
                   /\ sched' = sched \cup [slot : ApprovalSlots, by : {h.copy}, status : {"SCHEDULED"}]
            <4>1. \A e \in ApprovalPostings : e.op # "SYSTEM"
                BY DEF ApprovalPostings, Entry
            <4>2. releases' = releases
                BY <2>2 DEF Approve
            <4> QED BY <1>2, <3>2, <4>1, <4>2 DEF Post, SettlementIInv, TasksHaveSchedules
        <3> QED BY <2>2, <3>1, <3>2 DEF Approve
    <2>3. CASE Refund(h)
        <3>1. CASE UNCHANGED <<ledger, sched>>
            BY <1>3, <2>3, <3>1 DEF Refund
        <3>2. CASE Post(RefundPostings(h.seen)) /\ CancelSlots(Cancelled(h.seen))
            <4>1. \A e \in RefundPostings(h.seen) : e.op # "SYSTEM"
                BY DEF RefundPostings, Entry
            <4>2. releases' = releases
                BY <2>3 DEF Refund
            <4>3. /\ \A q \in sched : \E s \in sched' : s.slot = q.slot /\ s.by = q.by
                  /\ \A s \in sched' : \E q \in sched :
                        s.slot = q.slot /\ (s.status = "COMPLETED" => q.status = "COMPLETED")
                <5> DEFINE cancelled(q) ==
                        [q EXCEPT !.status = IF q.slot \in Cancelled(h.seen) /\ @ = "SCHEDULED"
                                             THEN "CANCELLED" ELSE @]
                <5>1. sched' = {cancelled(q) : q \in sched}
                    BY <3>2 DEF CancelSlots
                <5>2. ASSUME NEW q \in sched
                      PROVE  /\ cancelled(q).slot = q.slot
                             /\ cancelled(q).by = q.by
                             /\ cancelled(q).status = "COMPLETED" => q.status = "COMPLETED"
                    <6>1. q \in Schedule
                        BY <1>0 DEF TypeOK
                    <6> QED BY <6>1 DEF Schedule
                <5> HIDE DEF cancelled
                <5> QED BY <5>1, <5>2
            <4>4. \A s \in sched' :
                     /\ s.slot \in {q.slot : q \in sched} \cup ApprovalSlots
                     /\ s.status = "COMPLETED" =>
                            \E q \in sched : q.slot = s.slot /\ q.status = "COMPLETED"
                BY <4>3
            <4>5. \A r \in releases' : \E s \in sched : s.slot = r.slot /\ s.by = r.by
                BY <4>2 DEF SettlementIInv, TasksHaveSchedules
            <4>6. /\ ledger \subseteq ledger'
                  /\ \A e \in ledger' : e \in ledger \/ e.op # "SYSTEM"
                BY <3>2, <4>1 DEF Post
            <4> QED BY <1>2, <4>3, <4>4, <4>5, <4>6
        <3> QED BY <2>3, <3>1, <3>2 DEF Refund
    <2> QED BY <1>5, <2>1, <2>2, <2>3 DEF HookStep
<1>6. ASSUME NEW s \in sched, NEW n \in 1..terms.runs, EnqueueRelease(s, n) PROVE SettlementIInv'
    BY <1>2, <1>6 DEF EnqueueRelease, SettlementIInv, TasksHaveSchedules
<1>7. ASSUME NEW r \in releases, ReleaseStep(r) \/ DropRelease(r) PROVE SettlementIInv'
    <2>0. r \in Release
        BY <1>0 DEF TypeOK
    <2>1. CASE DropRelease(r)
        BY <1>3, <2>1 DEF DropRelease
    <2>2. CASE ReadRelease(r)
        <3>1. \A b \in BOOLEAN : LET q == [r EXCEPT !.read = TRUE, !.found = b]
                                 IN  q.slot = r.slot /\ q.by = r.by
            BY <2>0 DEF Release
        <3>2. \A q \in releases' : \E p \in releases : q.slot = p.slot /\ q.by = p.by
            BY <2>2, <3>1 DEF ReadRelease
        <3> QED BY <1>2, <2>2, <3>2 DEF ReadRelease, SettlementIInv, TasksHaveSchedules
    <2>3. CASE ApplyRelease(r)
        <3>1. CASE UNCHANGED <<ledger, sched>>
            BY <1>3, <2>3, <3>1 DEF ApplyRelease
        <3>2. CASE /\ sched' = (sched \ {ScheduleOf(r)})
                                    \cup {[ScheduleOf(r) EXCEPT !.status = "COMPLETED"]}
                   /\ Post(ReleasePostings(r.slot))
            <4> DEFINE s == ScheduleOf(r)
                       z == [s EXCEPT !.status = "COMPLETED"]
            <4>1. s \in sched /\ s.slot = r.slot /\ s.by = r.by
                BY DEF ScheduleOf, SettlementIInv, TasksHaveSchedules
            <4>2. z.slot = s.slot /\ z.by = s.by
                BY <1>0, <4>1 DEF TypeOK, Schedule
            <4>3. OneCreditPerKey => ReleasePostings(z.slot) \subseteq ledger'
                BY <3>2, <4>1, <4>2, ReleasePosted
            <4>4. sched' = (sched \ {s}) \cup {z}
                BY <3>2
            <4>5. releases' \subseteq releases
                BY <2>3 DEF ApplyRelease
            <4>6. ledger' = ledger \cup {e \in ReleasePostings(s.slot) : \A f \in ledger : ~SameKey(e, f)}
                BY <3>2, <4>1 DEF Post
            <4> HIDE DEF s, z
            <4> QED BY <1>2, <4>1, <4>2, <4>3, <4>4, <4>5, <4>6 DEF SettlementIInv, TasksHaveSchedules
        <3> QED BY <2>3, <3>1, <3>2 DEF ApplyRelease
    <2> QED BY <1>7, <2>1, <2>2, <2>3 DEF ReleaseStep
<1> QED BY <1>4, <1>5, <1>6, <1>7 DEF Next, Step

\* Tasks have schedules, and releases post exactly what a schedule moves: the
\* inductive invariant of the settlement.
THEOREM SettlementInductive == Spec => []SettlementIInv
<1>1. Init => SettlementIInv
    BY SettlementInitType DEF Init, SettlementIInv, ScheduledByTerms, TasksHaveSchedules,
       ReleasesPostSchedules, CompletedIsPosted
<1> QED BY <1>1, SettlementStep, PTL DEF Spec

\* Postings, schedules, tasks and requests keep their ranges in every behaviour:
\* the row's amounts stay whole and never below zero, however installments divide.
THEOREM TypeCorrect == Spec => []TypeOK
<1>1. SettlementIInv => TypeOK
    BY DEF SettlementIInv
<1> QED BY <1>1, SettlementInductive, PTL

\* A schedule that counts as COMPLETED moved its amount, for any installments,
\* copies of approvals and overlapping releases, on all terms but the one on
\* which the code loses a credit: balance and reserve both delayed.
THEOREM CompletedIsPostedAlways ==
    ASSUME \A t \in Terms : t.delayed => t.reserve = 0
    PROVE  Spec => []CompletedIsPosted
<1>1. SettlementIInv => CompletedIsPosted
    BY DEF SettlementIInv, TypeOK, OneCreditPerKey, Delayed, Reserve
<1> QED BY <1>1, SettlementInductive, PTL

-----------------------------------------------------------------------------
(* Sums of postings and of schedules *)

\* A set of postings has an integer sum, and one more posting adds its amount.
LEMMA SumNetAdded ==
    ASSUME NEW E, E \subseteq Posting, IsFiniteSet(E)
    PROVE  /\ SumNet(E) \in Int
           /\ \A e \in Posting : e \notin E => SumNet(E \cup {e}) = SumNet(E) + e.net
           /\ \A F : F \subseteq Posting /\ IsFiniteSet(F) /\ E \cap F = {} =>
                  SumNet(E \cup F) = SumNet(E) + SumNet(F)
<1> DEFINE net(F) == [e \in F |-> e.net]
<1>1. \A F : SumNet(F) = SumFunctionOnSet(net(F), F)
    BY DEF SumNet, SumFunction
<1>2. \A F : F \subseteq Posting => \A e \in F : net(F)[e] \in Int /\ net(F)[e] = e.net
    BY DEF Posting
<1> HIDE DEF net
<1>3. SumNet(E) \in Int
    BY <1>1, <1>2, SumInt
<1>4. ASSUME NEW e \in Posting, e \notin E PROVE SumNet(E \cup {e}) = SumNet(E) + e.net
    <2> DEFINE G == E \cup {e}
    <2>1. G \subseteq Posting /\ IsFiniteSet(G)
        BY FS_AddElement
    <2>2. SumFunctionOnSet(net(G), G) = SumFunctionOnSet(net(G), E) + e.net
        BY <1>2, <1>4, <2>1, SumAdded
    <2>3. SumFunctionOnSet(net(G), E) = SumFunctionOnSet(net(E), E)
        BY <1>2, <2>1, SumSame
    <2> QED BY <1>1, <2>2, <2>3
<1>5. ASSUME NEW F, F \subseteq Posting, IsFiniteSet(F), E \cap F = {}
      PROVE  SumNet(E \cup F) = SumNet(E) + SumNet(F)
    <2> DEFINE G == E \cup F
    <2>1. G \subseteq Posting
        BY <1>5
    <2>2. SumFunctionOnSet(net(G), G) = SumFunctionOnSet(net(G), E) + SumFunctionOnSet(net(G), F)
        BY <1>2, <1>5, <2>1, SumUnion
    <2>3. /\ SumFunctionOnSet(net(G), E) = SumFunctionOnSet(net(E), E)
          /\ SumFunctionOnSet(net(G), F) = SumFunctionOnSet(net(F), F)
        BY <1>2, <1>5, <2>1, SumSame
    <2> QED BY <1>1, <2>2, <2>3
<1> QED BY <1>3, <1>4, <1>5

LEMMA SumNetEmpty == SumNet({}) = 0
BY SumEmpty DEF SumNet, SumFunction

\* The schedules of a payment are finitely many.
LEMMA SlotsFinite ==
    ASSUME terms \in Terms
    PROVE  IsFiniteSet(Slots) /\ Installments \in Nat
<1> DEFINE parcels == {Parcel(i) : i \in 1..Installments}
           f == [i \in 1..Installments |-> Parcel(i)]
<1>1. f \in Surjection(1..Installments, parcels)
    BY DEF Surjection
<1>2. IsFiniteSet(1..Installments) /\ Installments \in Nat
    BY TermsType, FS_Interval
<1>3. IsFiniteSet(parcels)
    <2> HIDE DEF f, parcels
    <2> QED BY <1>1, <1>2, FS_Surjection
<1>4. IsFiniteSet({Balance, Reserved})
    <2>1. IsFiniteSet({Balance})
        BY FS_Singleton
    <2>2. IsFiniteSet({Balance} \cup {Reserved})
        BY <2>1, FS_AddElement
    <2>3. {Balance, Reserved} = {Balance} \cup {Reserved}
        OBVIOUS
    <2> QED BY <2>2, <2>3
<1> QED BY <1>2, <1>3, <1>4, FS_Union DEF Slots

\* What schedules will take out, and what is left of it after one of them.
LEMMA OwedWithout ==
    ASSUME terms \in Terms, NEW S \in SUBSET Slots
    PROVE  /\ Owed(S) \in Int
           /\ \A s \in S : Owed(S) = Owed(S \ {s}) + SlotNet(s)
<1> DEFINE net(T) == [s \in T |-> SlotNet(s)]
<1>1. \A T : Owed(T) = SumFunctionOnSet(net(T), T)
    BY DEF Owed, SumFunction
<1>2. \A T \in SUBSET Slots : \A s \in T : net(T)[s] \in Int /\ net(T)[s] = SlotNet(s)
    BY SlotNetType
<1>3. \A T \in SUBSET Slots : IsFiniteSet(T)
    BY SlotsFinite, FS_Subset
<1> HIDE DEF net
<1>4. \A T \in SUBSET Slots : Owed(T) \in Int
    BY <1>1, <1>2, <1>3, SumInt
<1>5. ASSUME NEW s \in S PROVE Owed(S) = Owed(S \ {s}) + SlotNet(s)
    <2>1. SumFunctionOnSet(net(S), S) = SlotNet(s) + SumFunctionOnSet(net(S), S \ {s})
        BY <1>2, <1>3, SumElement
    <2>2. S \ {s} \in SUBSET Slots
        OBVIOUS
    <2>3. SumFunctionOnSet(net(S \ {s}), S \ {s}) = SumFunctionOnSet(net(S), S \ {s})
        BY <1>2, <1>3, <2>2, SumSame
    <2>4. Owed(S \ {s}) \in Int /\ SlotNet(s) \in Int
        BY <1>4, <2>2, SlotNetType
    <2> QED BY <1>1, <2>1, <2>3, <2>4
<1> QED BY <1>4, <1>5

LEMMA OwedEmpty == Owed({}) = 0
BY SumEmpty DEF Owed, SumFunction

\* The installments add up to what a card's payment leaves pending.
LEMMA OwedParcels ==
    ASSUME terms \in Terms, Installments > 0
    PROVE  Owed({Parcel(i) : i \in 1..Installments}) = Net - Reserve
<1> DEFINE n == Installments
           total == Net - Reserve
           part == total \div n
           early == {Parcel(i) : i \in 1..(n-1)}
           all == {Parcel(i) : i \in 1..n}
<1>1. n \in Nat \ {0} /\ total \in Nat
    BY TermsType
<1>2. part \in Nat /\ total - part * (n - 1) \in Nat
    <2> HIDE DEF total, n
    <2> QED BY <1>1, LastPart
<1>3. \A i \in 1..n : SlotNet(Parcel(i)) = IF i < n THEN part ELSE total - part * (n - 1)
    BY <1>1 DEF SlotNet, Part, Parcel, Balance, Reserved
<1>4. /\ all \in SUBSET Slots /\ early \in SUBSET Slots
      /\ Parcel(n) \in all /\ all \ {Parcel(n)} = early
    BY <1>1 DEF Slots, Parcel
<1>5. Owed(all) = Owed(early) + (total - part * (n - 1))
    <2>1. SlotNet(Parcel(n)) = total - part * (n - 1)
        BY <1>1, <1>3
    <2> HIDE DEF all, early, part, total
    <2> QED BY <1>4, <2>1, OwedWithout
<1>6. Owed(early) = part * (n - 1)
    <2> DEFINE net == [s \in early |-> SlotNet(s)]
               f == [i \in 1..(n-1) |-> Parcel(i)]
    <2>1. \A s \in early : net[s] = part
        BY <1>1, <1>3
    <2>2. f \in Bijection(1..(n-1), early)
        BY DEF Bijection, Injection, Surjection, IsInjective, Parcel
    <2>3. IsFiniteSet(1..(n-1)) /\ Cardinality(1..(n-1)) = n - 1
        BY <1>1, FS_Interval
    <2>4. IsFiniteSet(early) /\ Cardinality(early) = n - 1
        <3>1. ExistsBijection(1..(n-1), early)
            BY <2>2 DEF ExistsBijection
        <3> HIDE DEF early, n
        <3> QED BY <2>3, <3>1, FS_Bijection
    <2>5. Owed(early) = SumFunctionOnSet(net, early)
        BY DEF Owed, SumFunction
    <2> HIDE DEF net, early, part, n
    <2> QED BY <1>2, <2>1, <2>4, <2>5, SumConstant
<1>7. \A a \in Int : a + (total - a) = total
    BY <1>1
<1>8. part * (n - 1) \in Int
    BY <1>1, <1>2
<1> HIDE DEF part, n, total
<1> QED BY <1>5, <1>6, <1>7, <1>8 DEF n, total

\* What an early approval schedules is what it leaves pending and in reserve.
LEMMA OwedAtHome ==
    ASSUME terms \in Terms, OneCreditPerKey
    PROVE  /\ HomeSlots \in SUBSET Slots
           /\ Owed(HomeSlots \ {Reserved}) = IF Home = "PENDING" THEN Net - Reserve ELSE 0
           /\ Owed(HomeSlots \cap {Reserved}) = Reserve
<1> DEFINE parcels == {Parcel(i) : i \in 1..Installments}
<1>0. /\ Balance # Reserved
      /\ \A i \in Nat : Parcel(i) # Balance /\ Parcel(i) # Reserved
    BY DEF Balance, Reserved, Parcel
<1>1. /\ Installments \in Nat /\ Reserve \in Nat /\ Net \in Nat
      /\ Card \in BOOLEAN /\ Delayed \in BOOLEAN /\ (Card => ~Delayed)
      /\ Card <=> Installments > 0
    BY TermsType, TermsAssumption DEF Card, Delayed
<1>2. HomeSlots \in SUBSET Slots
    BY DEF HomeSlots, Slots
<1>3. \A s \in Slots : Owed({s}) = SlotNet(s)
    <2>1. SUFFICES ASSUME NEW s \in Slots PROVE Owed({s}) = SlotNet(s)
        OBVIOUS
    <2>2. {s} \ {s} = {}
        OBVIOUS
    <2>3. Owed({s}) = Owed({}) + SlotNet(s)
        BY <2>2, OwedWithout
    <2> QED BY <2>3, OwedEmpty, SlotNetType
<1>4. Owed(HomeSlots \ {Reserved}) = IF Home = "PENDING" THEN Net - Reserve ELSE 0
    <2>1. CASE Card
        <3>1. HomeSlots \ {Reserved} = parcels
            BY <1>0, <1>1, <2>1 DEF HomeSlots
        <3> QED BY <1>1, <2>1, <3>1, OwedParcels DEF Home
    <2>2. CASE ~Card /\ Delayed
        <3>1. parcels = {}
            BY <1>1, <2>2
        <3>2. HomeSlots \ {Reserved} = {Balance} /\ Reserve = 0
            BY <1>0, <1>1, <2>2, <3>1 DEF HomeSlots, OneCreditPerKey
        <3>3. Balance \in Slots /\ SlotNet(Balance) = Net
            BY <1>0 DEF Slots, SlotNet
        <3> QED BY <1>1, <1>3, <2>2, <3>2, <3>3 DEF Home
    <2>3. CASE ~Card /\ ~Delayed
        <3>1. parcels = {}
            BY <1>1, <2>3
        <3>2. HomeSlots \ {Reserved} = {}
            BY <2>3, <3>1 DEF HomeSlots
        <3> QED BY <2>3, <3>2, OwedEmpty DEF Home
    <2> QED BY <2>1, <2>2, <2>3
<1>5. Owed(HomeSlots \cap {Reserved}) = Reserve
    <2>1. CASE Reserve > 0
        <3>1. HomeSlots \cap {Reserved} = {Reserved}
            BY <2>1 DEF HomeSlots
        <3>2. SlotNet(Reserved) = Reserve
            BY <1>0 DEF SlotNet
        <3> QED BY <1>3, <3>1, <3>2 DEF Slots
    <2>2. CASE Reserve = 0
        <3>1. HomeSlots \cap {Reserved} = {}
            BY <1>0, <1>1, <2>2 DEF HomeSlots
        <3> QED BY <2>2, <3>1, OwedEmpty
    <2> QED BY <1>1, <2>1, <2>2
<1> QED BY <1>2, <1>4, <1>5

-----------------------------------------------------------------------------
(* The invariant of the sums, one action at a time *)

LEMMA HomeStays ==
    ASSUME terms' = terms
    PROVE  /\ Home' = Home /\ HomeSlots' = HomeSlots /\ ReservePostings' = ReservePostings
           /\ Reserve' = Reserve /\ Delayed' = Delayed /\ Card' = Card /\ Slots' = Slots
           /\ \A S : Owed(S)' = Owed(S)
           /\ OneCreditPerKey' <=> OneCreditPerKey
           /\ \A s : ReleasePostings(s)' = ReleasePostings(s)
<1>1. /\ Reserve' = Reserve /\ Delayed' = Delayed /\ Card' = Card /\ Installments' = Installments
    BY DEF Reserve, Delayed, Card, Installments
<1>2. Home' = Home
    BY <1>1 DEF Home
<1>3. \A S : Owed(S)' = Owed(S)
    BY <1>1 DEF Owed, SlotNet, Part, SumFunction
<1> QED BY <1>1, <1>2, <1>3, PostingsStay DEF HomeSlots, ReservePostings, Slots, OneCreditPerKey

\* The accounts landed in are the ones with the payment's credit.
LEMMA LandingsAre ==
    ASSUME TypeOK, WholeGroups
    PROVE  /\ \A a : a \in Landings <=> Landed(a) \in ledger
           /\ Landings \subseteq {"PENDING", "AVAILABLE"}
           /\ IsFiniteSet(Landings) /\ Cardinality(Landings) \in Nat
           /\ \A e \in ledger : e.op = "PAYMENT" => e = Landed(e.account)
           /\ \A e \in ledger : e.op = "RESERVE" => Reserve > 0 /\ Home \in Landings
           /\ \A e \in ledger : e.op = "SYSTEM" =>
                  \E slot \in Slots : IsReleased(slot) /\ e \in ReleasePostings(slot)
           /\ \A e \in ledger : e.hook = "REFUNDED" <=> e.op = "REFUND_IN"
<1>1. /\ \A a : Landed(a).op = "PAYMENT" /\ Landed(a).account = a /\ Landed(a).hook = "APPROVED"
      /\ \A e \in ReservePostings : e.op = "RESERVE" /\ e.hook = "APPROVED"
      /\ \A s : \A e \in ReleasePostings(s) : e.op = "SYSTEM" /\ e.hook = "APPROVED"
    BY DEF Landed, ReservePostings, ReleasePostings, Entry
<1>2. \A e \in ledger : /\ e.op = "PAYMENT" => e = Landed(e.account) /\ e.account \in {"PENDING", "AVAILABLE"}
                        /\ e.op = "RESERVE" => Reserve > 0 /\ Home \in Landings
                        /\ e.op = "SYSTEM" =>
                              \E slot \in Slots : IsReleased(slot) /\ e \in ReleasePostings(slot)
                        /\ e.hook = "REFUNDED" <=> e.op = "REFUND_IN"
    BY <1>1 DEF WholeGroups
<1>3. \A a : a \in Landings <=> Landed(a) \in ledger
    BY <1>1, <1>2 DEF Landings, Approvals
<1>4. Landings \subseteq {"PENDING", "AVAILABLE"}
    BY <1>1, <1>2, <1>3
<1>5. IsFiniteSet({"PENDING", "AVAILABLE"})
    <2>1. IsFiniteSet({"PENDING"} \cup {"AVAILABLE"})
        BY FS_Singleton, FS_AddElement
    <2>2. {"PENDING", "AVAILABLE"} = {"PENDING"} \cup {"AVAILABLE"}
        OBVIOUS
    <2> QED BY <2>1, <2>2
<1>6. IsFiniteSet(Landings) /\ Cardinality(Landings) \in Nat
    BY <1>4, <1>5, FS_Subset, FS_CardinalityType
<1> QED BY <1>2, <1>3, <1>4, <1>6

\* Where nothing is posted and no schedule begins or completes, the groups and
\* their sums stay.
LEMMA GroupsStay ==
    ASSUME WholeGroups, SumsHold, terms' = terms, ledger' = ledger,
           {s.slot : s \in sched'} = {s.slot : s \in sched},
           \A slot \in Slots : IsReleased(slot)' <=> IsReleased(slot),
           requests' = 0 => requests = 0
    PROVE  /\ Approvals' = Approvals /\ Refunds' = Refunds /\ Landings' = Landings
           /\ WholeGroups' /\ SumsHold'
<1>1. Approvals' = Approvals /\ Refunds' = Refunds
    BY DEF Approvals, Refunds
<1>2. Landings' = Landings
    BY <1>1 DEF Landings
<1>3. Open' = Open
    <2>1. \A slot : Slotted(slot) # {} <=> slot \in {s.slot : s \in sched}
        BY DEF Slotted
    <2>2. \A slot : Slotted(slot)' # {} <=> slot \in {s.slot : s \in sched'}
        BY DEF Slotted
    <2>3. Open = {slot \in Slots : slot \in {s.slot : s \in sched} /\ ~IsReleased(slot)}
        BY <2>1 DEF Open
    <2>4. Open' = {slot \in Slots : slot \in {s.slot : s \in sched} /\ ~IsReleased(slot)'}
        BY <2>2, HomeStays DEF Open
    <2> QED BY <2>3, <2>4
<1>4. WholeGroups'
    BY <1>2, HomeStays DEF WholeGroups, Landed
<1>5. SumsHold'
    BY <1>1, <1>2, <1>3, HomeStays DEF SumsHold, At
<1> QED BY <1>1, <1>2, <1>3, <1>4, <1>5

MoneyParts == WholeGroups /\ LandsAtHome /\ RowsAsRead /\ NothingCounted /\ SumsHold

\* The parts about the row and the tasks, when the ledger stays.
LEMMA RowsAdvance ==
    ASSUME MoneyParts, TypeOK, TypeOK', terms' = terms, ledger' = ledger, sched' = sched,
           matured' \/ UNCHANGED matured, matured' => Delayed,
           requests <= requests',
           pay'.approved = pay.approved, RowsAsRead', NothingCounted'
    PROVE  MoneyParts'
<1>1. requests' = 0 => requests = 0
    BY DEF TypeOK
<1>2. \A slot \in Slots : IsReleased(slot)' <=> IsReleased(slot)
    BY DEF IsReleased, Slotted
<1>3. Landings' = Landings /\ WholeGroups' /\ SumsHold'
    BY <1>1, <1>2, GroupsStay DEF MoneyParts
<1>4. LandsAtHome'
    BY <1>3, HomeStays DEF MoneyParts, LandsAtHome, TypeOK
<1> QED BY <1>3, <1>4 DEF MoneyParts

\* A task that is taken away, or not yet read, has decided nothing.
LEMMA TasksGo ==
    ASSUME MoneyParts, TypeOK, TypeOK', terms' = terms, ledger' = ledger, sched' = sched,
           UNCHANGED <<pay, req, requests, matured>>,
           \A h \in hooks' : h \in hooks \/ (~h.read /\ \A g \in hooks : ~(h.st = g.st /\ h.copy = g.copy)),
           \A h, g \in hooks' : h \notin hooks /\ g \notin hooks => h = g
    PROVE  MoneyParts'
<1>1. Refunds' = Refunds
    BY DEF Refunds
<1>2. RowsAsRead'
    BY <1>1 DEF MoneyParts, RowsAsRead, CanApprove, CanRefund
<1>3. NothingCounted'
    BY DEF MoneyParts, NothingCounted, Uncounted, Card, Reserve
<1>4. matured => Delayed
    BY DEF MoneyParts, LandsAtHome
<1> QED BY <1>2, <1>3, <1>4, RowsAdvance DEF TypeOK

\* Steps beside the ledger: the provider, the date, tasks that come or fail,
\* and releases that are queued, read or dropped.
LEMMA StepBeside ==
    ASSUME MoneyParts, TypeOK, TypeOK', terms' = terms,
           \/ ProviderSettles \/ Mature
           \/ \E st \in Webhooks, c \in 1..terms.copies : Receive(st, c)
           \/ \E h \in hooks : DropHook(h)
           \/ \E s \in sched, n \in 1..terms.runs : EnqueueRelease(s, n)
           \/ \E r \in releases : ReadRelease(r) \/ DropRelease(r)
    PROVE  MoneyParts'
<1>1. CASE Mature
    <2>1. Refunds' = Refunds
        BY <1>1 DEF Mature, Refunds
    <2>2. RowsAsRead'
        BY <1>1, <2>1 DEF Mature, MoneyParts, RowsAsRead, CanApprove, CanRefund
    <2>3. NothingCounted'
        BY <1>1 DEF Mature, MoneyParts, NothingCounted, Uncounted, Card, Reserve
    <2> QED BY <1>1, <2>2, <2>3, RowsAdvance DEF Mature, TypeOK
<1>2. ASSUME NEW st \in Webhooks, NEW c \in 1..terms.copies, Receive(st, c) PROVE MoneyParts'
    <2>1. hooks' = hooks \cup {NewHook(st, c)} /\ \A h \in hooks : h.st # st \/ h.copy # c
        BY <1>2 DEF Receive
    <2>2. NewHook(st, c).st = st /\ NewHook(st, c).copy = c /\ ~NewHook(st, c).read
        BY DEF NewHook
    <2> QED BY <1>2, <2>1, <2>2, TasksGo DEF Receive
<1>3. ASSUME NEW h \in hooks, DropHook(h) PROVE MoneyParts'
    BY <1>3, TasksGo DEF DropHook
<1>4. CASE UNCHANGED <<pay, ledger, sched, hooks, req, requests, matured>>
    BY <1>4, TasksGo
<1>5. \/ Mature
      \/ \E st \in Webhooks, c \in 1..terms.copies : Receive(st, c)
      \/ \E h \in hooks : DropHook(h)
      \/ UNCHANGED <<pay, ledger, sched, hooks, req, requests, matured>>
    BY DEF ProviderSettles, EnqueueRelease, ReadRelease, DropRelease
<1> QED BY <1>1, <1>2, <1>3, <1>4, <1>5

\* A task is read: what it has seen is the row as it stands.
LEMMA StepReadHook ==
    ASSUME MoneyParts, TypeOK, TypeOK', terms' = terms, NEW h \in hooks, ReadHook(h)
    PROVE  MoneyParts'
<1> DEFINE z == [h EXCEPT !.read = TRUE, !.seen = pay]
<1>1. h \in Hook /\ z.st = h.st /\ z.copy = h.copy /\ z.read /\ z.seen = pay
    BY DEF TypeOK, Hook
<1>2. hooks' = (hooks \ {h}) \cup {z} /\ ~h.read
    BY DEF ReadHook
<1>3. UNCHANGED <<pay, ledger, sched, req, requests, matured>>
    BY DEF ReadHook
<1>4. Refunds' = Refunds
    BY <1>3 DEF Refunds
<1> HIDE DEF z
<1>5. \A g \in hooks' : g = z \/ (g \in hooks /\ g # h)
    BY <1>2
<1>6. RowsAsRead'
    <2>1. \A g, f \in hooks' : g.st = f.st /\ g.copy = f.copy => g = f
        BY <1>1, <1>5 DEF MoneyParts, RowsAsRead
    <2>2. \A g \in hooks' : g.read =>
              /\ g.seen.approved \/ g.seen.processing => pay.approved
              /\ terms.copies = 1 /\ g.st = "APPROVED" /\ CanApprove(g.seen) => ~pay.approved
              /\ terms.copies = 1 /\ requests = 0 /\ g.st = "REFUNDED" /\ CanRefund(g.seen) => ~pay.refunded
        BY <1>1, <1>5 DEF MoneyParts, RowsAsRead, CanApprove, CanRefund
    <2> QED BY <1>3, <1>4, <2>1, <2>2 DEF MoneyParts, RowsAsRead, CanApprove, CanRefund
<1>7. NothingCounted'
    BY <1>1, <1>3, <1>5 DEF MoneyParts, NothingCounted, Uncounted, Card, Reserve
<1>8. matured => Delayed
    BY DEF MoneyParts, LandsAtHome
<1> QED BY <1>3, <1>6, <1>7, <1>8, RowsAdvance DEF TypeOK

\* The refund request reads an approved row, and saves it as approved.
LEMMA StepRequest ==
    ASSUME MoneyParts, TypeOK, TypeOK', terms' = terms, RequestRefund \/ SaveRequest
    PROVE  MoneyParts'
<1>1. UNCHANGED <<ledger, sched, hooks, matured>>
    BY DEF RequestRefund, SaveRequest
<1>2. Refunds' = Refunds
    BY <1>1 DEF Refunds
<1>3. /\ requests \in Nat /\ requests' \in Nat /\ requests <= requests' /\ requests' > 0
      /\ pay'.approved = pay.approved /\ (pay'.processing => pay'.approved)
      /\ req'.open => req'.seen.approved /\ pay'.approved
    <2>1. CASE RequestRefund
        <3>1. requests \in Nat /\ requests' = requests + 1 /\ pay' = pay /\ CanRefund(pay)
            BY <2>1, TermsType DEF RequestRefund, TypeOK
        <3>2. pay.approved
            BY <3>1 DEF CanRefund, MoneyParts, RowsAsRead
        <3>3. req' = req \/ req' = [open |-> TRUE, seen |-> pay]
            BY <2>1 DEF RequestRefund
        <3> QED BY <3>1, <3>2, <3>3 DEF MoneyParts, RowsAsRead
    <2>2. CASE SaveRequest
        <3>1. req.open /\ req.seen.approved /\ pay.approved /\ requests > 0 /\ req.seen \in Payment
            BY <2>2 DEF SaveRequest, MoneyParts, RowsAsRead, TypeOK
        <3>2. requests' = requests /\ requests \in Nat /\ ~req'.open
            BY <2>2, TermsType DEF SaveRequest, TypeOK
        <3>3. pay.approved \in BOOLEAN
            BY DEF TypeOK, Payment
        <3>4. pay' = pay \/ pay'.approved
            BY <2>2, <3>1 DEF SaveRequest, Saved, Payment
        <3>5. pay'.approved \in BOOLEAN
            BY DEF TypeOK, Payment
        <3>6. pay'.approved /\ pay'.approved = pay.approved
            BY <3>1, <3>3, <3>4, <3>5
        <3> QED BY <3>1, <3>2, <3>6
    <2> QED BY <2>1, <2>2
<1>4. RowsAsRead'
    BY <1>1, <1>2, <1>3 DEF MoneyParts, RowsAsRead, CanApprove, CanRefund
<1>5. NothingCounted'
    BY <1>3 DEF NothingCounted
<1>6. matured => Delayed
    BY DEF MoneyParts, LandsAtHome
<1> QED BY <1>1, <1>3, <1>4, <1>5, <1>6, RowsAdvance

\* What an approval posts and schedules: before completed_available_date
\* everything at Home, after it the credit alone.
LEMMA ApprovalIs ==
    ASSUME terms \in Terms, matured \in BOOLEAN
    PROVE  /\ Delayed /\ matured =>
                  /\ Landing = "AVAILABLE" /\ Home = "PENDING"
                  /\ ApprovalPostings = {Landed("AVAILABLE")} /\ ApprovalSlots = {}
           /\ ~(Delayed /\ matured) =>
                  /\ Landing = Home /\ ApprovalSlots = HomeSlots
                  /\ ApprovalPostings = {Landed(Home)}
                         \cup (IF Reserve > 0 THEN ReservePostings ELSE {})
<1>1. /\ Installments \in Nat /\ Card \in BOOLEAN /\ Delayed \in BOOLEAN
      /\ (Card => ~Delayed) /\ (Card <=> Installments > 0)
    BY TermsType, TermsAssumption DEF Card, Delayed
<1>2. CASE Delayed /\ matured
    <2>1. ~Card /\ ~Withheld /\ 1..Installments = {}
        BY <1>1, <1>2 DEF Withheld
    <2>2. Landing = "AVAILABLE" /\ Home = "PENDING"
        BY <1>2, <2>1 DEF Landing, Home
    <2> QED BY <1>2, <2>1, <2>2 DEF ApprovalPostings, ApprovalSlots, Landed
<1>3. CASE ~(Delayed /\ matured)
    <2>1. Landing = Home /\ (Withheld <=> Reserve > 0) /\ (Delayed /\ ~matured <=> Delayed)
        BY <1>1, <1>3 DEF Landing, Home, Withheld
    <2>2. ApprovalSlots = HomeSlots
        BY <2>1 DEF ApprovalSlots, HomeSlots
    <2>3. ApprovalPostings = {Landed(Home)} \cup (IF Reserve > 0 THEN ReservePostings ELSE {})
        BY <2>1 DEF ApprovalPostings, Landed, ReservePostings
    <2> QED BY <1>3, <2>1, <2>2, <2>3
<1> QED BY <1>2, <1>3

\* An approval posts all of its postings or, where its credit is posted, none.
LEMMA ApprovalPosted ==
    ASSUME TypeOK, MoneyParts, Post(ApprovalPostings)
    PROVE  /\ Landing \in Landings => ledger' = ledger
           /\ Landing \notin Landings =>
                  ledger' = ledger \cup ApprovalPostings /\ ledger \cap ApprovalPostings = {}
           /\ \A e \in ApprovalPostings : e.hook = "APPROVED" /\ e.inst = 0
<1>0. terms \in Terms /\ matured \in BOOLEAN /\ WholeGroups /\ ApprovalPostings \subseteq Posting
      /\ ledger \subseteq Posting
    BY ApprovalType DEF TypeOK, MoneyParts
<1>1. \A a : Landed(a).op = "PAYMENT" /\ Landed(a).account = a
               /\ Landed(a).hook = "APPROVED" /\ Landed(a).inst = 0
    BY DEF Landed, Entry
<1>2. \A e \in ReservePostings : e.op = "RESERVE" /\ e.hook = "APPROVED" /\ e.inst = 0
    BY DEF ReservePostings, Entry
<1>3. \A e \in ApprovalPostings :
          \/ e = Landed(Landing)
          \/ e \in ReservePostings /\ Reserve > 0 /\ Landing = Home
    BY <1>0, ApprovalIs
<1>4. CASE Landing \in Landings
    <2>1. ApprovalPostings \subseteq ledger
        BY <1>0, <1>3, <1>4, LandingsAre DEF WholeGroups
    <2>2. \A e : SameKey(e, e)
        BY DEF SameKey
    <2> QED BY <1>1, <1>2, <1>3, <1>4, <2>1, <2>2 DEF Post
<1>5. CASE Landing \notin Landings
    <2>1. ASSUME NEW e \in ApprovalPostings, NEW f \in ledger, SameKey(e, f) PROVE FALSE
        <3>1. e.op = f.op /\ e.account = f.account
            BY <1>0, <2>1, KeyFields
        <3>2. CASE e = Landed(Landing)
            BY <1>0, <1>1, <1>5, <3>1, <3>2, LandingsAre
        <3>3. CASE e \in ReservePostings /\ Landing = Home
            BY <1>0, <1>2, <1>5, <3>1, <3>3, LandingsAre
        <3> QED BY <1>3, <3>2, <3>3
    <2>2. \A e : SameKey(e, e)
        BY DEF SameKey
    <2> QED BY <1>1, <1>2, <1>3, <1>5, <2>1, <2>2 DEF Post
<1> QED BY <1>4, <1>5

\* One posting, two, or three bring what their amounts are together.
LEMMA SumNetFew ==
    /\ \A x \in Posting : IsFiniteSet({x}) /\ SumNet({x}) = x.net
    /\ \A x, y \in Posting : x # y => IsFiniteSet({x, y}) /\ SumNet({x, y}) = x.net + y.net
    /\ \A x, y, z \in Posting : x # y /\ z \notin {x, y} =>
           IsFiniteSet({x, y, z}) /\ SumNet({x, y, z}) = x.net + y.net + z.net
<1>1. IsFiniteSet({}) /\ SumNet({}) = 0
    BY FS_EmptySet, SumNetEmpty
<1>2. \A x \in Posting : IsFiniteSet({x}) /\ SumNet({x}) = x.net
    <2> SUFFICES ASSUME NEW x \in Posting PROVE IsFiniteSet({x}) /\ SumNet({x}) = x.net
        OBVIOUS
    <2>1. SumNet({} \cup {x}) = SumNet({}) + x.net
        BY <1>1, SumNetAdded
    <2>2. {} \cup {x} = {x}
        OBVIOUS
    <2>3. SumNet({x}) = SumNet({}) + x.net
        BY <2>1, <2>2
    <2>4. x.net \in Int
        BY DEF Posting
    <2>5. SumNet({x}) = x.net
        BY <1>1, <2>3, <2>4
    <2> QED BY <2>5, FS_Singleton
<1>3. \A x, y \in Posting : x # y => IsFiniteSet({x, y}) /\ SumNet({x, y}) = x.net + y.net
    <2> SUFFICES ASSUME NEW x \in Posting, NEW y \in Posting, x # y
                 PROVE  IsFiniteSet({x, y}) /\ SumNet({x, y}) = x.net + y.net
        OBVIOUS
    <2>1. {x, y} = {x} \cup {y}
        OBVIOUS
    <2>2. SumNet({x} \cup {y}) = SumNet({x}) + y.net
        BY <1>2, SumNetAdded
    <2>3. IsFiniteSet({x} \cup {y})
        BY <1>2, FS_AddElement
    <2> QED BY <1>2, <2>1, <2>2, <2>3
<1>4. \A x, y, z \in Posting : x # y /\ z \notin {x, y} =>
          IsFiniteSet({x, y, z}) /\ SumNet({x, y, z}) = x.net + y.net + z.net
    <2> SUFFICES ASSUME NEW x \in Posting, NEW y \in Posting, NEW z \in Posting,
                        x # y, z \notin {x, y}
                 PROVE  IsFiniteSet({x, y, z}) /\ SumNet({x, y, z}) = x.net + y.net + z.net
        OBVIOUS
    <2>1. {x, y, z} = {x, y} \cup {z}
        OBVIOUS
    <2>2. SumNet({x, y} \cup {z}) = SumNet({x, y}) + z.net
        BY <1>3, SumNetAdded
    <2>3. IsFiniteSet({x, y} \cup {z})
        BY <1>3, FS_AddElement
    <2>4. SumNet({x, y}) = x.net + y.net
        BY <1>3
    <2>5. SumNet({x, y, z}) = SumNet({x, y}) + z.net
        BY <2>1, <2>2
    <2>6. IsFiniteSet({x, y, z})
        BY <2>1, <2>3
    <2> QED BY <2>4, <2>5, <2>6
<1> QED BY <1>2, <1>3, <1>4

\* What an early approval brings to each account.
LEMMA ApprovalSums ==
    ASSUME terms \in Terms
    PROVE  LET E == {Landed(Home)} \cup (IF Reserve > 0 THEN ReservePostings ELSE {})
           IN  /\ IsFiniteSet(E) /\ SumNet(E) = Net
               /\ SumNet(At("PENDING", E)) = IF Home = "PENDING" THEN Net - Reserve ELSE 0
               /\ SumNet(At("RESERVE", E)) = Reserve
<1> DEFINE a == Landed(Home)
           b == Entry("APPROVED", "RESERVE", Home, "DEBIT", 0, -Reserve)
           c == Entry("APPROVED", "RESERVE", "RESERVE", "CREDIT", 0, Reserve)
           E == {a} \cup (IF Reserve > 0 THEN ReservePostings ELSE {})
<1>1. Reserve \in Nat /\ Net \in Nat /\ 0 \in 0..Installments /\ Home \in {"PENDING", "AVAILABLE"}
    BY TermsType DEF Home
<1>2. a \in Posting /\ b \in Posting /\ c \in Posting
    BY <1>1, EntryType DEF Landed, Webhooks, Accounts
<1>3. /\ a.net = Net /\ b.net = -Reserve /\ c.net = Reserve
      /\ a.account = Home /\ b.account = Home /\ c.account = "RESERVE"
      /\ a # b /\ a # c /\ b # c
    BY <1>1 DEF Landed, Entry
<1>4. ReservePostings = {b, c}
    BY DEF ReservePostings
<1> HIDE DEF a, b, c
<1>5. IsFiniteSet({}) /\ SumNet({}) = 0
    BY FS_EmptySet, SumNetEmpty
<1>6. \A x \in Posting : IsFiniteSet({x}) /\ SumNet({x}) = x.net
    BY SumNetFew
<1>7. \A x, y \in Posting : x # y => IsFiniteSet({x, y}) /\ SumNet({x, y}) = x.net + y.net
    BY SumNetFew
<1>8. CASE Reserve > 0
    <2>1. E = {a, b} \cup {c} /\ {a, b} \subseteq Posting /\ c \notin {a, b}
        BY <1>2, <1>3, <1>4, <1>8
    <2>2. SumNet({a, b} \cup {c}) = SumNet({a, b}) + c.net
        BY <1>2, <1>3, <1>7, <2>1, SumNetAdded
    <2>5. IsFiniteSet({a, b} \cup {c})
        BY <1>2, <1>3, <1>7, FS_AddElement
    <2>3. SumNet({a, b}) = Net - Reserve
        BY <1>1, <1>2, <1>3, <1>7
    <2>4. At("RESERVE", E) = {c} /\ At("PENDING", E) = IF Home = "PENDING" THEN {a, b} ELSE {}
        BY <1>1, <1>3, <2>1 DEF At
    <2>6. IsFiniteSet(E) /\ SumNet(E) = Net
        <3>1. IsFiniteSet(E) /\ SumNet(E) = SumNet({a, b}) + c.net
            BY <2>1, <2>2, <2>5
        <3> HIDE DEF E
        <3> QED BY <1>1, <1>3, <2>3, <3>1
    <2>7. SumNet(At("RESERVE", E)) = Reserve
        BY <1>2, <1>3, <1>6, <2>4
    <2>8. SumNet(At("PENDING", E)) = IF Home = "PENDING" THEN Net - Reserve ELSE 0
        BY <1>5, <2>3, <2>4
    <2> QED BY <2>6, <2>7, <2>8 DEF a
<1>9. CASE Reserve = 0
    <2>1. E = {a}
        BY <1>9
    <2>2. At("RESERVE", E) = {} /\ At("PENDING", E) = IF Home = "PENDING" THEN {a} ELSE {}
        BY <1>1, <1>3, <2>1 DEF At
    <2>3. IsFiniteSet(E) /\ SumNet(E) = Net
        BY <1>2, <1>3, <1>6, <2>1
    <2>4. SumNet(At("RESERVE", E)) = Reserve
        BY <1>5, <1>9, <2>2
    <2>5. SumNet(At("PENDING", E)) = IF Home = "PENDING" THEN Net - Reserve ELSE 0
        BY <1>1, <1>2, <1>3, <1>5, <1>6, <1>9, <2>2
    <2> QED BY <2>3, <2>4, <2>5 DEF a
<1> QED BY <1>1, <1>8, <1>9

\* An approval that is decided leaves no other to be decided.
LEMMA ApproveRows ==
    ASSUME MoneyParts, TypeOK, TypeOK', terms' = terms, NEW h \in hooks, Approve(h), CanApprove(h.seen),
           ledger \subseteq ledger', Refunds' = Refunds
    PROVE  pay'.approved /\ RowsAsRead' /\ NothingCounted'
<1>1. /\ hooks' = hooks \ {h} /\ h.st = "APPROVED"
      /\ pay' = [pay EXCEPT !.status = "APPROVED", !.approved = TRUE]
      /\ UNCHANGED <<req, requests, matured>>
    BY DEF Approve
<1>2. /\ pay'.approved = TRUE /\ pay'.processing = pay.processing /\ pay'.refunded = pay.refunded
      /\ pay'.received = pay.received /\ pay'.pending = pay.pending
    BY <1>1 DEF TypeOK, Payment
<1>3. ASSUME NEW g \in hooks', terms.copies = 1 PROVE g.st # "APPROVED"
    <2>1. g.copy = 1 /\ h.copy = 1
        BY <1>1, <1>3 DEF TypeOK, Hook
    <2> QED BY <1>1, <2>1 DEF MoneyParts, RowsAsRead
<1>4. RowsAsRead'
    BY <1>1, <1>2, <1>3 DEF MoneyParts, RowsAsRead, CanApprove, CanRefund
<1>5. NothingCounted'
    BY <1>1, <1>2 DEF MoneyParts, NothingCounted, Uncounted, Card, Reserve
<1> QED BY <1>2, <1>4, <1>5
\* The approval of a payment: posted once, with all it schedules.
LEMMA StepApprove ==
    ASSUME MoneyParts, SettlementIInv, TypeOK', terms' = terms, OneCreditPerKey,
           NEW h \in hooks, Approve(h)
    PROVE  MoneyParts'
<1>0. /\ TypeOK /\ terms \in Terms /\ matured \in BOOLEAN /\ matured' = matured
      /\ hooks' = hooks \ {h} /\ req' = req /\ requests' = requests
      /\ WholeGroups /\ LandsAtHome /\ RowsAsRead /\ SumsHold
      /\ h.copy \in 1..terms.copies
    BY DEF SettlementIInv, TypeOK, Approve, MoneyParts, Hook
<1>1. CASE ~CanApprove(h.seen)
    <2>1. UNCHANGED <<pay, ledger, sched, req, requests, matured>>
        BY <1>1 DEF Approve
    <2> QED BY <1>0, <2>1, TasksGo
<1>2. CASE CanApprove(h.seen)
    <2> DEFINE rows == [slot : ApprovalSlots, by : {h.copy}, status : {"SCHEDULED"}]
               E == {Landed(Home)} \cup (IF Reserve > 0 THEN ReservePostings ELSE {})
    <2>1. Post(ApprovalPostings) /\ sched' = sched \cup rows
        BY <1>2 DEF Approve
    <2>2. \A s \in rows : s.slot \in ApprovalSlots /\ s.status = "SCHEDULED"
        OBVIOUS
    <2>3. {s.slot : s \in rows} = ApprovalSlots
        <3>1. ASSUME NEW slot \in ApprovalSlots PROVE \E s \in rows : s.slot = slot
            <4>1. [slot |-> slot, by |-> h.copy, status |-> "SCHEDULED"] \in rows
                OBVIOUS
            <4> QED BY <4>1
        <3> HIDE DEF rows
        <3> QED BY <2>2, <3>1
    <2> HIDE DEF rows
    <2>4. \A slot : IsReleased(slot)' <=> IsReleased(slot)
        BY <2>1, <2>2 DEF IsReleased, Slotted
    <2>5. {s.slot : s \in sched'} = {s.slot : s \in sched} \cup ApprovalSlots
        BY <2>1, <2>3
    <2>6. ledger \subseteq ledger' /\ Refunds' = Refunds
        BY <1>0, <2>1, ApprovalPosted DEF Post, Refunds
    <2>7. pay'.approved /\ RowsAsRead' /\ NothingCounted'
        BY <1>0, <1>2, <2>6, ApproveRows
    <2>8. pay.approved <=> Landings # {}
        BY <1>0 DEF LandsAtHome
    <2>9. CASE Landing \in Landings
        <3>1. ledger' = ledger
            BY <1>0, <2>1, <2>9, ApprovalPosted
        <3>2. {s.slot : s \in sched'} = {s.slot : s \in sched}
            BY <1>0, <2>5, <2>9, ApprovalIs DEF WholeGroups
        <3>3. Landings' = Landings /\ WholeGroups' /\ SumsHold'
            BY <1>0, <2>4, <3>1, <3>2, GroupsStay
        <3>4. LandsAtHome'
            BY <1>0, <2>7, <2>9, <3>3, HomeStays DEF LandsAtHome
        <3> QED BY <2>7, <3>3, <3>4 DEF MoneyParts
    <2>10. CASE Landing \notin Landings
        <3>1. /\ ledger' = ledger \cup ApprovalPostings /\ ledger \cap ApprovalPostings = {}
              /\ \A e \in ApprovalPostings : e.hook = "APPROVED" /\ e.inst = 0
            BY <1>0, <2>1, <2>10, ApprovalPosted
        <3>2. Approvals' = Approvals \cup ApprovalPostings /\ Approvals \cap ApprovalPostings = {}
            BY <3>1 DEF Approvals
        <3>3. Approvals \subseteq Posting /\ IsFiniteSet(Approvals) /\ IsFiniteSet(ledger)
            BY <1>0, FS_Subset DEF Approvals, WholeGroups, TypeOK
        <3>4. ApprovalPostings \subseteq Posting
            BY <1>0, ApprovalType
        <3>5. CASE Delayed /\ matured
            <4>1. /\ Landing = "AVAILABLE" /\ Home = "PENDING"
                  /\ ApprovalPostings = {Landed("AVAILABLE")} /\ ApprovalSlots = {}
                BY <1>0, <3>5, ApprovalIs
            <4>2. Landings' = Landings \cup {"AVAILABLE"} /\ "AVAILABLE" \notin Landings
                <5>1. /\ Landed("AVAILABLE").op = "PAYMENT"
                      /\ Landed("AVAILABLE").account = "AVAILABLE"
                    BY DEF Landed, Entry
                <5> QED BY <2>10, <3>2, <4>1, <5>1 DEF Landings
            <4>3. /\ Cardinality(Landings') = Cardinality(Landings) + 1
                  /\ Cardinality(Landings) \in Nat
                BY <1>0, <4>2, LandingsAre, FS_AddElement
            <4>4. Landed("AVAILABLE").net = Net /\ Landed("AVAILABLE").account = "AVAILABLE"
                  /\ Landed("AVAILABLE") \in Posting /\ Landed("AVAILABLE") \notin Approvals
                BY <3>2, <3>4, <4>1 DEF Landed, Entry
            <4>5. SumNet(Approvals') = SumNet(Approvals) + Net
                BY <3>2, <3>3, <4>1, <4>4, SumNetAdded
            <4>6. /\ At("PENDING", Approvals') = At("PENDING", Approvals)
                  /\ At("RESERVE", Approvals') = At("RESERVE", Approvals)
                BY <3>2, <4>1, <4>4 DEF At
            <4>7. {s.slot : s \in sched'} = {s.slot : s \in sched} /\ Open' = Open
                <5>1. \A slot : Slotted(slot) # {} <=> slot \in {s.slot : s \in sched}
                    BY DEF Slotted
                <5>2. \A slot : Slotted(slot)' # {} <=> slot \in {s.slot : s \in sched'}
                    BY DEF Slotted
                <5>3. {s.slot : s \in sched'} = {s.slot : s \in sched}
                    BY <2>5, <4>1
                <5> QED BY <1>0, <2>4, <5>1, <5>2, <5>3, HomeStays DEF Open
            <4>8. SumsHold'
                <5>1. SumNet(Approvals') = Net * Cardinality(Landings')
                    <6>1. \A k \in Nat : Net * (k + 1) = Net * k + Net
                        BY TermsType, <1>0
                    <6> QED BY <1>0, <4>3, <4>5, <6>1 DEF SumsHold
                <5> QED BY <1>0, <2>6, <4>6, <4>7, <5>1, HomeStays DEF SumsHold, Net
            <4>9. WholeGroups'
                <5>1. IsFiniteSet(ledger')
                    BY <3>1, <3>3, <4>1, FS_AddElement
                <5>2. Home' \in Landings' <=> Home \in Landings
                    BY <1>0, <4>1, <4>2, HomeStays
                <5> QED BY <1>0, <2>4, <3>1, <4>1, <4>4, <4>7, <5>1, <5>2, HomeStays
                        DEF WholeGroups, Landed, Net
            <4>10. LandsAtHome'
                <5>1. Cardinality(Landings') > 1 => terms.copies > 1
                    <6>1. CASE Landings = {}
                        BY <4>3, <6>1, FS_EmptySet
                    <6>2. CASE Landings # {}
                        BY <1>0, <1>2, <2>8, <6>2, TermsType DEF RowsAsRead, Approve
                    <6> QED BY <6>1, <6>2
                <5> QED BY <1>0, <2>7, <3>5, <4>2, <5>1, HomeStays DEF LandsAtHome
            <4> QED BY <2>7, <4>8, <4>9, <4>10 DEF MoneyParts
        <3>6. CASE ~(Delayed /\ matured)
            <4>1. Landing = Home /\ ApprovalSlots = HomeSlots /\ ApprovalPostings = E
                BY <1>0, <3>6, ApprovalIs
            <4>2. Landings = {} /\ {s.slot : s \in sched} = {}
                BY <1>0, <2>10, <3>6, <4>1 DEF LandsAtHome, WholeGroups
            <4>3. /\ \A slot : ~IsReleased(slot)
                  /\ Approvals = {} /\ Refunds = {}
                <5>1. \A slot : ~IsReleased(slot)
                    BY <4>2 DEF IsReleased, Slotted
                <5>2. Refunds = {}
                    BY <1>0, <2>8, <4>2 DEF RowsAsRead
                <5>3. \A e \in ledger : e.op \notin {"PAYMENT", "RESERVE", "SYSTEM"}
                    BY <1>0, <4>2, <5>1, LandingsAre
                <5>4. \A e \in ledger : e.op = "REFUND_IN"
                    BY <1>0, <5>3 DEF TypeOK, Posting
                <5> QED BY <1>0, <5>1, <5>2, <5>4, LandingsAre DEF Approvals
            <4>4. Approvals' = E
                BY <3>2, <4>1, <4>3
            <4>5. Landings' = {Home}
                <5>1. Landed(Home).op = "PAYMENT" /\ Landed(Home).account = Home
                    BY DEF Landed, Entry
                <5>2. \A e \in ReservePostings : e.op = "RESERVE"
                    BY DEF ReservePostings, Entry
                <5> QED BY <4>4, <5>1, <5>2 DEF Landings
            <4>6. Cardinality(Landings') = 1
                BY <4>5, FS_Singleton
            <4>7. Open' = HomeSlots /\ {s.slot : s \in sched'} = HomeSlots
                <5>1. \A slot : Slotted(slot)' # {} <=> slot \in {s.slot : s \in sched'}
                    BY DEF Slotted
                <5>2. {s.slot : s \in sched'} = HomeSlots
                    BY <2>5, <4>1, <4>2
                <5>3. HomeSlots \in SUBSET Slots
                    BY <1>0, OwedAtHome
                <5> QED BY <1>0, <2>4, <4>3, <5>1, <5>2, <5>3, HomeStays DEF Open
            <4>8. SumsHold'
                <5>1. /\ SumNet(E) = Net
                      /\ SumNet(At("PENDING", E)) = IF Home = "PENDING" THEN Net - Reserve ELSE 0
                      /\ SumNet(At("RESERVE", E)) = Reserve
                    BY <1>0, ApprovalSums
                <5>2. /\ Owed(HomeSlots \ {Reserved}) = IF Home = "PENDING" THEN Net - Reserve ELSE 0
                      /\ Owed(HomeSlots \cap {Reserved}) = Reserve
                    BY <1>0, OwedAtHome
                <5>3. Net * 1 = Net
                    BY <1>0, TermsType
                <5>4. Refunds' = {}
                    BY <2>6, <4>3
                <5> HIDE DEF E
                <5> QED BY <1>0, <4>4, <4>6, <4>7, <5>1, <5>2, <5>3, <5>4, HomeStays
                        DEF SumsHold, Net, At
            <4>9. WholeGroups'
                <5>1. IsFiniteSet(ledger')
                    <6>1. IsFiniteSet(E)
                        BY <1>0, ApprovalSums
                    <6> HIDE DEF E
                    <6> QED BY <3>1, <3>3, <4>1, <6>1, FS_Union
                <5>2. Home' \in Landings' /\ Home' = Home
                    BY <1>0, <4>5, HomeStays
                <5>3. \A e \in ledger : e.hook = "REFUNDED" /\ e.op = "REFUND_IN"
                    BY <1>0, <4>3, LandingsAre DEF Approvals, TypeOK, Posting, Webhooks
                <5>4. \A e \in ledger' : \/ e.hook = "REFUNDED" /\ e.op = "REFUND_IN"
                                         \/ e = Landed(Home)
                                         \/ e \in ReservePostings /\ Reserve > 0
                    BY <3>1, <4>1, <5>3
                <5>5. Home \in {"PENDING", "AVAILABLE"} /\ Landed(Home).account = Home
                    BY DEF Home, Landed, Entry
                <5>6. Reserve > 0 => ReservePostings \subseteq ledger'
                    BY <3>1, <4>1
                <5>7. \A a : Landed(a)' = Landed(a)
                    BY <1>0 DEF Landed, Net
                <5> QED BY <1>0, <4>7, <5>1, <5>2, <5>4, <5>5, <5>6, <5>7, HomeStays DEF WholeGroups
            <4>10. LandsAtHome'
                BY <1>0, <2>7, <4>5, <4>6, HomeStays DEF LandsAtHome
            <4> QED BY <2>7, <4>8, <4>9, <4>10 DEF MoneyParts
        <3> QED BY <3>5, <3>6
    <2> QED BY <2>9, <2>10
<1> QED BY <1>1, <1>2
\* A release, and the rows it leaves.
LEMMA ReleaseRows ==
    ASSUME TypeOK, NEW slot \in Slots
    PROVE  /\ Released(slot).approved = pay.approved
           /\ Released(slot).processing = pay.processing
           /\ Released(slot).refunded = pay.refunded
           /\ Released(slot).status = pay.status
           /\ slot.inst = 0 => /\ Released(slot).received = pay.received
                               /\ Released(slot).pending = pay.pending
<1>0. /\ terms \in Terms /\ pay \in Payment /\ Installments \in Nat
      /\ Balance # Reserved /\ Balance.inst = 0 /\ Reserved.inst = 0
      /\ \A i \in Nat : Parcel(i) # Balance /\ Parcel(i) # Reserved /\ Parcel(i).inst = i
    BY TermsType DEF TypeOK, Balance, Reserved, Parcel
<1>1. CASE slot = Balance
    <2>0. slot # Reserved /\ slot # Parcel(Installments)
        BY <1>0, <1>1
    <2>1. Released(slot) = [pay EXCEPT !.available = TRUE]
        BY <1>1, <2>0 DEF Released
    <2> QED BY <1>0, <2>1 DEF Payment
<1>2. CASE slot = Reserved
    <2>0. slot # Balance /\ slot # Parcel(Installments)
        BY <1>0, <1>2
    <2>1. Released(slot) = [pay EXCEPT !.reserveOut = TRUE]
        BY <1>2, <2>0 DEF Released
    <2> QED BY <1>0, <2>1 DEF Payment
<1>3. CASE slot # Balance /\ slot # Reserved
    <2>1. PICK i \in 1..Installments : slot = Parcel(i)
        BY <1>3 DEF Slots
    <2>2. slot.inst # 0
        BY <1>0, <2>1
    <2>3. CASE slot = Parcel(Installments)
        <3>1. Released(slot) = [pay EXCEPT !.available = TRUE, !.qty = Installments, !.pending = 0,
                                           !.received = Part(Amount, Installments)]
            BY <1>3, <2>3 DEF Released
        <3> QED BY <1>0, <2>2, <3>1 DEF Payment
    <2>4. CASE slot # Parcel(Installments)
        <3>1. Released(slot) = [pay EXCEPT !.qty = slot.inst, !.pending = 0,
                                           !.received = slot.inst * SlotNet(slot)]
            BY <1>3, <2>4 DEF Released
        <3> QED BY <1>0, <2>2, <3>1 DEF Payment
    <2> QED BY <2>3, <2>4
<1> QED BY <1>1, <1>2, <1>3

\* The release of a schedule: its two postings, once, and the slot is closed.
LEMMA StepApplyRelease ==
    ASSUME MoneyParts, SettlementIInv, SettlementIInv', TypeOK', terms' = terms, OneCreditPerKey,
           NEW r \in releases, ApplyRelease(r)
    PROVE  MoneyParts'
<1>0. /\ TypeOK /\ terms \in Terms /\ matured' = matured
      /\ hooks' = hooks /\ req' = req /\ requests' = requests
      /\ WholeGroups /\ LandsAtHome /\ RowsAsRead /\ NothingCounted /\ SumsHold
      /\ r.slot \in Slots
    BY DEF SettlementIInv, TypeOK, ApplyRelease, MoneyParts, Release
<1>1. CASE ~r.found
    <2>1. UNCHANGED <<pay, ledger, sched, hooks, req, requests, matured>>
        BY <1>1 DEF ApplyRelease
    <2> QED BY <1>0, <2>1, TasksGo
<1>2. CASE r.found
    <2> DEFINE s == ScheduleOf(r)
               z == [s EXCEPT !.status = "COMPLETED"]
               k == r.slot
               d == Entry("APPROVED", "SYSTEM", SourceOf(k), "DEBIT", k.inst, -SlotNet(k))
               c == Entry("APPROVED", "SYSTEM", "AVAILABLE", "CREDIT", k.inst, SlotNet(k))
    <2>1. s \in sched /\ s.slot = k
        BY DEF ScheduleOf, SettlementIInv, TasksHaveSchedules
    <2>2. z.slot = k /\ z.status = "COMPLETED"
        BY <1>0, <2>1 DEF TypeOK, Schedule
    <2>3. sched' = (sched \ {s}) \cup {z} /\ Post(ReleasePostings(k)) /\ pay' = Released(k)
        BY <1>2 DEF ApplyRelease
    <2> HIDE DEF s, z
    <2>4. ledger' = ledger \cup ReleasePostings(k)
        <3>1. ReleasePostings(k) \subseteq ledger'
            BY <2>1, <2>3, ReleasePosted
        <3> QED BY <2>3, <3>1 DEF Post
    <2>5. {q.slot : q \in sched'} = {q.slot : q \in sched}
        BY <2>1, <2>2, <2>3
    <2>6. \A slot : IsReleased(slot)' <=> IsReleased(slot) \/ slot = k
        <3>1. IsReleased(k)'
            BY <2>2, <2>3 DEF IsReleased, Slotted
        <3>2. \A slot : slot # k => Slotted(slot)' = Slotted(slot)
            BY <2>1, <2>2, <2>3 DEF Slotted
        <3> QED BY <3>1, <3>2 DEF IsReleased
    <2>7. Home \in Landings /\ k \in HomeSlots
        BY <1>0, <2>1 DEF WholeGroups
    <2>8. /\ pay'.approved = pay.approved /\ pay'.processing = pay.processing
          /\ pay'.refunded = pay.refunded /\ pay'.status = pay.status
          /\ k.inst = 0 => pay'.received = pay.received /\ pay'.pending = pay.pending
        BY <1>0, <2>3, ReleaseRows
    <2>9. /\ d.hook = "APPROVED" /\ d.op = "SYSTEM" /\ d.account = SourceOf(k) /\ d.net = -SlotNet(k)
          /\ c.hook = "APPROVED" /\ c.op = "SYSTEM" /\ c.account = "AVAILABLE" /\ c.net = SlotNet(k)
          /\ d.inst = k.inst /\ c.inst = k.inst /\ d # c /\ ReleasePostings(k) = {d, c}
        BY DEF Entry, ReleasePostings
    <2>10. d \in Posting /\ c \in Posting
        BY <1>0, <2>9, ReleaseType
    <2> HIDE DEF d, c
    <2>11. Refunds' = Refunds /\ Approvals' = Approvals \cup {d, c} /\ Landings' = Landings
        <3>1. Refunds' = Refunds /\ Approvals' = Approvals \cup {d, c}
            BY <2>4, <2>9 DEF Refunds, Approvals
        <3> QED BY <2>9, <3>1 DEF Landings
    <2>12. RowsAsRead'
        BY <1>0, <2>8, <2>11 DEF RowsAsRead, CanApprove, CanRefund
    <2>13. NothingCounted'
        <3>1. d \in ledger' /\ ledger \subseteq ledger'
            BY <2>4, <2>9
        <3> QED BY <1>0, <2>8, <2>9, <3>1 DEF NothingCounted, Uncounted, Card, Reserve
    <2>14. LandsAtHome'
        BY <1>0, <2>8, <2>11, HomeStays DEF LandsAtHome
    <2>15. CASE IsReleased(k)
        <3>1. ReleasePostings(k) \subseteq ledger
            BY <2>15 DEF IsReleased, Slotted, SettlementIInv, CompletedIsPosted
        <3>2. ledger' = ledger
            BY <2>4, <3>1
        <3>3. WholeGroups' /\ SumsHold'
            BY <1>0, <2>5, <2>6, <2>15, <3>2, GroupsStay
        <3> QED BY <2>12, <2>13, <2>14, <3>3 DEF MoneyParts
    <2>16. CASE ~IsReleased(k)
        <3>1. d \notin ledger /\ c \notin ledger
            <4> SUFFICES ASSUME NEW e \in {d, c}, e \in ledger PROVE FALSE
                OBVIOUS
            <4>1. PICK slot \in Slots : IsReleased(slot) /\ e \in ReleasePostings(slot)
                BY <1>0, <2>9, LandingsAre
            <4>2. slot.inst = s.slot.inst
                BY <2>1, <2>9, <4>1, ReleaseFields
            <4>3. PICK q \in sched : q.slot = slot
                BY <4>1 DEF IsReleased, Slotted
            <4>4. slot = k
                BY <1>0, <2>1, <4>2, <4>3, OneSlot DEF SettlementIInv, TypeOK
            <4> QED BY <2>16, <4>1, <4>4
        <3>2. Approvals \subseteq Posting /\ IsFiniteSet(Approvals) /\ IsFiniteSet(ledger)
            BY <1>0, FS_Subset DEF Approvals, WholeGroups, TypeOK
        <3>3. d \notin Approvals /\ c \notin Approvals \cup {d}
            BY <2>9, <3>1 DEF Approvals
        <3>4. SlotNet(k) \in Nat
            BY <1>0, SlotNetType
        <3>5. SumNet(Approvals') = SumNet(Approvals)
            <4>1. Approvals' = (Approvals \cup {d}) \cup {c}
                BY <2>11
            <4>2. SumNet(Approvals \cup {d}) = SumNet(Approvals) - SlotNet(k) /\ SumNet(Approvals) \in Int
                BY <2>9, <2>10, <3>2, <3>3, <3>4, SumNetAdded
            <4>3. IsFiniteSet(Approvals \cup {d}) /\ Approvals \cup {d} \subseteq Posting
                BY <2>10, <3>2, FS_AddElement
            <4>4. SumNet((Approvals \cup {d}) \cup {c}) = SumNet(Approvals \cup {d}) + SlotNet(k)
                BY <2>9, <2>10, <3>3, <4>3, SumNetAdded
            <4> QED BY <3>4, <4>1, <4>2, <4>4
        <3>6. Open' = Open \ {k} /\ k \in Open /\ Open \in SUBSET Slots
            <4>1. \A slot : Slotted(slot) # {} <=> slot \in {q.slot : q \in sched}
                BY DEF Slotted
            <4>2. \A slot : Slotted(slot)' # {} <=> slot \in {q.slot : q \in sched'}
                BY DEF Slotted
            <4> QED BY <1>0, <2>1, <2>5, <2>6, <2>16, <4>1, <4>2, HomeStays DEF Open
        <3>7. \A a : /\ At(a, Approvals) \subseteq Posting /\ IsFiniteSet(At(a, Approvals))
                     /\ d \notin At(a, Approvals) /\ SumNet(At(a, Approvals)) \in Int
                     /\ SumNet(At(a, Approvals) \cup {d}) = SumNet(At(a, Approvals)) - SlotNet(k)
            <4> SUFFICES ASSUME NEW a
                         PROVE  /\ At(a, Approvals) \subseteq Posting /\ IsFiniteSet(At(a, Approvals))
                                /\ d \notin At(a, Approvals) /\ SumNet(At(a, Approvals)) \in Int
                                /\ SumNet(At(a, Approvals) \cup {d}) = SumNet(At(a, Approvals)) - SlotNet(k)
                OBVIOUS
            <4>1. /\ At(a, Approvals) \subseteq Posting /\ IsFiniteSet(At(a, Approvals))
                  /\ d \notin At(a, Approvals)
                BY <3>2, <3>3, FS_Subset DEF At
            <4> QED BY <2>9, <2>10, <3>4, <4>1, SumNetAdded
        <3>8. SumsHold'
            <4>1. CASE k = Reserved
                <5>1. SourceOf(k) = "RESERVE"
                    BY <4>1 DEF SourceOf
                <5>2. /\ At("PENDING", Approvals') = At("PENDING", Approvals)
                      /\ At("RESERVE", Approvals') = At("RESERVE", Approvals) \cup {d}
                    BY <2>9, <2>11, <5>1 DEF At
                <5>3. /\ Open' \ {Reserved} = Open \ {Reserved}
                      /\ Open' \cap {Reserved} = (Open \cap {Reserved}) \ {k}
                      /\ k \in Open \cap {Reserved}
                    BY <3>6, <4>1
                <5>4. /\ Owed(Open \cap {Reserved}) = Owed((Open \cap {Reserved}) \ {k}) + SlotNet(k)
                      /\ Owed((Open \cap {Reserved}) \ {k}) \in Int
                    BY <1>0, <3>6, <5>3, OwedWithout
                <5>5. /\ SumNet(At("PENDING", Approvals')) = Owed(Open' \ {Reserved})
                      /\ SumNet(At("RESERVE", Approvals')) = Owed(Open' \cap {Reserved})
                    <6>1. /\ SumNet(At("PENDING", Approvals)) = Owed(Open \ {Reserved})
                          /\ SumNet(At("RESERVE", Approvals)) = Owed(Open \cap {Reserved})
                        BY <1>0 DEF SumsHold
                    <6>2. SumNet(At("PENDING", Approvals')) = Owed(Open' \ {Reserved})
                        BY <5>2, <5>3, <6>1
                    <6>3. SumNet(At("RESERVE", Approvals')) = SumNet(At("RESERVE", Approvals)) - SlotNet(k)
                        BY <3>7, <5>2
                    <6>4. /\ Owed(Open \cap {Reserved}) = Owed(Open' \cap {Reserved}) + SlotNet(k)
                          /\ Owed(Open' \cap {Reserved}) \in Int
                        BY <5>3, <5>4
                    <6>5. SumNet(At("RESERVE", Approvals')) = Owed(Open' \cap {Reserved})
                        BY <3>4, <6>1, <6>3, <6>4
                    <6> QED BY <6>2, <6>5
                <5> QED BY <1>0, <2>4, <2>11, <3>5, <5>5, HomeStays DEF SumsHold, Net, Reserved
            <4>2. CASE k # Reserved
                <5>1. SourceOf(k) = "PENDING"
                    BY <4>2 DEF SourceOf
                <5>2. /\ At("PENDING", Approvals') = At("PENDING", Approvals) \cup {d}
                      /\ At("RESERVE", Approvals') = At("RESERVE", Approvals)
                    BY <2>9, <2>11, <5>1 DEF At
                <5>3. /\ Open' \ {Reserved} = (Open \ {Reserved}) \ {k}
                      /\ Open' \cap {Reserved} = Open \cap {Reserved}
                      /\ k \in Open \ {Reserved}
                    BY <3>6, <4>2
                <5>4. /\ Owed(Open \ {Reserved}) = Owed((Open \ {Reserved}) \ {k}) + SlotNet(k)
                      /\ Owed((Open \ {Reserved}) \ {k}) \in Int
                    BY <1>0, <3>6, <5>3, OwedWithout
                <5>5. /\ SumNet(At("PENDING", Approvals')) = Owed(Open' \ {Reserved})
                      /\ SumNet(At("RESERVE", Approvals')) = Owed(Open' \cap {Reserved})
                    <6>1. /\ SumNet(At("PENDING", Approvals)) = Owed(Open \ {Reserved})
                          /\ SumNet(At("RESERVE", Approvals)) = Owed(Open \cap {Reserved})
                        BY <1>0 DEF SumsHold
                    <6>2. SumNet(At("RESERVE", Approvals')) = Owed(Open' \cap {Reserved})
                        BY <5>2, <5>3, <6>1
                    <6>3. SumNet(At("PENDING", Approvals')) = SumNet(At("PENDING", Approvals)) - SlotNet(k)
                        BY <3>7, <5>2
                    <6>4. /\ Owed(Open \ {Reserved}) = Owed(Open' \ {Reserved}) + SlotNet(k)
                          /\ Owed(Open' \ {Reserved}) \in Int
                        BY <5>3, <5>4
                    <6>5. SumNet(At("PENDING", Approvals')) = Owed(Open' \ {Reserved})
                        BY <3>4, <6>1, <6>3, <6>4
                    <6> QED BY <6>2, <6>5
                <5> QED BY <1>0, <2>4, <2>11, <3>5, <5>5, HomeStays DEF SumsHold, Net, Reserved
            <4> QED BY <4>1, <4>2
        <3>9. WholeGroups'
            <4>1. IsFiniteSet(ledger')
                <5>1. IsFiniteSet({d, c})
                    BY <2>9, <2>10, SumNetFew
                <5> QED BY <2>4, <2>9, <3>2, <5>1, FS_Union
            <4>2. \A a : Landed(a)' = Landed(a)
                BY DEF Landed, Net
            <4>3. Reserve > 0 => ReservePostings \subseteq ledger'
                BY <1>0, <2>4, <2>7 DEF WholeGroups
            <4>4. \A e \in ledger' :
                    \/ e = Landed(e.account) /\ e.account \in {"PENDING", "AVAILABLE"}
                    \/ e \in ReservePostings /\ Reserve > 0 /\ Home \in Landings
                    \/ \E slot \in Slots : (IsReleased(slot) \/ slot = k) /\ e \in ReleasePostings(slot)
                    \/ e.hook = "REFUNDED" /\ e.op = "REFUND_IN"
                BY <1>0, <2>4 DEF WholeGroups
            <4>5. {q.slot : q \in sched'} = HomeSlots
                BY <1>0, <2>5, <2>7 DEF WholeGroups
            <4> QED BY <2>6, <2>7, <2>11, <4>1, <4>2, <4>3, <4>4, <4>5, HomeStays DEF WholeGroups
        <3> QED BY <2>12, <2>13, <2>14, <3>8, <3>9 DEF MoneyParts
    <2> QED BY <2>15, <2>16
<1> QED BY <1>1, <1>2
\* The four cases of a refund take back the same while no installment counts.
LEMMA RefundSums ==
    ASSUME terms \in Terms, NEW p \in Payment
    PROVE  /\ IsFiniteSet(RefundPostings(p))
           /\ \A e \in RefundPostings(p) : e.hook = "REFUNDED" /\ e.op = "REFUND_IN" /\ e.inst = 0
           /\ Uncounted(p) => SumNet(RefundPostings(p)) = -(Net + AmountFee + Penalty)
<1> DEFINE fee == Penalty + AmountFee
           back == fee + Received(p) + IF p.reserveOut THEN Reserve ELSE 0
           debit(account, net) == Entry("REFUNDED", "REFUND_IN", account, "DEBIT", 0, -net)
           x == debit("AVAILABLE", back)
           y == debit("PENDING", StillPending(p))
           z == debit("RESERVE", Reserve)
<1>0. /\ p.received \in Nat /\ p.pending \in Nat
      /\ p.available \in BOOLEAN /\ p.reserveOut \in BOOLEAN
      /\ Reserve \in Nat /\ Net \in Nat /\ Net - Reserve \in Nat /\ Card \in BOOLEAN
    BY TermsType DEF Payment
<1>1. Received(p) \in Nat /\ StillPending(p) \in Nat /\ fee \in Nat
    BY <1>0, AmountsAssumption DEF Received, StillPending
<1>2. Uncounted(p) => /\ Received(p) = (IF p.available THEN Net - Reserve ELSE 0)
                      /\ StillPending(p) = Net - Reserve
    BY <1>0 DEF Uncounted, Partial, Received, StillPending
<1>3. RefundPostings(p) = {x} \cup (IF p.available THEN {} ELSE {y}) \cup (IF p.reserveOut THEN {} ELSE {z})
    BY DEF RefundPostings
<1>4. back \in Nat
    BY <1>0, <1>1
<1>5. x \in Posting /\ y \in Posting /\ z \in Posting
    <2>1. 0 \in 0..Installments /\ -back \in Int /\ -StillPending(p) \in Int /\ -Reserve \in Int
        BY <1>0, <1>1, <1>4, TermsType
    <2> HIDE DEF back
    <2> QED BY <2>1, EntryType DEF Webhooks, Accounts
<1>6. /\ \A e \in {x, y, z} : e.hook = "REFUNDED" /\ e.op = "REFUND_IN" /\ e.inst = 0
      /\ x.net = -back /\ y.net = -StillPending(p) /\ z.net = -Reserve
      /\ x # y /\ x # z /\ y # z
    BY DEF Entry
<1>7. AmountFee \in Nat /\ Penalty \in Nat /\ fee = Penalty + AmountFee
    BY AmountsAssumption
<1>8. back = fee + Received(p) + (IF p.reserveOut THEN Reserve ELSE 0)
    OBVIOUS
<1> HIDE DEF x, y, z, back, fee
<1>9. CASE p.available /\ p.reserveOut
    <2>1. RefundPostings(p) = {x}
        BY <1>3, <1>9
    <2>2. IsFiniteSet({x}) /\ SumNet({x}) = -back
        BY <1>5, <1>6, SumNetFew
    <2>3. Uncounted(p) => back = Net + AmountFee + Penalty
        BY <1>0, <1>2, <1>7, <1>8, <1>9
    <2> QED BY <1>6, <2>1, <2>2, <2>3
<1>10. CASE p.available /\ ~p.reserveOut
    <2>1. RefundPostings(p) = {x, z}
        BY <1>3, <1>10
    <2>2. IsFiniteSet({x, z}) /\ SumNet({x, z}) = -back + -Reserve
        BY <1>5, <1>6, SumNetFew
    <2>3. Uncounted(p) => back = Net - Reserve + AmountFee + Penalty
        BY <1>0, <1>2, <1>7, <1>8, <1>10
    <2>4. Uncounted(p) => SumNet({x, z}) = -(Net + AmountFee + Penalty)
        BY <1>0, <1>7, <2>2, <2>3
    <2> QED BY <1>6, <2>1, <2>2, <2>4
<1>11. CASE ~p.available /\ p.reserveOut
    <2>1. RefundPostings(p) = {x, y}
        BY <1>3, <1>11
    <2>2. IsFiniteSet({x, y}) /\ SumNet({x, y}) = -back + -StillPending(p)
        BY <1>5, <1>6, SumNetFew
    <2>3. Uncounted(p) => back = Reserve + AmountFee + Penalty /\ StillPending(p) = Net - Reserve
        BY <1>0, <1>2, <1>7, <1>8, <1>11
    <2>4. Uncounted(p) => SumNet({x, y}) = -(Net + AmountFee + Penalty)
        BY <1>0, <1>7, <2>2, <2>3
    <2> QED BY <1>6, <2>1, <2>2, <2>4
<1>12. CASE ~p.available /\ ~p.reserveOut
    <2>1. RefundPostings(p) = {x, y, z}
        BY <1>3, <1>12
    <2>2. IsFiniteSet({x, y, z}) /\ SumNet({x, y, z}) = -back + -StillPending(p) + -Reserve
        BY <1>5, <1>6, SumNetFew
    <2>3. Uncounted(p) => back = AmountFee + Penalty /\ StillPending(p) = Net - Reserve
        BY <1>0, <1>2, <1>7, <1>8, <1>12
    <2>4. Uncounted(p) => SumNet({x, y, z}) = -(Net + AmountFee + Penalty)
        BY <1>0, <1>7, <2>2, <2>3
    <2> QED BY <1>6, <2>1, <2>2, <2>4
<1> QED BY <1>9, <1>10, <1>11, <1>12

\* A refund: it takes back what its row says, and schedules stay or are cancelled.
LEMMA StepRefund ==
    ASSUME MoneyParts, SettlementIInv, TypeOK', terms' = terms, OneCreditPerKey,
           NEW h \in hooks, Refund(h)
    PROVE  MoneyParts'
<1>0. /\ TypeOK /\ terms \in Terms /\ matured' = matured
      /\ hooks' = hooks \ {h} /\ req' = req /\ requests' = requests
      /\ WholeGroups /\ LandsAtHome /\ RowsAsRead /\ NothingCounted /\ SumsHold
      /\ h.seen \in Payment /\ h.read /\ h.st = "REFUNDED"
    BY DEF SettlementIInv, TypeOK, Refund, MoneyParts, Hook
<1>1. CASE ~CanRefund(h.seen)
    <2>1. UNCHANGED <<pay, ledger, sched, req, requests, matured>>
        BY <1>1 DEF Refund
    <2> QED BY <1>0, <2>1, TasksGo
<1>2. CASE CanRefund(h.seen)
    <2> DEFINE back == RefundPostings(h.seen)
               cancelled(q) == [q EXCEPT !.status =
                   IF q.slot \in Cancelled(h.seen) /\ @ = "SCHEDULED" THEN "CANCELLED" ELSE @]
    <2>1. /\ Post(back) /\ sched' = {cancelled(q) : q \in sched}
          /\ pay' = [pay EXCEPT !.status = "REFUNDED", !.refunded = TRUE]
        BY <1>2 DEF Refund, CancelSlots
    <2>2. /\ pay'.approved = pay.approved /\ pay'.processing = pay.processing /\ pay'.refunded = TRUE
          /\ pay'.received = pay.received /\ pay'.pending = pay.pending
        BY <1>0, <2>1 DEF TypeOK, Payment
    <2>3. pay.approved
        BY <1>0, <1>2 DEF RowsAsRead, CanRefund
    <2>4. /\ IsFiniteSet(back) /\ back \subseteq Posting
          /\ \A e \in back : e.hook = "REFUNDED" /\ e.op = "REFUND_IN" /\ e.inst = 0
          /\ Uncounted(h.seen) => SumNet(back) = -(Net + AmountFee + Penalty)
        BY <1>0, RefundSums, RefundType
    <2>5. ASSUME NEW q \in sched
          PROVE  /\ cancelled(q).slot = q.slot
                 /\ cancelled(q).status = "COMPLETED" <=> q.status = "COMPLETED"
        <3>1. q \in Schedule
            BY <1>0 DEF TypeOK
        <3> QED BY <3>1 DEF Schedule
    <2> HIDE DEF back, cancelled
    <2>6. {s.slot : s \in sched'} = {s.slot : s \in sched}
        BY <2>1, <2>5
    <2>7. \A slot : IsReleased(slot)' <=> IsReleased(slot)
        <3>1. \A slot : IsReleased(slot) <=> \E q \in sched : q.slot = slot /\ q.status = "COMPLETED"
            BY DEF IsReleased, Slotted
        <3>2. \A slot : IsReleased(slot)' <=> \E q \in sched' : q.slot = slot /\ q.status = "COMPLETED"
            BY DEF IsReleased, Slotted
        <3> QED BY <2>1, <2>5, <3>1, <3>2
    <2>8. /\ ledger \subseteq ledger' /\ ledger' \subseteq ledger \cup back
          /\ Approvals' = Approvals /\ Landings' = Landings
        <3>1. ledger \subseteq ledger' /\ ledger' \subseteq ledger \cup back
            BY <2>1 DEF Post
        <3>2. Approvals' = Approvals
            BY <2>4, <3>1 DEF Approvals
        <3> QED BY <3>1, <3>2 DEF Landings
    <2>9. Open' = Open
        <3>1. \A slot : Slotted(slot) # {} <=> slot \in {s.slot : s \in sched}
            BY DEF Slotted
        <3>2. \A slot : Slotted(slot)' # {} <=> slot \in {s.slot : s \in sched'}
            BY DEF Slotted
        <3> QED BY <1>0, <2>6, <2>7, <3>1, <3>2, HomeStays DEF Open
    <2>10. RowsAsRead'
        <3>1. ASSUME NEW g \in hooks', terms.copies = 1 PROVE g.st # "REFUNDED"
            <4>1. g.copy = 1 /\ h.copy = 1
                BY <1>0, <3>1 DEF TypeOK, Hook
            <4> QED BY <1>0, <4>1 DEF RowsAsRead
        <3> QED BY <1>0, <2>2, <2>3, <3>1 DEF RowsAsRead, CanApprove, CanRefund
    <2>11. NothingCounted'
        BY <1>0, <2>2, <2>8 DEF NothingCounted, Uncounted, Card, Reserve
    <2>12. LandsAtHome'
        BY <1>0, <2>2, <2>8, HomeStays DEF LandsAtHome
    <2>13. WholeGroups'
        <3>1. IsFiniteSet(ledger')
            <4>1. IsFiniteSet(ledger \cup back)
                BY <1>0, <2>4, FS_Union DEF WholeGroups
            <4> QED BY <2>8, <4>1, FS_Subset
        <3>2. \A a : Landed(a)' = Landed(a)
            BY <1>0 DEF Landed, Net
        <3>3. \A e \in ledger' :
                  e \in ledger \/ (e.hook = "REFUNDED" /\ e.op = "REFUND_IN")
            BY <2>4, <2>8
        <3> QED BY <1>0, <2>6, <2>7, <2>8, <3>1, <3>2, <3>3, HomeStays DEF WholeGroups
    <2>14. ASSUME requests = 0, terms.copies = 1, \A e \in ledger' : e.inst = 0
           PROVE  SumNet(Refunds') = -(Net + AmountFee + Penalty)
        <3>1. Refunds = {}
            BY <1>0, <1>2, <2>14 DEF RowsAsRead
        <3>2. \A e \in back, f \in ledger : ~SameKey(e, f)
            BY <1>0, <2>4, <3>1, KeyFields, LandingsAre DEF Refunds, TypeOK
        <3>3. Refunds' = back
            BY <2>1, <2>4, <3>1, <3>2 DEF Refunds, Post
        <3>4. Uncounted(h.seen)
            BY <1>0, <2>8, <2>14 DEF NothingCounted
        <3> QED BY <2>4, <3>3, <3>4
    <2>15. SumsHold'
        BY <1>0, <2>8, <2>9, <2>14, HomeStays DEF SumsHold, At, Net
    <2> QED BY <2>10, <2>11, <2>12, <2>13, <2>15 DEF MoneyParts
<1> QED BY <1>1, <1>2

-----------------------------------------------------------------------------
(* The sums, in every behaviour *)

\* Nothing is posted or scheduled at first.
LEMMA MoneyInit == Init => MoneyIInv
<1> SUFFICES ASSUME Init PROVE MoneyIInv
    OBVIOUS
<1>1. SettlementIInv
    BY SettlementInitType DEF Init, SettlementIInv, ScheduledByTerms, TasksHaveSchedules,
       ReleasesPostSchedules, CompletedIsPosted
<1>2. ledger = {} /\ sched = {} /\ terms \in Terms /\ matured = FALSE
    BY DEF Init
<1>3. Approvals = {} /\ Refunds = {} /\ Landings = {} /\ Open = {}
    BY <1>2 DEF Approvals, Refunds, Landings, Open, Slotted
<1>4. Cardinality(Landings) = 0
    BY <1>3, FS_EmptySet
<1>5. ~pay.approved /\ ~pay.processing /\ Uncounted(pay) /\ (\A h \in hooks : ~h.read) /\ ~req.open
    BY DEF Init, NewPayment, NewHook, Uncounted
<1>6. WholeGroups
    BY <1>2, <1>3, FS_EmptySet DEF WholeGroups
<1>7. LandsAtHome
    BY <1>2, <1>3, <1>4, <1>5 DEF LandsAtHome
<1>8. RowsAsRead
    <2>1. \A h, g \in hooks : h = g
        BY DEF Init
    <2> QED BY <1>3, <1>5, <2>1 DEF RowsAsRead
<1>9. NothingCounted
    BY <1>5 DEF NothingCounted
<1>10. SumsHold
    <2>1. Net * 0 = 0
        BY <1>2, TermsType
    <2>2. At("PENDING", {}) = {} /\ At("RESERVE", {}) = {} /\ {} \ {Reserved} = {} /\ {} \cap {Reserved} = {}
        BY DEF At
    <2> QED BY <1>3, <1>4, <2>1, <2>2, SumNetEmpty, OwedEmpty DEF SumsHold
<1> QED BY <1>1, <1>6, <1>7, <1>8, <1>9, <1>10 DEF MoneyIInv

\* Every step keeps the groups whole and the sums.
LEMMA MoneyStep == MoneyIInv /\ [Next]_vars => MoneyIInv'
<1> SUFFICES ASSUME MoneyIInv, [Next]_vars, OneCreditPerKey PROVE MoneyParts'
    <2>1. MoneyIInv /\ [Next]_vars => SettlementIInv'
        BY SettlementStep DEF MoneyIInv
    <2>2. MoneyIInv /\ [Next]_vars => (OneCreditPerKey' <=> OneCreditPerKey)
        BY HomeStays DEF Next, vars
    <2> QED BY <2>1, <2>2 DEF MoneyIInv, MoneyParts
<1>0. SettlementIInv /\ SettlementIInv' /\ TypeOK /\ TypeOK' /\ MoneyParts /\ terms' = terms
    BY SettlementStep DEF MoneyIInv, MoneyParts, SettlementIInv, Next, vars
<1>1. CASE UNCHANGED vars
    BY <1>0, <1>1, TasksGo DEF vars
<1>2. CASE Step
    <2>1. CASE RequestRefund \/ SaveRequest
        BY <1>0, <2>1, StepRequest
    <2>2. ASSUME NEW h \in hooks, HookStep(h) PROVE MoneyParts'
        BY <1>0, <2>2, StepReadHook, StepApprove, StepRefund DEF HookStep
    <2>3. ASSUME NEW r \in releases, ApplyRelease(r) PROVE MoneyParts'
        BY <1>0, <2>3, StepApplyRelease
    <2>4. CASE \/ ProviderSettles \/ Mature
               \/ \E st \in Webhooks, c \in 1..terms.copies : Receive(st, c)
               \/ \E h \in hooks : DropHook(h)
               \/ \E s \in sched, n \in 1..terms.runs : EnqueueRelease(s, n)
               \/ \E r \in releases : ReadRelease(r) \/ DropRelease(r)
        BY <1>0, <2>4, StepBeside
    <2> QED BY <1>2, <2>1, <2>2, <2>3, <2>4 DEF Step, ReleaseStep
<1> QED BY <1>1, <1>2 DEF Next

\* Postings come in whole groups, tasks decide once per copy, and the sums of
\* each account follow: the inductive invariant of the money.
THEOREM MoneyInductive == Spec => []MoneyIInv
BY MoneyInit, MoneyStep, PTL DEF Spec

\* Terms without a balance and a reserve both delayed leave every credit its key.
LEMMA CreditsHaveKeys ==
    ASSUME \A t \in Terms : t.delayed => t.reserve = 0, TypeOK
    PROVE  OneCreditPerKey
BY DEF TypeOK, OneCreditPerKey, Delayed, Reserve

\* However often approval and releases are delivered, overlap or read stale
\* rows, the company is credited the net amount once per account it landed in,
\* and at two accounts only when two copies of an approval meet the date.
THEOREM ApprovalConservedAlways ==
    ASSUME \A t \in Terms : t.delayed => t.reserve = 0
    PROVE  Spec => []ApprovalConserved
<1>1. MoneyIInv => ApprovalConserved
    <2> SUFFICES ASSUME MoneyIInv PROVE ApprovalConserved
        OBVIOUS
    <2>1. TypeOK /\ WholeGroups /\ LandsAtHome /\ SumsHold
        BY CreditsHaveKeys DEF MoneyIInv, SettlementIInv
    <2>2. Cardinality(Landings) > 1 => matured
        <3>1. SUFFICES ASSUME ~matured PROVE ~(Cardinality(Landings) > 1)
            OBVIOUS
        <3>2. Landings \subseteq {Home}
            BY <2>1, <3>1 DEF LandsAtHome
        <3>3. IsFiniteSet({Home}) /\ Cardinality({Home}) = 1
            BY FS_Singleton
        <3>4. Cardinality(Landings) <= 1 /\ Cardinality(Landings) \in Nat
            BY <2>1, <3>2, <3>3, FS_Subset, LandingsAre
        <3> QED BY <3>4
    <2> QED BY <2>1, <2>2 DEF ApprovalConserved, SumsHold, LandsAtHome
<1> QED BY <1>1, MoneyInductive, PTL

\* Until a refund, the pending and the reserve account hold exactly what the
\* schedules still to be released will take out of them.
THEOREM HoldsWhatIsScheduledAlways ==
    ASSUME \A t \in Terms : t.delayed => t.reserve = 0
    PROVE  Spec => []HoldsWhatIsScheduled
<1>1. MoneyIInv => HoldsWhatIsScheduled
    <2> SUFFICES ASSUME MoneyIInv, Refunds = {} PROVE HoldsWhatIsScheduled
        BY DEF HoldsWhatIsScheduled
    <2>1. TypeOK /\ SumsHold
        BY CreditsHaveKeys DEF MoneyIInv, SettlementIInv
    <2>2. ledger = Approvals
        BY <2>1 DEF Approvals, Refunds, TypeOK, Posting, Webhooks
    <2> QED BY <2>1, <2>2 DEF HoldsWhatIsScheduled, BalanceOf, SumsHold, At
<1> QED BY <1>1, MoneyInductive, PTL

\* A refund the provider announces takes back the payment, its fee and the
\* penalty, whichever releases ran before, beside or after it.
THEOREM TakenBackInFullAlways ==
    ASSUME \A t \in Terms : t.delayed => t.reserve = 0
    PROVE  Spec => []TakenBackInFull
<1>1. MoneyIInv => TakenBackInFull
    <2> SUFFICES ASSUME MoneyIInv, Refunds # {}, requests = 0, terms.copies = 1,
                        \A e \in ledger : e.inst = 0
                 PROVE  SumNet(ledger) = -(AmountFee + Penalty)
        BY DEF TakenBackInFull
    <2>1. TypeOK /\ WholeGroups /\ LandsAtHome /\ RowsAsRead /\ SumsHold
        BY CreditsHaveKeys DEF MoneyIInv, SettlementIInv
    <2>2. /\ Approvals \cup Refunds = ledger /\ Approvals \cap Refunds = {}
          /\ Approvals \subseteq Posting /\ Refunds \subseteq Posting
        BY <2>1 DEF Approvals, Refunds, TypeOK, Posting, Webhooks
    <2>3. IsFiniteSet(Approvals) /\ IsFiniteSet(Refunds)
        BY <2>1, FS_Subset DEF WholeGroups, Approvals, Refunds
    <2>4. SumNet(ledger) = SumNet(Approvals) + SumNet(Refunds)
        BY <2>2, <2>3, SumNetAdded
    <2>5. Cardinality(Landings) = 1
        <3>1. Landings # {}
            BY <2>1 DEF RowsAsRead, LandsAtHome
        <3>2. ~(Cardinality(Landings) > 1)
            BY <2>1 DEF LandsAtHome
        <3>3. Cardinality(Landings) \in Nat /\ Cardinality(Landings) # 0
            BY <2>1, <3>1, LandingsAre, FS_EmptySet
        <3> QED BY <3>2, <3>3
    <2>6. SumNet(Approvals) = Net /\ SumNet(Refunds) = -(Net + AmountFee + Penalty)
        <3>1. Net * 1 = Net
            BY <2>1, TermsType DEF TypeOK
        <3> QED BY <2>1, <2>5, <3>1 DEF SumsHold
    <2>7. Net \in Nat /\ AmountFee \in Nat /\ Penalty \in Nat
        BY <2>1, TermsType, AmountsAssumption DEF TypeOK
    <2> QED BY <2>4, <2>6, <2>7
<1> QED BY <1>1, MoneyInductive, PTL

=============================================================================
