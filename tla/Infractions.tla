----------------------------- MODULE Infractions -----------------------------
(***************************************************************************)
(* Disputes of payments: the provider's notices, which the receiver checks *)
(* against the payment and the infraction and puts in the queue, and the   *)
(* batches that read the rows first and write them in a transaction later. *)
(* An infraction that is not CLOSED or CANCELLED blocks its amount in the  *)
(* balance check of a withdrawal.  defend, close and cancel of             *)
(* InfractionService have no caller and are left out.                      *)
(***************************************************************************)
EXTENDS Integers, FiniteSets

CONSTANTS
    Disputes,    \* infractions of the provider, by provider_infraction_id
    Notices,     \* deliveries of the provider's infraction webhook
    PaymentOf,   \* the payment each dispute is about
    Words,       \* the provider's words for a status that occur
    Batchers     \* processes that run the general queue

InfractionsAssumption == IsFiniteSet(Notices)

Payments == {PaymentOf[d] : d \in Disputes}

VARIABLES
    infraction,  \* rows, by provider_infraction_id
    refunded,    \* payments with status REFUNDED
    notice,      \* deliveries, and then the tasks they became
    batcher,     \* what each process works: its tasks, and the rows it read
    together     \* history: disputes two of whose notices were worked at once

infractionVars == <<infraction, refunded, notice, batcher, together>>

InDispute == {"AWAITING_COMPANY_RESPONSE", "UNDER_REVIEW"}
Final == {"CLOSED", "CANCELLED"}
InfractionStatuses == InDispute \cup Final \cup {"ERROR_SYSTEM"}

\* parseInfractionStatus.
parseInfractionStatus(word) ==
    CASE word \in {"AWAITING_CUSTOMER_RESPONSE", "AWAITING_ADDITIONAL_INFO"} ->
           "AWAITING_COMPANY_RESPONSE"
      [] word \in {"UNDER_REVIEW", "CANCELLED", "CLOSED"} -> word
      [] OTHER -> "ERROR_SYSTEM"

NoRow(p) == [status |-> "none", providerPayment |-> <<"provider", p>>]
IdOf(p) == <<"payment", p>>          \* the payment's own id
ProviderIdOf(p) == <<"provider", p>> \* its provider_payment_id
Idle == [tasks |-> {}, known |-> {}]
NoticePlaces == {"new", "check", "queued", "batch", "COMPLETED", "FAILED", "ignored"}

NewNotice == [at |-> "new", about |-> "none", status |-> "none", result |-> FALSE, saw |-> "none",
              sawRefund |-> FALSE]

InfractionTypeOK ==
    /\ infraction \in [Disputes -> [status : InfractionStatuses \cup {"none"},
                                    providerPayment : {ProviderIdOf(p) : p \in Payments}]]
    /\ refunded \subseteq Payments
    /\ notice \in [Notices -> [at : NoticePlaces, about : Disputes \cup {"none"},
                               status : InfractionStatuses \cup {"none"}, result : BOOLEAN, saw : InfractionStatuses \cup {"none"},
                               sawRefund : BOOLEAN]]
    /\ batcher \in [Batchers -> [tasks : SUBSET Notices, known : SUBSET Disputes]]
    /\ together \subseteq Disputes

Init ==
    /\ infraction = [d \in Disputes |-> NoRow(PaymentOf[d])]
    /\ refunded = {}
    /\ notice = [n \in Notices |-> NewNotice]
    /\ batcher = [b \in Batchers |-> Idle]
    /\ together = {}

Status(d) == infraction[d].status
\* A notice that is done with; what it said is not read again.
Over(how) == [NewNotice EXCEPT !.at = how]
NoticesTo(ns, place) == notice' = [n \in Notices |-> IF n \in ns THEN [notice[n] EXCEPT !.at = place] ELSE notice[n]]

(***************************************************************************)
(* handleInfractionWebhook.                                                *)
(***************************************************************************)

\* A receiver that asks about the payment only.
DismissedByPayment(d, status) == PaymentOf[d] \in refunded

\* What makes the receiver answer ok and do nothing.
Dismissed(d, status) ==
    PaymentOf[d] \in refunded \/ Status(d) \in Final \/ Status(d) = status

Check(n) ==
    /\ notice[n].at = "new"
    /\ \E d \in Disputes, status \in {parseInfractionStatus(word) : word \in Words}, result \in BOOLEAN :
         notice' = [notice EXCEPT ![n] = IF Dismissed(d, status) THEN Over("ignored") ELSE
           [at |-> "check", about |-> d, status |-> status, result |-> result, saw |-> Status(d),
            sawRefund |-> PaymentOf[d] \in refunded]]
    /\ UNCHANGED <<infraction, refunded, batcher, together>>

Enqueue(n) ==
    /\ notice[n].at = "check"
    /\ NoticesTo({n}, "queued")
    /\ UNCHANGED <<infraction, refunded, batcher, together>>

(***************************************************************************)
(* processInfraction.                                                      *)
(***************************************************************************)
InWork == UNION {batcher[b].tasks : b \in Batchers}
About(ns) == {notice[n].about : n \in ns}

\* A batch begins with two reads, outside the transaction.
ReadRows(b) ==
    /\ batcher[b] = Idle
    /\ \E ns \in SUBSET {n \in Notices : notice[n].at = "queued"} :
         /\ ns # {}
         /\ NoticesTo(ns, "batch")
         /\ batcher' = [batcher EXCEPT ![b] = [tasks |-> ns, known |-> {d \in About(ns) : Status(d) # "none"}]]
         /\ together' = together \cup (About(ns) \cap About(InWork))
                \cup {d \in Disputes : Cardinality({n \in ns : notice[n].about = d}) > 1}
    /\ UNCHANGED <<infraction, refunded>>

\* A known infraction takes no status without a result, a cancellation excepted.
Fails(b, n) ==
    /\ notice[n].about \in batcher[b].known
    /\ ~notice[n].result /\ notice[n].status # "CANCELLED"

\* The tasks that write a known row; ERROR_SYSTEM is reported and writes nothing.
Writes(b, n) == notice[n].status \in Final \cup InDispute

\* createMany skips the rows that are there, or that another task of the batch
\* has in it; the updates of one batch end with one of them.  The webhooks of the company
\* follow the commit: when they throw, every task is reported FAILED although
\* its row is written.
Transact(b) ==
    LET tasks   == batcher[b].tasks
        good    == {n \in tasks : ~Fails(b, n)}
        creates == {n \in good : notice[n].about \notin batcher[b].known}
        updates == {n \in good \ creates : Writes(b, n)}
        Of(d)   == {n \in updates : notice[n].about = d}
                     \cup {n \in creates : notice[n].about = d /\ Status(d) = "none"}
    IN
    /\ tasks # {}
    /\ \E last \in [Disputes -> tasks] :
         /\ \A d \in Disputes : Of(d) # {} => last[d] \in Of(d)
         /\ infraction' = [d \in Disputes |->
              IF Of(d) = {} THEN infraction[d]
              ELSE [infraction[d] EXCEPT !.status = notice[last[d]].status]]
    /\ \E reported \in {good, {}} :
         notice' = [n \in Notices |->
           IF n \in tasks THEN Over(IF n \in reported THEN "COMPLETED" ELSE "FAILED") ELSE notice[n]]
    /\ batcher' = [batcher EXCEPT ![b] = Idle]
    /\ UNCHANGED <<refunded, together>>

\* The transaction throws: every task of the batch fails.
Throw(b) ==
    /\ batcher[b] # Idle
    /\ notice' = [n \in Notices |-> IF n \in batcher[b].tasks THEN Over("FAILED") ELSE notice[n]]
    /\ batcher' = [batcher EXCEPT ![b] = Idle]
    /\ UNCHANGED <<infraction, refunded, together>>

(***************************************************************************)
(* processPayment with REFUNDED: it looks for open infractions, with no    *)
(* analysis_reason given, whose provider_payment_id is one of              *)
(* infractionsToCheck, where the handler has put the payment's own id.     *)
(***************************************************************************)
ToCheck(p) == IdOf(p)

Refund(p) ==
    /\ p \notin refunded
    /\ refunded' = refunded \cup {p}
    /\ \E given \in SUBSET Disputes :
         infraction' = [d \in Disputes |->
           IF /\ infraction[d].providerPayment = ToCheck(p)
              /\ Status(d) \notin Final \cup {"none"} /\ d \notin given
           THEN [infraction[d] EXCEPT !.status = "CLOSED"]
           ELSE infraction[d]]
    /\ UNCHANGED <<notice, batcher, together>>

InfractionNext ==
    \/ \E n \in Notices : Check(n) \/ Enqueue(n)
    \/ \E b \in Batchers : ReadRows(b) \/ Transact(b) \/ Throw(b)
    \/ \E p \in Payments : Refund(p)

Spec == Init /\ [][InfractionNext]_infractionVars

(***************************************************************************)
(* Properties.                                                             *)
(***************************************************************************)

\* The notices of a dispute whose batch ends in this step, however reported.
Ended(d) == {n \in Notices : notice[n].about = d /\ notice[n].at = "batch" /\ notice'[n].at # "batch"}
Completed(d) == {n \in Ended(d) : notice'[n].at = "COMPLETED"}

\* A closed or cancelled infraction is opened again, or closed another way,
\* only by a notice that had passed the receiver before it was closed.
ClosedIsFinal == [][\A d \in Disputes :
    Status(d) \in Final /\ infraction'[d].status # Status(d) =>
        \E n \in Ended(d) : notice[n].saw \notin Final]_infractionVars

\* Once a payment is refunded, only notices that had passed the receiver
\* before change its infractions: one they leave open blocks its amount for
\* good, since the refund itself does not close it.
QuietAfterRefund == [][\A d \in Disputes :
    PaymentOf[d] \in refunded /\ infraction'[d] # infraction[d] =>
        \E n \in Ended(d) : ~notice[n].sawRefund]_infractionVars

\* A final notice reported COMPLETED has closed its infraction, unless another
\* notice of the same dispute was worked beside it: createMany then skips the
\* row the other one made, and the task still counts as a success.
CompletedCloses == [][\A d \in Disputes :
    d \notin together /\ (\E n \in Completed(d) : notice[n].status \in Final) =>
        infraction'[d].status \in Final]_infractionVars

(***************************************************************************)
(* The inductive invariant behind them.                                    *)
(***************************************************************************)

UnderWay == {"check", "queued", "batch"}

\* A notice under way names a dispute and a status, and passed the receiver
\* while its infraction was open and its payment was not refunded.
PassedOpen ==
    \A n \in Notices :
        /\ notice[n].at \in UnderWay => notice[n].about \in Disputes /\ notice[n].status # "none"
        /\ notice[n].saw \notin Final /\ ~notice[n].sawRefund

\* The notices at "batch" are the tasks in work, each in one process.
TasksInWork ==
    /\ \A n \in Notices : notice[n].at = "batch" <=> n \in InWork
    /\ \A a, b \in Batchers : a # b => batcher[a].tasks \cap batcher[b].tasks = {}

\* Two of one dispute are known to be worked at once.
TogetherIsNoted ==
    \A m, n \in InWork : m # n /\ notice[m].about = notice[n].about => notice[n].about \in together

\* Alone with its dispute, a process' reading is still true.
UnknownIsAbsent ==
    \A b \in Batchers : \A n \in batcher[b].tasks : LET d == notice[n].about IN
        d \notin batcher[b].known /\ d \notin together => Status(d) = "none"

InfractionIInv ==
    InfractionTypeOK /\ PassedOpen /\ TasksInWork /\ TogetherIsNoted /\ UnknownIsAbsent
=============================================================================
