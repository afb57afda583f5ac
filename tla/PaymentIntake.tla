---------------------------- MODULE PaymentIntake ----------------------------
(***************************************************************************)
(* PaymentService.create, from the request to the queued approval: the     *)
(* check of external_id, the fees, the charge at the provider, the         *)
(* customer, the row, and the task for a payment approved at once; beside  *)
(* it the provider's approval webhook, which needs the row.  The charge    *)
(* comes before everything that can still fail, and nothing takes it back. *)
(* Requests carry an external_id, a customer's e-mail and an offer: the    *)
(* amount with the company's and the provider's rates, in basis points.    *)
(* Splits are switched off in create; the two names it passes for them are *)
(* declared nowhere, so the module has the function as it reads without.   *)
(***************************************************************************)
EXTENDS Integers, FiniteSets

CONSTANTS
    Posts,         \* requests to create a payment; a retry is one of its own
    ExternalIds, Emails,
    Offers,        \* what a request may be about, see Offer
    MaxIntakeCuts, \* bound: requests or tasks that die between two steps
    NoExternal     \* a request without external_id

Offer == [amount : Nat, method : {"PIX", "BILLET", "CREDIT_CARD"},
          taxCompany : Nat, feeCompany : Nat, taxProvider : Nat, feeProvider : Nat,
          taxReserve : Nat, feeReserve : Nat, reserveDays : Nat,
          minAmount : Nat, maxAmount : Nat,
          items : Nat,         \* what unit_amount times quantity of the items sums to
          installments : Nat]  \* of a card

VARIABLES
    post,         \* the requests, with the offer and the provider's answer
    charge,       \* the provider's side: what became of each request's charge
    payment,      \* payment rows, by the request that wrote them
    customers, configs,  \* e-mails with a customer row, and with its config
    approvals,    \* tasks PAYMENT/APPROVED in the queue, by payment
    webhook,      \* the provider's approval webhook of each charge
    checkedAlike, \* history: two requests checked one external_id before either wrote
    sameCustomer, \* history: requests whose customer another one inserted first
    intakeCuts

intakeVars == <<post, charge, payment, customers, configs, approvals, webhook, checkedAlike,
                sameCustomer, intakeCuts>>

Under == {"charge", "answer", "customer", "create", "config", "insert"}
IntakePlaces == {"new", "immediate", "done", "refused", "cut"} \cup Under

\* The provider's words: those that are also a payment_status, of which
\* REFUNDED stands for every other status no approval changes; and those that
\* are none, UNKNOWN for any parseStatus has no case for.  An answer without a
\* word passes as well and gets the column's default: it counts as PENDING.
Statuses == {"PENDING", "APPROVED", "REFUNDED"}
StatusWords == Statuses \cup {"REJECTED", "BLOCKED", "REFUND", "UNKNOWN"}

\* createPayment.  The sandbox approves a card at once and leaves the other
\* methods PENDING; production passes on the provider's word.
Answers(environment, method) ==
    CASE environment = "PRODUCTION" -> StatusWords
      [] environment = "SANDBOX" /\ method = "CREDIT_CARD" -> {"APPROVED"}
      [] OTHER -> {"PENDING"}

\* parseStatus, which the validator sees; the row gets the word itself.
Parsed(word) ==
    CASE word \in {"PENDING", "APPROVED"} -> word
      [] word = "BLOCKED" -> "IN_DISPUTE"
      [] word \in {"REFUNDED", "REFUND"} -> "REFUNDED"
      [] word = "REJECTED" -> "REFUSED"
      [] OTHER -> "ERROR_SYSTEM"

\* A charge the provider may have taken money for.
Taken(word) == word \in StatusWords \ {"REJECTED"}

NoOffer == [amount |-> 0]
NewPost == [at |-> "new", ext |-> NoExternal, email |-> "none", offer |-> NoOffer, answer |-> "none"]

IntakeTypeOK ==
    /\ post \in [Posts -> [at : IntakePlaces, ext : ExternalIds \cup {NoExternal},
                           email : Emails \cup {"none"}, offer : Offers \cup {NoOffer},
                           answer : {"none"} \cup StatusWords]]
    /\ charge \in [Posts -> {"none"} \cup StatusWords]
    /\ payment \in [Posts -> {"none", "SETTLED"} \cup Statuses]
    /\ customers \subseteq Emails /\ configs \subseteq customers
    /\ approvals \in [Posts -> 0..2]
    /\ webhook \in [Posts -> {"none", "sent", "refused", "acknowledged"}]
    /\ checkedAlike \in BOOLEAN /\ sameCustomer \subseteq Posts
    /\ intakeCuts \in 0..MaxIntakeCuts

Init ==
    /\ post = [p \in Posts |-> NewPost]
    /\ charge = [p \in Posts |-> "none"] /\ payment = [p \in Posts |-> "none"]
    /\ customers = {} /\ configs = {}
    /\ approvals = [p \in Posts |-> 0]
    /\ webhook = [p \in Posts |-> "none"]
    /\ checkedAlike = FALSE /\ sameCustomer = {} /\ intakeCuts = 0

At(p, place) == post[p].at = place
PostTo(p, place) == post' = [post EXCEPT ![p].at = place]
Rows == {p \in Posts : payment[p] # "none"}

(***************************************************************************)
(* The fees of an offer: calculateNetAmount and calculatePaymentFees.      *)
(***************************************************************************)
NetAmount(amount, rate, fee) == (amount * (10000 - rate)) \div 10000 - fee
Shares(o) ==
    LET company  == NetAmount(o.amount, o.taxCompany, o.feeCompany)
        provider == o.amount - NetAmount(o.amount, o.taxProvider, o.feeProvider)
    IN  [company |-> company, provider |-> provider,
         organization |-> o.amount - company - provider,
         reserve |-> (o.amount * o.taxReserve) \div 10000 + o.feeReserve]

\* A reserve is taken without days to hold it.
AnyReserve(o) ==
    /\ o.amount \in o.minAmount..o.maxAmount
    /\ o.items = o.amount
    /\ o.method = "CREDIT_CARD" => o.amount >= 1000 /\ o.installments \in 1..12

\* What the validator accepts: an amount in its range that is the sum of the
\* items, a card's installments and least amount, a reserve with days.
Acceptable(o) ==
    /\ o.amount \in o.minAmount..o.maxAmount
    /\ o.items = o.amount
    /\ o.method = "CREDIT_CARD" => o.amount >= 1000 /\ o.installments \in 1..12
    /\ Shares(o).reserve = 0 \/ o.reserveDays # 0

\* The statuses a row is written with: a reserve is held, and released by the
\* job, when its days are positive; otherwise it counts as released.
Held(o) == o.reserveDays > 0

(***************************************************************************)
(* create.                                                                 *)
(***************************************************************************)

FindPayments(ext) == {q \in Rows : post[q].ext = ext}

CheckExternalId(p) ==
    /\ At(p, "new")
    /\ \E ext \in ExternalIds \cup {NoExternal}, email \in Emails, offer \in Offers :
         LET known == ext # NoExternal /\ FindPayments(ext) # {} IN
         /\ post' = [post EXCEPT ![p] =
              [NewPost EXCEPT !.at = IF known THEN "refused" ELSE "charge",
                              !.ext = ext, !.email = email, !.offer = offer]]
         /\ checkedAlike' = (checkedAlike \/ (ext # NoExternal /\ ~known
              /\ \E q \in Posts : post[q].ext = ext /\ post[q].at \in Under))
    /\ UNCHANGED <<charge, payment, customers, configs, approvals, webhook, sameCustomer, intakeCuts>>

\* The validations, the fees and the call of the provider, which may throw.
Charge(p) ==
    /\ At(p, "charge")
    /\ \/ /\ Acceptable(post[p].offer)
          /\ \E environment \in {"SANDBOX", "PRODUCTION"} :
             \E answer \in Answers(environment, post[p].offer.method) :
               /\ charge' = [charge EXCEPT ![p] = answer]
               /\ post' = [post EXCEPT ![p].at = "answer", ![p].answer = answer]
       \/ PostTo(p, "refused") /\ UNCHANGED charge
    /\ UNCHANGED <<payment, customers, configs, approvals, webhook, checkedAlike, sameCustomer, intakeCuts>>

\* validateProviderResponse throws on a refused PIX only; whatever else the
\* word is parsed to passes.
ReadAnswer(p) ==
    /\ At(p, "answer")
    /\ PostTo(p, IF Parsed(post[p].answer) = "REFUSED" /\ post[p].offer.method = "PIX" THEN "refused" ELSE "customer")
    /\ UNCHANGED <<charge, payment, customers, configs, approvals, webhook, checkedAlike, sameCustomer, intakeCuts>>

\* A customer is inserted without a look for one.
CreateAlways(p) ==
    /\ At(p, "customer")
    /\ PostTo(p, "create")
    /\ UNCHANGED <<charge, payment, customers, configs, approvals, webhook, checkedAlike, sameCustomer, intakeCuts>>

FindCustomer(p) ==
    LET racing == {q \in Posts : At(q, "create") /\ post[q].email = post[p].email} IN
    /\ At(p, "customer")
    /\ PostTo(p, IF post[p].email \in customers THEN "insert" ELSE "create")
    /\ sameCustomer' = IF racing = {} THEN sameCustomer ELSE sameCustomer \cup racing \cup {p}
    /\ UNCHANGED <<charge, payment, customers, configs, approvals, webhook, checkedAlike, intakeCuts>>

\* The e-mail is unique: the second insert throws, after the charge.
CreateCustomer(p) ==
    /\ At(p, "create")
    /\ IF post[p].email \in customers
       THEN PostTo(p, "refused") /\ UNCHANGED customers
       ELSE PostTo(p, "config") /\ customers' = customers \cup {post[p].email}
    /\ UNCHANGED <<charge, payment, configs, approvals, webhook, checkedAlike, sameCustomer, intakeCuts>>

CreateConfig(p) ==
    /\ At(p, "config")
    /\ configs' = configs \cup {post[p].email}
    /\ PostTo(p, "insert")
    /\ UNCHANGED <<charge, payment, customers, approvals, webhook, checkedAlike, sameCustomer, intakeCuts>>

\* The row's status is the provider's own word: one that is no payment_status
\* makes the insert throw.
Insert(p) ==
    /\ At(p, "insert")
    /\ IF post[p].answer \in Statuses
       THEN /\ payment' = [payment EXCEPT ![p] = post[p].answer]
            /\ PostTo(p, IF post[p].answer = "APPROVED" THEN "immediate" ELSE "done")
       ELSE PostTo(p, "refused") /\ UNCHANGED payment
    /\ UNCHANGED <<charge, customers, configs, approvals, webhook, checkedAlike, sameCustomer, intakeCuts>>

\* setImmediate: the request is answered, the task is written after it.
QueueApproval(p) ==
    /\ At(p, "immediate")
    /\ approvals' = [approvals EXCEPT ![p] = @ + 1]
    /\ PostTo(p, "done")
    /\ UNCHANGED <<charge, payment, customers, configs, webhook, checkedAlike, sameCustomer, intakeCuts>>

\* A statement fails, the provider's answer is lost, or the process dies; what
\* was done before stays done, and a failed task is only logged.
CutOff(p) ==
    /\ post[p].at \in Under \cup {"immediate"}
    /\ intakeCuts < MaxIntakeCuts
    /\ intakeCuts' = intakeCuts + 1
    /\ PostTo(p, "cut")
    /\ UNCHANGED <<charge, payment, customers, configs, approvals, webhook, checkedAlike, sameCustomer>>

(***************************************************************************)
(* The provider's webhook, and the task.                                   *)
(***************************************************************************)

\* The customer pays, or the provider reports a charge approved at once too.
Pay(p) ==
    /\ Taken(charge[p]) /\ webhook[p] = "none"
    /\ charge' = [charge EXCEPT ![p] = "APPROVED"]
    /\ webhook' = [webhook EXCEPT ![p] = "sent"]
    /\ UNCHANGED <<post, payment, customers, configs, approvals, checkedAlike, sameCustomer, intakeCuts>>

Acknowledge(p) == webhook' = [webhook EXCEPT ![p] = "acknowledged"]
Delivered(p) == webhook[p] \in {"sent", "refused"}

\* A receiver that acknowledges what it does not know.
ReceiveUnknown(p) ==
    /\ Delivered(p) /\ Acknowledge(p)
    /\ approvals' = IF payment[p] = "PENDING" THEN [approvals EXCEPT ![p] = @ + 1] ELSE approvals
    /\ UNCHANGED <<post, charge, payment, customers, configs, checkedAlike, sameCustomer, intakeCuts>>

\* handlePaymentWebhook: without a row it throws, and the provider may send
\* again; a row that says APPROVED or REFUNDED already makes it no work.
Receive(p) ==
    /\ Delivered(p)
    /\ IF payment[p] = "none"
       THEN webhook' = [webhook EXCEPT ![p] = "refused"] /\ UNCHANGED approvals
       ELSE /\ Acknowledge(p)
            /\ approvals' = IF payment[p] = "PENDING" THEN [approvals EXCEPT ![p] = @ + 1] ELSE approvals
    /\ UNCHANGED <<post, charge, payment, customers, configs, checkedAlike, sameCustomer, intakeCuts>>

\* A batch of the general queue works the task (see PaymentSettlement).
Settle(p) ==
    /\ approvals[p] > 0 /\ payment[p] \in {"PENDING", "APPROVED"}
    /\ payment' = [payment EXCEPT ![p] = "SETTLED"]
    /\ UNCHANGED <<post, charge, customers, configs, approvals, webhook, checkedAlike, sameCustomer, intakeCuts>>

IntakeNext ==
    \E p \in Posts :
        \/ CheckExternalId(p) \/ Charge(p) \/ ReadAnswer(p) \/ FindCustomer(p) \/ CreateCustomer(p)
        \/ CreateConfig(p) \/ Insert(p) \/ QueueApproval(p) \/ CutOff(p)
        \/ Pay(p) \/ Receive(p) \/ Settle(p)

Spec == Init /\ [][IntakeNext]_intakeVars

(***************************************************************************)
(* Properties.                                                             *)
(***************************************************************************)

\* A charge the provider took has a row, or its request is still under way,
\* was cut off, lost the race for the customer's unique e-mail, or was
\* answered with a word the validator let pass and the status column refused:
\* no other step after the charge fails.
ChargedIsKnown ==
    \A p \in Posts : Taken(charge[p]) /\ payment[p] = "none" =>
        \/ post[p].at \in Under \cup {"cut"}
        \/ p \in sameCustomer \/ post[p].answer \notin Statuses

\* One external_id is charged once, unless two requests checked it before
\* either had its row, or an earlier attempt ended after its charge without
\* one: then the retry charges again.
ChargedOncePerExternalId ==
    \/ checkedAlike
    \/ \A p, q \in Posts :
         p # q /\ post[p].ext = post[q].ext /\ post[p].ext # NoExternal
             /\ Taken(charge[p]) /\ Taken(charge[q]) =>
           \E lost \in {p, q} : payment[lost] = "none" /\ post[lost].at \in {"cut", "refused"}

\* An approval webhook the receiver acknowledged has its task in the queue,
\* unless the request that saw the approval itself still has to write the
\* task, or died with it: nobody else writes it then; or the row was REFUNDED
\* from the start.
AcknowledgedIsQueued ==
    \A p \in Posts : webhook[p] = "acknowledged" =>
        \/ approvals[p] > 0 \/ At(p, "immediate")
        \/ At(p, "cut") /\ payment[p] = "APPROVED"
        \/ payment[p] = "REFUNDED"

\* What a row takes as reserve it also holds until the days have passed: the
\* validator and buildPaymentData agree on every offer.
ReserveIsHeld == \A p \in Rows : Shares(post[p].offer).reserve # 0 => Held(post[p].offer)

(***************************************************************************)
(* The inductive invariant behind them.                                    *)
(***************************************************************************)

\* How far a request is says what it has done: it carries an offer from the
\* first check on, a charge that was accepted, with the provider's answer,
\* from the second, and a row at its end.
FarAsItsPlace ==
    \A p \in Posts :
        /\ post[p].at \in {"new", "charge"} => charge[p] = "none"
        /\ post[p].at \in Under => post[p].email \in Emails /\ post[p].offer \in Offers
        /\ Taken(charge[p]) <=> Taken(post[p].answer)
        /\ charge[p] # "none" => post[p].offer \in Offers /\ Acceptable(post[p].offer)
        /\ payment[p] # "none" => charge[p] # "none" /\ post[p].at \in {"immediate", "done", "cut"}
        /\ post[p].at = "done" => payment[p] # "none"
        /\ post[p].at = "immediate" => payment[p] \in {"APPROVED", "SETTLED"}
        /\ post[p].at = "new" => post[p].ext = NoExternal
        /\ post[p].at = "config" => post[p].email \in customers

\* Whoever finds its customer inserted when it wants to insert him has met
\* another request for him.
RacesForCustomers ==
    \A p \in Posts : At(p, "create") =>
        /\ post[p].email \in customers => p \in sameCustomer
        /\ \A q \in Posts \ {p} :
             At(q, "create") /\ post[q].email = post[p].email => {p, q} \subseteq sameCustomer

\* A request that may still be paid for, or has its row, is the only one of
\* its external_id.
Claims(p) == payment[p] # "none" \/ post[p].at \in Under
OneClaim ==
    checkedAlike \/ \A p, q \in Posts :
        p # q /\ post[p].ext = post[q].ext /\ post[p].ext # NoExternal => ~(Claims(p) /\ Claims(q))

\* A row that is APPROVED has its task, or a request that owes it.
ApprovedIsQueued ==
    \A p \in Posts :
        /\ payment[p] = "APPROVED" => approvals[p] > 0 \/ post[p].at \in {"immediate", "cut"}
        /\ payment[p] = "SETTLED" => approvals[p] > 0
        /\ approvals[p] <= (IF webhook[p] = "acknowledged" THEN 1 ELSE 0)
                             + (IF At(p, "done") THEN 1 ELSE 0)

IntakeIInv ==
    /\ IntakeTypeOK /\ FarAsItsPlace /\ RacesForCustomers /\ OneClaim /\ ApprovedIsQueued
    /\ ChargedIsKnown /\ AcknowledgedIsQueued
=============================================================================
