----------------------------- MODULE PayoutIntake -----------------------------
(***************************************************************************)
(* Where a company's withdrawals go: the receivers it registers, the one   *)
(* decision on each (ACTIVE or REJECTED, with a key of the company), their *)
(* deletion, and the withdrawal request, which reads a receiver and copies *)
(* it into its row a few awaits later.  Neither a receiver's details nor a *)
(* withdrawal's external_id has a unique index.  The request's balance is  *)
(* in WithdrawalPayout.                                                    *)
(***************************************************************************)
EXTENDS Integers, FiniteSets

CONSTANTS
    Receivers,      \* rows there may come to be
    Registered,     \* form of the one PENDING receiver there is at the beginning
    Forms,          \* details a company registers
    ReceiverDeeds,  \* requests of ReceiverService, each made once
    Payouts,        \* withdrawal requests, each made once
    PayoutIds,      \* the external_ids they may carry
    PayoutTypes,    \* the types they may ask for
    CashOut,        \* mode and type of the company's provider_cashout
    NoReceiver, NoForm, NoPayoutId

\* Zero is a detail left out.
ReceiverForm == [type : {"BANK_ACCOUNT", "CRIPTO_WALLET"}, account : Nat, pix : Nat, wallet : Nat]

PayoutIntakeAssumption ==
    /\ Forms \subseteq ReceiverForm /\ Registered \in Forms
    /\ \A f \in Forms : IF f.type = "BANK_ACCOUNT" THEN f.account # 0 ELSE f.wallet # 0
    /\ PayoutTypes \subseteq {"PIX", "BANK_ACCOUNT", "CRIPTO_WALLET"}
    /\ CashOut \in [mode : {"CASHIN", "CASHOUT", "CASHIN_CASHOUT"}, type : {"FIAT", "CRIPTO", "FIAT_CRIPTO"}]
    /\ NoReceiver \notin Receivers /\ NoForm \notin Forms /\ NoPayoutId \notin PayoutIds

VARIABLES
    receiver,    \* the rows; known: the live rows when the request looked
    deed,        \* requests of ReceiverService under way
    withdrawal,  \* the requests, and in the end their rows; known: the rows
                 \* there were when the request looked for its external_id
    accepted,    \* history: receivers that have been ACTIVE
    decidedTwice \* history: receivers decided by requests that both read PENDING

payoutIntakeVars == <<receiver, deed, withdrawal, accepted, decidedTwice>>

Unregistered == [form |-> NoForm, status |-> "none", deleted |-> FALSE, known |-> {}]
Row(form, known) == [form |-> form, status |-> "PENDING", deleted |-> FALSE, known |-> known]
NewDeed == [at |-> "new", of |-> NoReceiver, form |-> NoForm, known |-> {}]
NewPayout == [at |-> "new", external |-> NoPayoutId, of |-> NoReceiver, known |-> {}]

Live == {r \in Receivers : receiver[r].status # "none" /\ ~receiver[r].deleted}
Inserted == {w \in Payouts : withdrawal[w].at = "inserted"}

PayoutIntakeTypeOK ==
    /\ receiver \in [Receivers -> [form : Forms \cup {NoForm}, deleted : BOOLEAN, known : SUBSET Receivers,
                                   status : {"none", "PENDING", "ACTIVE", "REJECTED"}]]
    /\ deed \in [ReceiverDeeds -> [at : {"new", "insert", "decide", "delete", "over"},
                                   of : Receivers \cup {NoReceiver}, form : Forms \cup {NoForm},
                                   known : SUBSET Receivers]]
    /\ withdrawal \in [Payouts -> [at : {"new", "receiver", "insert", "inserted", "refused"},
                                   external : PayoutIds \cup {NoPayoutId},
                                   of : Receivers \cup {NoReceiver}, known : SUBSET Payouts]]
    /\ accepted \subseteq Receivers /\ decidedTwice \subseteq Receivers

Init ==
    /\ receiver = [r \in Receivers |-> IF r = CHOOSE q \in Receivers : TRUE
                                       THEN Row(Registered, {}) ELSE Unregistered]
    /\ deed = [d \in ReceiverDeeds |-> NewDeed]
    /\ withdrawal = [w \in Payouts |-> NewPayout]
    /\ accepted = {} /\ decidedTwice = {}

RowsStay == UNCHANGED <<receiver, accepted, decidedTwice>>
Over == [NewDeed EXCEPT !.at = "over"]
Ends(d) == deed' = [deed EXCEPT ![d] = Over]

(***************************************************************************)
(* Receivers.                                                              *)
(***************************************************************************)

\* Two forms name one destination: the OR of checkDuplicate's conditions.
Alike(f, g) ==
    \/ f.account # 0 /\ f.account = g.account
    \/ f.wallet # 0 /\ f.wallet = g.wallet
    \/ f.pix # 0 /\ f.pix = g.pix

\* The live receivers of the company that checkDuplicate finds.
CheckDuplicate(form) == \E r \in Live : Alike(form, receiver[r].form)

\* create looks for the details ...
Register(d) ==
    /\ deed[d].at = "new"
    /\ \E form \in Forms :
         deed' = [deed EXCEPT ![d] =
                    IF CheckDuplicate(form) THEN Over
                    ELSE [NewDeed EXCEPT !.at = "insert", !.form = form, !.known = Live]]
    /\ UNCHANGED withdrawal /\ RowsStay

\* ... and inserts the row, PENDING.
InsertReceiver(d) ==
    /\ deed[d].at = "insert"
    /\ \E r \in Receivers : receiver[r] = Unregistered
    /\ LET id == CHOOSE r \in Receivers : receiver[r] = Unregistered
       IN  receiver' = [receiver EXCEPT ![id] = Row(deed[d].form, deed[d].known)]
    /\ Ends(d)
    /\ UNCHANGED <<withdrawal, accepted, decidedTwice>>

\* Without the check of the status.
ReadToDecideAny(d) ==
    /\ deed[d].at = "new"
    /\ \E r \in Live : deed' = [deed EXCEPT ![d].at = "decide", ![d].of = r]
    /\ UNCHANGED withdrawal /\ RowsStay

\* updateStatus reads the row and refuses what is not PENDING ...
ReadToDecide(d) ==
    /\ deed[d].at = "new"
    /\ \E r \in Live :
         deed' = [deed EXCEPT ![d] =
                    IF receiver[r].status = "PENDING"
                    THEN [NewDeed EXCEPT !.at = "decide", !.of = r, !.known = {r}] ELSE Over]
    /\ UNCHANGED withdrawal /\ RowsStay

\* ... and writes the decision by id, whatever the row has become.
Decide(d) ==
    LET r == deed[d].of IN
    /\ deed[d].at = "decide"
    /\ \E status \in {"ACTIVE", "REJECTED"} :
         /\ receiver' = [receiver EXCEPT ![r].status = status]
         /\ accepted' = IF status = "ACTIVE" THEN accepted \cup {r} ELSE accepted
    /\ decidedTwice' = IF r \in deed[d].known /\ receiver[r].status # "PENDING"
                       THEN decidedTwice \cup {r} ELSE decidedTwice
    /\ Ends(d)
    /\ UNCHANGED withdrawal

\* delete: findByIdAndCompany, then softDelete by id.
ReadToDelete(d) ==
    /\ deed[d].at = "new"
    /\ \E r \in Live : deed' = [deed EXCEPT ![d].at = "delete", ![d].of = r]
    /\ UNCHANGED withdrawal /\ RowsStay

SoftDelete(d) ==
    /\ deed[d].at = "delete"
    /\ receiver' = [receiver EXCEPT ![deed[d].of].deleted = TRUE]
    /\ Ends(d)
    /\ UNCHANGED <<withdrawal, accepted, decidedTwice>>

(***************************************************************************)
(* Withdrawal requests.                                                    *)
(***************************************************************************)

Turned == [NewPayout EXCEPT !.at = "refused"]

\* A lookup that finds nothing.
FindExternalNone(w, id) == FALSE

\* Looks for the external_id among the rows of every company, if there is one.
FindExternal(w, id) == id # NoPayoutId /\ \E v \in Inserted : withdrawal[v].external = id

AskPayout(w) ==
    /\ withdrawal[w].at = "new"
    /\ \E id \in PayoutIds \cup {NoPayoutId} :
         withdrawal' = [withdrawal EXCEPT ![w] =
            IF FindExternal(w, id) THEN Turned
            ELSE [NewPayout EXCEPT !.at = "receiver", !.external = id, !.known = Inserted]]
    /\ UNCHANGED deed /\ RowsStay

\* validateForWithdrawal, of the row as it is read.
ValidFor(r, type) ==
    /\ receiver[r].status = "ACTIVE"
    /\ type = "PIX" => receiver[r].form.pix # 0
    /\ type # "PIX" => receiver[r].form.type = type

\* validateTypeWithdrawal.
ProviderTakes(type) ==
    /\ type \in {"PIX", "CRIPTO_WALLET"} => CashOut.mode # "CASHIN_CASHOUT"
    /\ type \in {"BANK_ACCOUNT", "CRIPTO_WALLET"} => CashOut.type # "FIAT_CRIPTO"

ReadReceiver(w) ==
    /\ withdrawal[w].at = "receiver"
    /\ \E r \in Live, type \in PayoutTypes :
         withdrawal' = [withdrawal EXCEPT ![w] =
            IF ValidFor(r, type) /\ ProviderTakes(type)
            THEN [withdrawal[w] EXCEPT !.at = "insert", !.of = r] ELSE Turned]
    /\ UNCHANGED deed /\ RowsStay

\* The balance is checked in between (or is short), and the row is inserted
\* with the details that were read.
InsertPayout(w) ==
    /\ withdrawal[w].at = "insert"
    /\ \E end \in {[withdrawal[w] EXCEPT !.at = "inserted"], Turned} :
         withdrawal' = [withdrawal EXCEPT ![w] = end]
    /\ UNCHANGED deed /\ RowsStay

PayoutIntakeNext ==
    \/ \E d \in ReceiverDeeds : Register(d) \/ InsertReceiver(d) \/ ReadToDecide(d) \/ Decide(d)
                                  \/ ReadToDelete(d) \/ SoftDelete(d)
    \/ \E w \in Payouts : AskPayout(w) \/ ReadReceiver(w) \/ InsertPayout(w)

Spec == Init /\ [][PayoutIntakeNext]_payoutIntakeVars

(***************************************************************************)
(* Properties.                                                             *)
(***************************************************************************)

\* Money goes where the decision was yes: the receiver of a withdrawal row has
\* been ACTIVE, and if it is REJECTED now, two decisions that both
\* read it PENDING have overwritten each other.
PaidToAccepted ==
    \A w \in Inserted : LET r == withdrawal[w].of IN
        /\ r \in accepted
        /\ receiver[r].status = "REJECTED" => r \in decidedTwice

\* Two live receivers share a destination only when each was registered by a
\* request that had looked before the other's row was there.
OneReceiverPerDestination ==
    \A r, s \in Live : r # s /\ Alike(receiver[r].form, receiver[s].form) =>
        r \notin receiver[s].known /\ s \notin receiver[r].known

\* An external_id is paid twice only by requests that looked for it before
\* either row was there: the check is not repeated and no index holds it.
OnePayoutPerExternalId ==
    \A v, w \in Inserted : v # w /\ withdrawal[v].external = withdrawal[w].external =>
        \/ withdrawal[v].external = NoPayoutId
        \/ v \notin withdrawal[w].known /\ w \notin withdrawal[v].known

(***************************************************************************)
(* The inductive invariant behind them.                                    *)
(***************************************************************************)

\* A decision is under way about one row that is there.
DecidesARow ==
    \A d \in ReceiverDeeds : LET r == deed[d].of IN
        /\ deed[d].at \in {"decide", "delete"} => r \in Receivers /\ receiver[r].status # "none"
        /\ deed[d].at = "decide" => deed[d].known = {r}

\* What has been accepted is ACTIVE, or was decided again.
AcceptedByStatus ==
    \A r \in Receivers :
        /\ receiver[r].status = "ACTIVE" => r \in accepted
        /\ receiver[r].status \in {"none", "PENDING"} => r \notin accepted
        /\ receiver[r].status = "REJECTED" /\ r \in accepted => r \in decidedTwice

\* A withdrawal that has read its receiver has read one that was accepted.
ReadsAccepted ==
    \A w \in Payouts : withdrawal[w].at \in {"insert", "inserted"} => withdrawal[w].of \in accepted

\* What a registration saw is there, and names another destination.
Unlike(form, known) ==
    \A r \in known : receiver[r].status # "none" /\ ~Alike(receiver[r].form, form)
SawOthers ==
    /\ \A s \in Receivers : Unlike(receiver[s].form, receiver[s].known)
    /\ \A d \in ReceiverDeeds : deed[d].at = "insert" => Unlike(deed[d].form, deed[d].known)

\* What a withdrawal saw is a row, and of another external_id.
SawOtherIds ==
    \A w \in Payouts : withdrawal[w].at \in {"receiver", "insert", "inserted"} =>
        \A v \in withdrawal[w].known :
            /\ withdrawal[v].at = "inserted"
            /\ withdrawal[w].external # NoPayoutId => withdrawal[v].external # withdrawal[w].external

PayoutIntakeIInv ==
    PayoutIntakeTypeOK /\ DecidesARow /\ AcceptedByStatus /\ ReadsAccepted /\ SawOthers /\ SawOtherIds
=============================================================================
