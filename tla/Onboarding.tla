----------------------------- MODULE Onboarding -----------------------------
(***************************************************************************)
(* What CompanyService, UserService and ProviderService do before a first  *)
(* payment.  They look for a row that must not be there twice and insert   *)
(* it later, with a unique index behind it or without; they write the rows *)
(* of a new company one after the other, outside any transaction; they     *)
(* store files and then the row that names them; and they check a change   *)
(* of the reserve by the fields of the change.  All clients here want the  *)
(* same e-mail, CNPJ or sub-account; documents and reserves are those of   *)
(* one company that is there.                                              *)
(***************************************************************************)
EXTENDS Integers, FiniteSets

CONSTANTS
    Clients,     \* requests to the services, each made once
    Currencies,  \* currencies that may have a tax configuration
    MaxBroken,   \* bound: requests that end between two statements
    NoClient

OnboardingAssumption ==
    /\ IsFiniteSet(Clients) /\ "BRL" \in Currencies
    /\ MaxBroken \in Nat /\ NoClient \notin Clients

Tables == {"company", "user", "subAccount", "providerTax"}
\* The index that decides between two inserts: user.email, provider_id of the tax
\* configuration.  A company's CNPJ and e-mail and the sub-accounts have none.
Indexed == {"user", "providerTax"}
CompanyRows == 6    \* company, tax configuration, configuration, three wallets
Files == {"contract", "selfie"}    \* two of the files, stored under fixed names

VARIABLES
    rows,       \* rows with the contested value, by table
    built,      \* rows written of the company a client registers
    client,     \* requests under way
    tax,        \* the reserve of each currency: a rate or fee is set, and days
    partial,    \* history: a reserve was written unchecked or from part of its fields
    file,       \* who stored each of the company's files
    document,   \* who inserted its company_document row
    active,     \* its status is ACTIVE
    unseen,     \* history: rows inserted beside one that came after the look
    uploadsMet, \* history: an upload began while another was under way
    broken

onboardingVars == <<rows, built, client, tax, partial, file, document, active, unseen, uploadsMet, broken>>
documentVars == <<file, document, active, uploadsMet>>
taxVars == <<tax, partial>>

NewClient == [at |-> "new", what |-> "none", rate |-> "none", days |-> "none", saw |-> 0]
UploadPlaces == {"contract", "selfie", "row", "activate"}
ClientPlaces == {"new", "insert", "build", "write", "create", "done", "refused"} \cup UploadPlaces
Fields == {"omitted", "zero", "some"}
NoTax == [there |-> FALSE, rate |-> FALSE, days |-> FALSE]

OnboardingTypeOK ==
    /\ rows \in [Tables -> Nat]
    /\ built \in [Clients -> 0..CompanyRows]
    /\ client \in [Clients -> [at : ClientPlaces, what : Tables \cup Currencies \cup {"none"},
                               rate : Fields \cup {"none"}, days : Fields \cup {"none"},
                               saw : Nat]]
    /\ tax \in [Currencies -> [there : BOOLEAN, rate : BOOLEAN, days : BOOLEAN]]
    /\ partial \in BOOLEAN
    /\ file \in [Files -> Clients \cup {NoClient}]
    /\ document \in Clients \cup {NoClient}
    /\ active \in BOOLEAN
    /\ unseen \in [Tables -> Nat]
    /\ uploadsMet \in BOOLEAN
    /\ broken \in 0..MaxBroken

\* create gives a company a reserve of 5 percent and 30 days, in BRL.
Init ==
    /\ rows = [t \in Tables |-> 0]
    /\ built = [c \in Clients |-> 0]
    /\ client = [c \in Clients |-> NewClient]
    /\ tax = [m \in Currencies |-> IF m = "BRL" THEN [there |-> TRUE, rate |-> TRUE, days |-> TRUE] ELSE NoTax]
    /\ partial = FALSE
    /\ file = [f \in Files |-> NoClient]
    /\ document = NoClient /\ active = FALSE
    /\ unseen = [t \in Tables |-> 0]
    /\ uploadsMet = FALSE
    /\ broken = 0

ClientAt(c, place) == client[c].at = place
Moves(c, place) == client' = [client EXCEPT ![c].at = place]

(***************************************************************************)
(* Look, then insert.                                                      *)
(***************************************************************************)

\* findByEmail, findByDocument, findByCompanyAndProvider, findByProviderId
NotThere(t) == rows[t] = 0

Find(c, t) ==
    /\ ClientAt(c, "new")
    /\ IF NotThere(t)
       THEN client' = [client EXCEPT ![c].at = "insert", ![c].what = t, ![c].saw = rows[t]]
       ELSE Moves(c, "refused")
    /\ UNCHANGED <<rows, built, taxVars, documentVars, unseen, broken>>

FindUser(c) == Find(c, "user")
FindCompany(c) == Find(c, "company")
FindProviderTax(c) == Find(c, "providerTax")
FindSubAccount(c) == Find(c, "subAccount")

Insert(c, t, next) ==
    /\ ClientAt(c, "insert") /\ client[c].what = t
    /\ IF t \in Indexed /\ rows[t] > 0
       THEN Moves(c, "refused") /\ UNCHANGED <<rows, unseen>>
       ELSE /\ rows' = [rows EXCEPT ![t] = @ + 1]
            /\ unseen' = [unseen EXCEPT ![t] = IF rows[t] > client[c].saw THEN @ + 1 ELSE @]
            /\ Moves(c, next)
    /\ UNCHANGED <<taxVars, documentVars, broken>>

InsertUser(c) == Insert(c, "user", "done") /\ UNCHANGED built
InsertProviderTax(c) == Insert(c, "providerTax", "done") /\ UNCHANGED built
InsertSubAccount(c) == Insert(c, "subAccount", "done") /\ UNCHANGED built
InsertCompany(c) == Insert(c, "company", "build") /\ built' = [built EXCEPT ![c] = 1]

\* The other rows of the company, one by one.
Build(c) ==
    /\ ClientAt(c, "build")
    /\ built' = [built EXCEPT ![c] = @ + 1]
    /\ Moves(c, IF built[c] + 1 = CompanyRows THEN "done" ELSE "build")
    /\ UNCHANGED <<rows, taxVars, documentVars, unseen, broken>>

(***************************************************************************)
(* uploadDocuments.                                                        *)
(***************************************************************************)
Uploading == \E c \in Clients : client[c].at \in UploadPlaces

FindNoDocument(c) ==
    /\ ClientAt(c, "new")
    /\ IF document = NoClient
       THEN Moves(c, "contract") /\ uploadsMet' = (uploadsMet \/ Uploading)
       ELSE Moves(c, "refused") /\ UNCHANGED uploadsMet
    /\ UNCHANGED <<rows, built, taxVars, file, document, active, unseen, broken>>

\* uploadBuffer, under the company's id and the name of the file.
StoreFile(c) ==
    /\ client[c].at \in Files
    /\ file' = [file EXCEPT ![client[c].at] = c]
    /\ Moves(c, IF ClientAt(c, "contract") THEN "selfie" ELSE "row")
    /\ UNCHANGED <<rows, built, taxVars, document, active, uploadsMet, unseen, broken>>

\* company_id is unique in company_document.
InsertDocument(c) ==
    /\ ClientAt(c, "row")
    /\ IF document = NoClient THEN document' = c /\ Moves(c, "activate")
                              ELSE Moves(c, "refused") /\ UNCHANGED document
    /\ UNCHANGED <<rows, built, taxVars, file, active, uploadsMet, unseen, broken>>

Activate(c) ==
    /\ ClientAt(c, "activate")
    /\ active' = TRUE
    /\ Moves(c, "done")
    /\ UNCHANGED <<rows, built, taxVars, file, document, uploadsMet, unseen, broken>>

(***************************************************************************)
(* The reserve in a tax configuration.                                     *)
(***************************************************************************)

\* validatePaymentMethodReserveDays; a field that was omitted counts as 0.
Valid(rate, days) == rate = "some" => days = "some"

\* The column after a write, where it was `old'.
Column(field, old) == CASE field = "omitted" -> old [] field = "zero" -> FALSE [] field = "some" -> TRUE

\* updateTaxConfig, then the look of updateByCompanyIdAndCurrency.
AskTax(c) ==
    /\ ClientAt(c, "new")
    /\ \E m \in Currencies, rate \in Fields, days \in Fields :
         /\ Valid(rate, days)
         /\ client' = [client EXCEPT ![c].at = IF tax[m].there THEN "write" ELSE "create",
                                        ![c].what = m, ![c].rate = rate, ![c].days = days]
         /\ partial' = (partial \/ "omitted" \in {rate, days})
    /\ UNCHANGED <<rows, built, tax, documentVars, unseen, broken>>

\* createTaxConfig, which finds none of the currency and checks nothing.
AskNewTax(c) ==
    /\ ClientAt(c, "new")
    /\ \E m \in Currencies, rate \in Fields, days \in Fields :
         /\ IF tax[m].there THEN Moves(c, "refused")
            ELSE client' = [client EXCEPT ![c].at = "create", ![c].what = m, ![c].rate = rate, ![c].days = days]
         /\ partial' = (partial \/ ~tax[m].there)
    /\ UNCHANGED <<rows, built, tax, documentVars, unseen, broken>>

\* The row is updated by its id, or created with 0 where nothing was said; the
\* pair of company and currency is unique.
WriteTax(c) ==
    LET m == client[c].what
        old == tax[m]
    IN  /\ client[c].at \in {"write", "create"}
        /\ IF ClientAt(c, "create") /\ old.there
           THEN Moves(c, "refused") /\ UNCHANGED tax
           ELSE /\ tax' = [tax EXCEPT ![m] = [there |-> TRUE, rate |-> Column(client[c].rate, old.rate),
                                              days |-> Column(client[c].days, old.days)]]
                /\ Moves(c, "done")
        /\ UNCHANGED <<rows, built, partial, documentVars, unseen, broken>>

\* The process dies, a file is not stored, or a statement fails.
BreakOff(c) ==
    /\ client[c].at \notin {"new", "done", "refused"}
    /\ broken < MaxBroken
    /\ broken' = broken + 1
    /\ Moves(c, "refused")
    /\ UNCHANGED <<rows, built, taxVars, documentVars, unseen>>

OnboardingNext ==
    \E c \in Clients :
        \/ FindUser(c) \/ FindCompany(c) \/ FindProviderTax(c) \/ FindSubAccount(c)
        \/ InsertUser(c) \/ InsertCompany(c) \/ InsertProviderTax(c) \/ InsertSubAccount(c) \/ Build(c)
        \/ FindNoDocument(c) \/ StoreFile(c) \/ InsertDocument(c) \/ Activate(c)
        \/ AskTax(c) \/ AskNewTax(c) \/ WriteTax(c) \/ BreakOff(c)

Spec == Init /\ [][OnboardingNext]_onboardingVars

(***************************************************************************)
(* Properties.                                                             *)
(***************************************************************************)

\* One user of an e-mail and one tax configuration of a provider however many
\* requests race; one company of a CNPJ and one sub-account, but for rows
\* inserted after another request's look, which no index refuses.
NoDuplicates == \A t \in Tables : rows[t] <= 1 + (IF t \in Indexed THEN 0 ELSE unseen[t])

\* The files of a company that was activated are those of the request whose row
\* names them, unless that request met another upload, which stores its own
\* under the same names before its row is refused.
FilesAreTheRows ==
    document # NoClient /\ ~uploadsMet => \A f \in Files : file[f] = document

\* `available_days_reserve must be at least 1 when tax_fee or tax_rate is set':
\* so it is after any order of updates that name both fields.
ReserveHasDays == ~partial => \A m \in Currencies : tax[m].rate => tax[m].days

(***************************************************************************)
(* The inductive invariant behind them.                                    *)
(***************************************************************************)

\* A request that will insert a row looked when there was none.
SawNone == \A c \in Clients : ClientAt(c, "insert") => client[c].saw = 0 /\ client[c].what \in Tables

\* A company is built row by row.
BuiltInOrder == \A c \in Clients : ClientAt(c, "build") => built[c] < CompanyRows

\* Without another upload there is one at a time, which has stored the files
\* before its place under its name; once a row names them, none is under way.
UploadsInTurn ==
    ~uploadsMet =>
        /\ \A c, d \in Clients : {client[c].at, client[d].at} \subseteq UploadPlaces => c = d
        /\ \A c \in Clients :
             /\ client[c].at \in {"selfie", "row"} => file["contract"] = c
             /\ client[c].at = "row" => file["selfie"] = c
             /\ document # NoClient => client[c].at \notin {"contract", "selfie", "row"}

\* A reserve about to be written names a currency and, unless one was written
\* from part of its fields, has days.
ReserveToWrite ==
    \A c \in Clients : client[c].at \in {"write", "create"} =>
        /\ client[c].what \in Currencies /\ {client[c].rate, client[c].days} \subseteq Fields
        /\ ~partial => "omitted" \notin {client[c].rate, client[c].days}
                          /\ Valid(client[c].rate, client[c].days)

OnboardingIInv ==
    /\ OnboardingTypeOK /\ SawNone /\ BuiltInOrder /\ UploadsInTurn /\ ReserveToWrite
    /\ NoDuplicates /\ FilesAreTheRows /\ ReserveHasDays
=============================================================================
