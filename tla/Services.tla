------------------------------ MODULE Services ------------------------------
(***************************************************************************)
(* The services behind the API and the webhook receiver, side by side.     *)
(* Each has tables of its own, and none reads another's while it writes    *)
(* (what they share with the ledger is in the modules of the queue), so a  *)
(* behaviour follows the service it began with, and the others rest.       *)
(***************************************************************************)
EXTENDS Integers, FiniteSets

CONSTANTS
    Hooks, StartType, Types, Edits, Batches, Event, Drainers, BatchMax,
    MaxListErrors, MaxDrainDeaths, NoHookId,
    Users, Founders, Calls, Invitations, NoUser, NoInvitation,
    SessionCalls, ResetTokens, MaxSecond, MaxCuts, NoReset,
    ApiKeyIds, StartKeys, KeyCalls, KeyMax, MaxKeyCuts, NoKey,
    Clients, Currencies, MaxBroken, NoClient,
    Posts, ExternalIds, Emails, Offers, MaxIntakeCuts, NoExternal,
    Disputes, Notices, PaymentOf, Words, Batchers,
    Receivers, Registered, Forms, ReceiverDeeds, Payouts, PayoutIds, PayoutTypes, CashOut,
    NoReceiver, NoForm, NoPayoutId,
    Uploads, MaxMishaps, NoUpload

VARIABLES
    service,
    hook, edit, batch, list, logged, drainer, sent, listErrors, drainDeaths, overwritten,
    checkedTwice, reverted,
    link, invitation, call, uses, overtaken, untyped,
    password, token, reset, sessionCall, second, logins, doubled, resetTwice, sessionCuts,
    apiKey, keyCall, overrun, keyCuts,
    rows, built, client, tax, partial, file, document, active, unseen, uploadsMet, broken,
    post, charge, payment, customers, configs, approvals, webhook, checkedAlike, sameCustomer,
    intakeCuts,
    infraction, refunded, notice, batcher, together,
    receiver, deed, withdrawal, accepted, decidedTwice,
    upload, flying, picture, userDocument, userActive, crossed, mishaps

Webhooks == INSTANCE OutgoingWebhooks
Members == INSTANCE Membership
Auth == INSTANCE Sessions
Keys == INSTANCE ApiKeys
Companies == INSTANCE Onboarding
Intake == INSTANCE PaymentIntake
Infraction == INSTANCE Infractions
Payout == INSTANCE PayoutIntake
Documents == INSTANCE UserDocuments

ASSUME ServicesAssumption ==
    /\ Webhooks!WebhookAssumption /\ Members!MembersAssumption /\ Auth!SessionsAssumption
    /\ Keys!ApiKeysAssumption /\ Companies!OnboardingAssumption
    /\ Offers \subseteq Intake!Offer /\ MaxIntakeCuts \in Nat
    /\ Infraction!InfractionsAssumption /\ Payout!PayoutIntakeAssumption
    /\ Documents!UserDocumentsAssumption

webhookVars == <<hook, edit, batch, list, logged, drainer, sent, listErrors, drainDeaths,
                 overwritten, checkedTwice, reverted>>
memberVars == <<link, invitation, call, uses, overtaken, untyped>>
authVars == <<password, token, reset, sessionCall, second, logins, doubled, resetTwice, sessionCuts>>
keyVars == <<apiKey, keyCall, overrun, keyCuts>>
companyVars == <<rows, built, client, tax, partial, file, document, active, unseen, uploadsMet, broken>>
intakeVars == <<post, charge, payment, customers, configs, approvals, webhook, checkedAlike,
                sameCustomer, intakeCuts>>
infractionVars == <<infraction, refunded, notice, batcher, together>>
payoutVars == <<receiver, deed, withdrawal, accepted, decidedTwice>>
documentVars == <<upload, flying, picture, userDocument, userActive, crossed, mishaps>>
vars == <<service, webhookVars, memberVars, authVars, keyVars, companyVars, intakeVars,
          infractionVars, payoutVars, documentVars>>

Init ==
    /\ service \in {"webhooks", "members", "auth", "keys", "companies", "intake", "infractions",
                   "payouts", "documents"}
    /\ Webhooks!Init /\ Members!Init /\ Auth!Init /\ Keys!Init /\ Companies!Init
    /\ Intake!Init /\ Infraction!Init /\ Payout!Init /\ Documents!Init

\* The other services rest.
WebhooksGoOn ==
    /\ service = "webhooks" /\ Webhooks!WebhookNext
    /\ UNCHANGED <<service, memberVars, authVars, keyVars, companyVars, intakeVars, infractionVars,
                   payoutVars, documentVars>>
MembersGoOn ==
    /\ service = "members" /\ Members!MembershipNext
    /\ UNCHANGED <<service, webhookVars, authVars, keyVars, companyVars, intakeVars, infractionVars,
                   payoutVars, documentVars>>
AuthGoesOn ==
    /\ service = "auth" /\ Auth!SessionNext
    /\ UNCHANGED <<service, webhookVars, memberVars, keyVars, companyVars, intakeVars, infractionVars,
                   payoutVars, documentVars>>
KeysGoOn ==
    /\ service = "keys" /\ Keys!ApiKeyNext
    /\ UNCHANGED <<service, webhookVars, memberVars, authVars, companyVars, intakeVars, infractionVars,
                   payoutVars, documentVars>>
CompaniesGoOn ==
    /\ service = "companies" /\ Companies!OnboardingNext
    /\ UNCHANGED <<service, webhookVars, memberVars, authVars, keyVars, intakeVars, infractionVars,
                   payoutVars, documentVars>>
IntakeGoesOn ==
    /\ service = "intake" /\ Intake!IntakeNext
    /\ UNCHANGED <<service, webhookVars, memberVars, authVars, keyVars, companyVars, infractionVars,
                   payoutVars, documentVars>>
InfractionsGoOn ==
    /\ service = "infractions" /\ Infraction!InfractionNext
    /\ UNCHANGED <<service, webhookVars, memberVars, authVars, keyVars, companyVars, intakeVars,
                   payoutVars, documentVars>>
PayoutsGoOn ==
    /\ service = "payouts" /\ Payout!PayoutIntakeNext
    /\ UNCHANGED <<service, webhookVars, memberVars, authVars, keyVars, companyVars, intakeVars,
                   infractionVars, documentVars>>
DocumentsGoOn ==
    /\ service = "documents" /\ Documents!UserDocumentsNext
    /\ UNCHANGED <<service, webhookVars, memberVars, authVars, keyVars, companyVars, intakeVars,
                   infractionVars, payoutVars>>

Next ==
    \/ WebhooksGoOn \/ MembersGoOn \/ AuthGoesOn \/ KeysGoOn \/ CompaniesGoOn
    \/ IntakeGoesOn \/ InfractionsGoOn \/ PayoutsGoOn \/ DocumentsGoOn

Spec == Init /\ [][Next]_vars

(***************************************************************************)
(* Properties, each stated and explained in the service's module.          *)
(***************************************************************************)

\* Every variable of every service keeps its range.
TypeOK ==
    /\ Webhooks!WebhookTypeOK /\ Members!MembershipTypeOK /\ Auth!SessionTypeOK
    /\ Keys!ApiKeyTypeOK /\ Companies!OnboardingTypeOK /\ Intake!IntakeTypeOK
    /\ Infraction!InfractionTypeOK /\ Payout!PayoutIntakeTypeOK
    /\ Documents!UserDocumentsTypeOK

\* What a request looked for before it wrote, with no unique index behind it,
\* holds afterwards but for requests that looked before either wrote (and a
\* webhook's type written back unlooked-for): one webhook of a type, ten keys, one company and sub-account, the files of a
\* company's and of a user's document row, which makes that user active, one
\* receiver of a destination, one payout of an external_id.
ChecksHoldUnlessRaced ==
    /\ Webhooks!OneHookPerType
    /\ Keys!KeysWithinLimit
    /\ Companies!NoDuplicates /\ Companies!FilesAreTheRows
    /\ Documents!PicturesAreTheRows /\ Documents!RowActivates
    /\ Payout!OneReceiverPerDestination
    /\ Payout!OnePayoutPerExternalId

\* A webhook is lost only through an overwritten or unread list, or a death.
LostOnlyByOverwriting == Webhooks!LostOnlyByOverwriting

\* A company keeps an owner who is not banned, unless a write was overtaken or
\* an update came without a type.
OwnerRemains == Members!OwnerRemains

\* What is handed to one user opens one door once: whoever is a member founded
\* the company or accepted an invitation, an invitation brings its user in
\* once, and a reset token writes one password, but for races at its row.
UsedByWhomItWasGiven ==
    Members!MembersWereInvited /\ Members!InvitationUsedOnce /\ Auth!ResetsAreSpent

\* Sessions older than the last change of the password end with that request,
\* and rotation does not multiply them, but for two refreshes of one token.
SessionsEnd == Auth!OldSessionsEnd /\ Auth!SessionsFromLogins

\* A charge without a row has a request under way, cut off, that lost the race
\* for a customer's e-mail, or whose status word fits no row; one external_id is charged once, but for races
\* and attempts that failed after the charge.
ChargesAreKnown == Intake!ChargedIsKnown /\ Intake!ChargedOncePerExternalId

\* An acknowledged approval has its task, or the request that owed it died.
AcknowledgedIsQueued == Intake!AcknowledgedIsQueued

\* A reserve that a payment's row takes is held, and a company with a reserve
\* has days to hold it unless an update named one of them only.
ReserveIsHeld == Intake!ReserveIsHeld /\ Companies!ReserveHasDays

\* A closed infraction, or one of a refunded payment, changes only by a notice
\* checked before that; a final notice reported COMPLETED has closed its
\* infraction unless another was worked beside it.
DisputesEnd == Infraction!ClosedIsFinal /\ Infraction!QuietAfterRefund /\ Infraction!CompletedCloses

\* A withdrawal's receiver was accepted, and is REJECTED since only where two
\* decisions raced.
PaidToAccepted == Payout!PaidToAccepted

\* The inductive invariants of the services, each in its own tables.
ServicesIInv ==
    /\ Webhooks!WebhookIInv /\ Members!MembershipIInv /\ Auth!SessionsIInv /\ Keys!ApiKeysIInv
    /\ Companies!OnboardingIInv /\ Intake!IntakeIInv /\ Infraction!InfractionIInv
    /\ Payout!PayoutIntakeIInv /\ Documents!UserDocumentsIInv
=============================================================================
