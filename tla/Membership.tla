----------------------------- MODULE Membership -----------------------------
(***************************************************************************)
(* LinkUserCompanyService: who belongs to a company, as owner or guest,    *)
(* banned or not, and the invitations that bring members in.  Every method *)
(* is a row of awaited reads that check and one write at the end; the      *)
(* methods of several requests interleave between them, and the write does *)
(* not look again.                                                         *)
(***************************************************************************)
EXTENDS Integers, FiniteSets

CONSTANTS
    Users,
    Founders,      \* users linked as owners when the company begins
    Calls,         \* requests to the service, each made once
    Invitations,   \* rows of company_invitation there may come to be
    NoUser, NoInvitation

MembersAssumption ==
    /\ Founders # {} /\ Founders \subseteq Users /\ IsFiniteSet(Users)
    /\ IsFiniteSet(Calls)
    /\ NoUser \notin Users /\ NoInvitation \notin Invitations

VARIABLES
    link,       \* link_user_company rows of the company, one per user at most
    invitation, \* company_invitation rows
    call,       \* requests under way
    uses,       \* history: links an invitation has created
    overtaken,  \* history: a write whose checks no longer held
    untyped     \* history: an update without a type was written

memberVars == <<link, invitation, call, uses, overtaken, untyped>>

LinkTypes == {"OWNED", "GUEST"}
NoLink == [type |-> "none", banned |-> FALSE]
Link(type) == [type |-> type, banned |-> FALSE]
NoInvite == [user |-> NoUser, type |-> "none", status |-> "none"]
NoCall == [kind |-> "none", at |-> "new", by |-> NoUser, target |-> NoUser, type |-> "none",
           inv |-> NoInvitation]
Ended == [NoCall EXCEPT !.at = "over"]

Kinds == {"invite", "accept", "update", "remove", "ban", "unban"}
Places == {"new", "look", "count", "write", "over"}

Linked(u) == link[u] # NoLink
IsOwner(u) == link[u] = Link("OWNED")
Owners == {u \in Users : IsOwner(u)}

MembershipTypeOK ==
    /\ link \in [Users -> [type : LinkTypes, banned : BOOLEAN] \cup {NoLink}]
    /\ invitation \in [Invitations -> {NoInvite} \cup
         [user : Users, type : LinkTypes, status : {"PENDING", "ACCEPTED"}]]
    /\ call \in [Calls -> [kind : Kinds \cup {"none"}, at : Places, by : Users \cup {NoUser},
                           target : Users \cup {NoUser}, type : LinkTypes \cup {"omitted", "none"},
                           inv : Invitations \cup {NoInvitation}]]
    /\ uses \in [Invitations -> 0..Cardinality(Calls)]
    /\ overtaken \in BOOLEAN /\ untyped \in BOOLEAN

Init ==
    /\ link = [u \in Users |-> IF u \in Founders THEN Link("OWNED") ELSE NoLink]
    /\ invitation = [i \in Invitations |-> NoInvite]
    /\ call = [c \in Calls |-> NoCall]
    /\ uses = [i \in Invitations |-> 0]
    /\ overtaken = FALSE /\ untyped = FALSE

RowsUnchanged == UNCHANGED <<link, invitation, uses, overtaken, untyped>>
Set(c, rec) == call' = [call EXCEPT ![c] = rec]
Goes(c, place) == Set(c, [call[c] EXCEPT !.at = place])

\* The next request; the names of the requests are interchangeable.
Unmade(c) == call[c] = NoCall /\ c = CHOOSE d \in Calls : call[d] = NoCall

(***************************************************************************)
(* The checks.                                                             *)
(***************************************************************************)

\* isOwner of the requesting user; what is asked next depends on the method.
Ask(c) ==
    /\ Unmade(c)
    /\ \E kind \in Kinds \ {"accept"}, by \in Users, target \in Users,
          type \in LinkTypes \cup {"omitted"} :
         /\ IsOwner(by)
         /\ kind \notin {"update", "invite"} => type = "omitted"
         /\ kind = "ban" => by # target
         /\ Set(c, [kind |-> kind, by |-> by, target |-> target, type |-> type, inv |-> NoInvitation,
                    at |-> CASE kind = "update" /\ by = target         -> "count"
                             [] kind \in {"update", "unban"} /\ by # target -> "write"
                             [] kind = "unban" /\ by = target          -> "write"
                             [] OTHER                                  -> "look"])
    /\ RowsUnchanged

\* acceptInvite: the invitation is pending and was sent to this user.
AskAccept(c) ==
    /\ Unmade(c)
    /\ \E i \in Invitations, u \in Users :
         /\ invitation[i].status = "PENDING"
         /\ invitation[i].user = u
         /\ Set(c, [NoCall EXCEPT !.kind = "accept", !.at = "write", !.by = u, !.target = u, !.inv = i])
    /\ RowsUnchanged

\* findByUserAndCompany of the target.
LookFinds(c) ==
    LET target == link[call[c].target]
    IN CASE call[c].kind = "invite" -> IF target = NoLink THEN "write" ELSE "refused"
         [] call[c].kind = "ban" ->
              IF target.type = "GUEST" THEN "write" ELSE "refused"
         [] call[c].kind = "remove" ->
              CASE target = NoLink       -> "refused"
                [] target.type = "OWNED" -> "count"
                [] target.type = "GUEST" -> "write"

Look(c) ==
    /\ call[c].at = "look"
    /\ IF LookFinds(c) = "refused" THEN Set(c, Ended) ELSE Goes(c, LookFinds(c))
    /\ RowsUnchanged

\* countByCompanyId counting every member.
CountedMembers == Cardinality({u \in Users : Linked(u) /\ ~link[u].banned})

\* countByCompanyId(companyId, 'OWNED')
Counted == Cardinality(Owners)

\* The last owner neither leaves nor is made a guest; an update whose type is
\* missing passes, since the test is for the word GUEST.
CountForbids(c) ==
    Counted = 1 /\ (call[c].kind = "remove" \/ call[c].type = "GUEST")

Count(c) ==
    /\ call[c].at = "count"
    /\ IF CountForbids(c) THEN Set(c, Ended) ELSE Goes(c, "write")
    /\ RowsUnchanged

(***************************************************************************)
(* The writes.                                                             *)
(***************************************************************************)

\* What was asked is written as it is.
AsAsked(type) == type

\* The type written when none is given.
TypeOf(type) == IF type = "omitted" THEN "GUEST" ELSE type

ChangesOwner(k) ==
    \/ (k.kind = "remove" /\ link[k.target].type = "OWNED")
    \/ (k.kind = "update" /\ k.by = k.target)

\* Would the call's checks pass now?
StillAllowed(c) ==
    LET k == call[c] IN
    IF k.kind = "accept" THEN invitation[k.inv].status = "PENDING"
    ELSE /\ IsOwner(k.by)
         /\ k.kind = "ban" => link[k.target].type = "GUEST"
         /\ k.kind = "invite" => ~Linked(k.target)
         /\ ChangesOwner(k) => ~CountForbids(c)

Writing(c, kind) == call[c].at = "write" /\ call[c].kind = kind
Wrote(c) ==
    /\ Set(c, Ended)
    /\ overtaken' = (overtaken \/ ~StillAllowed(c))

\* A row that is not there: the database throws.
WriteFails(c) ==
    /\ call[c].at = "write" /\ call[c].kind \in {"update", "remove", "ban", "unban"}
    /\ ~Linked(call[c].target)
    /\ Set(c, Ended)
    /\ RowsUnchanged

Invite(c) ==
    /\ Writing(c, "invite")
    /\ \E i \in Invitations :
         /\ invitation[i] = NoInvite
         /\ invitation' = [invitation EXCEPT ![i] =
              [user |-> call[c].target, type |-> TypeOf(call[c].type), status |-> "PENDING"]]
    /\ Wrote(c)
    /\ UNCHANGED <<link, uses, untyped>>

\* The invitation is left as it is.
AcceptOnly(c) ==
    /\ Writing(c, "accept") /\ ~Linked(call[c].target)
    /\ link' = [link EXCEPT ![call[c].target] = Link(invitation[call[c].inv].type)]
    /\ uses' = [uses EXCEPT ![call[c].inv] = @ + 1]
    /\ Wrote(c)
    /\ UNCHANGED <<invitation, untyped>>

\* One transaction: the link, unless there is one, and the invitation's status.
Accept(c) ==
    /\ Writing(c, "accept")
    /\ \/ /\ ~Linked(call[c].target)
          /\ link' = [link EXCEPT ![call[c].target] = Link(invitation[call[c].inv].type)]
          /\ invitation' = [invitation EXCEPT ![call[c].inv].status = "ACCEPTED"]
          /\ uses' = [uses EXCEPT ![call[c].inv] = @ + 1]
          /\ Wrote(c)
       \/ /\ Linked(call[c].target)
          /\ Set(c, Ended)
          /\ UNCHANGED <<link, invitation, uses, overtaken>>
    /\ UNCHANGED untyped

Update(c) ==
    /\ Writing(c, "update") /\ Linked(call[c].target)
    /\ link' = [link EXCEPT ![call[c].target].type = TypeOf(call[c].type)]
    /\ untyped' = (untyped \/ call[c].type = "omitted")
    /\ Wrote(c)
    /\ UNCHANGED <<invitation, uses>>

Remove(c) ==
    /\ Writing(c, "remove") /\ Linked(call[c].target)
    /\ link' = [link EXCEPT ![call[c].target] = NoLink]
    /\ Wrote(c)
    /\ UNCHANGED <<invitation, uses, untyped>>

Ban(c) ==
    /\ Writing(c, "ban") /\ Linked(call[c].target)
    /\ link' = [link EXCEPT ![call[c].target].banned = TRUE]
    /\ Wrote(c)
    /\ UNCHANGED <<invitation, uses, untyped>>

Unban(c) ==
    /\ Writing(c, "unban") /\ Linked(call[c].target)
    /\ link' = [link EXCEPT ![call[c].target].banned = FALSE]
    /\ Wrote(c)
    /\ UNCHANGED <<invitation, uses, untyped>>

MembershipNext ==
    \E c \in Calls :
        \/ Ask(c) \/ AskAccept(c) \/ Look(c) \/ Count(c)
        \/ WriteFails(c) \/ Invite(c) \/ Accept(c) \/ Update(c) \/ Remove(c) \/ Ban(c) \/ Unban(c)

Spec == Init /\ [][MembershipNext]_memberVars

(***************************************************************************)
(* Properties.                                                             *)
(***************************************************************************)

\* A company keeps an owner who is not banned, by any sequence of invitations,
\* promotions, demotions, bans and removals, as long as no write was overtaken
\* between its checks and itself and no update came without a type.
OwnerRemains == (~overtaken /\ ~untyped) => Owners # {}

\* Whoever is a member founded the company or accepted an invitation that was
\* sent to him, also when writes overtake each other.
MembersWereInvited ==
    \A u \in Users : Linked(u) =>
        \/ u \in Founders
        \/ \E i \in Invitations : invitation[i].user = u /\ invitation[i].status = "ACCEPTED"

\* An invitation brings its user in once: a member who was removed does not
\* come back with it, unless he had already begun to accept it a second time.
InvitationUsedOnce == ~overtaken => \A i \in Invitations : uses[i] <= 1

(***************************************************************************)
(* The inductive invariant behind them.                                    *)
(***************************************************************************)

\* A request asks what its method asks, about users.
AsksItsMethod ==
    \A c \in Calls : LET k == call[c] IN
        /\ k.at \in {"look", "count", "write"} => k.by \in Users /\ k.target \in Users /\ k.kind \in Kinds
        /\ k.at = "look" => k.kind \in {"invite", "ban", "remove"}
        /\ k.at = "count" => k.kind \in {"update", "remove"}
        /\ k.at \in {"look", "count", "write"} /\ k.kind # "accept" => k.type \in LinkTypes \cup {"omitted"}

\* Whoever accepts an invitation is the user it was sent to.
AcceptsHisOwn ==
    \A c \in Calls : call[c].at = "write" /\ call[c].kind = "accept" =>
        call[c].inv \in Invitations /\ invitation[call[c].inv].user = call[c].target

\* An invitation that was not accepted has brought nobody in, and one that
\* was has brought its user in once, unless a write was overtaken.
UsedWhenAccepted ==
    ~overtaken => \A i \in Invitations :
        uses[i] <= 1 /\ (invitation[i].status # "ACCEPTED" => uses[i] = 0)

\* Each request uses an invitation once.
UsesEnd == \A i \in Invitations : uses[i] <= Cardinality({c \in Calls : call[c].at = "over"})

MembershipIInv ==
    /\ MembershipTypeOK /\ AsksItsMethod /\ AcceptsHisOwn /\ UsedWhenAccepted /\ UsesEnd
    /\ OwnerRemains /\ MembersWereInvited
=============================================================================
