--------------------------- MODULE AccountProofs ---------------------------
(***************************************************************************)
(* The inductive invariants of the services around an account: API keys,   *)
(* members, sessions, companies and outgoing webhooks.  Of each service:   *)
(* the invariant holds at the beginning (...Start) and every step of the   *)
(* service keeps it (...Step); one lemma per operation, or per kind of     *)
(* write, in between.  ServicesProofs puts them together.                  *)
(*                                                                         *)
(* The services are instances, and every instance has a Cardinality of its *)
(* own; CountsAlike says that they are all the library's, so its theorems  *)
(* apply.                                                                  *)
(***************************************************************************)
EXTENDS Services, FiniteSetTheorems, TLAPS

-----------------------------------------------------------------------------
(* Sets that grow or shrink by one element.                                   *)

(* A set of which one element at most is new, and its size.                  *)
LEMMA OneMore ==
    ASSUME NEW S, IsFiniteSet(S), NEW e, NEW T \in SUBSET (S \cup {e})
    PROVE  /\ IsFiniteSet(T) /\ Cardinality(T) \in Nat /\ Cardinality(S) \in Nat
           /\ Cardinality(T) <= Cardinality(S) + 1
           /\ e \in S \/ e \notin T => Cardinality(T) <= Cardinality(S)
           /\ e \in S /\ e \notin T => Cardinality(T) + 1 <= Cardinality(S)
<1>1. /\ IsFiniteSet(S \cup {e})
      /\ Cardinality(S \cup {e}) = IF e \in S THEN Cardinality(S) ELSE Cardinality(S) + 1
  BY FS_AddElement
<1>2. IsFiniteSet(T) /\ Cardinality(T) <= Cardinality(S \cup {e})
  BY <1>1, FS_Subset
<1>3. Cardinality(T) \in Nat /\ Cardinality(S) \in Nat
  BY <1>2, FS_CardinalityType
<1>4. e \notin T => Cardinality(T) <= Cardinality(S)
  BY FS_Subset
<1>5. ASSUME e \in S, e \notin T PROVE Cardinality(T) + 1 <= Cardinality(S)
  <2>1. IsFiniteSet(S \ {e}) /\ Cardinality(S \ {e}) = Cardinality(S) - 1
    BY <1>5, FS_RemoveElement
  <2>2. Cardinality(T) <= Cardinality(S \ {e})
    BY <1>5, <2>1, FS_Subset
  <2> QED BY <1>3, <2>1, <2>2
<1> QED BY <1>1, <1>2, <1>3, <1>4, <1>5

(* A set that gains an element.                                              *)
LEMMA OneAdded ==
    ASSUME NEW S, IsFiniteSet(S), NEW e, e \notin S
    PROVE  Cardinality(S \cup {e}) = Cardinality(S) + 1
BY FS_AddElement

(* Each service counts with operators of its own copy of FiniteSets.         *)
LEMMA CountsAlike ==
    \A S : /\ Members!IsFiniteSet(S) <=> IsFiniteSet(S)
           /\ Members!Cardinality(S) = Cardinality(S)
           /\ Auth!IsFiniteSet(S) <=> IsFiniteSet(S)
           /\ Auth!Cardinality(S) = Cardinality(S)
           /\ Keys!IsFiniteSet(S) <=> IsFiniteSet(S)
           /\ Keys!Cardinality(S) = Cardinality(S)
           /\ Webhooks!IsFiniteSet(S) <=> IsFiniteSet(S)
           /\ Webhooks!Cardinality(S) = Cardinality(S)
           /\ Infraction!IsFiniteSet(S) <=> IsFiniteSet(S)
           /\ Infraction!Cardinality(S) = Cardinality(S)
<1> TAKE S
<1>1. /\ Members!IsFiniteSet(S) <=> IsFiniteSet(S)
      /\ Auth!IsFiniteSet(S) <=> IsFiniteSet(S)
      /\ Keys!IsFiniteSet(S) <=> IsFiniteSet(S)
      /\ Webhooks!IsFiniteSet(S) <=> IsFiniteSet(S)
      /\ Infraction!IsFiniteSet(S) <=> IsFiniteSet(S)
  BY DEF Members!IsFiniteSet, Auth!IsFiniteSet, Keys!IsFiniteSet, Webhooks!IsFiniteSet,
     Infraction!IsFiniteSet, IsFiniteSet
<1>2. /\ Members!Cardinality(S) = Cardinality(S)
      /\ Auth!Cardinality(S) = Cardinality(S)
      /\ Keys!Cardinality(S) = Cardinality(S)
      /\ Webhooks!Cardinality(S) = Cardinality(S)
      /\ Infraction!Cardinality(S) = Cardinality(S)
  BY DEF Members!Cardinality, Auth!Cardinality, Keys!Cardinality, Webhooks!Cardinality,
     Infraction!Cardinality, Cardinality
<1> QED BY <1>1, <1>2

-----------------------------------------------------------------------------
(* API keys.                                                                 *)

LEMMA KeysStart == Keys!Init => Keys!ApiKeysIInv
<1> SUFFICES ASSUME Keys!Init PROVE Keys!ApiKeysIInv
  OBVIOUS
<1> USE ServicesAssumption DEF Keys!ApiKeysAssumption, Keys!Init
<1>1. Keys!ApiKeyTypeOK
  BY DEF Keys!ApiKeyTypeOK, Keys!KeyPlaces
<1>2. Keys!LiveKeys = StartKeys
  BY DEF Keys!LiveKeys
<1>3. Keys!KeysWithinLimit
  BY <1>2 DEF Keys!KeysWithinLimit, Keys!LiveCount
<1>4. Keys!CountedRoom
  BY DEF Keys!CountedRoom
<1> QED BY <1>1, <1>3, <1>4 DEF Keys!ApiKeysIInv

(* The keys are finitely many.                                               *)
LEMMA KeysFinite == IsFiniteSet(Keys!LiveKeys) /\ Keys!LiveCount \in Nat
<1>1. IsFiniteSet(Keys!LiveKeys)
  BY ServicesAssumption, CountsAlike, FS_Subset DEF Keys!LiveKeys, Keys!ApiKeysAssumption
<1> QED BY <1>1, CountsAlike, FS_CardinalityType DEF Keys!LiveCount

(* Another request at one place: what the others counted is as good as before. *)
LEMMA KeyRequestMoves ==
    ASSUME Keys!ApiKeysIInv, NEW c \in KeyCalls,
           NEW x \in [at : Keys!KeyPlaces, key : ApiKeyIds \cup {NoKey}, saw : Nat],
           keyCall' = [keyCall EXCEPT ![c] = x],
           overrun' \in Nat, overrun' >= overrun,
           x.at \in {"create", "delete", "hide", "replace"} => x.saw + 1 <= KeyMax + overrun',
           x.at \in {"delete", "hide"} => x.key \in ApiKeyIds
    PROVE  /\ keyCall' \in [KeyCalls -> [at : Keys!KeyPlaces, key : ApiKeyIds \cup {NoKey}, saw : Nat]]
           /\ Keys!CountedRoom'
<1> USE ServicesAssumption DEF Keys!ApiKeysAssumption, Keys!ApiKeysIInv, Keys!ApiKeyTypeOK
<1>1. keyCall' \in [KeyCalls -> [at : Keys!KeyPlaces, key : ApiKeyIds \cup {NoKey}, saw : Nat]]
  OBVIOUS
<1>2. ASSUME NEW d \in KeyCalls, keyCall'[d].at \in {"create", "delete", "hide", "replace"}
      PROVE  /\ keyCall'[d].saw + 1 <= KeyMax + overrun'
             /\ keyCall'[d].at \in {"delete", "hide"} => keyCall'[d].key \in ApiKeyIds
  <2>1. CASE d = c
    BY <1>2, <2>1
  <2>2. CASE d # c
    BY <1>2, <2>2 DEF Keys!CountedRoom
  <2> QED BY <2>1, <2>2
<1> QED BY <1>1, <1>2 DEF Keys!CountedRoom

(* A key is created by a request that counted room, or noted as too many.    *)
LEMMA KeyInserted ==
    ASSUME Keys!ApiKeysIInv, NEW c \in KeyCalls, Keys!KeyAt(c, "create") \/ Keys!KeyAt(c, "replace"),
           NEW k \in ApiKeyIds, Keys!InsertKey(c, k), Keys!KeyGo(c, "done"), UNCHANGED keyCuts
    PROVE  Keys!ApiKeysIInv'
<1> USE ServicesAssumption DEF Keys!ApiKeysAssumption
<1>1. keyCall[c] \in [at : Keys!KeyPlaces, key : ApiKeyIds \cup {NoKey}, saw : Nat]
  BY DEF Keys!ApiKeysIInv, Keys!ApiKeyTypeOK
<1>2. Keys!LiveKeys' = Keys!LiveKeys \cup {k} /\ k \notin Keys!LiveKeys
  BY DEF Keys!InsertKey, Keys!LiveKeys, Keys!ApiKeysIInv, Keys!ApiKeyTypeOK
<1>3. Keys!LiveCount' = Keys!LiveCount + 1
  BY <1>2, KeysFinite, CountsAlike, OneAdded DEF Keys!LiveCount
<1>4. overrun' = IF Keys!LiveCount > keyCall[c].saw THEN overrun + 1 ELSE overrun
  BY DEF Keys!InsertKey
<1>5. keyCall[c].saw + 1 <= KeyMax + overrun /\ Keys!LiveCount <= KeyMax + overrun /\ overrun \in Nat
  BY DEF Keys!ApiKeysIInv, Keys!CountedRoom, Keys!KeyAt, Keys!KeysWithinLimit, Keys!ApiKeyTypeOK
<1>6. Keys!LiveCount' <= KeyMax + overrun' /\ overrun' \in Nat /\ overrun' >= overrun
  BY <1>1, <1>3, <1>4, <1>5, KeysFinite
<1>7. [keyCall[c] EXCEPT !.at = "done"] \in [at : Keys!KeyPlaces, key : ApiKeyIds \cup {NoKey}, saw : Nat]
  BY <1>1 DEF Keys!KeyPlaces
<1>8. keyCall' = [keyCall EXCEPT ![c] = [keyCall[c] EXCEPT !.at = "done"]]
  BY DEF Keys!KeyGo
<1>9. /\ keyCall' \in [KeyCalls -> [at : Keys!KeyPlaces, key : ApiKeyIds \cup {NoKey}, saw : Nat]]
      /\ Keys!CountedRoom'
  <2> DEFINE x == [keyCall[c] EXCEPT !.at = "done"]
  <2>1. x.at = "done"
    BY <1>1
  <2> HIDE DEF x
  <2> QED BY <1>6, <1>7, <1>8, <2>1, KeyRequestMoves DEF x
<1>10. apiKey' \in [ApiKeyIds -> {"none", "live", "deleted"}]
  BY DEF Keys!InsertKey, Keys!ApiKeysIInv, Keys!ApiKeyTypeOK
<1> QED BY <1>6, <1>9, <1>10 DEF Keys!ApiKeysIInv, Keys!ApiKeyTypeOK, Keys!KeysWithinLimit

(* A key is counted or found when there are at most so many as the limit, and *)
(* those beyond it, allow.                                                   *)
LEMMA KeyLookedFor ==
    ASSUME Keys!ApiKeysIInv, NEW c \in KeyCalls, Keys!CountKeys(c) \/ Keys!FindKey(c)
    PROVE  Keys!ApiKeysIInv'
<1> DEFINE Request == [at : Keys!KeyPlaces, key : ApiKeyIds \cup {NoKey}, saw : Nat]
<1> USE ServicesAssumption DEF Keys!ApiKeysAssumption
<1>1. keyCall[c] \in Request /\ overrun \in Nat /\ Keys!LiveCount <= KeyMax + overrun
  BY DEF Keys!ApiKeysIInv, Keys!ApiKeyTypeOK, Keys!KeysWithinLimit
<1>2. UNCHANGED <<apiKey, overrun, keyCuts>>
  BY DEF Keys!CountKeys, Keys!FindKey
<1>3. PICK x \in Request :
        /\ keyCall' = [keyCall EXCEPT ![c] = x]
        /\ x.at \in {"create", "delete", "hide", "replace"} => x.saw + 1 <= KeyMax + overrun
        /\ x.at \in {"delete", "hide"} => x.key \in ApiKeyIds
  <2>1. CASE Keys!CountKeys(c) /\ Keys!Room
    <3>1. [keyCall[c] EXCEPT !.at = "create", !.saw = Keys!LiveCount] \in Request
      BY <1>1, KeysFinite DEF Keys!KeyPlaces
    <3>2. keyCall' = [keyCall EXCEPT ![c] = [keyCall[c] EXCEPT !.at = "create", !.saw = Keys!LiveCount]]
      BY <2>1 DEF Keys!CountKeys
    <3>3. Keys!LiveCount + 1 <= KeyMax + overrun
      BY <1>1, <2>1, KeysFinite DEF Keys!Room
    <3> QED BY <1>1, <3>1, <3>2, <3>3
  <2>2. CASE Keys!CountKeys(c) /\ ~Keys!Room
    <3>1. [keyCall[c] EXCEPT !.at = "refused"] \in Request
      BY <1>1 DEF Keys!KeyPlaces
    <3>2. keyCall' = [keyCall EXCEPT ![c] = [keyCall[c] EXCEPT !.at = "refused"]]
      BY <2>2 DEF Keys!CountKeys, Keys!KeyGo
    <3> QED BY <1>1, <3>1, <3>2
  <2>3. CASE Keys!FindKey(c)
    <3>1. PICK k \in Keys!LiveKeys, place \in {"delete", "hide"} :
            keyCall' = [keyCall EXCEPT ![c] = [at |-> place, key |-> k, saw |-> Keys!LiveCount - 1]]
      BY <2>3 DEF Keys!FindKey
    <3>2. Keys!LiveCount # 0
      BY KeysFinite, CountsAlike, FS_EmptySet DEF Keys!LiveCount
    <3>3. Keys!LiveCount - 1 \in Nat /\ (Keys!LiveCount - 1) + 1 <= KeyMax + overrun
      BY <1>1, <3>2, KeysFinite
    <3>4. k \in ApiKeyIds
      BY DEF Keys!LiveKeys
    <3>5. [at |-> place, key |-> k, saw |-> Keys!LiveCount - 1] \in Request
      BY <3>3, <3>4 DEF Keys!KeyPlaces
    <3> QED BY <3>1, <3>3, <3>4, <3>5
  <2> QED BY <2>1, <2>2, <2>3 DEF Keys!CountKeys
<1>4. keyCall' \in [KeyCalls -> Request] /\ Keys!CountedRoom'
  <2>1. /\ overrun' \in Nat /\ overrun' >= overrun
        /\ x.at \in {"create", "delete", "hide", "replace"} => x.saw + 1 <= KeyMax + overrun'
    BY <1>1, <1>2, <1>3
  <2> QED BY <1>3, <2>1, KeyRequestMoves
<1>5. Keys!LiveCount' = Keys!LiveCount
  BY <1>2 DEF Keys!LiveCount, Keys!LiveKeys
<1> QED BY <1>2, <1>4, <1>5 DEF Keys!ApiKeysIInv, Keys!ApiKeyTypeOK, Keys!KeysWithinLimit

(* Deleting a key makes none; a regeneration that stops makes none either.   *)
LEMMA KeyDeleted ==
    ASSUME Keys!ApiKeysIInv, NEW c \in KeyCalls,
           Keys!DeleteKey(c) \/ Keys!HideOld(c) \/ Keys!CutOffKey(c)
    PROVE  Keys!ApiKeysIInv'
<1> DEFINE Request == [at : Keys!KeyPlaces, key : ApiKeyIds \cup {NoKey}, saw : Nat]
<1> USE ServicesAssumption DEF Keys!ApiKeysAssumption
<1>1. keyCall[c] \in Request /\ overrun \in Nat /\ overrun' = overrun
  BY DEF Keys!ApiKeysIInv, Keys!ApiKeyTypeOK, Keys!DeleteKey, Keys!HideOld, Keys!CutOffKey, Keys!Hide
<1>2. PICK place \in {"done", "replace", "cut"} :
        /\ Keys!KeyGo(c, place)
        /\ place = "replace" => keyCall[c].at = "hide"
  <2>1. CASE Keys!DeleteKey(c)
    BY <2>1 DEF Keys!DeleteKey, Keys!Hide
  <2>2. CASE Keys!HideOld(c)
    BY <2>2 DEF Keys!HideOld, Keys!Hide, Keys!KeyAt
  <2>3. CASE Keys!CutOffKey(c)
    BY <2>3 DEF Keys!CutOffKey
  <2> QED BY <2>1, <2>2, <2>3
<1>3. keyCall' \in [KeyCalls -> Request] /\ Keys!CountedRoom'
  <2> DEFINE x == [keyCall[c] EXCEPT !.at = place]
  <2>1. x \in Request /\ x.at = place /\ x.saw = keyCall[c].saw
    BY <1>1 DEF Keys!KeyPlaces
  <2>2. keyCall' = [keyCall EXCEPT ![c] = x]
    BY <1>2 DEF Keys!KeyGo
  <2>3. /\ x.at \in {"create", "delete", "hide", "replace"} => x.saw + 1 <= KeyMax + overrun'
        /\ x.at \notin {"delete", "hide"}
        /\ overrun' \in Nat /\ overrun' >= overrun
    BY <1>1, <1>2, <2>1 DEF Keys!ApiKeysIInv, Keys!CountedRoom
  <2> HIDE DEF x
  <2> QED BY <1>1, <2>1, <2>2, <2>3, KeyRequestMoves
<1>4. apiKey' \in [ApiKeyIds -> {"none", "live", "deleted"}] /\ Keys!LiveKeys' \subseteq Keys!LiveKeys
  <2>1. CASE Keys!CutOffKey(c)
    BY <2>1 DEF Keys!CutOffKey, Keys!LiveKeys, Keys!ApiKeysIInv, Keys!ApiKeyTypeOK
  <2>2. CASE Keys!DeleteKey(c) \/ Keys!HideOld(c)
    <3>1. apiKey' = [apiKey EXCEPT ![keyCall[c].key] = "deleted"]
      BY <2>2 DEF Keys!DeleteKey, Keys!HideOld, Keys!Hide
    <3> QED BY <3>1 DEF Keys!LiveKeys, Keys!ApiKeysIInv, Keys!ApiKeyTypeOK
  <2> QED BY <2>1, <2>2
<1>5. Keys!LiveCount' <= Keys!LiveCount /\ Keys!LiveCount' \in Nat
  <2>1. Keys!LiveKeys' \in SUBSET Keys!LiveKeys
    BY <1>4
  <2>2. IsFiniteSet(Keys!LiveKeys') /\ Cardinality(Keys!LiveKeys') <= Cardinality(Keys!LiveKeys)
    BY <2>1, KeysFinite, FS_Subset
  <2> QED BY <2>2, CountsAlike, FS_CardinalityType DEF Keys!LiveCount
<1>6. Keys!LiveCount' <= KeyMax + overrun'
  BY <1>1, <1>5, KeysFinite DEF Keys!ApiKeysIInv, Keys!KeysWithinLimit
<1>7. keyCuts' \in 0..MaxKeyCuts
  BY DEF Keys!DeleteKey, Keys!HideOld, Keys!CutOffKey, Keys!Hide, Keys!ApiKeysIInv, Keys!ApiKeyTypeOK
<1> QED BY <1>1, <1>3, <1>4, <1>6, <1>7 DEF Keys!ApiKeysIInv, Keys!ApiKeyTypeOK, Keys!KeysWithinLimit

LEMMA KeysStep == Keys!ApiKeysIInv /\ [Keys!ApiKeyNext]_keyVars => Keys!ApiKeysIInv'
<1> SUFFICES ASSUME Keys!ApiKeysIInv, [Keys!ApiKeyNext]_keyVars PROVE Keys!ApiKeysIInv'
  OBVIOUS
<1>1. ASSUME NEW c \in KeyCalls, Keys!CreateKey(c) \/ Keys!Replace(c) PROVE Keys!ApiKeysIInv'
  <2>1. \E k \in ApiKeyIds : Keys!InsertKey(c, k)
    BY <1>1 DEF Keys!CreateKey, Keys!Replace
  <2>2. /\ Keys!KeyAt(c, "create") \/ Keys!KeyAt(c, "replace")
        /\ Keys!KeyGo(c, "done") /\ UNCHANGED keyCuts
    BY <1>1 DEF Keys!CreateKey, Keys!Replace
  <2> QED BY <2>1, <2>2, KeyInserted
<1>2. CASE UNCHANGED keyVars
  BY <1>2 DEF keyVars, Keys!ApiKeysIInv, Keys!ApiKeyTypeOK, Keys!KeysWithinLimit, Keys!LiveCount,
     Keys!LiveKeys, Keys!CountedRoom
<1> QED BY <1>1, <1>2, KeyLookedFor, KeyDeleted DEF Keys!ApiKeyNext

-----------------------------------------------------------------------------
(* Company links and invitations.                                            *)

LEMMA MembersStart == Members!Init => Members!MembershipIInv
<1> SUFFICES ASSUME Members!Init PROVE Members!MembershipIInv
  OBVIOUS
<1> USE ServicesAssumption DEF Members!MembersAssumption, Members!Init
<1>1. Cardinality(Calls) \in Nat /\ Members!Cardinality(Calls) = Cardinality(Calls)
  BY CountsAlike, FS_CardinalityType
<1>2. Members!MembershipTypeOK
  <2>1. link \in [Users -> [type : Members!LinkTypes, banned : BOOLEAN] \cup {Members!NoLink}]
    BY DEF Members!LinkTypes, Members!Link
  <2>2. uses \in [Invitations -> 0..Members!Cardinality(Calls)]
    BY <1>1
  <2>3. Members!NoCall \in [kind : Members!Kinds \cup {"none"}, at : Members!Places, by : Users \cup {NoUser},
                           target : Users \cup {NoUser}, type : Members!LinkTypes \cup {"omitted", "none"},
                           inv : Invitations \cup {NoInvitation}]
    BY DEF Members!NoCall, Members!Places
  <2> QED BY <2>1, <2>2, <2>3 DEF Members!MembershipTypeOK
<1>3. Members!OwnerRemains
  BY DEF Members!OwnerRemains, Members!Owners, Members!IsOwner
<1>4. Members!MembersWereInvited
  BY DEF Members!MembersWereInvited, Members!Linked
<1>5. Members!UsesEnd
  <2>1. {c \in Calls : call[c].at = "over"} \in SUBSET Calls
    OBVIOUS
  <2>2. IsFiniteSet(Calls)
    BY CountsAlike
  <2>3. Cardinality({c \in Calls : call[c].at = "over"}) \in Nat
    BY <2>1, <2>2, FS_Subset, FS_CardinalityType
  <2> QED BY <2>3, CountsAlike DEF Members!UsesEnd
<1>6. Members!AsksItsMethod /\ Members!AcceptsHisOwn /\ Members!UsedWhenAccepted
  BY DEF Members!AsksItsMethod, Members!AcceptsHisOwn, Members!UsedWhenAccepted, Members!NoCall,
     Members!NoInvite
<1> QED BY <1>2, <1>3, <1>4, <1>5, <1>6 DEF Members!MembershipIInv

(* What a request may be.                                                    *)
MemberCall == [kind : Members!Kinds \cup {"none"}, at : Members!Places, by : Users \cup {NoUser},
               target : Users \cup {NoUser}, type : Members!LinkTypes \cup {"omitted", "none"},
               inv : Invitations \cup {NoInvitation}]

(* A request moves: the parts of the invariant that are about requests.      *)
LEMMA MemberCallMoves ==
    ASSUME Members!MembershipIInv, NEW c \in Calls, NEW x \in MemberCall, Members!Set(c, x),
           x.at \in {"look", "count", "write"} =>
               x.by \in Users /\ x.target \in Users /\ x.kind \in Members!Kinds,
           x.at = "look" => x.kind \in {"invite", "ban", "remove"},
           x.at = "count" => x.kind \in {"update", "remove"},
           x.at \in {"look", "count", "write"} /\ x.kind # "accept" =>
               x.type \in Members!LinkTypes \cup {"omitted"},
           x.at = "write" /\ x.kind = "accept" =>
               x.inv \in Invitations /\ invitation[x.inv].user = x.target,
           \A i \in Invitations : invitation[i].user # NoUser => invitation'[i].user = invitation[i].user
    PROVE  call' \in [Calls -> MemberCall] /\ Members!AsksItsMethod' /\ Members!AcceptsHisOwn'
<1> USE ServicesAssumption DEF Members!MembersAssumption
<1>1. call' = [call EXCEPT ![c] = x] /\ call \in [Calls -> MemberCall]
  BY DEF Members!Set, Members!MembershipIInv, Members!MembershipTypeOK, MemberCall
<1>2. call' \in [Calls -> MemberCall] /\ call'[c] = x /\ \A d \in Calls : d # c => call'[d] = call[d]
  BY <1>1
<1>3. Members!AsksItsMethod'
  <2> SUFFICES ASSUME NEW d \in Calls
               PROVE  LET k == call'[d] IN
        /\ k.at \in {"look", "count", "write"} => k.by \in Users /\ k.target \in Users /\ k.kind \in Members!Kinds
        /\ k.at = "look" => k.kind \in {"invite", "ban", "remove"}
        /\ k.at = "count" => k.kind \in {"update", "remove"}
        /\ k.at \in {"look", "count", "write"} /\ k.kind # "accept" => k.type \in Members!LinkTypes \cup {"omitted"}
    BY DEF Members!AsksItsMethod
  <2>1. CASE d = c
    BY <1>2, <2>1
  <2>2. CASE d # c
    BY <1>2, <2>2 DEF Members!MembershipIInv, Members!AsksItsMethod
  <2> QED BY <2>1, <2>2
<1>4. Members!AcceptsHisOwn'
  <2> SUFFICES ASSUME NEW d \in Calls, call'[d].at = "write", call'[d].kind = "accept"
               PROVE  call'[d].inv \in Invitations /\ invitation'[call'[d].inv].user = call'[d].target
    BY DEF Members!AcceptsHisOwn
  <2>1. CASE d = c
    BY <1>2, <2>1
  <2>2. CASE d # c
    <3>1. /\ call'[d] = call[d] /\ call[d].inv \in Invitations
          /\ invitation[call[d].inv].user = call[d].target /\ call[d].target \in Users
      BY <1>2, <2>2 DEF Members!MembershipIInv, Members!AcceptsHisOwn, Members!AsksItsMethod
    <3> QED BY <3>1
  <2> QED BY <2>1, <2>2
<1> QED BY <1>2, <1>3, <1>4

(* The requests that are over, which bound the uses of an invitation.        *)
LEMMA CallsOver ==
    ASSUME Members!MembershipIInv, NEW c \in Calls, NEW x \in MemberCall, Members!Set(c, x),
           call[c].at # "over"
    PROVE  LET before == Members!Cardinality({d \in Calls : call[d].at = "over"})
               after == Members!Cardinality({d \in Calls : call'[d].at = "over"})
           IN  /\ before \in Nat /\ after \in Nat /\ after <= Members!Cardinality(Calls)
               /\ Members!Cardinality(Calls) \in Nat
               /\ before <= after
               /\ x.at = "over" => before + 1 <= after
<1> DEFINE B == {d \in Calls : call[d].at = "over"}
           A == {d \in Calls : call'[d].at = "over"}
<1>1. IsFiniteSet(Calls)
  BY ServicesAssumption, CountsAlike DEF Members!MembersAssumption
<1>2. call' = [call EXCEPT ![c] = x] /\ call \in [Calls -> MemberCall]
  BY DEF Members!Set, Members!MembershipIInv, Members!MembershipTypeOK, MemberCall
<1>3. B \subseteq A /\ c \notin B /\ (x.at = "over" => c \in A) /\ A \subseteq Calls
  BY <1>2
<1>4. IsFiniteSet(A) /\ Cardinality(A) <= Cardinality(Calls)
  BY <1>1, <1>3, FS_Subset
<1>5. B \in SUBSET (A \cup {c}) /\ B \in SUBSET A
  BY <1>3
<1>6. /\ Cardinality(B) \in Nat /\ Cardinality(A) \in Nat /\ Cardinality(B) <= Cardinality(A)
      /\ x.at = "over" => Cardinality(B) + 1 <= Cardinality(A)
  BY <1>3, <1>4, <1>5, OneMore
<1> QED BY <1>1, <1>4, <1>6, CountsAlike, FS_CardinalityType

(* A request that only looks leaves the rows as they are.                    *)
LEMMA MembersRest ==
    ASSUME Members!MembershipIInv, Members!RowsUnchanged
    PROVE  /\ link' \in [Users -> [type : Members!LinkTypes, banned : BOOLEAN] \cup {Members!NoLink}]
           /\ invitation' \in [Invitations -> {Members!NoInvite} \cup
                [user : Users, type : Members!LinkTypes, status : {"PENDING", "ACCEPTED"}]]
           /\ overtaken' \in BOOLEAN /\ untyped' \in BOOLEAN
           /\ Members!OwnerRemains' /\ Members!MembersWereInvited' /\ Members!UsedWhenAccepted'
BY DEF Members!RowsUnchanged, Members!MembershipIInv, Members!MembershipTypeOK, Members!OwnerRemains,
   Members!Owners, Members!IsOwner, Members!MembersWereInvited, Members!Linked, Members!UsedWhenAccepted

LEMMA MemberLooks ==
    ASSUME Members!MembershipIInv, NEW c \in Calls, NEW x \in MemberCall, Members!Set(c, x),
           call[c].at # "over",
           x.at \in {"look", "count", "write"} =>
               x.by \in Users /\ x.target \in Users /\ x.kind \in Members!Kinds,
           x.at = "look" => x.kind \in {"invite", "ban", "remove"},
           x.at = "count" => x.kind \in {"update", "remove"},
           x.at \in {"look", "count", "write"} /\ x.kind # "accept" =>
               x.type \in Members!LinkTypes \cup {"omitted"},
           x.at = "write" /\ x.kind = "accept" =>
               x.inv \in Invitations /\ invitation[x.inv].user = x.target,
           Members!RowsUnchanged
    PROVE  Members!MembershipIInv'
<1>1. invitation' = invitation /\ uses' = uses
  BY DEF Members!RowsUnchanged
<1>2. call' \in [Calls -> MemberCall] /\ Members!AsksItsMethod' /\ Members!AcceptsHisOwn'
  BY <1>1, MemberCallMoves
<1>3. uses' \in [Invitations -> 0..Members!Cardinality(Calls)] /\ Members!UsesEnd'
  <2>1. uses' \in [Invitations -> 0..Members!Cardinality(Calls)]
    BY <1>1 DEF Members!MembershipIInv, Members!MembershipTypeOK
  <2>2. \A i \in Invitations : uses[i] \in Nat
                              /\ uses[i] <= Members!Cardinality({d \in Calls : call[d].at = "over"})
    BY DEF Members!MembershipIInv, Members!MembershipTypeOK, Members!UsesEnd
  <2>3. \A i \in Invitations : uses'[i] <= Members!Cardinality({d \in Calls : call'[d].at = "over"})
    <3>1. LET before == Members!Cardinality({d \in Calls : call[d].at = "over"})
              after == Members!Cardinality({d \in Calls : call'[d].at = "over"})
          IN  before \in Nat /\ after \in Nat /\ before <= after
      BY CallsOver
    <3> QED BY <1>1, <2>2, <3>1
  <2> QED BY <2>1, <2>3 DEF Members!UsesEnd
<1> QED BY <1>2, <1>3, MembersRest DEF Members!MembershipIInv, Members!MembershipTypeOK, MemberCall

(* A request that ends without a write.                                      *)
LEMMA MemberRefused ==
    ASSUME Members!MembershipIInv, NEW c \in Calls, call[c].at # "over", Members!Set(c, Members!Ended),
           Members!RowsUnchanged
    PROVE  Members!MembershipIInv'
<1>1. Members!Ended \in MemberCall /\ Members!Ended.at = "over"
  BY DEF Members!Ended, Members!NoCall, MemberCall, Members!Places
<1> QED BY <1>1, MemberLooks

LEMMA AnyMemberCall ==
    ASSUME Members!MembershipIInv, NEW c \in Calls
    PROVE  call[c] \in MemberCall
BY DEF Members!MembershipIInv, Members!MembershipTypeOK, MemberCall

(* isOwner, and what is asked next.                                          *)
LEMMA MemberAsks ==
    ASSUME Members!MembershipIInv, NEW c \in Calls, Members!Ask(c)
    PROVE  Members!MembershipIInv'
<1>1. call[c].at # "over"
  BY DEF Members!Ask, Members!Unmade, Members!NoCall
<1>2. PICK kind \in Members!Kinds \ {"accept"}, by \in Users, target \in Users,
          type \in Members!LinkTypes \cup {"omitted"} :
         Members!Set(c, [kind |-> kind, by |-> by, target |-> target, type |-> type, inv |-> NoInvitation,
                    at |-> CASE kind = "update" /\ by = target         -> "count"
                             [] kind \in {"update", "unban"} /\ by # target -> "write"
                             [] kind = "unban" /\ by = target          -> "write"
                             [] OTHER                                  -> "look"])
  BY DEF Members!Ask
<1>3. \E place \in {"count", "write", "look"} :
        /\ place = CASE kind = "update" /\ by = target         -> "count"
                    [] kind \in {"update", "unban"} /\ by # target -> "write"
                    [] kind = "unban" /\ by = target          -> "write"
                    [] OTHER                                  -> "look"
        /\ place = "look" => kind \in {"invite", "ban", "remove"}
        /\ place = "count" => kind = "update"
  <2>1. CASE kind = "update" /\ by = target
    BY <2>1
  <2>2. CASE kind = "update" /\ by # target
    BY <2>2
  <2>3. CASE kind = "unban" /\ by # target
    BY <2>3
  <2>4. CASE kind = "unban" /\ by = target
    BY <2>4
  <2>5. CASE kind \notin {"update", "unban"}
    <3>1. kind \in {"invite", "ban", "remove"}
      BY <2>5 DEF Members!Kinds
    <3> QED BY <2>5, <3>1
  <2> QED BY <2>1, <2>2, <2>3, <2>4, <2>5
<1>4. PICK place \in {"count", "write", "look"} :
        /\ Members!Set(c, [kind |-> kind, by |-> by, target |-> target, type |-> type,
                           inv |-> NoInvitation, at |-> place])
        /\ place = "look" => kind \in {"invite", "ban", "remove"}
        /\ place = "count" => kind = "update"
  BY <1>2, <1>3
<1>5. Members!RowsUnchanged
  BY DEF Members!Ask
<1> DEFINE x == [kind |-> kind, by |-> by, target |-> target, type |-> type, inv |-> NoInvitation,
                 at |-> place]
<1>6. x \in MemberCall /\ x.kind = kind /\ x.by = by /\ x.target = target /\ x.type = type /\ x.at = place
  BY DEF MemberCall, Members!Places
<1>7. Members!Set(c, x)
  BY <1>4
<1> HIDE DEF x
<1> QED BY <1>1, <1>4, <1>5, <1>6, <1>7, MemberLooks

(* acceptInvite finds the user's own invitation.                             *)
LEMMA MemberAsksAccept ==
    ASSUME Members!MembershipIInv, NEW c \in Calls, Members!AskAccept(c)
    PROVE  Members!MembershipIInv'
<1>1. call[c].at # "over"
  BY DEF Members!AskAccept, Members!Unmade, Members!NoCall
<1>2. PICK i \in Invitations, u \in Users :
        /\ invitation[i].user = u
        /\ Members!Set(c, [Members!NoCall EXCEPT !.kind = "accept", !.at = "write", !.by = u,
                                                 !.target = u, !.inv = i])
  BY DEF Members!AskAccept
<1>3. Members!RowsUnchanged
  BY DEF Members!AskAccept
<1> DEFINE x == [Members!NoCall EXCEPT !.kind = "accept", !.at = "write", !.by = u, !.target = u, !.inv = i]
<1>4. /\ x \in MemberCall /\ x.kind = "accept" /\ x.by = u /\ x.target = u /\ x.inv = i
      /\ x.at = "write" /\ "accept" \in Members!Kinds
  BY DEF MemberCall, Members!Places, Members!NoCall, Members!Kinds
<1>5. Members!Set(c, x)
  BY <1>2
<1> HIDE DEF x
<1> QED BY <1>1, <1>2, <1>3, <1>4, <1>5, MemberLooks

(* What is found decides whether the request goes on.                        *)
LEMMA MemberGoes ==
    ASSUME Members!MembershipIInv, NEW c \in Calls, call[c].at \in {"look", "count"},
           NEW place \in {"count", "write"}, Members!Goes(c, place), Members!RowsUnchanged,
           place = "count" => call[c].kind = "remove"
    PROVE  Members!MembershipIInv'
<1> DEFINE x == [call[c] EXCEPT !.at = place]
<1>1. call[c] \in MemberCall
  BY AnyMemberCall
<1>2. /\ x \in MemberCall /\ x.at = place /\ x.kind = call[c].kind /\ x.by = call[c].by
      /\ x.target = call[c].target /\ x.type = call[c].type
  BY <1>1 DEF MemberCall, Members!Places
<1>3. /\ call[c].by \in Users /\ call[c].target \in Users /\ call[c].kind \in Members!Kinds
      /\ call[c].type \in Members!LinkTypes \cup {"omitted"} /\ call[c].kind # "accept"
  BY DEF Members!MembershipIInv, Members!AsksItsMethod
<1>4. Members!Set(c, x)
  BY DEF Members!Goes
<1> HIDE DEF x
<1> QED BY <1>2, <1>3, <1>4, MemberLooks

LEMMA MemberLooksUp ==
    ASSUME Members!MembershipIInv, NEW c \in Calls, Members!Look(c) \/ Members!Count(c)
    PROVE  Members!MembershipIInv'
<1>1. /\ call[c].at \in {"look", "count"} /\ Members!RowsUnchanged
  BY DEF Members!Look, Members!Count
<1>2. CASE Members!Set(c, Members!Ended)
  BY <1>1, <1>2, MemberRefused
<1>3. CASE Members!Look(c) /\ Members!LookFinds(c) # "refused"
  <2>1. call[c].kind \in {"invite", "ban", "remove"} /\ call[c].target \in Users
    BY <1>3 DEF Members!Look, Members!MembershipIInv, Members!AsksItsMethod
  <2>2. link[call[c].target] = Members!NoLink \/ link[call[c].target].type \in Members!LinkTypes
    BY <2>1 DEF Members!MembershipIInv, Members!MembershipTypeOK
  <2>3. /\ Members!LookFinds(c) \in {"count", "write"}
        /\ Members!LookFinds(c) = "count" => call[c].kind = "remove"
    <3>1. CASE call[c].kind = "invite"
      BY <1>3, <3>1 DEF Members!LookFinds
    <3>2. CASE call[c].kind = "ban"
      BY <1>3, <3>2 DEF Members!LookFinds
    <3>3. CASE call[c].kind = "remove" /\ link[call[c].target] = Members!NoLink
      BY <1>3, <3>3 DEF Members!LookFinds
    <3>4. CASE /\ call[c].kind = "remove" /\ link[call[c].target] # Members!NoLink
               /\ link[call[c].target].type = "OWNED"
      BY <3>4 DEF Members!LookFinds
    <3>5. CASE /\ call[c].kind = "remove" /\ link[call[c].target] # Members!NoLink
               /\ link[call[c].target].type = "GUEST"
      BY <3>5 DEF Members!LookFinds
    <3> QED BY <2>1, <2>2, <3>1, <3>2, <3>3, <3>4, <3>5 DEF Members!LinkTypes
  <2>4. Members!Goes(c, Members!LookFinds(c))
    BY <1>3 DEF Members!Look
  <2> QED BY <1>1, <2>3, <2>4, MemberGoes
<1>4. CASE Members!Count(c) /\ Members!Goes(c, "write")
  BY <1>1, <1>4, MemberGoes
<1> QED BY <1>2, <1>3, <1>4 DEF Members!Look, Members!Count

(* A write ends its request: what every write keeps.                         *)
LEMMA MemberWrites ==
    ASSUME Members!MembershipIInv, NEW c \in Calls, call[c].at = "write", Members!Set(c, Members!Ended),
           uses' \in [Invitations -> Nat], \A i \in Invitations : uses'[i] <= uses[i] + 1,
           \A i \in Invitations : invitation[i].user # NoUser => invitation'[i].user = invitation[i].user
    PROVE  /\ call' \in [Calls -> MemberCall] /\ Members!AsksItsMethod' /\ Members!AcceptsHisOwn'
           /\ uses' \in [Invitations -> 0..Members!Cardinality(Calls)] /\ Members!UsesEnd'
<1>1. Members!Ended \in MemberCall /\ Members!Ended.at = "over"
  BY DEF Members!Ended, Members!NoCall, MemberCall, Members!Places
<1>2. LET before == Members!Cardinality({d \in Calls : call[d].at = "over"})
          after == Members!Cardinality({d \in Calls : call'[d].at = "over"})
      IN  /\ before \in Nat /\ after \in Nat /\ after <= Members!Cardinality(Calls)
          /\ Members!Cardinality(Calls) \in Nat /\ before + 1 <= after
  BY <1>1, CallsOver
<1>3. \A i \in Invitations : uses[i] \in Nat
                            /\ uses[i] <= Members!Cardinality({d \in Calls : call[d].at = "over"})
  BY DEF Members!MembershipIInv, Members!MembershipTypeOK, Members!UsesEnd
<1>4. \A i \in Invitations : uses'[i] <= Members!Cardinality({d \in Calls : call'[d].at = "over"})
  BY <1>2, <1>3
<1>5. uses' \in [Invitations -> 0..Members!Cardinality(Calls)]
  BY <1>2, <1>4
<1>6. call' \in [Calls -> MemberCall] /\ Members!AsksItsMethod' /\ Members!AcceptsHisOwn'
  BY <1>1, MemberCallMoves
<1> QED BY <1>4, <1>5, <1>6 DEF Members!UsesEnd

(* Of two owners or more, one is another than this one.                      *)
LEMMA AnotherOwner ==
    ASSUME NEW u \in Members!Owners, Members!Counted # 1
    PROVE  \E v \in Members!Owners : v # u
<1>1. IsFiniteSet(Members!Owners)
  BY ServicesAssumption, CountsAlike, FS_Subset DEF Members!MembersAssumption, Members!Owners
<1>2. Members!Owners # {u}
  BY <1>1, FS_Singleton, CountsAlike DEF Members!Counted
<1> QED BY <1>2

(* A member's row is changed or removed: whose it was, and an owner remains. *)
LEMMA OwnerKept ==
    ASSUME Members!MembershipIInv, NEW c \in Calls, call[c].at = "write",
           call[c].kind \in {"update", "remove", "ban", "unban"}, Members!Wrote(c),
           NEW row \in [type : Members!LinkTypes, banned : BOOLEAN] \cup {Members!NoLink},
           link' = [link EXCEPT ![call[c].target] = row],
           Members!StillAllowed(c) => \/ row = link[call[c].target] \/ row = Members!Link("OWNED")
                                      \/ call[c].by # call[c].target
                                      \/ untyped'
                                      \/ Members!Counted # 1,
           untyped => untyped', untyped' \in BOOLEAN
    PROVE  Members!OwnerRemains'
<1>1. SUFFICES ASSUME ~overtaken', ~untyped' PROVE Members!Owners' # {}
  BY DEF Members!OwnerRemains
<1>2. Members!StillAllowed(c) /\ ~overtaken
  BY <1>1 DEF Members!Wrote
<1>3. call[c].by \in Members!Owners /\ call[c].by \in Users /\ call[c].target \in Users
  BY <1>2 DEF Members!StillAllowed, Members!Owners, Members!MembershipIInv, Members!AsksItsMethod
<1>4. /\ \A u \in Users : u # call[c].target => link'[u] = link[u]
      /\ link'[call[c].target] = row
  BY <1>3 DEF Members!MembershipIInv, Members!MembershipTypeOK
<1>5. \A u \in Members!Owners : u # call[c].target => u \in Members!Owners'
  BY <1>4 DEF Members!Owners, Members!IsOwner
<1>6. CASE call[c].by # call[c].target
  BY <1>3, <1>5, <1>6
<1>7. CASE call[c].by = call[c].target
  <2>1. CASE row = link[call[c].target] \/ row = Members!Link("OWNED")
    <3>1. link'[call[c].by] = Members!Link("OWNED")
      BY <1>3, <1>4, <1>7, <2>1 DEF Members!Owners, Members!IsOwner
    <3> QED BY <1>3, <3>1 DEF Members!Owners, Members!IsOwner
  <2>2. CASE Members!Counted # 1
    <3>1. PICK v \in Members!Owners : v # call[c].by
      BY <1>3, <2>2, AnotherOwner
    <3> QED BY <1>5, <1>7, <3>1
  <2> QED BY <1>1, <1>2, <1>7, <2>1, <2>2
<1> QED BY <1>6, <1>7

(* update, remove, ban and unban of a member who is linked.                  *)
LEMMA MemberChanged ==
    ASSUME Members!MembershipIInv, NEW c \in Calls, call[c].at = "write",
           call[c].kind \in {"update", "remove", "ban", "unban"}, Members!Wrote(c),
           Members!Linked(call[c].target),
           NEW row \in [type : Members!LinkTypes, banned : BOOLEAN] \cup {Members!NoLink},
           link' = [link EXCEPT ![call[c].target] = row],
           Members!StillAllowed(c) => \/ row = link[call[c].target] \/ row = Members!Link("OWNED")
                                      \/ call[c].by # call[c].target
                                      \/ untyped'
                                      \/ Members!Counted # 1,
           untyped => untyped', untyped' \in BOOLEAN, UNCHANGED <<invitation, uses>>
    PROVE  Members!MembershipIInv'
<1>1. Members!OwnerRemains'
  BY OwnerKept
<1>2. /\ call' \in [Calls -> MemberCall] /\ Members!AsksItsMethod' /\ Members!AcceptsHisOwn'
      /\ uses' \in [Invitations -> 0..Members!Cardinality(Calls)] /\ Members!UsesEnd'
  <2>1. uses \in [Invitations -> Nat] /\ Members!Set(c, Members!Ended)
    BY DEF Members!MembershipIInv, Members!MembershipTypeOK, Members!Wrote
  <2>2. uses' \in [Invitations -> Nat] /\ \A i \in Invitations : uses'[i] <= uses[i] + 1
    BY <2>1
  <2> QED BY <2>1, <2>2, MemberWrites
<1>3. call[c].target \in Users
  BY DEF Members!MembershipIInv, Members!AsksItsMethod
<1>4. /\ link' \in [Users -> [type : Members!LinkTypes, banned : BOOLEAN] \cup {Members!NoLink}]
      /\ \A u \in Users : link'[u] # Members!NoLink => link[u] # Members!NoLink
  BY <1>3 DEF Members!MembershipIInv, Members!MembershipTypeOK, Members!Linked
<1>5. Members!MembersWereInvited'
  BY <1>4 DEF Members!MembershipIInv, Members!MembersWereInvited, Members!Linked
<1>6. overtaken' \in BOOLEAN /\ (overtaken => overtaken') /\ Members!UsedWhenAccepted'
  BY DEF Members!Wrote, Members!MembershipIInv, Members!MembershipTypeOK, Members!UsedWhenAccepted
<1>7. invitation' \in [Invitations -> {Members!NoInvite} \cup
         [user : Users, type : Members!LinkTypes, status : {"PENDING", "ACCEPTED"}]]
  BY DEF Members!MembershipIInv, Members!MembershipTypeOK
<1> QED BY <1>1, <1>2, <1>4, <1>5, <1>6, <1>7 DEF Members!MembershipIInv, Members!MembershipTypeOK, MemberCall

(* update: to be an owner, or a guest of a company with another owner.       *)
LEMMA MemberUpdated ==
    ASSUME Members!MembershipIInv, NEW c \in Calls, Members!Update(c)
    PROVE  Members!MembershipIInv'
<1> DEFINE t == call[c].target
           row == [link[t] EXCEPT !.type = Members!TypeOf(call[c].type)]
<1>1. /\ call[c].at = "write" /\ call[c].kind = "update" /\ Members!Wrote(c) /\ Members!Linked(t)
      /\ link' = [link EXCEPT ![t] = row]
      /\ untyped' = (untyped \/ call[c].type = "omitted") /\ UNCHANGED <<invitation, uses>>
  BY DEF Members!Update, Members!Writing
<1>2. /\ call[c].type \in Members!LinkTypes \cup {"omitted"} /\ t \in Users
      /\ link[t] \in [type : Members!LinkTypes, banned : BOOLEAN]
  BY <1>1 DEF Members!MembershipIInv, Members!AsksItsMethod, Members!MembershipTypeOK, Members!Linked
<1>3. Members!TypeOf(call[c].type) \in Members!LinkTypes
  BY <1>2 DEF Members!TypeOf, Members!LinkTypes
<1>4. row \in [type : Members!LinkTypes, banned : BOOLEAN]
  BY <1>2, <1>3
<1>5. ASSUME Members!StillAllowed(c), call[c].by = t, ~untyped', Members!Counted = 1
      PROVE  row = link[t]
  <2>1. Members!IsOwner(t) /\ ~Members!CountForbids(c)
    BY <1>1, <1>5 DEF Members!StillAllowed, Members!ChangesOwner
  <2>2. call[c].type = "OWNED"
    BY <1>1, <1>2, <1>5, <2>1 DEF Members!CountForbids, Members!LinkTypes
  <2> QED BY <2>1, <2>2 DEF Members!IsOwner, Members!Link, Members!TypeOf
<1>6. untyped' \in BOOLEAN /\ (untyped => untyped')
  BY <1>1 DEF Members!MembershipIInv, Members!MembershipTypeOK
<1> HIDE DEF row
<1> QED BY <1>1, <1>4, <1>5, <1>6, MemberChanged

(* remove: a guest, or an owner of a company with another.                   *)
LEMMA MemberRemoved ==
    ASSUME Members!MembershipIInv, NEW c \in Calls, Members!Remove(c)
    PROVE  Members!MembershipIInv'
<1>1. /\ call[c].at = "write" /\ call[c].kind = "remove" /\ Members!Wrote(c)
      /\ Members!Linked(call[c].target) /\ link' = [link EXCEPT ![call[c].target] = Members!NoLink]
      /\ UNCHANGED <<invitation, uses, untyped>>
  BY DEF Members!Remove, Members!Writing
<1>2. ASSUME Members!StillAllowed(c), call[c].by = call[c].target
      PROVE  Members!Counted # 1
  <2>1. link[call[c].target].type = "OWNED"
    BY <1>1, <1>2 DEF Members!StillAllowed, Members!IsOwner, Members!Link
  <2> QED BY <1>1, <1>2, <2>1 DEF Members!StillAllowed, Members!ChangesOwner, Members!CountForbids
<1>3. untyped' \in BOOLEAN
  BY <1>1 DEF Members!MembershipIInv, Members!MembershipTypeOK
<1> QED BY <1>1, <1>2, <1>3, MemberChanged

(* ban: never an owner; unban: an owner who is one already stays as he is.   *)
LEMMA MemberBanned ==
    ASSUME Members!MembershipIInv, NEW c \in Calls, Members!Ban(c) \/ Members!Unban(c)
    PROVE  Members!MembershipIInv'
<1> DEFINE t == call[c].target
<1>1. /\ call[c].at = "write" /\ call[c].kind \in {"ban", "unban"} /\ Members!Wrote(c) /\ Members!Linked(t)
      /\ link' = [link EXCEPT ![t] = [link[t] EXCEPT !.banned = (call[c].kind = "ban")]]
      /\ UNCHANGED <<invitation, uses, untyped>>
  <2>1. CASE Members!Ban(c)
    BY <2>1 DEF Members!Ban, Members!Writing
  <2>2. CASE Members!Unban(c)
    BY <2>2 DEF Members!Unban, Members!Writing
  <2> QED BY <2>1, <2>2
<1>2. t \in Users /\ link[t] \in [type : Members!LinkTypes, banned : BOOLEAN]
  BY <1>1 DEF Members!MembershipIInv, Members!AsksItsMethod, Members!MembershipTypeOK, Members!Linked
<1> DEFINE row == [link[t] EXCEPT !.banned = (call[c].kind = "ban")]
<1>3. row \in [type : Members!LinkTypes, banned : BOOLEAN]
  BY <1>2
<1>4. ASSUME Members!StillAllowed(c), call[c].by = t
      PROVE  row = link[t]
  <2>1. link[t] = Members!Link("OWNED")
    BY <1>1, <1>4 DEF Members!StillAllowed, Members!IsOwner
  <2>2. call[c].kind = "unban"
    BY <1>1, <1>4, <2>1 DEF Members!StillAllowed, Members!Link
  <2>3. link[t].banned = FALSE /\ (call[c].kind = "ban") = FALSE
    BY <2>1, <2>2 DEF Members!Link
  <2> QED BY <1>2, <2>3
<1>5. untyped' \in BOOLEAN /\ link' = [link EXCEPT ![t] = row]
  BY <1>1 DEF Members!MembershipIInv, Members!MembershipTypeOK
<1> HIDE DEF row
<1> QED BY <1>1, <1>3, <1>4, <1>5, MemberChanged

(* invite: a new row, which nobody has used.                                 *)
LEMMA MemberInvited ==
    ASSUME Members!MembershipIInv, NEW c \in Calls, Members!Invite(c)
    PROVE  Members!MembershipIInv'
<1> USE ServicesAssumption DEF Members!MembersAssumption
<1>1. /\ call[c].at = "write" /\ call[c].kind = "invite" /\ Members!Wrote(c)
      /\ UNCHANGED <<link, uses, untyped>>
  BY DEF Members!Invite, Members!Writing
<1> DEFINE row == [user |-> call[c].target, type |-> Members!TypeOf(call[c].type), status |-> "PENDING"]
<1>2. PICK i \in Invitations :
        invitation[i] = Members!NoInvite /\ invitation' = [invitation EXCEPT ![i] = row]
  BY DEF Members!Invite
<1>3. call[c].target \in Users /\ call[c].type \in Members!LinkTypes \cup {"omitted"}
  BY <1>1 DEF Members!MembershipIInv, Members!AsksItsMethod
<1>4. row \in [user : Users, type : Members!LinkTypes, status : {"PENDING", "ACCEPTED"}]
  BY <1>3 DEF Members!TypeOf, Members!LinkTypes
<1>5. /\ invitation' \in [Invitations -> {Members!NoInvite} \cup
            [user : Users, type : Members!LinkTypes, status : {"PENDING", "ACCEPTED"}]]
      /\ \A j \in Invitations : j # i => invitation'[j] = invitation[j]
      /\ invitation'[i] = row /\ invitation[i].user = NoUser
      /\ invitation[i].status = "none" /\ row.status = "PENDING"
  BY <1>2, <1>4 DEF Members!MembershipIInv, Members!MembershipTypeOK, Members!NoInvite
<1> HIDE DEF row
<1>6. /\ call' \in [Calls -> MemberCall] /\ Members!AsksItsMethod' /\ Members!AcceptsHisOwn'
      /\ uses' \in [Invitations -> 0..Members!Cardinality(Calls)] /\ Members!UsesEnd'
  <2>1. uses \in [Invitations -> Nat] /\ Members!Set(c, Members!Ended)
    BY <1>1 DEF Members!MembershipIInv, Members!MembershipTypeOK, Members!Wrote
  <2>2. /\ uses' \in [Invitations -> Nat] /\ \A j \in Invitations : uses'[j] <= uses[j] + 1
        /\ \A j \in Invitations : invitation[j].user # NoUser => invitation'[j].user = invitation[j].user
    BY <1>1, <1>5, <2>1
  <2> QED BY <1>1, <2>1, <2>2, MemberWrites
<1>7. overtaken' \in BOOLEAN /\ (overtaken => overtaken') /\ untyped' \in BOOLEAN
  BY <1>1 DEF Members!Wrote, Members!MembershipIInv, Members!MembershipTypeOK
<1>8. Members!OwnerRemains'
  BY <1>1, <1>7 DEF Members!MembershipIInv, Members!OwnerRemains, Members!Owners, Members!IsOwner
<1>9. Members!MembersWereInvited'
  BY <1>1, <1>5 DEF Members!MembershipIInv, Members!MembersWereInvited, Members!Linked
<1>10. Members!UsedWhenAccepted'
  BY <1>1, <1>5, <1>7 DEF Members!MembershipIInv, Members!UsedWhenAccepted
<1>11. link' \in [Users -> [type : Members!LinkTypes, banned : BOOLEAN] \cup {Members!NoLink}]
  BY <1>1 DEF Members!MembershipIInv, Members!MembershipTypeOK
<1> QED BY <1>5, <1>6, <1>7, <1>8, <1>9, <1>10, <1>11
        DEF Members!MembershipIInv, Members!MembershipTypeOK, MemberCall

(* acceptInvite: a link for the invited user, whose invitation is ACCEPTED.  *)
LEMMA MemberAccepts ==
    ASSUME Members!MembershipIInv, NEW c \in Calls, Members!Accept(c), ~Members!Linked(call[c].target)
    PROVE  Members!MembershipIInv'
<1> USE ServicesAssumption DEF Members!MembersAssumption
<1> DEFINE i == call[c].inv
           u == call[c].target
<1>1. /\ call[c].at = "write" /\ call[c].kind = "accept" /\ Members!Wrote(c)
      /\ link' = [link EXCEPT ![u] = Members!Link(invitation[i].type)]
      /\ invitation' = [invitation EXCEPT ![i].status = "ACCEPTED"]
      /\ uses' = [uses EXCEPT ![i] = @ + 1] /\ untyped' = untyped
  BY DEF Members!Accept, Members!Writing
<1>2. i \in Invitations /\ u \in Users /\ invitation[i].user = u
  BY <1>1 DEF Members!MembershipIInv, Members!AsksItsMethod, Members!AcceptsHisOwn
<1>3. invitation[i] \in [user : Users, type : Members!LinkTypes, status : {"PENDING", "ACCEPTED"}]
  BY <1>2 DEF Members!MembershipIInv, Members!MembershipTypeOK, Members!NoInvite
<1>4. /\ invitation' \in [Invitations -> {Members!NoInvite} \cup
            [user : Users, type : Members!LinkTypes, status : {"PENDING", "ACCEPTED"}]]
      /\ \A j \in Invitations : j # i => invitation'[j] = invitation[j]
      /\ invitation'[i].user = u /\ invitation'[i].status = "ACCEPTED"
  BY <1>1, <1>2, <1>3 DEF Members!MembershipIInv, Members!MembershipTypeOK
<1>5. /\ uses \in [Invitations -> Nat] /\ uses' \in [Invitations -> Nat]
      /\ uses'[i] = uses[i] + 1 /\ \A j \in Invitations : j # i => uses'[j] = uses[j]
  BY <1>1, <1>2 DEF Members!MembershipIInv, Members!MembershipTypeOK
<1>6. /\ call' \in [Calls -> MemberCall] /\ Members!AsksItsMethod' /\ Members!AcceptsHisOwn'
      /\ uses' \in [Invitations -> 0..Members!Cardinality(Calls)] /\ Members!UsesEnd'
  <2>1. Members!Set(c, Members!Ended)
    BY <1>1 DEF Members!Wrote
  <2>2. /\ \A j \in Invitations : uses'[j] <= uses[j] + 1
        /\ \A j \in Invitations : invitation[j].user # NoUser => invitation'[j].user = invitation[j].user
    BY <1>2, <1>4, <1>5
  <2> QED BY <1>1, <1>5, <2>1, <2>2, MemberWrites
<1>7. /\ overtaken' \in BOOLEAN /\ untyped' \in BOOLEAN
      /\ ~overtaken' => ~overtaken /\ invitation[i].status = "PENDING"
  BY <1>1 DEF Members!Wrote, Members!StillAllowed, Members!MembershipIInv, Members!MembershipTypeOK
<1>8. /\ link' \in [Users -> [type : Members!LinkTypes, banned : BOOLEAN] \cup {Members!NoLink}]
      /\ \A v \in Users : v # u => link'[v] = link[v]
  BY <1>1, <1>2, <1>3 DEF Members!MembershipIInv, Members!MembershipTypeOK, Members!Link
<1>9. Members!OwnerRemains'
  <2>1. u \notin Members!Owners
    BY DEF Members!Owners, Members!IsOwner, Members!Linked, Members!Link, Members!NoLink
  <2>2. Members!Owners \subseteq Members!Owners'
    BY <1>8, <2>1 DEF Members!Owners, Members!IsOwner
  <2> QED BY <1>1, <1>7, <2>2 DEF Members!MembershipIInv, Members!OwnerRemains
<1>10. Members!MembersWereInvited'
  BY <1>2, <1>4, <1>8 DEF Members!MembershipIInv, Members!MembersWereInvited, Members!Linked
<1>11. Members!UsedWhenAccepted'
  BY <1>2, <1>4, <1>5, <1>7 DEF Members!MembershipIInv, Members!UsedWhenAccepted
<1> QED BY <1>4, <1>6, <1>7, <1>8, <1>9, <1>10, <1>11
        DEF Members!MembershipIInv, Members!MembershipTypeOK, MemberCall

LEMMA MembersStep == Members!MembershipIInv /\ [Members!MembershipNext]_memberVars => Members!MembershipIInv'
<1> SUFFICES ASSUME Members!MembershipIInv, [Members!MembershipNext]_memberVars
             PROVE  Members!MembershipIInv'
  OBVIOUS
<1>1. ASSUME NEW c \in Calls, Members!WriteFails(c) PROVE Members!MembershipIInv'
  BY <1>1, MemberRefused DEF Members!WriteFails
<1>2. ASSUME NEW c \in Calls, Members!Accept(c), Members!Linked(call[c].target)
      PROVE  Members!MembershipIInv'
  BY <1>2, MemberRefused DEF Members!Accept, Members!Writing, Members!RowsUnchanged
<1>3. CASE UNCHANGED memberVars
  BY <1>3 DEF memberVars, Members!MembershipIInv, Members!MembershipTypeOK, Members!AsksItsMethod,
     Members!AcceptsHisOwn, Members!UsedWhenAccepted, Members!UsesEnd, Members!OwnerRemains,
     Members!Owners, Members!IsOwner, Members!MembersWereInvited, Members!Linked
<1> QED BY <1>1, <1>2, <1>3, MemberAsks, MemberAsksAccept, MemberLooksUp, MemberInvited, MemberAccepts,
        MemberUpdated, MemberRemoved, MemberBanned DEF Members!MembershipNext

-----------------------------------------------------------------------------
(* Sessions.                                                                 *)

SessionCall == [at : Auth!SessionPlaces, sec : Auth!Seconds, res : ResetTokens \cup {NoReset}]
SessionEnds == {"revokeAll", "done", "refused"}

(* The requests that the invariant counts.                                   *)
Saving == {c \in SessionCalls : Auth!At(c, "save")}
Past == {c \in SessionCalls : sessionCall[c].at \in SessionEnds}
Resetters == {c \in SessionCalls : Auth!At(c, "done") /\ sessionCall[c].res # NoReset}
SpentTokens == {t \in ResetTokens : reset[t] = "used"}

LEMMA SessionsFinite ==
    /\ IsFiniteSet(SessionCalls) /\ IsFiniteSet(ResetTokens) /\ IsFiniteSet(Auth!Seconds)
    /\ Auth!MaxPassword = Cardinality(SessionCalls) /\ Auth!MaxPassword \in Nat
    /\ IsFiniteSet(Auth!LiveTokens) /\ Cardinality(Auth!LiveTokens) \in Nat
    /\ IsFiniteSet(Saving) /\ Cardinality(Saving) \in Nat
    /\ IsFiniteSet(Past) /\ Cardinality(Past) \in Nat
    /\ IsFiniteSet(Resetters) /\ Cardinality(Resetters) \in Nat
    /\ IsFiniteSet(SpentTokens) /\ Cardinality(SpentTokens) \in Nat
<1>1. IsFiniteSet(SessionCalls) /\ IsFiniteSet(ResetTokens)
  BY ServicesAssumption, CountsAlike DEF Auth!SessionsAssumption
<1>2. IsFiniteSet(Auth!Seconds)
  BY ServicesAssumption, FS_Interval DEF Auth!SessionsAssumption, Auth!Seconds
<1>3. Auth!MaxPassword = Cardinality(SessionCalls) /\ Auth!MaxPassword \in Nat
  BY <1>1, CountsAlike, FS_CardinalityType DEF Auth!MaxPassword
<1>4. /\ Auth!LiveTokens \in SUBSET Auth!Seconds /\ Saving \in SUBSET SessionCalls
      /\ Past \in SUBSET SessionCalls /\ Resetters \in SUBSET SessionCalls
      /\ SpentTokens \in SUBSET ResetTokens
  BY DEF Auth!LiveTokens, Saving, Past, Resetters, SpentTokens
<1>5. /\ IsFiniteSet(Auth!LiveTokens) /\ IsFiniteSet(Saving) /\ IsFiniteSet(Past)
      /\ IsFiniteSet(Resetters) /\ IsFiniteSet(SpentTokens)
  BY <1>1, <1>2, <1>4, FS_Subset
<1> QED BY <1>1, <1>2, <1>3, <1>5, FS_CardinalityType

(* The invariant's counts, in the operators the lemmas are about.            *)
LEMMA SessionCounts ==
    /\ Auth!RotationsFromLogins <=> Cardinality(Auth!LiveTokens) + Cardinality(Saving) <= logins + doubled
    /\ Auth!ResetsAreSpent <=> Cardinality(Resetters) <= Cardinality(SpentTokens) + resetTwice
    /\ Auth!PasswordsWritten <=> password <= Cardinality(Past)
    /\ Auth!RotationsFromLogins' <=>
          Cardinality(Auth!LiveTokens') + Cardinality(Saving') <= logins' + doubled'
    /\ Auth!ResetsAreSpent' <=> Cardinality(Resetters') <= Cardinality(SpentTokens') + resetTwice'
    /\ Auth!PasswordsWritten' <=> password' <= Cardinality(Past')
BY CountsAlike DEF Auth!RotationsFromLogins, Auth!ResetsAreSpent, Auth!PasswordsWritten, Saving,
   Resetters, SpentTokens, Past, SessionEnds

LEMMA SessionsStart == Auth!Init => Auth!SessionsIInv
<1> SUFFICES ASSUME Auth!Init PROVE Auth!SessionsIInv
  OBVIOUS
<1> USE ServicesAssumption DEF Auth!SessionsAssumption, Auth!Init
<1>1. Auth!SessionTypeOK
  BY SessionsFinite DEF Auth!SessionTypeOK, Auth!NoToken, Auth!Fresh, Auth!Seconds, Auth!SessionPlaces
<1>2. Auth!LiveTokens = {} /\ Saving = {} /\ Resetters = {}
  BY DEF Auth!LiveTokens, Auth!NoToken, Saving, Resetters, Auth!At, Auth!Fresh
<1>3. Auth!RotationsFromLogins /\ Auth!ResetsAreSpent /\ Auth!PasswordsWritten
  BY <1>2, SessionCounts, SessionsFinite, FS_EmptySet
<1>4. Auth!OldSessionsEnd /\ Auth!ResetsHandedOut
  BY <1>2 DEF Auth!OldSessionsEnd, Auth!ResetsHandedOut, Auth!At, Auth!Fresh
<1> QED BY <1>1, <1>3, <1>4 DEF Auth!SessionsIInv

(* A request goes from one place to another.                                 *)
LEMMA SessionMoves ==
    ASSUME Auth!SessionsIInv, NEW c \in SessionCalls, NEW x \in SessionCall,
           sessionCall' = [sessionCall EXCEPT ![c] = x]
    PROVE  /\ sessionCall' \in [SessionCalls -> SessionCall]
           /\ sessionCall'[c] = x /\ \A d \in SessionCalls : d # c => sessionCall'[d] = sessionCall[d]
           /\ Cardinality(Saving') \in Nat
           /\ Cardinality(Saving') <= Cardinality(Saving) + 1
           /\ x.at # "save" => Cardinality(Saving') <= Cardinality(Saving)
           /\ x.at # "save" /\ sessionCall[c].at = "save" => Cardinality(Saving') + 1 <= Cardinality(Saving)
           /\ Cardinality(Past') \in Nat /\ Cardinality(Past') <= Cardinality(SessionCalls)
           /\ sessionCall[c].at \notin SessionEnds \/ x.at \in SessionEnds
                => Cardinality(Past) <= Cardinality(Past')
           /\ sessionCall[c].at \notin SessionEnds /\ x.at \in SessionEnds
                => Cardinality(Past) + 1 <= Cardinality(Past')
           /\ Cardinality(Resetters') \in Nat
           /\ Cardinality(Resetters') <= Cardinality(Resetters) + 1
           /\ x.at # "done" \/ x.res = NoReset => Cardinality(Resetters') <= Cardinality(Resetters)
<1>1. /\ sessionCall' \in [SessionCalls -> SessionCall] /\ sessionCall'[c] = x
      /\ \A d \in SessionCalls : d # c => sessionCall'[d] = sessionCall[d]
  BY DEF Auth!SessionsIInv, Auth!SessionTypeOK, SessionCall
<1>2. /\ Saving' \in SUBSET (Saving \cup {c})
      /\ x.at # "save" => c \notin Saving'
      /\ sessionCall[c].at = "save" => c \in Saving
  BY <1>1 DEF Saving, Auth!At
<1>3. /\ Cardinality(Saving') \in Nat /\ Cardinality(Saving') <= Cardinality(Saving) + 1
      /\ x.at # "save" => Cardinality(Saving') <= Cardinality(Saving)
      /\ x.at # "save" /\ sessionCall[c].at = "save" => Cardinality(Saving') + 1 <= Cardinality(Saving)
  BY <1>2, SessionsFinite, OneMore
<1>4. /\ Resetters' \in SUBSET (Resetters \cup {c})
      /\ x.at # "done" \/ x.res = NoReset => c \notin Resetters'
  BY <1>1 DEF Resetters, Auth!At
<1>5. /\ Cardinality(Resetters') \in Nat /\ Cardinality(Resetters') <= Cardinality(Resetters) + 1
      /\ x.at # "done" \/ x.res = NoReset => Cardinality(Resetters') <= Cardinality(Resetters)
  BY <1>4, SessionsFinite, OneMore
<1>6. Past' \in SUBSET SessionCalls
  BY DEF Past
<1>7. /\ IsFiniteSet(Past') /\ Cardinality(Past') \in Nat
      /\ Cardinality(Past') <= Cardinality(SessionCalls)
  BY <1>6, SessionsFinite, FS_Subset, FS_CardinalityType
<1>8. ASSUME sessionCall[c].at \notin SessionEnds \/ x.at \in SessionEnds
      PROVE  Cardinality(Past) <= Cardinality(Past')
  <2>1. Past \in SUBSET Past'
    BY <1>1, <1>8 DEF Past
  <2> QED BY <1>7, <2>1, FS_Subset
<1>9. ASSUME sessionCall[c].at \notin SessionEnds, x.at \in SessionEnds
      PROVE  Cardinality(Past) + 1 <= Cardinality(Past')
  <2>1. Past \in SUBSET (Past' \cup {c}) /\ c \in Past' /\ c \notin Past
    BY <1>1, <1>9 DEF Past
  <2> QED BY <1>7, <2>1, OneMore
<1> QED BY <1>1, <1>3, <1>5, <1>7, <1>8, <1>9

(* A request that writes no row: a look, an end, or a cut.                   *)
LEMMA SessionLooks ==
    ASSUME Auth!SessionsIInv, NEW c \in SessionCalls, NEW x \in SessionCall,
           sessionCall' = [sessionCall EXCEPT ![c] = x],
           sessionCall[c].at \notin {"done", "refused"},
           x.at \in {"login", "revoke", "change", "reset", "refused"},
           sessionCall[c].at = "revokeAll" => sessionCuts' # 0,
           x.at = "refused" \/ sessionCall[c].at \notin SessionEnds,
           x.res # NoReset => x.at \in {"reset", "refused"},
           x.at = "reset" => x.res \in ResetTokens /\ reset[x.res] # "none",
           UNCHANGED <<password, token, reset, second, logins, doubled, resetTwice>>,
           sessionCuts' \in 0..MaxCuts, sessionCuts' >= sessionCuts
    PROVE  Auth!SessionsIInv'
<1> USE ServicesAssumption DEF Auth!SessionsAssumption
<1>1. Auth!SessionTypeOK'
  <2>1. sessionCall' \in [SessionCalls -> SessionCall]
    BY SessionMoves
  <2> QED BY <2>1 DEF Auth!SessionsIInv, Auth!SessionTypeOK, SessionCall
<1>2. Auth!LiveTokens' = Auth!LiveTokens /\ SpentTokens' = SpentTokens
  BY DEF Auth!LiveTokens, SpentTokens
<1>3. Auth!OldSessionsEnd'
  <2> SUFFICES ASSUME sessionCuts' = 0, NEW s \in Auth!LiveTokens
               PROVE  token[s].since = password \/ Auth!Revoking'
    BY <1>2 DEF Auth!OldSessionsEnd
  <2>1. sessionCuts = 0 /\ sessionCall[c].at # "revokeAll"
    BY DEF Auth!SessionsIInv, Auth!SessionTypeOK
  <2>2. token[s].since = password \/ Auth!Revoking
    BY <2>1 DEF Auth!SessionsIInv, Auth!OldSessionsEnd
  <2>3. Auth!Revoking => Auth!Revoking'
    BY <2>1, SessionMoves DEF Auth!Revoking, Auth!At
  <2> QED BY <2>2, <2>3
<1>4. Auth!RotationsFromLogins' /\ Auth!ResetsAreSpent' /\ Auth!PasswordsWritten'
  <2>1. /\ Auth!RotationsFromLogins /\ Auth!ResetsAreSpent /\ Auth!PasswordsWritten
        /\ password \in Nat /\ logins \in Nat /\ doubled \in Nat /\ resetTwice \in Nat
    BY SessionsFinite DEF Auth!SessionsIInv, Auth!SessionTypeOK
  <2>2. /\ Cardinality(Saving') <= Cardinality(Saving) /\ Cardinality(Saving') \in Nat
        /\ Cardinality(Resetters') <= Cardinality(Resetters) /\ Cardinality(Resetters') \in Nat
        /\ Cardinality(Past) <= Cardinality(Past') /\ Cardinality(Past') \in Nat
    BY SessionMoves DEF SessionEnds
  <2> QED BY <1>2, <2>1, <2>2, SessionCounts, SessionsFinite
<1>5. Auth!ResetsHandedOut'
  <2> SUFFICES ASSUME NEW d \in SessionCalls
               PROVE  /\ sessionCall'[d].res # NoReset => sessionCall'[d].at \in {"reset", "done", "refused"}
                      /\ sessionCall'[d].at = "reset" =>
                           sessionCall'[d].res \in ResetTokens /\ reset[sessionCall'[d].res] # "none"
    BY DEF Auth!ResetsHandedOut, Auth!At
  <2>1. CASE d = c
    BY <2>1, SessionMoves
  <2>2. CASE d # c
    BY <2>2, SessionMoves DEF Auth!SessionsIInv, Auth!ResetsHandedOut, Auth!At
  <2> QED BY <2>1, <2>2
<1> QED BY <1>1, <1>3, <1>4, <1>5 DEF Auth!SessionsIInv

LEMMA AnySessionCall ==
    ASSUME Auth!SessionsIInv, NEW c \in SessionCalls
    PROVE  sessionCall[c] \in SessionCall
BY DEF Auth!SessionsIInv, Auth!SessionTypeOK, SessionCall

(* What the rows of one step and the other have to do with the invariant:   *)
(* a request at `done' or `revokeAll' has handed out no reset of its own.    *)
LEMMA ResetsStayHandedOut ==
    ASSUME Auth!SessionsIInv, NEW c \in SessionCalls, NEW x \in SessionCall,
           sessionCall' = [sessionCall EXCEPT ![c] = x], x.at # "reset",
           x.res # NoReset => x.at \in {"done", "refused"},
           \A t \in ResetTokens : reset[t] # "none" => reset'[t] # "none"
    PROVE  Auth!ResetsHandedOut'
<1> SUFFICES ASSUME NEW d \in SessionCalls
             PROVE  /\ sessionCall'[d].res # NoReset => sessionCall'[d].at \in {"reset", "done", "refused"}
                    /\ sessionCall'[d].at = "reset" =>
                         sessionCall'[d].res \in ResetTokens /\ reset'[sessionCall'[d].res] # "none"
  BY DEF Auth!ResetsHandedOut, Auth!At
<1>1. CASE d = c
  BY <1>1, SessionMoves
<1>2. CASE d # c
  BY <1>2, SessionMoves DEF Auth!SessionsIInv, Auth!ResetsHandedOut, Auth!At
<1> QED BY <1>1, <1>2

(* logout, forgotPassword and the last statement of changePassword.          *)
LEMMA SessionFinishes ==
    ASSUME Auth!SessionsIInv, NEW c \in SessionCalls, Auth!Go(c, "done"),
           sessionCall[c].at \in {"new", "revokeAll"},
           token' \in [Auth!Seconds -> [live : BOOLEAN, since : -1..Auth!MaxPassword]],
           \A s \in Auth!Seconds : token'[s].live => token[s].live /\ token'[s].since = token[s].since,
           sessionCall[c].at = "revokeAll" => Auth!LiveTokens' = {},
           reset' \in [ResetTokens -> {"none", "open", "used"}], SpentTokens' = SpentTokens,
           \A t \in ResetTokens : reset[t] # "none" => reset'[t] # "none",
           password' = password, Auth!HistoryUnchanged
    PROVE  Auth!SessionsIInv'
<1> DEFINE x == [sessionCall[c] EXCEPT !.at = "done"]
<1>1. /\ x \in SessionCall /\ x.at = "done" /\ x.res = NoReset
      /\ sessionCall' = [sessionCall EXCEPT ![c] = x]
  BY AnySessionCall DEF SessionCall, Auth!SessionPlaces, Auth!Go, Auth!SessionsIInv, Auth!ResetsHandedOut
<1> HIDE DEF x
<1>2. Auth!SessionTypeOK'
  <2>1. sessionCall' \in [SessionCalls -> SessionCall]
    BY <1>1, SessionMoves
  <2> QED BY <2>1 DEF Auth!HistoryUnchanged, Auth!SessionsIInv, Auth!SessionTypeOK, SessionCall
<1>3. Auth!LiveTokens' \in SUBSET Auth!LiveTokens
  BY DEF Auth!LiveTokens
<1>4. Auth!OldSessionsEnd'
  <2> SUFFICES ASSUME sessionCuts = 0, NEW s \in Auth!LiveTokens'
               PROVE  token'[s].since = password \/ Auth!Revoking'
    BY DEF Auth!OldSessionsEnd, Auth!HistoryUnchanged
  <2>1. s \in Auth!LiveTokens /\ token'[s].since = token[s].since /\ sessionCall[c].at # "revokeAll"
    BY DEF Auth!LiveTokens
  <2>2. token[s].since = password \/ Auth!Revoking
    BY <2>1 DEF Auth!SessionsIInv, Auth!OldSessionsEnd
  <2>3. Auth!Revoking => Auth!Revoking'
    BY <1>1, <2>1, SessionMoves DEF Auth!Revoking, Auth!At
  <2> QED BY <2>1, <2>2, <2>3
<1>5. Auth!RotationsFromLogins' /\ Auth!ResetsAreSpent' /\ Auth!PasswordsWritten'
  <2>1. /\ Auth!RotationsFromLogins /\ Auth!ResetsAreSpent /\ Auth!PasswordsWritten
        /\ password \in Nat /\ logins \in Nat /\ doubled \in Nat /\ resetTwice \in Nat
        /\ logins' = logins /\ doubled' = doubled /\ resetTwice' = resetTwice
    BY SessionsFinite DEF Auth!SessionsIInv, Auth!SessionTypeOK, Auth!HistoryUnchanged
  <2>2. /\ Cardinality(Saving') <= Cardinality(Saving) /\ Cardinality(Saving') \in Nat
        /\ Cardinality(Resetters') <= Cardinality(Resetters) /\ Cardinality(Resetters') \in Nat
        /\ Cardinality(Past) <= Cardinality(Past') /\ Cardinality(Past') \in Nat
    BY <1>1, SessionMoves DEF SessionEnds
  <2>3. Cardinality(Auth!LiveTokens') <= Cardinality(Auth!LiveTokens) /\ Cardinality(Auth!LiveTokens') \in Nat
    BY <1>3, SessionsFinite, FS_Subset, FS_CardinalityType
  <2> QED BY <2>1, <2>2, <2>3, SessionCounts, SessionsFinite
<1>6. Auth!ResetsHandedOut'
  BY <1>1, ResetsStayHandedOut
<1> QED BY <1>2, <1>4, <1>5, <1>6 DEF Auth!SessionsIInv

LEMMA AllAreRevoked ==
    ASSUME Auth!SessionTypeOK
    PROVE  /\ Auth!AllRevoked \in [Auth!Seconds -> [live : BOOLEAN, since : -1..Auth!MaxPassword]]
           /\ \A s \in Auth!Seconds : ~Auth!AllRevoked[s].live
                                      /\ Auth!AllRevoked[s].since = token[s].since
BY DEF Auth!AllRevoked, Auth!SessionTypeOK

LEMMA SessionLeaves ==
    ASSUME Auth!SessionsIInv, NEW c \in SessionCalls,
           Auth!Logout(c) \/ Auth!RevokeAll(c) \/ Auth!Forgot(c)
    PROVE  Auth!SessionsIInv'
<1> USE DEF Auth!At
<1>1. /\ Auth!SessionTypeOK /\ Auth!Go(c, "done") /\ password' = password /\ Auth!HistoryUnchanged
  BY DEF Auth!Logout, Auth!RevokeAll, Auth!Forgot, Auth!SessionsIInv
<1>2. CASE Auth!RevokeAll(c)
  <2>1. sessionCall[c].at = "revokeAll" /\ token' = Auth!AllRevoked /\ reset' = reset
    BY <1>2 DEF Auth!RevokeAll
  <2>2. Auth!LiveTokens' = {}
    BY <1>1, <2>1, AllAreRevoked DEF Auth!LiveTokens
  <2> QED BY <1>1, <2>1, <2>2, AllAreRevoked, SessionFinishes DEF Auth!SessionTypeOK, SpentTokens
<1>3. CASE Auth!Logout(c)
  <2>1. sessionCall[c].at = "new" /\ reset' = reset
    BY <1>3 DEF Auth!Logout
  <2>2. CASE token' = Auth!AllRevoked
    BY <1>1, <2>1, <2>2, AllAreRevoked, SessionFinishes DEF Auth!SessionTypeOK, SpentTokens
  <2>3. CASE \E s \in Auth!LiveTokens : token' = [token EXCEPT ![s].live = FALSE]
    <3>1. PICK s \in Auth!LiveTokens : token' = [token EXCEPT ![s].live = FALSE]
      BY <2>3
    <3>2. /\ token' \in [Auth!Seconds -> [live : BOOLEAN, since : -1..Auth!MaxPassword]]
          /\ \A r \in Auth!Seconds : token'[r].live => token[r].live /\ token'[r].since = token[r].since
      BY <1>1, <3>1 DEF Auth!SessionTypeOK
    <3> QED BY <1>1, <2>1, <3>2, SessionFinishes DEF Auth!SessionTypeOK, SpentTokens
  <2> QED BY <1>3, <2>2, <2>3 DEF Auth!Logout
<1>4. CASE Auth!Forgot(c)
  <2>1. sessionCall[c].at = "new" /\ token' = token
    BY <1>4 DEF Auth!Forgot
  <2>2. PICK t \in ResetTokens : reset[t] = "none" /\ reset' = [reset EXCEPT ![t] = "open"]
    BY <1>4 DEF Auth!Forgot
  <2>3. /\ reset' \in [ResetTokens -> {"none", "open", "used"}] /\ SpentTokens' = SpentTokens
        /\ \A u \in ResetTokens : reset[u] # "none" => reset'[u] # "none"
    BY <1>1, <2>2 DEF Auth!SessionTypeOK, SpentTokens
  <2> QED BY <1>1, <2>1, <2>3, SessionFinishes DEF Auth!SessionTypeOK
<1> QED BY <1>2, <1>3, <1>4

(* The looks.                                                                *)
LEMMA SessionReads ==
    ASSUME Auth!SessionsIInv, NEW c \in SessionCalls,
           \/ Auth!CheckPassword(c) \/ Auth!FindToken(c) \/ Auth!CheckCurrent(c) \/ Auth!FindReset(c)
    PROVE  Auth!SessionsIInv'
<1> USE ServicesAssumption DEF Auth!SessionsAssumption, Auth!At
<1>1. /\ sessionCall[c].at = "new" /\ sessionCall[c].res = NoReset /\ sessionCall[c] \in SessionCall
      /\ UNCHANGED <<password, token, reset, second, logins, doubled, resetTwice, sessionCuts>>
      /\ sessionCuts \in 0..MaxCuts /\ second \in Auth!Seconds
  BY AnySessionCall DEF Auth!CheckPassword, Auth!FindToken, Auth!CheckCurrent, Auth!FindReset,
     Auth!RowsUnchanged, Auth!HistoryUnchanged, Auth!SessionsIInv, Auth!SessionTypeOK,
     Auth!ResetsHandedOut
<1>2. PICK x \in SessionCall :
        /\ sessionCall' = [sessionCall EXCEPT ![c] = x]
        /\ x.at \in {"login", "revoke", "change", "reset"}
        /\ x.at # "reset" => x.res = NoReset
        /\ x.at = "reset" => x.res \in ResetTokens /\ reset[x.res] = "open"
  <2>1. CASE Auth!CheckPassword(c)
    <3>1. [sessionCall[c] EXCEPT !.at = "login", !.sec = second] \in SessionCall
      BY <1>1 DEF SessionCall, Auth!SessionPlaces
    <3>2. sessionCall' = [sessionCall EXCEPT ![c] = [sessionCall[c] EXCEPT !.at = "login", !.sec = second]]
      BY <2>1 DEF Auth!CheckPassword
    <3> QED BY <1>1, <3>1, <3>2 DEF SessionCall
  <2>2. CASE Auth!FindToken(c)
    <3>1. PICK s \in Auth!LiveTokens :
            sessionCall' = [sessionCall EXCEPT ![c] = [sessionCall[c] EXCEPT !.at = "revoke", !.sec = s]]
      BY <2>2 DEF Auth!FindToken
    <3>2. [sessionCall[c] EXCEPT !.at = "revoke", !.sec = s] \in SessionCall
      BY <1>1 DEF SessionCall, Auth!SessionPlaces, Auth!LiveTokens
    <3> QED BY <1>1, <3>1, <3>2 DEF SessionCall
  <2>3. CASE Auth!CheckCurrent(c)
    <3>1. [sessionCall[c] EXCEPT !.at = "change"] \in SessionCall
      BY <1>1 DEF SessionCall, Auth!SessionPlaces
    <3>2. sessionCall' = [sessionCall EXCEPT ![c] = [sessionCall[c] EXCEPT !.at = "change"]]
      BY <2>3 DEF Auth!CheckCurrent, Auth!Go
    <3> QED BY <1>1, <3>1, <3>2 DEF SessionCall
  <2>4. CASE Auth!FindReset(c)
    <3>1. PICK t \in ResetTokens :
            /\ reset[t] = "open"
            /\ sessionCall' = [sessionCall EXCEPT ![c] = [sessionCall[c] EXCEPT !.at = "reset", !.res = t]]
      BY <2>4 DEF Auth!FindReset
    <3>2. [sessionCall[c] EXCEPT !.at = "reset", !.res = t] \in SessionCall
      BY <1>1 DEF SessionCall, Auth!SessionPlaces
    <3> QED BY <1>1, <3>1, <3>2 DEF SessionCall
  <2> QED BY <2>1, <2>2, <2>3, <2>4
<1>3. sessionCuts' \in 0..MaxCuts /\ sessionCuts' >= sessionCuts
  BY <1>1
<1> QED BY <1>1, <1>2, <1>3, SessionLooks DEF SessionEnds

(* A request that is refused or cut off.                                     *)
LEMMA SessionRefused ==
    ASSUME Auth!SessionsIInv, NEW c \in SessionCalls, Auth!Go(c, "refused"),
           sessionCall[c].at \notin {"new", "done", "refused"},
           UNCHANGED <<password, token, reset, second, logins, doubled, resetTwice>>,
           sessionCuts' \in 0..MaxCuts, sessionCuts' >= sessionCuts,
           sessionCall[c].at = "revokeAll" => sessionCuts' # 0
    PROVE  Auth!SessionsIInv'
<1> DEFINE x == [sessionCall[c] EXCEPT !.at = "refused"]
<1>1. x \in SessionCall /\ x.at = "refused" /\ sessionCall' = [sessionCall EXCEPT ![c] = x]
  BY AnySessionCall DEF SessionCall, Auth!SessionPlaces, Auth!Go
<1> HIDE DEF x
<1> QED BY <1>1, SessionLooks

LEMMA SessionCut ==
    ASSUME Auth!SessionsIInv, NEW c \in SessionCalls, Auth!CutOff(c)
    PROVE  Auth!SessionsIInv'
<1>1. /\ Auth!Go(c, "refused") /\ sessionCall[c].at \notin {"new", "done", "refused"}
      /\ UNCHANGED <<password, token, reset, second, logins, doubled, resetTwice>>
      /\ sessionCuts < MaxCuts /\ sessionCuts' = sessionCuts + 1
  BY DEF Auth!CutOff, Auth!RowsUnchanged
<1>2. sessionCuts' \in 0..MaxCuts /\ sessionCuts' >= sessionCuts /\ sessionCuts' # 0
  BY <1>1, ServicesAssumption DEF Auth!SessionsAssumption, Auth!SessionsIInv, Auth!SessionTypeOK
<1> QED BY <1>1, <1>2, SessionRefused

(* A refresh revokes its token: one session less, unless it was revoked.     *)
LEMMA SessionRevokes ==
    ASSUME Auth!SessionsIInv, NEW c \in SessionCalls, Auth!Revoke(c)
    PROVE  Auth!SessionsIInv'
<1> DEFINE old == sessionCall[c].sec
           x == [sessionCall[c] EXCEPT !.at = "save", !.sec = second]
<1>1. /\ sessionCall[c].at = "revoke" /\ sessionCall[c] \in SessionCall
      /\ token' = [token EXCEPT ![old].live = FALSE]
      /\ doubled' = IF token[old].live THEN doubled ELSE doubled + 1
      /\ UNCHANGED <<password, reset, second, logins, resetTwice, sessionCuts>>
  BY AnySessionCall DEF Auth!Revoke, Auth!At
<1>2. /\ x \in SessionCall /\ x.at = "save" /\ x.res = NoReset
      /\ sessionCall' = [sessionCall EXCEPT ![c] = x]
  BY <1>1 DEF Auth!Revoke, Auth!SessionsIInv, Auth!SessionTypeOK, Auth!ResetsHandedOut, SessionCall,
     Auth!SessionPlaces
<1> HIDE DEF x
<1>3. /\ password \in Nat /\ logins \in Nat /\ doubled \in Nat /\ resetTwice \in Nat /\ doubled' \in Nat
      /\ old \in Auth!Seconds
      /\ token' \in [Auth!Seconds -> [live : BOOLEAN, since : -1..Auth!MaxPassword]]
      /\ \A s \in Auth!Seconds : token'[s].since = token[s].since
      /\ ~token'[old].live /\ \A s \in Auth!Seconds : s # old => token'[s] = token[s]
  <2>1. /\ password \in Nat /\ logins \in Nat /\ doubled \in Nat /\ resetTwice \in Nat /\ doubled' \in Nat
        /\ old \in Auth!Seconds
    BY <1>1, SessionsFinite DEF Auth!SessionsIInv, Auth!SessionTypeOK, SessionCall
  <2>2. token \in [Auth!Seconds -> [live : BOOLEAN, since : -1..Auth!MaxPassword]]
    BY DEF Auth!SessionsIInv, Auth!SessionTypeOK
  <2>3. [token[old] EXCEPT !.live = FALSE] \in [live : BOOLEAN, since : -1..Auth!MaxPassword]
    BY <2>1, <2>2
  <2>4. token' \in [Auth!Seconds -> [live : BOOLEAN, since : -1..Auth!MaxPassword]]
    BY <1>1, <2>1, <2>2, <2>3
  <2> QED BY <1>1, <2>1, <2>2, <2>4
<1>4. Auth!SessionTypeOK'
  <2>1. sessionCall' \in [SessionCalls -> SessionCall]
    BY <1>2, SessionMoves
  <2> QED BY <1>1, <1>3, <2>1 DEF Auth!SessionsIInv, Auth!SessionTypeOK, SessionCall
<1>5. /\ Auth!LiveTokens' \in SUBSET Auth!LiveTokens
      /\ Auth!LiveTokens' \in SUBSET (Auth!LiveTokens \cup {old}) /\ old \notin Auth!LiveTokens'
      /\ token[old].live => old \in Auth!LiveTokens
  BY <1>3 DEF Auth!LiveTokens
<1>6. Auth!OldSessionsEnd'
  <2> SUFFICES ASSUME sessionCuts = 0, NEW s \in Auth!LiveTokens'
               PROVE  token'[s].since = password \/ Auth!Revoking'
    BY <1>1 DEF Auth!OldSessionsEnd
  <2>1. s \in Auth!LiveTokens /\ s \in Auth!Seconds /\ token'[s].since = token[s].since
    BY <1>3, <1>5 DEF Auth!LiveTokens
  <2>2. token[s].since = password \/ Auth!Revoking
    BY <2>1 DEF Auth!SessionsIInv, Auth!OldSessionsEnd
  <2>3. Auth!Revoking => Auth!Revoking'
    BY <1>1, <1>2, SessionMoves DEF Auth!Revoking, Auth!At
  <2> QED BY <2>1, <2>2, <2>3
<1>7. Auth!RotationsFromLogins' /\ Auth!ResetsAreSpent' /\ Auth!PasswordsWritten'
  <2>1. /\ Auth!RotationsFromLogins /\ Auth!ResetsAreSpent /\ Auth!PasswordsWritten
    BY DEF Auth!SessionsIInv
  <2>2. /\ Cardinality(Saving') <= Cardinality(Saving) + 1 /\ Cardinality(Saving') \in Nat
        /\ Cardinality(Resetters') <= Cardinality(Resetters) /\ Cardinality(Resetters') \in Nat
        /\ Cardinality(Past) <= Cardinality(Past') /\ Cardinality(Past') \in Nat
    BY <1>1, <1>2, SessionMoves DEF SessionEnds
  <2>3. /\ Cardinality(Auth!LiveTokens') <= Cardinality(Auth!LiveTokens)
        /\ Cardinality(Auth!LiveTokens') \in Nat
        /\ token[old].live => Cardinality(Auth!LiveTokens') + 1 <= Cardinality(Auth!LiveTokens)
    BY <1>5, SessionsFinite, OneMore
  <2>4. Auth!RotationsFromLogins'
    BY <1>1, <1>3, <2>1, <2>2, <2>3, SessionCounts, SessionsFinite
  <2>5. SpentTokens' = SpentTokens
    BY <1>1 DEF SpentTokens
  <2> QED BY <1>1, <1>3, <2>1, <2>2, <2>4, <2>5, SessionCounts, SessionsFinite
<1>8. Auth!ResetsHandedOut'
  BY <1>1, <1>2, ResetsStayHandedOut
<1> QED BY <1>4, <1>6, <1>7, <1>8 DEF Auth!SessionsIInv

(* saveRefreshToken: a login's, or the one a refresh has revoked another for. *)
LEMMA SessionSaves ==
    ASSUME Auth!SessionsIInv, NEW c \in SessionCalls, Auth!Save(c)
    PROVE  Auth!SessionsIInv'
<1> DEFINE new == sessionCall[c].sec
           x == [sessionCall[c] EXCEPT !.at = "done"]
<1>1. /\ sessionCall[c].at \in {"login", "save"} /\ sessionCall[c] \in SessionCall
      /\ UNCHANGED <<password, reset, second, doubled, resetTwice, sessionCuts>>
  BY AnySessionCall DEF Auth!Save, Auth!At
<1>2. CASE token[new] # Auth!NoToken
  <2>1. Auth!Go(c, "refused") /\ UNCHANGED <<token, logins>>
    BY <1>2 DEF Auth!Save
  <2>2. sessionCuts' \in 0..MaxCuts /\ sessionCuts' >= sessionCuts
    BY <1>1, ServicesAssumption DEF Auth!SessionsIInv, Auth!SessionTypeOK, Auth!SessionsAssumption
  <2> QED BY <1>1, <2>1, <2>2, SessionRefused
<1>3. CASE token[new] = Auth!NoToken
  <2>1. /\ token' = [token EXCEPT ![new] = [live |-> TRUE, since |-> password]]
        /\ logins' = IF sessionCall[c].at = "login" THEN logins + 1 ELSE logins
        /\ Auth!Go(c, "done")
    BY <1>3 DEF Auth!Save, Auth!At
  <2>2. /\ x \in SessionCall /\ x.at = "done" /\ x.res = NoReset
        /\ sessionCall' = [sessionCall EXCEPT ![c] = x]
    BY <1>1, <2>1 DEF Auth!Go, Auth!SessionsIInv, Auth!ResetsHandedOut, SessionCall, Auth!SessionPlaces
  <2> HIDE DEF x
  <2>3. /\ password \in 0..Auth!MaxPassword /\ password \in Nat /\ logins \in Nat /\ doubled \in Nat
        /\ resetTwice \in Nat /\ logins' \in Nat /\ new \in Auth!Seconds
    BY <1>1, <2>1, SessionsFinite DEF Auth!SessionsIInv, Auth!SessionTypeOK, SessionCall
  <2>4. /\ token' \in [Auth!Seconds -> [live : BOOLEAN, since : -1..Auth!MaxPassword]]
        /\ token'[new].since = password /\ \A s \in Auth!Seconds : s # new => token'[s] = token[s]
    <3>1. [live |-> TRUE, since |-> password] \in [live : BOOLEAN, since : -1..Auth!MaxPassword]
      BY <2>3, SessionsFinite
    <3> QED BY <2>1, <2>3, <3>1 DEF Auth!SessionsIInv, Auth!SessionTypeOK
  <2>5. Auth!SessionTypeOK'
    <3>1. sessionCall' \in [SessionCalls -> SessionCall]
      BY <2>2, SessionMoves
    <3> QED BY <1>1, <2>3, <2>4, <3>1 DEF Auth!SessionsIInv, Auth!SessionTypeOK, SessionCall
  <2>6. Auth!LiveTokens' \in SUBSET (Auth!LiveTokens \cup {new})
    BY <2>4 DEF Auth!LiveTokens
  <2>7. Auth!OldSessionsEnd'
    <3> SUFFICES ASSUME sessionCuts = 0, NEW s \in Auth!LiveTokens'
                 PROVE  token'[s].since = password \/ Auth!Revoking'
      BY <1>1 DEF Auth!OldSessionsEnd
    <3>1. CASE s = new
      BY <2>4, <3>1
    <3>2. CASE s # new
      <4>1. s \in Auth!LiveTokens /\ s \in Auth!Seconds /\ token'[s] = token[s]
        BY <2>4, <2>6, <3>2 DEF Auth!LiveTokens
      <4>2. token[s].since = password \/ Auth!Revoking
        BY <4>1 DEF Auth!SessionsIInv, Auth!OldSessionsEnd
      <4>3. Auth!Revoking => Auth!Revoking'
        BY <1>1, <2>2, SessionMoves DEF Auth!Revoking, Auth!At
      <4> QED BY <4>1, <4>2, <4>3
    <3> QED BY <3>1, <3>2
  <2>8. Auth!RotationsFromLogins' /\ Auth!ResetsAreSpent' /\ Auth!PasswordsWritten'
    <3>1. Auth!RotationsFromLogins /\ Auth!ResetsAreSpent /\ Auth!PasswordsWritten
      BY DEF Auth!SessionsIInv
    <3>2. /\ Cardinality(Saving') <= Cardinality(Saving) /\ Cardinality(Saving') \in Nat
          /\ sessionCall[c].at = "save" => Cardinality(Saving') + 1 <= Cardinality(Saving)
          /\ Cardinality(Resetters') <= Cardinality(Resetters) /\ Cardinality(Resetters') \in Nat
          /\ Cardinality(Past) <= Cardinality(Past') /\ Cardinality(Past') \in Nat
      BY <1>1, <2>2, SessionMoves DEF SessionEnds
    <3>3. /\ Cardinality(Auth!LiveTokens') <= Cardinality(Auth!LiveTokens) + 1
          /\ Cardinality(Auth!LiveTokens') \in Nat
      BY <2>6, SessionsFinite, OneMore
    <3>4. Auth!RotationsFromLogins'
      BY <1>1, <2>1, <2>3, <3>1, <3>2, <3>3, SessionCounts, SessionsFinite
    <3>5. SpentTokens' = SpentTokens
      BY <1>1 DEF SpentTokens
    <3> QED BY <1>1, <2>3, <3>1, <3>2, <3>4, <3>5, SessionCounts, SessionsFinite
  <2>9. Auth!ResetsHandedOut'
    BY <1>1, <2>2, ResetsStayHandedOut
  <2> QED BY <2>5, <2>7, <2>8, <2>9 DEF Auth!SessionsIInv
<1> QED BY <1>2, <1>3

(* The password is written; the sessions are not revoked yet.                *)
LEMMA SessionChanges ==
    ASSUME Auth!SessionsIInv, NEW c \in SessionCalls, Auth!Change(c)
    PROVE  Auth!SessionsIInv'
<1> DEFINE x == [sessionCall[c] EXCEPT !.at = "revokeAll"]
<1>1. /\ sessionCall[c].at = "change" /\ sessionCall[c] \in SessionCall /\ password' = password + 1
      /\ UNCHANGED <<token, reset, second, logins, doubled, resetTwice, sessionCuts>>
  BY AnySessionCall DEF Auth!Change, Auth!At, Auth!HistoryUnchanged
<1>2. /\ x \in SessionCall /\ x.at = "revokeAll" /\ x.res = NoReset
      /\ sessionCall' = [sessionCall EXCEPT ![c] = x]
  BY <1>1 DEF Auth!Change, Auth!Go, Auth!SessionsIInv, Auth!ResetsHandedOut, SessionCall,
     Auth!SessionPlaces
<1> HIDE DEF x
<1>3. /\ password \in Nat /\ logins \in Nat /\ doubled \in Nat /\ resetTwice \in Nat
      /\ Auth!RotationsFromLogins /\ Auth!ResetsAreSpent /\ Auth!PasswordsWritten
  BY SessionsFinite DEF Auth!SessionsIInv, Auth!SessionTypeOK
<1>4. /\ Cardinality(Saving') <= Cardinality(Saving) /\ Cardinality(Saving') \in Nat
      /\ Cardinality(Resetters') <= Cardinality(Resetters) /\ Cardinality(Resetters') \in Nat
      /\ Cardinality(Past) + 1 <= Cardinality(Past') /\ Cardinality(Past') \in Nat
      /\ Cardinality(Past') <= Auth!MaxPassword
  BY <1>1, <1>2, SessionMoves, SessionsFinite DEF SessionEnds
<1>5. Auth!LiveTokens' = Auth!LiveTokens /\ SpentTokens' = SpentTokens
  BY <1>1 DEF Auth!LiveTokens, SpentTokens
<1>6. Auth!RotationsFromLogins' /\ Auth!ResetsAreSpent' /\ Auth!PasswordsWritten'
  BY <1>1, <1>3, <1>4, <1>5, SessionCounts, SessionsFinite
<1>7. password' \in 0..Auth!MaxPassword
  BY <1>1, <1>3, <1>4, SessionCounts, SessionsFinite
<1>8. Auth!SessionTypeOK'
  <2>1. sessionCall' \in [SessionCalls -> SessionCall]
    BY <1>2, SessionMoves
  <2> QED BY <1>1, <1>7, <2>1 DEF Auth!SessionsIInv, Auth!SessionTypeOK, SessionCall
<1>9. Auth!OldSessionsEnd'
  BY <1>2, SessionMoves DEF Auth!OldSessionsEnd, Auth!Revoking, Auth!At
<1>10. Auth!ResetsHandedOut'
  BY <1>1, <1>2, ResetsStayHandedOut
<1> QED BY <1>6, <1>8, <1>9, <1>10 DEF Auth!SessionsIInv

(* resetPassword: the password, the token and the sessions in one step.      *)
LEMMA SessionResets ==
    ASSUME Auth!SessionsIInv, NEW c \in SessionCalls, Auth!Reset(c)
    PROVE  Auth!SessionsIInv'
<1> DEFINE t == sessionCall[c].res
           x == [sessionCall[c] EXCEPT !.at = "done"]
<1>1. /\ sessionCall[c].at = "reset" /\ sessionCall[c] \in SessionCall /\ password' = password + 1
      /\ reset' = [reset EXCEPT ![t] = "used"] /\ token' = Auth!AllRevoked
      /\ resetTwice' = IF reset[t] = "used" THEN resetTwice + 1 ELSE resetTwice
      /\ UNCHANGED <<second, logins, doubled, sessionCuts>>
  BY AnySessionCall DEF Auth!Reset, Auth!At
<1>2. /\ x \in SessionCall /\ x.at = "done" /\ sessionCall' = [sessionCall EXCEPT ![c] = x]
  BY <1>1 DEF Auth!Reset, Auth!Go, SessionCall, Auth!SessionPlaces
<1> HIDE DEF x
<1>3. /\ password \in Nat /\ logins \in Nat /\ doubled \in Nat /\ resetTwice \in Nat /\ resetTwice' \in Nat
      /\ Auth!RotationsFromLogins /\ Auth!ResetsAreSpent /\ Auth!PasswordsWritten
      /\ t \in ResetTokens /\ reset[t] \in {"open", "used"}
      /\ reset' \in [ResetTokens -> {"none", "open", "used"}]
      /\ \A u \in ResetTokens : u # t => reset'[u] = reset[u]
      /\ reset'[t] = "used"
  BY <1>1, SessionsFinite DEF Auth!SessionsIInv, Auth!SessionTypeOK, Auth!ResetsHandedOut, Auth!At
<1>4. /\ Cardinality(Saving') <= Cardinality(Saving) /\ Cardinality(Saving') \in Nat
      /\ Cardinality(Resetters') <= Cardinality(Resetters) + 1 /\ Cardinality(Resetters') \in Nat
      /\ Cardinality(Past) + 1 <= Cardinality(Past') /\ Cardinality(Past') \in Nat
      /\ Cardinality(Past') <= Auth!MaxPassword
  BY <1>1, <1>2, SessionMoves, SessionsFinite DEF SessionEnds
<1>5. Auth!LiveTokens' = {} /\ Cardinality(Auth!LiveTokens') = 0
  <2>1. Auth!LiveTokens' = {}
    BY <1>1, AllAreRevoked DEF Auth!LiveTokens, Auth!SessionsIInv
  <2> QED BY <2>1, FS_EmptySet
<1>6. SpentTokens' = SpentTokens \cup {t} /\ (t \in SpentTokens <=> reset[t] = "used")
  BY <1>3 DEF SpentTokens
<1>7. /\ reset[t] = "used" => Cardinality(SpentTokens') = Cardinality(SpentTokens)
      /\ reset[t] # "used" => Cardinality(SpentTokens') = Cardinality(SpentTokens) + 1
  BY <1>6, SessionsFinite, FS_AddElement
<1>8. Auth!RotationsFromLogins' /\ Auth!ResetsAreSpent' /\ Auth!PasswordsWritten'
  <2>1. Auth!RotationsFromLogins'
    BY <1>1, <1>3, <1>4, <1>5, SessionCounts, SessionsFinite
  <2>2. Cardinality(Resetters') <= Cardinality(SpentTokens') + resetTwice'
    BY <1>1, <1>3, <1>4, <1>7, SessionCounts, SessionsFinite
  <2> QED BY <1>1, <1>3, <1>4, <2>1, <2>2, SessionCounts, SessionsFinite
<1>9. password' \in 0..Auth!MaxPassword
  BY <1>1, <1>3, <1>4, SessionCounts, SessionsFinite
<1>10. Auth!SessionTypeOK'
  <2>1. sessionCall' \in [SessionCalls -> SessionCall]
    BY <1>2, SessionMoves
  <2> QED BY <1>1, <1>3, <1>9, <2>1, AllAreRevoked DEF Auth!SessionsIInv, Auth!SessionTypeOK, SessionCall
<1>11. Auth!OldSessionsEnd'
  BY <1>5 DEF Auth!OldSessionsEnd
<1>12. Auth!ResetsHandedOut'
  BY <1>2, <1>3, ResetsStayHandedOut
<1> QED BY <1>8, <1>10, <1>11, <1>12 DEF Auth!SessionsIInv

(* A second passes.                                                          *)
LEMMA SessionsPass == ASSUME Auth!SessionsIInv, Auth!Pass PROVE Auth!SessionsIInv'
<1>1. /\ second < MaxSecond /\ second' = second + 1
      /\ UNCHANGED <<password, token, reset, sessionCall, logins, doubled, resetTwice, sessionCuts>>
  BY DEF Auth!Pass, Auth!RowsUnchanged
<1>2. second' \in Auth!Seconds
  BY <1>1, ServicesAssumption DEF Auth!SessionsAssumption, Auth!SessionsIInv, Auth!SessionTypeOK,
     Auth!Seconds
<1> QED BY <1>1, <1>2 DEF Auth!SessionsIInv, Auth!SessionTypeOK, Auth!OldSessionsEnd, Auth!Revoking,
           Auth!LiveTokens, Auth!RotationsFromLogins, Auth!ResetsHandedOut, Auth!ResetsAreSpent,
           Auth!PasswordsWritten, Auth!At

LEMMA SessionsStep == Auth!SessionsIInv /\ [Auth!SessionNext]_authVars => Auth!SessionsIInv'
<1> SUFFICES ASSUME Auth!SessionsIInv, [Auth!SessionNext]_authVars PROVE Auth!SessionsIInv'
  OBVIOUS
<1>1. CASE UNCHANGED authVars
  BY <1>1 DEF authVars, Auth!SessionsIInv, Auth!SessionTypeOK, Auth!OldSessionsEnd, Auth!Revoking,
     Auth!LiveTokens, Auth!RotationsFromLogins, Auth!ResetsHandedOut, Auth!ResetsAreSpent,
     Auth!PasswordsWritten, Auth!At
<1> QED BY <1>1, SessionReads, SessionRevokes, SessionSaves, SessionChanges, SessionLeaves,
        SessionResets, SessionCut, SessionsPass DEF Auth!SessionNext

-----------------------------------------------------------------------------
(* Companies, users and providers before a first payment.                    *)

ClientCall == [at : Companies!ClientPlaces, what : Companies!Tables \cup Currencies \cup {"none"},
               rate : Companies!Fields \cup {"none"}, days : Companies!Fields \cup {"none"}, saw : Nat]

LEMMA CompaniesStart == Companies!Init => Companies!OnboardingIInv
<1> SUFFICES ASSUME Companies!Init PROVE Companies!OnboardingIInv
  OBVIOUS
<1> USE ServicesAssumption DEF Companies!OnboardingAssumption, Companies!Init
<1>1. Companies!OnboardingTypeOK
  <2>1. Companies!NewClient \in ClientCall
    BY DEF Companies!NewClient, ClientCall, Companies!ClientPlaces
  <2>2. tax \in [Currencies -> [there : BOOLEAN, rate : BOOLEAN, days : BOOLEAN]]
    BY DEF Companies!NoTax
  <2>3. client \in [Clients -> ClientCall]
    BY <2>1
  <2>4. rows \in [Companies!Tables -> Nat] /\ unseen \in [Companies!Tables -> Nat]
    OBVIOUS
  <2>5. built \in [Clients -> 0..Companies!CompanyRows]
    BY DEF Companies!CompanyRows
  <2>6. broken \in 0..MaxBroken
    OBVIOUS
  <2>7. /\ file \in [Companies!Files -> Clients \cup {NoClient}]
        /\ document \in Clients \cup {NoClient}
        /\ partial \in BOOLEAN /\ active \in BOOLEAN /\ uploadsMet \in BOOLEAN
    OBVIOUS
  <2> QED BY <2>2, <2>3, <2>4, <2>5, <2>6, <2>7 DEF Companies!OnboardingTypeOK, ClientCall
<1>2. /\ Companies!SawNone /\ Companies!BuiltInOrder /\ Companies!UploadsInTurn
      /\ Companies!ReserveToWrite
  BY DEF Companies!SawNone, Companies!BuiltInOrder, Companies!UploadsInTurn, Companies!ReserveToWrite,
     Companies!NewClient, Companies!ClientAt, Companies!UploadPlaces
<1>3. Companies!NoDuplicates /\ Companies!FilesAreTheRows /\ Companies!ReserveHasDays
  BY DEF Companies!NoDuplicates, Companies!FilesAreTheRows, Companies!ReserveHasDays, Companies!NoTax
<1> QED BY <1>1, <1>2, <1>3 DEF Companies!OnboardingIInv

LEMMA AnyClient ==
    ASSUME Companies!OnboardingIInv, NEW c \in Clients
    PROVE  client[c] \in ClientCall
BY DEF Companies!OnboardingIInv, Companies!OnboardingTypeOK, ClientCall

(* A request goes from one place to another: what its new place asks of it.  *)
LEMMA ClientMoves ==
    ASSUME Companies!OnboardingIInv, NEW c \in Clients, NEW x \in ClientCall,
           client' = [client EXCEPT ![c] = x],
           x.at = "insert" => x.saw = 0 /\ x.what \in Companies!Tables,
           x.at = "build" => built'[c] < Companies!CompanyRows,
           \A d \in Clients : d # c => built'[d] = built[d],
           x.at \in {"write", "create"} =>
               /\ x.what \in Currencies /\ {x.rate, x.days} \subseteq Companies!Fields
               /\ ~partial' => "omitted" \notin {x.rate, x.days} /\ Companies!Valid(x.rate, x.days),
           partial => partial'
    PROVE  /\ client' \in [Clients -> ClientCall]
           /\ client'[c] = x /\ \A d \in Clients : d # c => client'[d] = client[d]
           /\ Companies!SawNone' /\ Companies!BuiltInOrder' /\ Companies!ReserveToWrite'
<1>1. /\ client' \in [Clients -> ClientCall] /\ client'[c] = x
      /\ \A d \in Clients : d # c => client'[d] = client[d]
  BY DEF Companies!OnboardingIInv, Companies!OnboardingTypeOK, ClientCall
<1>2. Companies!SawNone'
  BY <1>1 DEF Companies!OnboardingIInv, Companies!SawNone, Companies!ClientAt
<1>3. Companies!BuiltInOrder'
  BY <1>1 DEF Companies!OnboardingIInv, Companies!BuiltInOrder, Companies!ClientAt
<1>4. Companies!ReserveToWrite'
  <2> SUFFICES ASSUME NEW d \in Clients, client'[d].at \in {"write", "create"}
               PROVE  /\ client'[d].what \in Currencies
                      /\ {client'[d].rate, client'[d].days} \subseteq Companies!Fields
                      /\ ~partial' => /\ "omitted" \notin {client'[d].rate, client'[d].days}
                                      /\ Companies!Valid(client'[d].rate, client'[d].days)
    BY DEF Companies!ReserveToWrite, Companies!Valid
  <2>1. CASE d = c
    BY <1>1, <2>1
  <2>2. CASE d # c
    BY <1>1, <2>2 DEF Companies!OnboardingIInv, Companies!ReserveToWrite
  <2> QED BY <2>1, <2>2
<1> QED BY <1>1, <1>2, <1>3, <1>4

(* A request outside of an upload, or at its end, leaves uploads alone.      *)
LEMMA NoUploadMoves ==
    ASSUME Companies!OnboardingIInv, NEW c \in Clients, NEW x \in ClientCall,
           client' = [client EXCEPT ![c] = x], x.at \notin Companies!UploadPlaces,
           UNCHANGED <<file, document, uploadsMet>>
    PROVE  Companies!UploadsInTurn' /\ Companies!FilesAreTheRows'
<1>1. client'[c] = x /\ \A d \in Clients : d # c => client'[d] = client[d]
  BY DEF Companies!OnboardingIInv, Companies!OnboardingTypeOK
<1> QED BY <1>1 DEF Companies!OnboardingIInv, Companies!UploadsInTurn, Companies!FilesAreTheRows,
           Companies!UploadPlaces

(* The other tables rest.                                                    *)
LEMMA TaxesRest ==
    ASSUME Companies!OnboardingIInv, UNCHANGED tax, partial => partial'
    PROVE  Companies!ReserveHasDays'
BY DEF Companies!OnboardingIInv, Companies!ReserveHasDays

LEMMA RowsRest ==
    ASSUME Companies!OnboardingIInv, UNCHANGED <<rows, unseen>>
    PROVE  Companies!NoDuplicates'
BY DEF Companies!OnboardingIInv, Companies!NoDuplicates

(* A request that is refused, done or cut off, with nothing written.         *)
LEMMA ClientEnds ==
    ASSUME Companies!OnboardingIInv, NEW c \in Clients, NEW place \in {"done", "refused"},
           Companies!Moves(c, place),
           UNCHANGED <<rows, built, tax, file, document, active, unseen, uploadsMet>>,
           partial' \in BOOLEAN, partial => partial', broken' \in 0..MaxBroken
    PROVE  Companies!OnboardingIInv'
<1> DEFINE x == [client[c] EXCEPT !.at = place]
<1>1. x \in ClientCall /\ x.at = place /\ client' = [client EXCEPT ![c] = x]
  BY AnyClient DEF ClientCall, Companies!ClientPlaces, Companies!Moves
<1> HIDE DEF x
<1>2. client' \in [Clients -> ClientCall] /\ Companies!SawNone' /\ Companies!BuiltInOrder' /\ Companies!ReserveToWrite'
  BY <1>1, ClientMoves
<1>3. Companies!UploadsInTurn' /\ Companies!FilesAreTheRows'
  BY <1>1, NoUploadMoves DEF Companies!UploadPlaces
<1>4. Companies!OnboardingTypeOK'
  BY <1>2 DEF Companies!OnboardingIInv, Companies!OnboardingTypeOK, ClientCall
<1> QED BY <1>2, <1>3, <1>4, TaxesRest, RowsRest DEF Companies!OnboardingIInv

(* The look for a row that must not be there.                                *)
LEMMA ClientFinds ==
    ASSUME Companies!OnboardingIInv, NEW c \in Clients, NEW t \in Companies!Tables, Companies!Find(c, t)
    PROVE  Companies!OnboardingIInv'
<1>1. /\ UNCHANGED <<rows, built, tax, partial, file, document, active, uploadsMet, unseen, broken>>
      /\ partial \in BOOLEAN /\ broken \in 0..MaxBroken
  BY DEF Companies!Find, Companies!taxVars, Companies!documentVars, Companies!OnboardingIInv,
     Companies!OnboardingTypeOK
<1>2. CASE ~Companies!NotThere(t)
  BY <1>1, <1>2, ClientEnds DEF Companies!Find
<1>3. CASE Companies!NotThere(t)
  <2> DEFINE x == [client[c] EXCEPT !.at = "insert", !.what = t, !.saw = rows[t]]
  <2>1. rows[t] = 0
    BY <1>3 DEF Companies!NotThere
  <2>2. /\ x \in ClientCall /\ x.at = "insert" /\ x.what = t /\ x.saw = 0
        /\ client' = [client EXCEPT ![c] = x]
    <3>1. client[c] \in ClientCall
      BY AnyClient
    <3>2. x = [client[c] EXCEPT !.at = "insert", !.what = t, !.saw = 0]
      BY <2>1
    <3>4. client' = [client EXCEPT ![c] = x]
      BY <1>3 DEF Companies!Find
    <3> HIDE DEF x
    <3>3. x \in ClientCall /\ x.at = "insert" /\ x.what = t /\ x.saw = 0
      BY <3>1, <3>2 DEF ClientCall, Companies!ClientPlaces
    <3> QED BY <3>3, <3>4
  <2> HIDE DEF x
  <2>3. client' \in [Clients -> ClientCall] /\ Companies!SawNone' /\ Companies!BuiltInOrder' /\ Companies!ReserveToWrite'
    BY <1>1, <2>2, ClientMoves
  <2>4. Companies!UploadsInTurn' /\ Companies!FilesAreTheRows'
    BY <1>1, <2>2, NoUploadMoves DEF Companies!UploadPlaces
  <2>5. Companies!OnboardingTypeOK'
    BY <1>1, <2>3 DEF Companies!OnboardingIInv, Companies!OnboardingTypeOK, ClientCall
  <2> QED BY <1>1, <2>3, <2>4, <2>5, TaxesRest, RowsRest DEF Companies!OnboardingIInv
<1> QED BY <1>2, <1>3

(* The insert: refused by an index, or beside what came since the look.      *)
LEMMA ClientInserts ==
    ASSUME Companies!OnboardingIInv, NEW c \in Clients, NEW t \in Companies!Tables,
           NEW next \in {"done", "build"}, Companies!Insert(c, t, next),
           built' = IF next = "build" THEN [built EXCEPT ![c] = 1] ELSE built
    PROVE  Companies!OnboardingIInv'
<1>1. /\ UNCHANGED <<tax, partial, file, document, active, uploadsMet, broken>>
      /\ partial \in BOOLEAN /\ broken \in 0..MaxBroken
      /\ client[c].at = "insert" /\ client[c].what = t /\ client[c].saw = 0
      /\ rows \in [Companies!Tables -> Nat] /\ unseen \in [Companies!Tables -> Nat]
      /\ built \in [Clients -> 0..Companies!CompanyRows]
  BY DEF Companies!Insert, Companies!taxVars, Companies!documentVars, Companies!OnboardingIInv,
     Companies!OnboardingTypeOK, Companies!SawNone, Companies!ClientAt
<1>2. /\ built' \in [Clients -> 0..Companies!CompanyRows]
      /\ next = "build" => built'[c] < Companies!CompanyRows
      /\ \A d \in Clients : d # c => built'[d] = built[d]
  BY <1>1 DEF Companies!CompanyRows
<1>3. PICK place \in {"done", "build", "refused"} :
        /\ Companies!Moves(c, place) /\ place \in {next, "refused"}
        /\ \/ place = "refused" /\ t \in Companies!Indexed /\ UNCHANGED <<rows, unseen>>
           \/ /\ t \in Companies!Indexed => ~(rows[t] > 0)
              /\ rows' = [rows EXCEPT ![t] = @ + 1]
              /\ unseen' = [unseen EXCEPT ![t] = IF rows[t] > client[c].saw THEN @ + 1 ELSE @]
  BY DEF Companies!Insert
<1> DEFINE x == [client[c] EXCEPT !.at = place]
<1>4. x \in ClientCall /\ x.at = place /\ client' = [client EXCEPT ![c] = x]
  BY <1>3, AnyClient DEF ClientCall, Companies!ClientPlaces, Companies!Moves
<1> HIDE DEF x
<1>5. client' \in [Clients -> ClientCall] /\ Companies!SawNone' /\ Companies!BuiltInOrder' /\ Companies!ReserveToWrite'
  BY <1>1, <1>2, <1>3, <1>4, ClientMoves
<1>6. Companies!UploadsInTurn' /\ Companies!FilesAreTheRows'
  BY <1>1, <1>4, NoUploadMoves DEF Companies!UploadPlaces
<1>7. /\ rows' \in [Companies!Tables -> Nat] /\ unseen' \in [Companies!Tables -> Nat]
      /\ Companies!NoDuplicates'
  <2>1. CASE UNCHANGED <<rows, unseen>>
    BY <1>1, <2>1, RowsRest
  <2>2. CASE /\ t \in Companies!Indexed => ~(rows[t] > 0)
             /\ rows' = [rows EXCEPT ![t] = @ + 1]
             /\ unseen' = [unseen EXCEPT ![t] = IF rows[t] > client[c].saw THEN @ + 1 ELSE @]
    <3>1. rows' \in [Companies!Tables -> Nat] /\ unseen' \in [Companies!Tables -> Nat]
      BY <1>1, <2>2
    <3>2. ASSUME NEW s \in Companies!Tables
          PROVE  rows'[s] <= 1 + (IF s \in Companies!Indexed THEN 0 ELSE unseen'[s])
      <4>1. rows[s] <= 1 + (IF s \in Companies!Indexed THEN 0 ELSE unseen[s])
        BY DEF Companies!OnboardingIInv, Companies!NoDuplicates
      <4>2. CASE s # t
        BY <1>1, <2>2, <4>1, <4>2
      <4>3. CASE s = t
        <5>1. /\ rows[t] \in Nat /\ unseen[t] \in Nat /\ rows'[t] = rows[t] + 1
              /\ unseen'[t] = IF rows[t] > 0 THEN unseen[t] + 1 ELSE unseen[t]
          BY <1>1, <2>2
        <5> QED BY <2>2, <4>1, <4>3, <5>1
      <4> QED BY <4>2, <4>3
    <3> QED BY <3>1, <3>2 DEF Companies!NoDuplicates
  <2> QED BY <1>3, <2>1, <2>2
<1>8. Companies!OnboardingTypeOK'
  BY <1>1, <1>2, <1>5, <1>7 DEF Companies!OnboardingIInv, Companies!OnboardingTypeOK, ClientCall
<1> QED BY <1>1, <1>5, <1>6, <1>7, <1>8, TaxesRest DEF Companies!OnboardingIInv

(* Registering a company: its other rows, one by one.                        *)
LEMMA ClientBuilds ==
    ASSUME Companies!OnboardingIInv, NEW c \in Clients, Companies!Build(c)
    PROVE  Companies!OnboardingIInv'
<1>1. /\ UNCHANGED <<rows, tax, partial, file, document, active, uploadsMet, unseen, broken>>
      /\ built \in [Clients -> 0..Companies!CompanyRows]
      /\ built[c] < Companies!CompanyRows
      /\ built' = [built EXCEPT ![c] = @ + 1]
  BY DEF Companies!Build, Companies!taxVars, Companies!documentVars, Companies!OnboardingIInv,
     Companies!OnboardingTypeOK, Companies!BuiltInOrder
<1> DEFINE place == IF built[c] + 1 = Companies!CompanyRows THEN "done" ELSE "build"
<1> DEFINE x == [client[c] EXCEPT !.at = place]
<1>2. x \in ClientCall /\ x.at = place /\ client' = [client EXCEPT ![c] = x]
  BY AnyClient DEF ClientCall, Companies!ClientPlaces, Companies!Moves, Companies!Build
<1>3. /\ built' \in [Clients -> 0..Companies!CompanyRows] /\ built'[c] = built[c] + 1
      /\ \A d \in Clients : d # c => built'[d] = built[d]
  BY <1>1 DEF Companies!CompanyRows
<1>4. place \in {"done", "build"} /\ (place = "build" => built'[c] < Companies!CompanyRows)
  BY <1>1, <1>3 DEF Companies!CompanyRows
<1> HIDE DEF x, place
<1>5. client' \in [Clients -> ClientCall] /\ Companies!SawNone' /\ Companies!BuiltInOrder' /\ Companies!ReserveToWrite'
  BY <1>1, <1>2, <1>3, <1>4, ClientMoves
<1>6. Companies!UploadsInTurn' /\ Companies!FilesAreTheRows'
  BY <1>1, <1>2, <1>4, NoUploadMoves DEF Companies!UploadPlaces
<1>7. Companies!OnboardingTypeOK'
  BY <1>1, <1>3, <1>5 DEF Companies!OnboardingIInv, Companies!OnboardingTypeOK, ClientCall
<1> QED BY <1>1, <1>5, <1>6, <1>7, TaxesRest, RowsRest DEF Companies!OnboardingIInv

(* A step of an upload: unless it met another, it is alone, and what it has  *)
(* stored is under its name.                                                 *)
LEMMA UploadMoves ==
    ASSUME Companies!OnboardingIInv, NEW c \in Clients, NEW place \in Companies!UploadPlaces \cup {"done"},
           Companies!Moves(c, place), UNCHANGED <<rows, built, tax, partial, unseen, broken>>,
           file' \in [Companies!Files -> Clients \cup {NoClient}],
           document' \in Clients \cup {NoClient}, active' \in BOOLEAN, uploadsMet' \in BOOLEAN,
           uploadsMet => uploadsMet',
           ~uploadsMet' =>
               /\ \A d \in Clients : d # c => client[d].at \notin Companies!UploadPlaces
               /\ place \in {"selfie", "row"} => file'["contract"] = c
               /\ place = "row" => file'["selfie"] = c
               /\ document' # NoClient => place \notin {"contract", "selfie", "row"}
               /\ document' # NoClient => \A f \in Companies!Files : file'[f] = document'
    PROVE  Companies!OnboardingIInv'
<1> DEFINE x == [client[c] EXCEPT !.at = place]
<1>1. x \in ClientCall /\ x.at = place /\ client' = [client EXCEPT ![c] = x]
  BY AnyClient DEF ClientCall, Companies!ClientPlaces, Companies!Moves
<1> HIDE DEF x
<1>2. place \notin {"insert", "build", "write", "create"}
  BY DEF Companies!UploadPlaces
<1>3. /\ client' \in [Clients -> ClientCall] /\ client'[c] = x
      /\ \A d \in Clients : d # c => client'[d] = client[d]
      /\ Companies!SawNone' /\ Companies!BuiltInOrder' /\ Companies!ReserveToWrite'
  BY <1>1, <1>2, ClientMoves
<1>4. Companies!UploadsInTurn'
  <2> SUFFICES ASSUME ~uploadsMet'
               PROVE  /\ \A d, e \in Clients :
                           {client'[d].at, client'[e].at} \subseteq Companies!UploadPlaces => d = e
                      /\ \A d \in Clients :
                           /\ client'[d].at \in {"selfie", "row"} => file'["contract"] = d
                           /\ client'[d].at = "row" => file'["selfie"] = d
                           /\ document' # NoClient => client'[d].at \notin {"contract", "selfie", "row"}
    BY DEF Companies!UploadsInTurn, Companies!UploadPlaces
  <2>1. \A d \in Clients : d # c => client'[d].at \notin Companies!UploadPlaces
    BY <1>3
  <2> QED BY <1>1, <1>3, <2>1 DEF Companies!UploadPlaces
<1>5. Companies!FilesAreTheRows'
  BY DEF Companies!FilesAreTheRows, Companies!Files
<1>6. Companies!OnboardingTypeOK'
  BY <1>3 DEF Companies!OnboardingIInv, Companies!OnboardingTypeOK, ClientCall
<1> QED BY <1>3, <1>4, <1>5, <1>6, TaxesRest, RowsRest DEF Companies!OnboardingIInv

LEMMA UploadSteps ==
    ASSUME Companies!OnboardingIInv, NEW c \in Clients,
           Companies!FindNoDocument(c) \/ Companies!StoreFile(c) \/ Companies!InsertDocument(c)
           \/ Companies!Activate(c)
    PROVE  Companies!OnboardingIInv'
<1>1. /\ file \in [Companies!Files -> Clients \cup {NoClient}]
      /\ document \in Clients \cup {NoClient} /\ active \in BOOLEAN /\ uploadsMet \in BOOLEAN
      /\ partial \in BOOLEAN /\ broken \in 0..MaxBroken /\ c # NoClient
  BY ServicesAssumption DEF Companies!OnboardingIInv, Companies!OnboardingTypeOK,
     Companies!OnboardingAssumption
<1>2. UNCHANGED <<rows, built, tax, partial, unseen, broken>>
  BY DEF Companies!FindNoDocument, Companies!StoreFile, Companies!InsertDocument, Companies!Activate,
     Companies!taxVars
<1>3. client[c].at \in Companies!UploadPlaces /\ ~uploadsMet =>
        \A d \in Clients : d # c => client[d].at \notin Companies!UploadPlaces
  BY DEF Companies!OnboardingIInv, Companies!UploadsInTurn
<1>4. CASE Companies!FindNoDocument(c) /\ document = NoClient
  <2>1. /\ Companies!Moves(c, "contract") /\ uploadsMet' = (uploadsMet \/ Companies!Uploading)
        /\ UNCHANGED <<file, document, active>>
    BY <1>4 DEF Companies!FindNoDocument
  <2>2. uploadsMet' \in BOOLEAN /\ (uploadsMet => uploadsMet')
    BY <1>1, <2>1
  <2>3. ~uploadsMet' => \A d \in Clients : client[d].at \notin Companies!UploadPlaces
    BY <2>1 DEF Companies!Uploading
  <2>4. "contract" \in Companies!UploadPlaces
    BY DEF Companies!UploadPlaces
  <2> QED BY <1>1, <1>2, <1>4, <2>1, <2>2, <2>3, <2>4, UploadMoves
<1>5. CASE Companies!FindNoDocument(c) /\ document # NoClient
  BY <1>1, <1>2, <1>5, ClientEnds DEF Companies!FindNoDocument
<1>6. CASE Companies!StoreFile(c)
  <2>1. /\ client[c].at \in Companies!Files
        /\ file' = [file EXCEPT ![client[c].at] = c]
        /\ Companies!Moves(c, IF client[c].at = "contract" THEN "selfie" ELSE "row")
        /\ UNCHANGED <<document, active, uploadsMet>>
    BY <1>6 DEF Companies!StoreFile, Companies!ClientAt
  <2>2. file' \in [Companies!Files -> Clients \cup {NoClient}]
    BY <1>1, <2>1
  <2>3. ~uploadsMet => /\ client[c].at = "selfie" => file["contract"] = c
                       /\ document = NoClient
    BY <2>1 DEF Companies!OnboardingIInv, Companies!UploadsInTurn, Companies!Files
  <2>4. CASE client[c].at = "contract"
    <3>1. /\ Companies!Moves(c, "selfie") /\ file'["contract"] = c
          /\ "selfie" \in Companies!UploadPlaces /\ client[c].at \in Companies!UploadPlaces
      BY <1>1, <2>1, <2>4 DEF Companies!Files, Companies!UploadPlaces
    <3> QED BY <1>1, <1>2, <1>3, <2>1, <2>2, <2>3, <3>1, UploadMoves
  <2>5. CASE client[c].at = "selfie"
    <3>1. /\ Companies!Moves(c, "row") /\ file'["selfie"] = c /\ file'["contract"] = file["contract"]
          /\ "row" \in Companies!UploadPlaces /\ client[c].at \in Companies!UploadPlaces
      BY <1>1, <2>1, <2>5 DEF Companies!Files, Companies!UploadPlaces
    <3>2. ~uploadsMet => file'["contract"] = c
      BY <2>3, <2>5, <3>1
    <3> QED BY <1>1, <1>2, <1>3, <2>1, <2>2, <2>3, <3>1, <3>2, UploadMoves
  <2> QED BY <2>1, <2>4, <2>5 DEF Companies!Files
<1>7. CASE Companies!InsertDocument(c) /\ document = NoClient
  <2>1. /\ client[c].at = "row" /\ document' = c /\ Companies!Moves(c, "activate")
        /\ UNCHANGED <<file, active, uploadsMet>>
        /\ "row" \in Companies!UploadPlaces /\ "activate" \in Companies!UploadPlaces
    BY <1>7 DEF Companies!InsertDocument, Companies!ClientAt, Companies!UploadPlaces
  <2>2. ~uploadsMet => \A f \in Companies!Files : file'[f] = document'
    BY <2>1 DEF Companies!OnboardingIInv, Companies!UploadsInTurn, Companies!Files
  <2> QED BY <1>1, <1>2, <1>3, <2>1, <2>2, UploadMoves
<1>8. CASE Companies!InsertDocument(c) /\ document # NoClient
  BY <1>1, <1>2, <1>8, ClientEnds DEF Companies!InsertDocument
<1>9. CASE Companies!Activate(c)
  <2>1. /\ client[c].at = "activate" /\ active' = TRUE /\ Companies!Moves(c, "done")
        /\ UNCHANGED <<file, document, uploadsMet>>
        /\ "activate" \in Companies!UploadPlaces
    BY <1>9 DEF Companies!Activate, Companies!ClientAt, Companies!UploadPlaces
  <2>2. document # NoClient /\ ~uploadsMet => \A f \in Companies!Files : file[f] = document
    BY DEF Companies!OnboardingIInv, Companies!FilesAreTheRows
  <2> QED BY <1>1, <1>2, <1>3, <2>1, <2>2, UploadMoves
<1> QED BY <1>4, <1>5, <1>6, <1>7, <1>8, <1>9

(* A change of the reserve is asked for and checked, or written unchecked.   *)
LEMMA TaxAsked ==
    ASSUME Companies!OnboardingIInv, NEW c \in Clients, Companies!AskTax(c) \/ Companies!AskNewTax(c)
    PROVE  Companies!OnboardingIInv'
<1>1. /\ UNCHANGED <<rows, built, tax, file, document, active, uploadsMet, unseen, broken>>
      /\ partial \in BOOLEAN /\ broken \in 0..MaxBroken
  BY DEF Companies!AskTax, Companies!AskNewTax, Companies!documentVars, Companies!OnboardingIInv,
     Companies!OnboardingTypeOK
<1>2. PICK m \in Currencies, rate \in Companies!Fields, days \in Companies!Fields,
           place \in {"write", "create", "refused"} :
        /\ partial' \in BOOLEAN /\ (partial => partial')
        /\ \/ place = "refused" /\ Companies!Moves(c, "refused")
           \/ /\ place # "refused"
              /\ client' = [client EXCEPT ![c] = [client[c] EXCEPT !.at = place, !.what = m, !.rate = rate, !.days = days]]
              /\ ~partial' => "omitted" \notin {rate, days} /\ Companies!Valid(rate, days)
  <2>1. CASE Companies!AskTax(c)
    <3>1. PICK m \in Currencies, rate \in Companies!Fields, days \in Companies!Fields :
            /\ Companies!Valid(rate, days)
            /\ client' = [client EXCEPT ![c].at = IF tax[m].there THEN "write" ELSE "create",
                                        ![c].what = m, ![c].rate = rate, ![c].days = days]
            /\ partial' = (partial \/ "omitted" \in {rate, days})
      BY <2>1 DEF Companies!AskTax
    <3>2. partial' \in BOOLEAN /\ (partial => partial') /\ (~partial' => "omitted" \notin {rate, days})
      BY <1>1, <3>1
    <3> DEFINE place == IF tax[m].there THEN "write" ELSE "create"
    <3>3. client' = [client EXCEPT ![c] = [client[c] EXCEPT !.at = place, !.what = m, !.rate = rate, !.days = days]]
      BY <3>1
    <3>4. place \in {"write", "create", "refused"} /\ place # "refused"
      OBVIOUS
    <3> HIDE DEF place
    <3>5. ~partial' => "omitted" \notin {rate, days} /\ Companies!Valid(rate, days)
      BY <3>1, <3>2
    <3> QED BY <3>2, <3>3, <3>4, <3>5
  <2>2. CASE Companies!AskNewTax(c)
    <3>1. PICK m \in Currencies, rate \in Companies!Fields, days \in Companies!Fields :
            /\ IF tax[m].there THEN Companies!Moves(c, "refused")
               ELSE client' = [client EXCEPT ![c].at = "create", ![c].what = m, ![c].rate = rate, ![c].days = days]
            /\ partial' = (partial \/ ~tax[m].there)
      BY <2>2 DEF Companies!AskNewTax
    <3>2. tax[m].there \in BOOLEAN
      BY DEF Companies!OnboardingIInv, Companies!OnboardingTypeOK
    <3>3. partial' \in BOOLEAN /\ (partial => partial') /\ (~tax[m].there => partial')
      BY <1>1, <3>1, <3>2
    <3>4. CASE tax[m].there
      BY <3>1, <3>3, <3>4
    <3>5. CASE ~tax[m].there
      <4>1. client' = [client EXCEPT ![c] = [client[c] EXCEPT !.at = "create", !.what = m, !.rate = rate, !.days = days]]
        BY <3>1, <3>5
      <4> QED BY <3>3, <3>5, <4>1
    <3> QED BY <3>4, <3>5
  <2> QED BY <2>1, <2>2
<1>3. CASE Companies!Moves(c, "refused")
  BY <1>1, <1>2, <1>3, ClientEnds
<1>4. CASE /\ place # "refused"
           /\ client' = [client EXCEPT ![c] = [client[c] EXCEPT !.at = place, !.what = m, !.rate = rate, !.days = days]]
           /\ ~partial' => "omitted" \notin {rate, days} /\ Companies!Valid(rate, days)
  <2> DEFINE x == [client[c] EXCEPT !.at = place, !.what = m, !.rate = rate, !.days = days]
  <2>1. /\ x \in ClientCall /\ x.at = place /\ x.what = m /\ x.rate = rate /\ x.days = days
        /\ client' = [client EXCEPT ![c] = x] /\ place \in {"write", "create"}
    BY <1>4, AnyClient DEF ClientCall, Companies!ClientPlaces
  <2> HIDE DEF x
  <2>5. /\ x.at \notin {"insert", "build"} /\ x.what \in Currencies
        /\ {x.rate, x.days} \subseteq Companies!Fields
        /\ ~partial' => "omitted" \notin {x.rate, x.days} /\ Companies!Valid(x.rate, x.days)
    BY <1>4, <2>1
  <2>2. client' \in [Clients -> ClientCall] /\ Companies!SawNone' /\ Companies!BuiltInOrder' /\ Companies!ReserveToWrite'
    BY <1>1, <1>2, <2>1, <2>5, ClientMoves
  <2>3. Companies!UploadsInTurn' /\ Companies!FilesAreTheRows'
    BY <1>1, <2>1, NoUploadMoves DEF Companies!UploadPlaces
  <2>4. Companies!OnboardingTypeOK'
    BY <1>1, <1>2, <2>2 DEF Companies!OnboardingIInv, Companies!OnboardingTypeOK, ClientCall
  <2> QED BY <1>1, <1>2, <2>2, <2>3, <2>4, TaxesRest, RowsRest DEF Companies!OnboardingIInv
<1> QED BY <1>2, <1>3, <1>4

(* The reserve is written as it was asked for, or its pair is there already. *)
LEMMA TaxWritten ==
    ASSUME Companies!OnboardingIInv, NEW c \in Clients, Companies!WriteTax(c)
    PROVE  Companies!OnboardingIInv'
<1> DEFINE m == client[c].what
<1> DEFINE rate == client[c].rate
<1> DEFINE days == client[c].days
<1>1. /\ UNCHANGED <<rows, built, partial, file, document, active, uploadsMet, unseen, broken>>
      /\ partial \in BOOLEAN /\ broken \in 0..MaxBroken
      /\ tax \in [Currencies -> [there : BOOLEAN, rate : BOOLEAN, days : BOOLEAN]]
  BY DEF Companies!WriteTax, Companies!documentVars, Companies!OnboardingIInv, Companies!OnboardingTypeOK
<1>2. /\ m \in Currencies /\ {rate, days} \subseteq Companies!Fields
      /\ ~partial => "omitted" \notin {rate, days} /\ Companies!Valid(rate, days)
  BY DEF Companies!WriteTax, Companies!OnboardingIInv, Companies!ReserveToWrite
<1>3. CASE Companies!Moves(c, "refused") /\ UNCHANGED tax
  BY <1>1, <1>3, ClientEnds
<1>4. CASE /\ tax' = [tax EXCEPT ![m] = [there |-> TRUE, rate |-> Companies!Column(rate, tax[m].rate),
                                         days |-> Companies!Column(days, tax[m].days)]]
           /\ Companies!Moves(c, "done")
  <2> DEFINE x == [client[c] EXCEPT !.at = "done"]
  <2>1. x \in ClientCall /\ x.at = "done" /\ client' = [client EXCEPT ![c] = x]
    BY <1>4, AnyClient DEF ClientCall, Companies!ClientPlaces, Companies!Moves
  <2> HIDE DEF x
  <2>2. client' \in [Clients -> ClientCall] /\ Companies!SawNone' /\ Companies!BuiltInOrder' /\ Companies!ReserveToWrite'
    BY <1>1, <2>1, ClientMoves
  <2>3. Companies!UploadsInTurn' /\ Companies!FilesAreTheRows'
    BY <1>1, <2>1, NoUploadMoves DEF Companies!UploadPlaces
  <2> DEFINE newRate == Companies!Column(rate, tax[m].rate)
  <2> DEFINE newDays == Companies!Column(days, tax[m].days)
  <2>4. newRate \in BOOLEAN /\ newDays \in BOOLEAN
    BY <1>1, <1>2 DEF Companies!Column, Companies!Fields
  <2>5. ~partial => (newRate => newDays)
    BY <1>1, <1>2 DEF Companies!Column, Companies!Fields, Companies!Valid
  <2> HIDE DEF newRate, newDays
  <2>6. tax' = [tax EXCEPT ![m] = [there |-> TRUE, rate |-> newRate, days |-> newDays]]
    BY <1>4 DEF newRate, newDays
  <2>7. tax' \in [Currencies -> [there : BOOLEAN, rate : BOOLEAN, days : BOOLEAN]]
    BY <1>1, <1>2, <2>4, <2>6
  <2>8. Companies!ReserveHasDays'
    <3> SUFFICES ASSUME ~partial', NEW n \in Currencies, tax'[n].rate PROVE tax'[n].days
      BY DEF Companies!ReserveHasDays
    <3>1. CASE n = m
      BY <1>1, <1>2, <2>5, <2>6, <3>1
    <3>2. CASE n # m
      BY <1>1, <2>6, <3>2 DEF Companies!OnboardingIInv, Companies!ReserveHasDays
    <3> QED BY <3>1, <3>2
  <2>9. Companies!OnboardingTypeOK'
    BY <1>1, <2>2, <2>7 DEF Companies!OnboardingIInv, Companies!OnboardingTypeOK, ClientCall
  <2> QED BY <1>1, <2>2, <2>3, <2>8, <2>9, RowsRest DEF Companies!OnboardingIInv
<1> QED BY <1>3, <1>4 DEF Companies!WriteTax

LEMMA CompaniesStep == Companies!OnboardingIInv /\ [Companies!OnboardingNext]_companyVars => Companies!OnboardingIInv'
<1> SUFFICES ASSUME Companies!OnboardingIInv, [Companies!OnboardingNext]_companyVars
             PROVE  Companies!OnboardingIInv'
  OBVIOUS
<1>1. ASSUME NEW c \in Clients,
             Companies!FindUser(c) \/ Companies!FindCompany(c) \/ Companies!FindProviderTax(c)
             \/ Companies!FindSubAccount(c)
      PROVE  Companies!OnboardingIInv'
  BY <1>1, ClientFinds DEF Companies!FindUser, Companies!FindCompany, Companies!FindProviderTax,
     Companies!FindSubAccount, Companies!Tables
<1>2. ASSUME NEW c \in Clients,
             Companies!InsertUser(c) \/ Companies!InsertCompany(c) \/ Companies!InsertProviderTax(c)
             \/ Companies!InsertSubAccount(c)
      PROVE  Companies!OnboardingIInv'
  <2>1. PICK t \in Companies!Tables, next \in {"done", "build"} :
          /\ Companies!Insert(c, t, next)
          /\ built' = IF next = "build" THEN [built EXCEPT ![c] = 1] ELSE built
    BY <1>2 DEF Companies!InsertUser, Companies!InsertCompany, Companies!InsertProviderTax,
       Companies!InsertSubAccount, Companies!Tables
  <2> QED BY <2>1, ClientInserts
<1>3. ASSUME NEW c \in Clients, Companies!BreakOff(c) PROVE Companies!OnboardingIInv'
  <2>1. /\ Companies!Moves(c, "refused")
        /\ UNCHANGED <<rows, built, tax, partial, file, document, active, unseen, uploadsMet>>
        /\ broken' = broken + 1 /\ broken < MaxBroken /\ broken \in 0..MaxBroken /\ partial \in BOOLEAN
    BY <1>3 DEF Companies!BreakOff, Companies!taxVars, Companies!documentVars,
       Companies!OnboardingIInv, Companies!OnboardingTypeOK
  <2>2. broken' \in 0..MaxBroken
    BY <2>1, ServicesAssumption DEF Companies!OnboardingAssumption
  <2> QED BY <2>1, <2>2, ClientEnds
<1>4. CASE UNCHANGED companyVars
  BY <1>4 DEF companyVars, Companies!OnboardingIInv, Companies!OnboardingTypeOK, Companies!SawNone,
     Companies!BuiltInOrder, Companies!UploadsInTurn, Companies!ReserveToWrite, Companies!NoDuplicates,
     Companies!FilesAreTheRows, Companies!ReserveHasDays, Companies!ClientAt, Companies!Valid
<1> QED BY <1>1, <1>2, <1>3, <1>4, ClientBuilds, UploadSteps, TaxAsked, TaxWritten DEF Companies!OnboardingNext

-----------------------------------------------------------------------------
(* Outgoing webhooks.                                                        *)

EditCall == [at : Webhooks!EditPlaces, hook : Hooks \cup {NoHookId}, type : Types \cup {"none"},
             logs : SUBSET Webhooks!Entries]
BatchCall == [at : {"new", "append", "write", "done"}, mine : SUBSET Webhooks!Entries,
              seen : SUBSET Webhooks!Entries, log : BOOLEAN]
DrainCall == [at : Webhooks!DrainPlaces, seen : SUBSET Webhooks!Entries, taken : SUBSET Webhooks!Entries]

LEMMA WebhooksStart == Webhooks!Init => Webhooks!WebhookIInv
<1> SUFFICES ASSUME Webhooks!Init PROVE Webhooks!WebhookIInv
  OBVIOUS
<1> USE ServicesAssumption DEF Webhooks!WebhookAssumption, Webhooks!Init
<1>1. Webhooks!WebhookTypeOK
  <2>1. hook \in [Hooks -> [type : Types \cup {"none"}, live : BOOLEAN]]
    OBVIOUS
  <2>2. edit \in [Edits -> EditCall]
    BY DEF Webhooks!NewEdit, EditCall, Webhooks!EditPlaces
  <2>3. batch \in [Batches -> BatchCall]
    BY DEF BatchCall
  <2>4. drainer \in [Drainers -> DrainCall]
    BY DEF DrainCall, Webhooks!DrainPlaces
  <2>5. /\ list \subseteq Webhooks!Entries /\ sent \subseteq Webhooks!Entries
        /\ logged \in [Webhooks!Entries -> {"none", "live", "deleted"}]
        /\ overwritten \in BOOLEAN /\ checkedTwice \in BOOLEAN /\ reverted \in BOOLEAN
    OBVIOUS
  <2>6. listErrors \in 0..MaxListErrors /\ drainDeaths \in 0..MaxDrainDeaths
    OBVIOUS
  <2> QED BY <2>1, <2>2, <2>3, <2>4, <2>5, <2>6 DEF Webhooks!WebhookTypeOK, EditCall, BatchCall, DrainCall
<1>2. Webhooks!EditsNameTheirRows /\ Webhooks!NothingTakenYet
  BY DEF Webhooks!EditsNameTheirRows, Webhooks!NothingTakenYet, Webhooks!NewEdit
<1>3. Webhooks!TypesApart
  BY DEF Webhooks!TypesApart, Webhooks!NewEdit
<1>4. Webhooks!LostOnlyByOverwriting
  BY DEF Webhooks!LostOnlyByOverwriting, Webhooks!Queued
<1> QED BY <1>1, <1>2, <1>3, <1>4 DEF Webhooks!WebhookIInv

(* Types that differ are webhooks that differ.                               *)
LEMMA HooksApart == Webhooks!WebhookIInv => Webhooks!OneHookPerType
<1> SUFFICES ASSUME Webhooks!WebhookIInv, ~checkedTwice, ~reverted, NEW t \in Types
             PROVE  Cardinality(Webhooks!Live(t)) <= 1
  BY CountsAlike DEF Webhooks!OneHookPerType
<1>1. CASE Webhooks!Live(t) = {}
  BY <1>1, FS_EmptySet
<1>2. CASE Webhooks!Live(t) # {}
  <2>1. PICK g : g \in Webhooks!Live(t)
    BY <1>2
  <2>2. Webhooks!Live(t) = {g}
    BY <2>1 DEF Webhooks!Live, Webhooks!WebhookIInv, Webhooks!TypesApart
  <2> QED BY <2>2, FS_Singleton
<1> QED BY <1>1, <1>2

(* A request to the registry goes on and no webhook changes.                 *)
LEMMA EditMoves ==
    ASSUME Webhooks!WebhookIInv, NEW e \in Edits, NEW x \in EditCall,
           edit' = [edit EXCEPT ![e] = x], UNCHANGED <<hook, reverted>>, checkedTwice => checkedTwice',
           x.at \in {"create", "update", "keep", "hide", "delete"} => x.hook \in Hooks,
           x.at \in {"create", "update"} /\ ~checkedTwice' /\ ~reverted =>
                   /\ Webhooks!Live(x.type) = {}
                   /\ \A f \in Edits : edit[f].at \in {"create", "update"} => edit[f].type # x.type
    PROVE  /\ edit' \in [Edits -> EditCall]
           /\ Webhooks!EditsNameTheirRows' /\ Webhooks!TypesApart'
<1>1. /\ edit' \in [Edits -> EditCall] /\ edit'[e] = x
      /\ \A f \in Edits : f # e => edit'[f] = edit[f]
  BY DEF Webhooks!WebhookIInv, Webhooks!WebhookTypeOK, EditCall
<1>2. Webhooks!EditsNameTheirRows'
  BY <1>1 DEF Webhooks!WebhookIInv, Webhooks!EditsNameTheirRows, EditCall
<1>3. Webhooks!TypesApart'
  <2> SUFFICES ASSUME ~checkedTwice', ~reverted'
               PROVE  /\ \A g, h \in Hooks :
                           hook'[g].live /\ hook'[h].live /\ hook'[g].type = hook'[h].type => g = h
                      /\ \A f \in Edits : edit'[f].at \in {"create", "update"} =>
                           /\ {k \in Hooks : hook'[k].live /\ hook'[k].type = edit'[f].type} = {}
                           /\ \A o \in Edits \ {f} :
                                edit'[o].at \in {"create", "update"} => edit'[o].type # edit'[f].type
    BY DEF Webhooks!TypesApart, Webhooks!Live
  <2>1. /\ \A g, h \in Hooks : hook[g].live /\ hook[h].live /\ hook[g].type = hook[h].type => g = h
        /\ \A f \in Edits : edit[f].at \in {"create", "update"} =>
             /\ \A k \in Hooks : ~(hook[k].live /\ hook[k].type = edit[f].type)
             /\ \A o \in Edits \ {f} :
                  edit[o].at \in {"create", "update"} => edit[o].type # edit[f].type
    BY DEF Webhooks!WebhookIInv, Webhooks!TypesApart, Webhooks!Live
  <2>2. x.at \in {"create", "update"} =>
          /\ \A k \in Hooks : ~(hook[k].live /\ hook[k].type = x.type)
          /\ \A f \in Edits : edit[f].at \in {"create", "update"} => edit[f].type # x.type
    BY DEF Webhooks!Live
  <2>3. ASSUME NEW f \in Edits, edit'[f].at \in {"create", "update"}
        PROVE  /\ {k \in Hooks : hook'[k].live /\ hook'[k].type = edit'[f].type} = {}
               /\ \A o \in Edits \ {f} :
                    edit'[o].at \in {"create", "update"} => edit'[o].type # edit'[f].type
    <3>1. CASE f = e
      BY <1>1, <2>2, <2>3, <3>1
    <3>2. CASE f # e
      <4>1. edit'[f] = edit[f] /\ edit[f].at \in {"create", "update"}
        BY <1>1, <2>3, <3>2
      <4>2. ASSUME NEW o \in Edits \ {f}, edit'[o].at \in {"create", "update"}
            PROVE  edit'[o].type # edit'[f].type
        BY <1>1, <2>1, <2>2, <4>1, <4>2
      <4> QED BY <2>1, <4>1, <4>2
    <3> QED BY <3>1, <3>2
  <2> QED BY <2>1, <2>3
<1> QED BY <1>1, <1>2, <1>3

(* What is not the registry's rests with it.                                 *)
LEMMA QueueRests ==
    ASSUME Webhooks!WebhookIInv, UNCHANGED <<batch, list, sent, drainer, listErrors, drainDeaths, overwritten>>
    PROVE  Webhooks!NothingTakenYet' /\ Webhooks!LostOnlyByOverwriting'
BY DEF Webhooks!WebhookIInv, Webhooks!NothingTakenYet, Webhooks!LostOnlyByOverwriting, Webhooks!Queued,
   Webhooks!InHand

(* A request looks for its type, is refused, or ends without a webhook.      *)
LEMMA EditLooks ==
    ASSUME Webhooks!WebhookIInv, NEW e \in Edits,
           Webhooks!CheckCreate(e) \/ Webhooks!CheckUpdate(e) \/ Webhooks!FindLogs(e) \/ Webhooks!DeleteLogs(e)
    PROVE  Webhooks!WebhookIInv'
<1>1. /\ UNCHANGED <<hook, batch, drainer, list, sent, listErrors, drainDeaths, overwritten, reverted>>
      /\ logged' \in [Webhooks!Entries -> {"none", "live", "deleted"}]
      /\ edit[e] \in EditCall
  BY DEF Webhooks!CheckCreate, Webhooks!CheckUpdate, Webhooks!FindLogs, Webhooks!DeleteLogs,
     Webhooks!listVars, Webhooks!WebhookIInv, Webhooks!WebhookTypeOK, EditCall
<1>2. PICK x \in EditCall :
        /\ edit' = [edit EXCEPT ![e] = x] /\ checkedTwice' \in BOOLEAN /\ (checkedTwice => checkedTwice')
        /\ x.at \in {"create", "update", "keep", "hide", "delete"} => x.hook \in Hooks
        /\ x.at \in {"create", "update"} /\ ~checkedTwice' =>
                   /\ Webhooks!Live(x.type) = {}
                   /\ \A f \in Edits : edit[f].at \in {"create", "update"} => edit[f].type # x.type
  <2>0. checkedTwice \in BOOLEAN
    BY DEF Webhooks!WebhookIInv, Webhooks!WebhookTypeOK
  <2>1. ASSUME NEW h \in Hooks, NEW t \in Types, NEW place \in {"create", "update"},
               Webhooks!CheckType(e, place, h, t)
        PROVE  \E x \in EditCall :
                 /\ edit' = [edit EXCEPT ![e] = x] /\ checkedTwice' \in BOOLEAN /\ (checkedTwice => checkedTwice')
                 /\ x.at \in {"create", "update", "keep", "hide", "delete"} => x.hook \in Hooks
                 /\ x.at \in {"create", "update"} /\ ~checkedTwice' =>
                            /\ Webhooks!Live(x.type) = {}
                            /\ \A f \in Edits : edit[f].at \in {"create", "update"} => edit[f].type # x.type
    <3>1. CASE Webhooks!Live(t) = {}
      <4> DEFINE x == [at |-> place, hook |-> h, type |-> t, logs |-> {}]
      <4>1. /\ edit' = [edit EXCEPT ![e] = x]
            /\ checkedTwice' = (checkedTwice \/ \E f \in Edits :
                   edit[f].at \in {"create", "update"} /\ edit[f].type = t)
        BY <2>1, <3>1 DEF Webhooks!CheckType, Webhooks!Begin
      <4>2. x \in EditCall /\ x.hook = h /\ x.type = t
        BY DEF EditCall, Webhooks!EditPlaces
      <4>3. /\ checkedTwice' \in BOOLEAN /\ (checkedTwice => checkedTwice')
            /\ ~checkedTwice' => \A f \in Edits : edit[f].at \in {"create", "update"} => edit[f].type # t
        BY <2>0, <4>1
      <4> HIDE DEF x
      <4> QED BY <3>1, <4>1, <4>2, <4>3
    <3>2. CASE Webhooks!Live(t) # {}
      <4> DEFINE x == [edit[e] EXCEPT !.at = "refused"]
      <4>1. edit' = [edit EXCEPT ![e] = x] /\ checkedTwice' = checkedTwice
        BY <2>1, <3>2 DEF Webhooks!CheckType, Webhooks!EditTo
      <4>2. x \in EditCall /\ x.at = "refused"
        BY <1>1 DEF EditCall, Webhooks!EditPlaces
      <4> HIDE DEF x
      <4> QED BY <2>0, <4>1, <4>2
    <3> QED BY <3>1, <3>2
  <2>2. CASE Webhooks!CheckCreate(e) \/ Webhooks!CheckUpdate(e)
    <3>1. \/ \E h \in Hooks, t \in Types, place \in {"create", "update"} : Webhooks!CheckType(e, place, h, t)
          \/ \E h \in Hooks, t \in Types : Webhooks!Begin(e, "keep", h, t, {}) /\ UNCHANGED checkedTwice
      BY <2>2 DEF Webhooks!CheckCreate, Webhooks!CheckUpdate
    <3>2. ASSUME NEW h \in Hooks, NEW t \in Types, Webhooks!Begin(e, "keep", h, t, {}), UNCHANGED checkedTwice
          PROVE  \E x \in EditCall :
                   edit' = [edit EXCEPT ![e] = x] /\ x.at = "keep" /\ x.hook \in Hooks
      <4> DEFINE x == [at |-> "keep", hook |-> h, type |-> t, logs |-> {}]
      <4>1. edit' = [edit EXCEPT ![e] = x]
        BY <3>2 DEF Webhooks!Begin
      <4>2. x \in EditCall /\ x.at = "keep" /\ x.hook = h
        BY DEF EditCall, Webhooks!EditPlaces
      <4> HIDE DEF x
      <4> QED BY <4>1, <4>2
    <3> QED BY <2>0, <2>1, <3>1, <3>2
  <2>3. CASE Webhooks!FindLogs(e)
    <3>1. PICK h \in Hooks : Webhooks!Begin(e, "hide", h, hook[h].type,
                                            {x \in Webhooks!Entries : x[1] = h /\ logged[x] = "live"})
      BY <2>3 DEF Webhooks!FindLogs
    <3> DEFINE logs == {x \in Webhooks!Entries : x[1] = h /\ logged[x] = "live"}
    <3>2. hook[h].type \in Types \cup {"none"} /\ logs \in SUBSET Webhooks!Entries
      BY DEF Webhooks!WebhookIInv, Webhooks!WebhookTypeOK
    <3>3. edit' = [edit EXCEPT ![e] = [at |-> "hide", hook |-> h, type |-> hook[h].type, logs |-> logs]]
      BY <3>1 DEF Webhooks!Begin
    <3> HIDE DEF logs
    <3> DEFINE x == [at |-> "hide", hook |-> h, type |-> hook[h].type, logs |-> logs]
    <3>4. x \in EditCall /\ x.at = "hide" /\ x.hook = h
      BY <3>2 DEF EditCall, Webhooks!EditPlaces
    <3>5. checkedTwice' = checkedTwice
      BY <2>3 DEF Webhooks!FindLogs
    <3> HIDE DEF x
    <3> QED BY <2>0, <3>3, <3>4, <3>5 DEF x
  <2>4. CASE Webhooks!DeleteLogs(e)
    <3> DEFINE x == [edit[e] EXCEPT !.at = "delete"]
    <3>1. edit' = [edit EXCEPT ![e] = x] /\ checkedTwice' = checkedTwice /\ edit[e].at = "hide"
      BY <2>4 DEF Webhooks!DeleteLogs, Webhooks!EditTo
    <3>2. x \in EditCall /\ x.at = "delete" /\ x.hook = edit[e].hook
      BY <1>1 DEF EditCall, Webhooks!EditPlaces
    <3>3. x.hook \in Hooks
      BY <3>1, <3>2 DEF Webhooks!WebhookIInv, Webhooks!EditsNameTheirRows
    <3> HIDE DEF x
    <3> QED BY <2>0, <3>1, <3>2, <3>3
  <2> QED BY <2>2, <2>3, <2>4
<1>3. edit' \in [Edits -> EditCall] /\ Webhooks!EditsNameTheirRows' /\ Webhooks!TypesApart'
  BY <1>1, <1>2, EditMoves
<1>4. Webhooks!WebhookTypeOK'
  BY <1>1, <1>2, <1>3 DEF Webhooks!WebhookIInv, Webhooks!WebhookTypeOK, EditCall
<1> QED BY <1>1, <1>3, <1>4, QueueRests DEF Webhooks!WebhookIInv

(* A webhook is created or takes the type that was checked, is deleted, or   *)
(* gets the type it had when nothing was checked.                            *)
LEMMA EditWrites ==
    ASSUME Webhooks!WebhookIInv, NEW e \in Edits,
           Webhooks!Create(e) \/ Webhooks!Update(e) \/ Webhooks!Delete(e)
    PROVE  Webhooks!WebhookIInv'
<1> DEFINE h == edit[e].hook
<1> DEFINE t == edit[e].type
<1>1. /\ UNCHANGED <<batch, logged, drainer, list, sent, listErrors, drainDeaths, overwritten, checkedTwice>>
      /\ edit[e] \in EditCall /\ edit' = [edit EXCEPT ![e] = [edit[e] EXCEPT !.at = "done"]]
      /\ edit[e].at \in {"create", "update", "keep", "delete"}
      /\ reverted' \in BOOLEAN /\ (reverted => reverted')
  BY DEF Webhooks!Create, Webhooks!Update, Webhooks!Delete, Webhooks!EditTo,
     Webhooks!listVars, Webhooks!WebhookIInv, Webhooks!WebhookTypeOK, EditCall
<1>2. /\ h \in Hooks /\ t \in Types \cup {"none"} /\ hook \in [Hooks -> [type : Types \cup {"none"}, live : BOOLEAN]]
      /\ edit \in [Edits -> EditCall]
  BY <1>1 DEF Webhooks!WebhookIInv, Webhooks!EditsNameTheirRows, Webhooks!WebhookTypeOK, EditCall
<1>3. /\ edit' \in [Edits -> EditCall] /\ edit'[e].at = "done"
      /\ \A f \in Edits : f # e => edit'[f] = edit[f]
  <2> DEFINE x == [edit[e] EXCEPT !.at = "done"]
  <2>1. x \in EditCall /\ x.at = "done"
    BY <1>1 DEF EditCall, Webhooks!EditPlaces
  <2> HIDE DEF x
  <2> QED BY <1>1, <1>2, <2>1 DEF x
<1>4. /\ hook' \in [Hooks -> [type : Types \cup {"none"}, live : BOOLEAN]]
      /\ \A g \in Hooks : g # h => hook'[g] = hook[g]
      /\ hook'[h].live /\ ~reverted' =>
            hook'[h] = hook[h] \/ (hook'[h].type = t /\ edit[e].at \in {"create", "update"})
  <2>1. CASE Webhooks!Create(e)
    BY <1>2, <2>1 DEF Webhooks!Create
  <2>2. CASE Webhooks!Update(e)
    BY <1>2, <2>2 DEF Webhooks!Update
  <2>3. CASE Webhooks!Delete(e)
    BY <1>2, <2>3 DEF Webhooks!Delete
  <2> QED BY <2>1, <2>2, <2>3
<1>5. Webhooks!EditsNameTheirRows'
  BY <1>3 DEF Webhooks!WebhookIInv, Webhooks!EditsNameTheirRows
<1>6. Webhooks!TypesApart'
  <2> HIDE DEF h, t
  <2> SUFFICES ASSUME ~checkedTwice', ~reverted'
               PROVE  /\ \A g, k \in Hooks :
                           hook'[g].live /\ hook'[k].live /\ hook'[g].type = hook'[k].type => g = k
                      /\ \A f \in Edits : edit'[f].at \in {"create", "update"} =>
                           /\ {k \in Hooks : hook'[k].live /\ hook'[k].type = edit'[f].type} = {}
                           /\ \A o \in Edits \ {f} :
                                edit'[o].at \in {"create", "update"} => edit'[o].type # edit'[f].type
    BY DEF Webhooks!TypesApart, Webhooks!Live
  <2>1. /\ \A g, k \in Hooks : hook[g].live /\ hook[k].live /\ hook[g].type = hook[k].type => g = k
        /\ \A f \in Edits : edit[f].at \in {"create", "update"} =>
             /\ \A k \in Hooks : ~(hook[k].live /\ hook[k].type = edit[f].type)
             /\ \A o \in Edits \ {f} :
                  edit[o].at \in {"create", "update"} => edit[o].type # edit[f].type
    BY <1>1 DEF Webhooks!WebhookIInv, Webhooks!TypesApart, Webhooks!Live
  <2>2. hook'[h].live /\ hook'[h] # hook[h] =>
          /\ hook'[h].type = t
          /\ \A k \in Hooks : ~(hook[k].live /\ hook[k].type = t)
          /\ \A o \in Edits \ {e} : edit[o].at \in {"create", "update"} => edit[o].type # t
    BY <1>4, <2>1 DEF t
  <2>3. ASSUME NEW g \in Hooks, NEW k \in Hooks,
               hook'[g].live, hook'[k].live, hook'[g].type = hook'[k].type
        PROVE  g = k
    BY <1>4, <2>1, <2>2, <2>3
  <2>4. ASSUME NEW f \in Edits, edit'[f].at \in {"create", "update"}
        PROVE  /\ {k \in Hooks : hook'[k].live /\ hook'[k].type = edit'[f].type} = {}
               /\ \A o \in Edits \ {f} :
                    edit'[o].at \in {"create", "update"} => edit'[o].type # edit'[f].type
    <3>1. f # e /\ edit'[f] = edit[f]
      BY <1>3, <2>4
    <3>2. ASSUME NEW k \in Hooks, hook'[k].live, hook'[k].type = edit'[f].type PROVE FALSE
      BY <1>4, <2>1, <2>2, <2>4, <3>1, <3>2
    <3>3. \A o \in Edits \ {f} : edit'[o].at \in {"create", "update"} => edit'[o].type # edit'[f].type
      BY <1>3, <2>1, <2>4, <3>1
    <3> QED BY <3>2, <3>3
  <2> QED BY <2>3, <2>4
<1>7. Webhooks!WebhookTypeOK'
  BY <1>1, <1>3, <1>4 DEF Webhooks!WebhookIInv, Webhooks!WebhookTypeOK, EditCall
<1> QED BY <1>1, <1>5, <1>6, <1>7, QueueRests DEF Webhooks!WebhookIInv

(* What is not the queue's rests with it.                                    *)
LEMMA RegistryRests ==
    ASSUME Webhooks!WebhookIInv, UNCHANGED <<hook, edit, checkedTwice, reverted>>
    PROVE  Webhooks!EditsNameTheirRows' /\ Webhooks!TypesApart'
BY DEF Webhooks!WebhookIInv, Webhooks!EditsNameTheirRows, Webhooks!TypesApart, Webhooks!Live

(* Nothing that was lost so far is lost when the list, what is sent and what *)
(* one sender has taken keep what they had together.                         *)
LEMMA DrainMoves ==
    ASSUME Webhooks!WebhookIInv, NEW d \in Drainers, NEW x \in DrainCall,
           drainer' = [drainer EXCEPT ![d] = x],
           UNCHANGED <<hook, edit, checkedTwice, reverted, batch, logged>>,
           list' \subseteq Webhooks!Entries, sent' \subseteq Webhooks!Entries,
           listErrors' \in 0..MaxListErrors, drainDeaths' \in 0..MaxDrainDeaths, overwritten' \in BOOLEAN,
           x.at # "new",
           ~overwritten' /\ listErrors' = 0 /\ drainDeaths' = 0 =>
               /\ ~overwritten /\ listErrors = 0 /\ drainDeaths = 0
               /\ list \cup sent \cup drainer[d].taken \subseteq list' \cup sent' \cup x.taken
    PROVE  Webhooks!WebhookIInv'
<1>1. /\ drainer' \in [Drainers -> DrainCall] /\ drainer'[d] = x
      /\ \A e \in Drainers : e # d => drainer'[e] = drainer[e]
  BY DEF Webhooks!WebhookIInv, Webhooks!WebhookTypeOK, DrainCall
<1>2. Webhooks!WebhookTypeOK'
  BY <1>1 DEF Webhooks!WebhookIInv, Webhooks!WebhookTypeOK, DrainCall
<1>3. Webhooks!NothingTakenYet'
  BY <1>1 DEF Webhooks!WebhookIInv, Webhooks!NothingTakenYet
<1>4. Webhooks!LostOnlyByOverwriting'
  <2> SUFFICES ASSUME ~overwritten', listErrors' = 0, drainDeaths' = 0, NEW e \in Webhooks!Queued'
               PROVE  e \in list' \cup sent' \/ \E o \in Drainers : e \in drainer'[o].taken
    BY DEF Webhooks!LostOnlyByOverwriting, Webhooks!InHand
  <2>1. e \in Webhooks!Queued
    BY DEF Webhooks!Queued
  <2>2. e \in list \cup sent \/ \E o \in Drainers : e \in drainer[o].taken
    BY <2>1 DEF Webhooks!WebhookIInv, Webhooks!LostOnlyByOverwriting, Webhooks!InHand
  <2> QED BY <1>1, <2>2
<1> QED BY <1>2, <1>3, <1>4, RegistryRests DEF Webhooks!WebhookIInv

LEMMA BatchMoves ==
    ASSUME Webhooks!WebhookIInv, NEW b \in Batches, NEW x \in BatchCall,
           batch' = [batch EXCEPT ![b] = x],
           UNCHANGED <<hook, edit, checkedTwice, reverted, drainer, sent, drainDeaths>>,
           list' \subseteq Webhooks!Entries, logged' \in [Webhooks!Entries -> {"none", "live", "deleted"}],
           listErrors' \in 0..MaxListErrors, overwritten' \in BOOLEAN,
           ~overwritten' /\ listErrors' = 0 =>
               /\ ~overwritten /\ listErrors = 0 /\ list \subseteq list'
               /\ x.at = "done" => x.mine \subseteq list' \/ (batch[b].at = "done" /\ x.mine = batch[b].mine)
    PROVE  Webhooks!WebhookIInv'
<1>1. /\ batch' \in [Batches -> BatchCall] /\ batch'[b] = x
      /\ \A c \in Batches : c # b => batch'[c] = batch[c]
  BY DEF Webhooks!WebhookIInv, Webhooks!WebhookTypeOK, BatchCall
<1>2. Webhooks!WebhookTypeOK'
  BY <1>1 DEF Webhooks!WebhookIInv, Webhooks!WebhookTypeOK, BatchCall
<1>3. Webhooks!NothingTakenYet'
  BY DEF Webhooks!WebhookIInv, Webhooks!NothingTakenYet
<1>4. Webhooks!LostOnlyByOverwriting'
  <2> SUFFICES ASSUME ~overwritten', listErrors' = 0, drainDeaths' = 0,
                      NEW c \in Batches, batch'[c].at = "done", NEW e \in batch'[c].mine
               PROVE  e \in list' \cup sent' \/ \E o \in Drainers : e \in drainer'[o].taken
    BY DEF Webhooks!LostOnlyByOverwriting, Webhooks!InHand, Webhooks!Queued
  <2>1. \A o \in Batches : batch[o].at = "done" /\ e \in batch[o].mine => e \in Webhooks!Queued
    BY DEF Webhooks!Queued
  <2>2. e \in Webhooks!Queued => e \in list \cup sent \/ \E o \in Drainers : e \in drainer[o].taken
    BY DEF Webhooks!WebhookIInv, Webhooks!LostOnlyByOverwriting, Webhooks!InHand
  <2> QED BY <1>1, <2>1, <2>2
<1> QED BY <1>2, <1>3, <1>4, RegistryRests DEF Webhooks!WebhookIInv

(* What a get and a set of the list did, if nothing failed.                  *)
LEMMA ListRead ==
    ASSUME Webhooks!WebhookIInv, NEW seen \in {list, {}}, Webhooks!ListGet(seen)
    PROVE  /\ seen \subseteq Webhooks!Entries /\ listErrors' \in 0..MaxListErrors
           /\ listErrors' = 0 => listErrors = 0 /\ seen = list
<1>1. listErrors \in 0..MaxListErrors /\ MaxListErrors \in Nat /\ list \subseteq Webhooks!Entries
  BY ServicesAssumption DEF Webhooks!WebhookIInv, Webhooks!WebhookTypeOK, Webhooks!WebhookAssumption
<1> QED BY <1>1 DEF Webhooks!ListGet

LEMMA ListWritten ==
    ASSUME Webhooks!WebhookIInv, NEW value \in SUBSET Webhooks!Entries, NEW seen, Webhooks!ListSet(value, seen)
    PROVE  /\ list' \subseteq Webhooks!Entries /\ listErrors' \in 0..MaxListErrors /\ overwritten' \in BOOLEAN
           /\ ~overwritten' /\ listErrors' = 0 =>
                 ~overwritten /\ listErrors = 0 /\ list = seen /\ list' = value
<1>1. /\ listErrors \in 0..MaxListErrors /\ MaxListErrors \in Nat /\ list \subseteq Webhooks!Entries
      /\ overwritten \in BOOLEAN
  BY ServicesAssumption DEF Webhooks!WebhookIInv, Webhooks!WebhookTypeOK, Webhooks!WebhookAssumption
<1>2. CASE /\ list' = value /\ overwritten' = (overwritten \/ list # seen) /\ UNCHANGED listErrors
  BY <1>1, <1>2
<1>3. CASE /\ listErrors < MaxListErrors /\ listErrors' = listErrors + 1 /\ UNCHANGED <<list, overwritten>>
  BY <1>1, <1>3
<1> QED BY <1>2, <1>3 DEF Webhooks!ListSet

(* The batches of the queue.                                                 *)
LEMMA BatchSteps ==
    ASSUME Webhooks!WebhookIInv, NEW b \in Batches,
           Webhooks!Select(b) \/ Webhooks!ReadList(b) \/ Webhooks!WriteList(b) \/ Webhooks!WriteLogs(b)
    PROVE  Webhooks!WebhookIInv'
<1>1. /\ UNCHANGED <<hook, edit, checkedTwice, reverted, drainer, sent, drainDeaths>>
      /\ batch[b] \in BatchCall /\ list \subseteq Webhooks!Entries
      /\ logged \in [Webhooks!Entries -> {"none", "live", "deleted"}]
      /\ listErrors \in 0..MaxListErrors /\ overwritten \in BOOLEAN
  BY DEF Webhooks!Select, Webhooks!ReadList, Webhooks!WriteList, Webhooks!WriteLogs, Webhooks!registryVars,
     Webhooks!listVars, Webhooks!WebhookIInv, Webhooks!WebhookTypeOK, BatchCall
<1>2. CASE Webhooks!Select(b)
  <2> DEFINE mine == {Webhooks!Entry(g, b) : g \in Webhooks!Live(Webhooks!EventType(b))}
  <2> DEFINE x == [batch[b] EXCEPT !.at = IF mine = {} THEN "done" ELSE "append", !.mine = mine]
  <2>1. mine \in SUBSET Webhooks!Entries
    BY DEF Webhooks!Entries, Webhooks!Live
  <2>2. batch' = [batch EXCEPT ![b] = x] /\ UNCHANGED <<logged, list, listErrors, overwritten>>
    BY <1>2 DEF Webhooks!Select, Webhooks!listVars
  <2> HIDE DEF mine
  <2>3. x \in BatchCall /\ (x.at = "done" => x.mine = {})
    BY <1>1, <2>1 DEF BatchCall
  <2> HIDE DEF x
  <2>4. /\ list' \subseteq Webhooks!Entries /\ logged' \in [Webhooks!Entries -> {"none", "live", "deleted"}]
        /\ listErrors' \in 0..MaxListErrors /\ overwritten' \in BOOLEAN
        /\ ~overwritten' /\ listErrors' = 0 =>
              /\ ~overwritten /\ listErrors = 0 /\ list \subseteq list'
              /\ x.at = "done" => x.mine \subseteq list' \/ (batch[b].at = "done" /\ x.mine = batch[b].mine)
    BY <1>1, <2>2, <2>3
  <2>5. x \in BatchCall /\ batch' = [batch EXCEPT ![b] = x]
    BY <2>2, <2>3
  <2> QED BY <1>1, <2>4, <2>5, BatchMoves
<1>3. CASE Webhooks!ReadList(b)
  <2>1. PICK seen \in {list, {}} :
          /\ Webhooks!ListGet(seen)
          /\ batch' = [batch EXCEPT ![b].at = "write", ![b].seen = seen]
    BY <1>3 DEF Webhooks!ReadList
  <2> DEFINE x == [batch[b] EXCEPT !.at = "write", !.seen = seen]
  <2>2. /\ seen \subseteq Webhooks!Entries /\ listErrors' \in 0..MaxListErrors
        /\ listErrors' = 0 => listErrors = 0 /\ seen = list
    BY <2>1, ListRead
  <2>3. x \in BatchCall /\ x.at = "write" /\ batch' = [batch EXCEPT ![b] = x]
    BY <1>1, <2>1, <2>2 DEF BatchCall
  <2>4. UNCHANGED <<logged, list, overwritten>>
    BY <1>3 DEF Webhooks!ReadList
  <2> HIDE DEF x
  <2> QED BY <1>1, <2>2, <2>3, <2>4, BatchMoves
<1>4. CASE Webhooks!WriteList(b)
  <2> DEFINE x == [batch[b] EXCEPT !.at = "done"]
  <2> DEFINE value == batch[b].seen \cup batch[b].mine
  <2>1. /\ Webhooks!ListSet(value, batch[b].seen) /\ UNCHANGED logged
        /\ batch' = [batch EXCEPT ![b] = x]
    BY <1>4 DEF Webhooks!WriteList
  <2>2. value \in SUBSET Webhooks!Entries /\ x \in BatchCall /\ x.at = "done" /\ x.mine = batch[b].mine
    BY <1>1 DEF BatchCall
  <2>3. /\ list' \subseteq Webhooks!Entries /\ listErrors' \in 0..MaxListErrors /\ overwritten' \in BOOLEAN
        /\ ~overwritten' /\ listErrors' = 0 =>
              ~overwritten /\ listErrors = 0 /\ list = batch[b].seen /\ list' = value
    BY <2>1, <2>2, ListWritten
  <2> HIDE DEF x
  <2> QED BY <1>1, <2>1, <2>2, <2>3, BatchMoves
<1>5. CASE Webhooks!WriteLogs(b)
  <2> DEFINE x == [batch[b] EXCEPT !.log = TRUE]
  <2>1. /\ batch' = [batch EXCEPT ![b] = x] /\ UNCHANGED <<list, listErrors, overwritten>>
        /\ logged' = [e \in Webhooks!Entries |-> IF e \in batch[b].mine THEN "live" ELSE logged[e]]
    BY <1>5 DEF Webhooks!WriteLogs, Webhooks!listVars
  <2>2. logged' \in [Webhooks!Entries -> {"none", "live", "deleted"}]
    BY <1>1, <2>1
  <2>3. x \in BatchCall /\ x.at = batch[b].at /\ x.mine = batch[b].mine
    BY <1>1 DEF BatchCall
  <2> HIDE DEF x
  <2> QED BY <1>1, <2>1, <2>2, <2>3, BatchMoves
<1> QED BY <1>2, <1>3, <1>4, <1>5

(* A sender goes to a place with what it read and took.                      *)
LEMMA DrainSteps ==
    ASSUME Webhooks!WebhookIInv, NEW d \in Drainers,
           \/ Webhooks!Take(d) \/ Webhooks!Cut(d) \/ Webhooks!SendAll(d) \/ Webhooks!SendThrows(d)
           \/ Webhooks!ReadAgain(d) \/ Webhooks!PutBack(d) \/ Webhooks!DrainDies(d)
    PROVE  Webhooks!WebhookIInv'
<1>1. /\ UNCHANGED <<hook, edit, checkedTwice, reverted, batch, logged>>
      /\ drainer[d] \in DrainCall /\ list \subseteq Webhooks!Entries /\ sent \subseteq Webhooks!Entries
      /\ listErrors \in 0..MaxListErrors /\ drainDeaths \in 0..MaxDrainDeaths /\ overwritten \in BOOLEAN
  BY DEF Webhooks!Take, Webhooks!Cut, Webhooks!SendAll, Webhooks!SendThrows, Webhooks!ReadAgain,
     Webhooks!PutBack, Webhooks!DrainDies, Webhooks!registryVars,
     Webhooks!WebhookIInv, Webhooks!WebhookTypeOK, DrainCall
<1>2. drainer[d].taken \subseteq Webhooks!Entries /\ drainer[d].seen \subseteq Webhooks!Entries
  BY <1>1 DEF DrainCall
<1>3. ASSUME NEW place \in Webhooks!DrainPlaces \ {"new"}, NEW seen \in SUBSET Webhooks!Entries,
             NEW taken \in SUBSET Webhooks!Entries, Webhooks!Drain(d, place, seen, taken),
             list' \subseteq Webhooks!Entries, sent' \subseteq Webhooks!Entries,
             listErrors' \in 0..MaxListErrors, drainDeaths' \in 0..MaxDrainDeaths, overwritten' \in BOOLEAN,
             ~overwritten' /\ listErrors' = 0 /\ drainDeaths' = 0 =>
                 /\ ~overwritten /\ listErrors = 0 /\ drainDeaths = 0
                 /\ list \cup sent \cup drainer[d].taken \subseteq list' \cup sent' \cup taken
      PROVE  Webhooks!WebhookIInv'
  <2> DEFINE x == [at |-> place, seen |-> seen, taken |-> taken]
  <2>1. /\ x \in DrainCall /\ x.at # "new" /\ x.taken = taken
        /\ drainer' = [drainer EXCEPT ![d] = x]
    BY <1>3 DEF DrainCall, Webhooks!Drain
  <2> HIDE DEF x
  <2> QED BY <1>1, <1>3, <2>1, DrainMoves
<1>4. CASE Webhooks!Take(d)
  <2>1. PICK seen \in {list, {}} :
          /\ Webhooks!ListGet(seen)
          /\ \/ seen = {} /\ Webhooks!Drain(d, "done", {}, {})
             \/ \E taken \in SUBSET seen : Webhooks!Drain(d, "cut", seen, taken)
    BY <1>4 DEF Webhooks!Take
  <2>2. /\ seen \subseteq Webhooks!Entries /\ listErrors' \in 0..MaxListErrors
        /\ listErrors' = 0 => listErrors = 0 /\ seen = list
    BY <2>1, ListRead
  <2>3. UNCHANGED <<list, sent, drainDeaths, overwritten>> /\ drainer[d].taken = {}
    BY <1>4 DEF Webhooks!Take, Webhooks!WebhookIInv, Webhooks!NothingTakenYet
  <2>4. CASE Webhooks!Drain(d, "done", {}, {})
    BY <1>1, <1>3, <2>2, <2>3, <2>4 DEF Webhooks!DrainPlaces
  <2>5. ASSUME NEW taken \in SUBSET seen, Webhooks!Drain(d, "cut", seen, taken) PROVE Webhooks!WebhookIInv'
    <3>1. taken \in SUBSET Webhooks!Entries /\ seen \in SUBSET Webhooks!Entries
      BY <2>2
    <3> QED BY <1>1, <1>3, <2>2, <2>3, <2>5, <3>1 DEF Webhooks!DrainPlaces
  <2> QED BY <2>1, <2>4, <2>5
<1>5. CASE Webhooks!Cut(d)
  <2> DEFINE value == drainer[d].seen \ drainer[d].taken
  <2>1. /\ Webhooks!ListSet(value, drainer[d].seen) /\ UNCHANGED <<sent, drainDeaths>>
        /\ Webhooks!Drain(d, "send", {}, drainer[d].taken)
    BY <1>5 DEF Webhooks!Cut
  <2>2. /\ list' \subseteq Webhooks!Entries /\ listErrors' \in 0..MaxListErrors /\ overwritten' \in BOOLEAN
        /\ ~overwritten' /\ listErrors' = 0 =>
              ~overwritten /\ listErrors = 0 /\ list = drainer[d].seen /\ list' = value
    BY <1>2, <2>1, ListWritten
  <2>3. ~overwritten' /\ listErrors' = 0 /\ drainDeaths' = 0 =>
          /\ ~overwritten /\ listErrors = 0 /\ drainDeaths = 0
          /\ list \cup sent \cup drainer[d].taken \subseteq list' \cup sent' \cup drainer[d].taken
    BY <2>1, <2>2
  <2> QED BY <1>1, <1>2, <1>3, <2>1, <2>2, <2>3 DEF Webhooks!DrainPlaces
<1>6. CASE Webhooks!SendAll(d)
  <2>1. /\ sent' = sent \cup drainer[d].taken /\ UNCHANGED <<list, listErrors, drainDeaths, overwritten>>
        /\ Webhooks!Drain(d, "done", {}, {})
    BY <1>6 DEF Webhooks!SendAll
  <2>2. /\ sent' \subseteq Webhooks!Entries
        /\ list \cup sent \cup drainer[d].taken \subseteq list' \cup sent' \cup {}
    BY <1>1, <1>2, <2>1
  <2> QED BY <1>1, <1>3, <2>1, <2>2 DEF Webhooks!DrainPlaces
<1>7. CASE Webhooks!SendThrows(d)
  <2>1. /\ \E out \in SUBSET drainer[d].taken : sent' = sent \cup out
        /\ UNCHANGED <<list, listErrors, drainDeaths, overwritten>>
        /\ Webhooks!Drain(d, "again", {}, drainer[d].taken)
    BY <1>7 DEF Webhooks!SendThrows
  <2>2. /\ sent' \subseteq Webhooks!Entries
        /\ list \cup sent \cup drainer[d].taken \subseteq list' \cup sent' \cup drainer[d].taken
    BY <1>1, <1>2, <2>1
  <2> QED BY <1>1, <1>2, <1>3, <2>1, <2>2 DEF Webhooks!DrainPlaces
<1>8. CASE Webhooks!ReadAgain(d)
  <2>1. PICK seen \in {list, {}} :
          Webhooks!ListGet(seen) /\ Webhooks!Drain(d, "append", seen, drainer[d].taken)
    BY <1>8 DEF Webhooks!ReadAgain
  <2>2. /\ seen \in SUBSET Webhooks!Entries /\ listErrors' \in 0..MaxListErrors
        /\ listErrors' = 0 => listErrors = 0
    BY <2>1, ListRead
  <2>3. UNCHANGED <<list, sent, drainDeaths, overwritten>>
    BY <1>8 DEF Webhooks!ReadAgain
  <2>4. list \cup sent \cup drainer[d].taken \subseteq list' \cup sent' \cup drainer[d].taken
    BY <2>3
  <2> QED BY <1>1, <1>2, <1>3, <2>1, <2>2, <2>3, <2>4 DEF Webhooks!DrainPlaces
<1>9. CASE Webhooks!PutBack(d)
  <2> DEFINE value == drainer[d].seen \cup drainer[d].taken
  <2>1. /\ Webhooks!ListSet(value, drainer[d].seen) /\ UNCHANGED <<sent, drainDeaths>>
        /\ Webhooks!Drain(d, "done", {}, {})
    BY <1>9 DEF Webhooks!PutBack
  <2>2. /\ list' \subseteq Webhooks!Entries /\ listErrors' \in 0..MaxListErrors /\ overwritten' \in BOOLEAN
        /\ ~overwritten' /\ listErrors' = 0 =>
              ~overwritten /\ listErrors = 0 /\ list = drainer[d].seen /\ list' = value
    BY <1>2, <2>1, ListWritten
  <2>3. ~overwritten' /\ listErrors' = 0 /\ drainDeaths' = 0 =>
          /\ ~overwritten /\ listErrors = 0 /\ drainDeaths = 0
          /\ list \cup sent \cup drainer[d].taken \subseteq list' \cup sent' \cup {}
    BY <2>1, <2>2
  <2> QED BY <1>1, <1>3, <2>1, <2>2, <2>3 DEF Webhooks!DrainPlaces
<1>10. CASE Webhooks!DrainDies(d)
  <2>1. /\ Webhooks!Drain(d, "died", {}, {}) /\ UNCHANGED <<list, sent, listErrors, overwritten>>
        /\ drainDeaths < MaxDrainDeaths /\ drainDeaths' = drainDeaths + 1
    BY <1>10 DEF Webhooks!DrainDies
  <2>2. drainDeaths' \in 0..MaxDrainDeaths /\ drainDeaths' # 0
    BY <1>1, <2>1, ServicesAssumption DEF Webhooks!WebhookAssumption
  <2> QED BY <1>1, <1>3, <2>1, <2>2 DEF Webhooks!DrainPlaces
<1> QED BY <1>4, <1>5, <1>6, <1>7, <1>8, <1>9, <1>10

LEMMA WebhooksStep == Webhooks!WebhookIInv /\ [Webhooks!WebhookNext]_webhookVars => Webhooks!WebhookIInv'
<1> SUFFICES ASSUME Webhooks!WebhookIInv, [Webhooks!WebhookNext]_webhookVars PROVE Webhooks!WebhookIInv'
  OBVIOUS
<1>1. CASE UNCHANGED webhookVars
  BY <1>1 DEF webhookVars, Webhooks!WebhookIInv, Webhooks!WebhookTypeOK, Webhooks!EditsNameTheirRows,
     Webhooks!TypesApart, Webhooks!Live, Webhooks!NothingTakenYet, Webhooks!LostOnlyByOverwriting,
     Webhooks!Queued, Webhooks!InHand
<1> QED BY <1>1, EditLooks, EditWrites, BatchSteps, DrainSteps DEF Webhooks!WebhookNext
=============================================================================
