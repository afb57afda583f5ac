--------------------------- MODULE ServicesProofs ---------------------------
(***************************************************************************)
(* The inductive invariants of the services around a payment (its          *)
(* creation, infractions, receivers and withdrawal requests) and of a      *)
(* user's documents, laid out as in AccountProofs, and the theorems about  *)
(* all services side by side.                                              *)
(***************************************************************************)
EXTENDS AccountProofs

-----------------------------------------------------------------------------
(* The creation of payments.                                                 *)

PostCall == [at : Intake!IntakePlaces, ext : ExternalIds \cup {NoExternal}, email : Emails \cup {"none"},
             offer : Offers \cup {Intake!NoOffer}, answer : {"none"} \cup Intake!StatusWords]

(* What the invariant says of one request by itself.                         *)
Sound(p) ==
    /\ post[p].at \in {"new", "charge"} => charge[p] = "none"
    /\ post[p].at \in Intake!Under => post[p].email \in Emails /\ post[p].offer \in Offers
    /\ Intake!Taken(charge[p]) <=> Intake!Taken(post[p].answer)
    /\ charge[p] # "none" => post[p].offer \in Offers /\ Intake!Acceptable(post[p].offer)
    /\ payment[p] # "none" => charge[p] # "none" /\ post[p].at \in {"immediate", "done", "cut"}
    /\ post[p].at = "done" => payment[p] # "none"
    /\ post[p].at = "immediate" => payment[p] \in {"APPROVED", "SETTLED"}
    /\ post[p].at = "new" => post[p].ext = NoExternal
    /\ post[p].at = "config" => post[p].email \in customers
    /\ payment[p] = "APPROVED" => approvals[p] > 0 \/ post[p].at \in {"immediate", "cut"}
    /\ payment[p] = "SETTLED" => approvals[p] > 0
    /\ approvals[p] <= (IF webhook[p] = "acknowledged" THEN 1 ELSE 0)
                         + (IF post[p].at = "done" THEN 1 ELSE 0)
    /\ Intake!Taken(charge[p]) /\ payment[p] = "none" =>
         \/ post[p].at \in Intake!Under \cup {"cut"}
         \/ p \in sameCustomer \/ post[p].answer \notin Intake!Statuses
    /\ webhook[p] = "acknowledged" =>
         \/ approvals[p] > 0 \/ post[p].at = "immediate"
         \/ post[p].at = "cut" /\ payment[p] = "APPROVED"
         \/ payment[p] = "REFUNDED"

LEMMA IntakeBySound ==
    Intake!IntakeIInv <=>
        /\ Intake!IntakeTypeOK /\ Intake!RacesForCustomers /\ Intake!OneClaim
        /\ \A p \in Posts : Sound(p)
BY DEF Intake!IntakeIInv, Intake!FarAsItsPlace, Intake!ApprovedIsQueued, Intake!ChargedIsKnown,
   Intake!AcknowledgedIsQueued, Sound, Intake!At

LEMMA IntakeBySoundNext ==
    Intake!IntakeIInv' <=>
        /\ Intake!IntakeTypeOK' /\ Intake!RacesForCustomers' /\ Intake!OneClaim'
        /\ \A p \in Posts : Sound(p)'
BY DEF Intake!IntakeIInv, Intake!FarAsItsPlace, Intake!ApprovedIsQueued, Intake!ChargedIsKnown,
   Intake!AcknowledgedIsQueued, Sound, Intake!At

LEMMA IntakeStart == Intake!Init => Intake!IntakeIInv
<1> SUFFICES ASSUME Intake!Init PROVE Intake!IntakeIInv
  OBVIOUS
<1> USE DEF Intake!Init
<1>1. Intake!IntakeTypeOK
  <2>1. Intake!NewPost \in PostCall
    BY DEF Intake!NewPost, PostCall, Intake!IntakePlaces
  <2>2. post \in [Posts -> PostCall]
    BY <2>1
  <2>3. intakeCuts \in 0..MaxIntakeCuts
    BY ServicesAssumption
  <2>4. approvals \in [Posts -> 0..2]
    OBVIOUS
  <2> QED BY <2>2, <2>3, <2>4 DEF Intake!IntakeTypeOK, PostCall
<1>2. \A p \in Posts : post[p] = Intake!NewPost
  OBVIOUS
<1>3. Intake!RacesForCustomers /\ Intake!OneClaim
  BY <1>2 DEF Intake!RacesForCustomers, Intake!OneClaim, Intake!NewPost, Intake!At
<1>4. ASSUME NEW p \in Posts PROVE Sound(p)
  BY <1>2 DEF Sound, Intake!NewPost, Intake!Under, Intake!Statuses, Intake!Taken, Intake!StatusWords
<1> QED BY <1>1, <1>3, <1>4, IntakeBySound

(* What the properties add to it.                                            *)
LEMMA IntakeShows ==
    Intake!IntakeIInv => Intake!ChargedOncePerExternalId /\ Intake!ReserveIsHeld
<1> SUFFICES ASSUME Intake!IntakeIInv PROVE Intake!ChargedOncePerExternalId /\ Intake!ReserveIsHeld
  OBVIOUS
<1>1. /\ post \in [Posts -> PostCall]
      /\ \A p \in Posts : Sound(p)
  BY IntakeBySound DEF Intake!IntakeTypeOK, PostCall
<1>2. Intake!ChargedOncePerExternalId
  <2> SUFFICES ASSUME ~checkedAlike, NEW p \in Posts, NEW q \in Posts, p # q, post[p].ext = post[q].ext,
                      post[p].ext # NoExternal, Intake!Taken(charge[p]), Intake!Taken(charge[q])
               PROVE  \E lost \in {p, q} : payment[lost] = "none" /\ post[lost].at \in {"cut", "refused"}
    BY DEF Intake!ChargedOncePerExternalId
  <2>1. PICK lost \in {p, q} : ~Intake!Claims(lost)
    BY DEF Intake!IntakeIInv, Intake!OneClaim
  <2>2. payment[lost] = "none" /\ post[lost].at \notin Intake!Under
    BY <2>1 DEF Intake!Claims
  <2>3. post[lost].at \notin {"new", "charge", "done", "immediate"}
    BY <1>1, <2>2 DEF Sound, Intake!Taken, Intake!StatusWords, Intake!Statuses
  <2>4. post[lost].at \in Intake!IntakePlaces
    BY <1>1 DEF PostCall
  <2>5. post[lost].at \in {"cut", "refused"}
    BY <2>2, <2>3, <2>4 DEF Intake!IntakePlaces
  <2> QED BY <2>2, <2>5
<1>3. Intake!ReserveIsHeld
  <2> SUFFICES ASSUME NEW p \in Posts, payment[p] # "none", Intake!Shares(post[p].offer).reserve # 0
               PROVE  post[p].offer.reserveDays > 0
    BY DEF Intake!ReserveIsHeld, Intake!Rows, Intake!Held
  <2>1. post[p].offer \in Offers /\ Intake!Acceptable(post[p].offer)
    BY <1>1 DEF Sound
  <2>2. post[p].offer.reserveDays # 0
    BY <2>1 DEF Intake!Acceptable
  <2>3. post[p].offer \in Intake!Offer
    BY <2>1, ServicesAssumption
  <2>4. post[p].offer.reserveDays \in Nat
    BY <2>3 DEF Intake!Offer
  <2> QED BY <2>2, <2>4
<1> QED BY <1>2, <1>3

(* A request to which nothing happens stays sound.                           *)
LEMMA OthersSound ==
    ASSUME NEW p \in Posts, Sound(p), post'[p] = post[p], charge'[p] = charge[p], payment'[p] = payment[p],
           approvals'[p] = approvals[p], webhook'[p] = webhook[p],
           customers \subseteq customers', sameCustomer \subseteq sameCustomer'
    PROVE  Sound(p)'
BY DEF Sound

(* Nobody claims anew, so nobody claims beside another.                      *)
LEMMA NoNewClaim ==
    ASSUME Intake!IntakeIInv, checkedAlike => checkedAlike',
           \A p \in Posts : post'[p].ext = post[p].ext,
           \A p \in Posts : payment'[p] # "none" \/ post'[p].at \in Intake!Under => Intake!Claims(p)
    PROVE  Intake!OneClaim'
BY DEF Intake!IntakeIInv, Intake!OneClaim, Intake!Claims, Intake!Under

(* A request that goes on to a place which is not "create" meets nobody.     *)
LEMMA NoNewRace ==
    ASSUME Intake!IntakeIInv, NEW p \in Posts, post'[p].at # "create",
           \A q \in Posts : q # p => post'[q] = post[q],
           sameCustomer \subseteq sameCustomer', UNCHANGED customers
    PROVE  Intake!RacesForCustomers'
BY DEF Intake!IntakeIInv, Intake!RacesForCustomers, Intake!At

(* A step of one request, of its charge or of its row.                       *)
LEMMA PostMoves ==
    ASSUME Intake!IntakeIInv, NEW p \in Posts, NEW x \in PostCall, post' = [post EXCEPT ![p] = x],
           \E c \in {"none"} \cup Intake!StatusWords : charge' = [charge EXCEPT ![p] = c],
           \E r \in {"none", "SETTLED"} \cup Intake!Statuses : payment' = [payment EXCEPT ![p] = r],
           \E n \in 0..2 : approvals' = [approvals EXCEPT ![p] = n],
           \E w \in {"none", "sent", "refused", "acknowledged"} : webhook' = [webhook EXCEPT ![p] = w],
           customers \subseteq customers', customers' \subseteq Emails,
           configs' \subseteq customers', checkedAlike' \in BOOLEAN,
           sameCustomer \subseteq sameCustomer', sameCustomer' \subseteq Posts, intakeCuts' \in 0..MaxIntakeCuts
    PROVE  /\ Intake!IntakeTypeOK'
           /\ post'[p] = x /\ \A q \in Posts : q # p => post'[q] = post[q]
           /\ \A q \in Posts : q # p => Sound(q)' /\ payment'[q] = payment[q]
<1>1. /\ post \in [Posts -> PostCall] /\ charge \in [Posts -> {"none"} \cup Intake!StatusWords]
      /\ payment \in [Posts -> {"none", "SETTLED"} \cup Intake!Statuses]
      /\ approvals \in [Posts -> 0..2]
      /\ webhook \in [Posts -> {"none", "sent", "refused", "acknowledged"}]
  BY DEF Intake!IntakeIInv, Intake!IntakeTypeOK, PostCall
<1>2. post' \in [Posts -> PostCall] /\ post'[p] = x /\ \A q \in Posts : q # p => post'[q] = post[q]
  BY <1>1
<1>3. charge' \in [Posts -> {"none"} \cup Intake!StatusWords] /\ \A q \in Posts : q # p => charge'[q] = charge[q]
  BY <1>1
<1>4. /\ payment' \in [Posts -> {"none", "SETTLED"} \cup Intake!Statuses]
      /\ \A q \in Posts : q # p => payment'[q] = payment[q]
  BY <1>1
<1>5. approvals' \in [Posts -> 0..2] /\ \A q \in Posts : q # p => approvals'[q] = approvals[q]
  BY <1>1
<1>6. /\ webhook' \in [Posts -> {"none", "sent", "refused", "acknowledged"}]
      /\ \A q \in Posts : q # p => webhook'[q] = webhook[q]
  BY <1>1
<1>7. ASSUME NEW q \in Posts, q # p PROVE Sound(q)' /\ payment'[q] = payment[q]
  <2>1. Sound(q)
    BY IntakeBySound
  <2> QED BY <1>2, <1>3, <1>4, <1>5, <1>6, <1>7, <2>1, OthersSound
<1>8. Intake!IntakeTypeOK'
  BY <1>2, <1>3, <1>4, <1>5, <1>6 DEF Intake!IntakeTypeOK, PostCall
<1> QED BY <1>2, <1>7, <1>8

(* What rests is set to what it was.                                         *)
LEMMA RestsAt ==
    ASSUME Intake!IntakeIInv, NEW p \in Posts
    PROVE  /\ UNCHANGED charge => \E c \in {"none"} \cup Intake!StatusWords : charge' = [charge EXCEPT ![p] = c]
           /\ UNCHANGED payment =>
                \E r \in {"none", "SETTLED"} \cup Intake!Statuses : payment' = [payment EXCEPT ![p] = r]
           /\ UNCHANGED approvals => \E n \in 0..2 : approvals' = [approvals EXCEPT ![p] = n]
           /\ UNCHANGED webhook =>
                \E w \in {"none", "sent", "refused", "acknowledged"} : webhook' = [webhook EXCEPT ![p] = w]
           /\ post[p] \in PostCall
           /\ UNCHANGED post => post' = [post EXCEPT ![p] = post[p]]
<1> USE DEF Intake!IntakeIInv, Intake!IntakeTypeOK
<1>1. charge = [charge EXCEPT ![p] = charge[p]] /\ charge[p] \in {"none"} \cup Intake!StatusWords
  OBVIOUS
<1>2. payment = [payment EXCEPT ![p] = payment[p]] /\ payment[p] \in {"none", "SETTLED"} \cup Intake!Statuses
  OBVIOUS
<1>3. approvals = [approvals EXCEPT ![p] = approvals[p]] /\ approvals[p] \in 0..2
  OBVIOUS
<1>4. /\ webhook = [webhook EXCEPT ![p] = webhook[p]]
      /\ webhook[p] \in {"none", "sent", "refused", "acknowledged"}
  OBVIOUS
<1>5. post = [post EXCEPT ![p] = post[p]] /\ post[p] \in PostCall
  BY DEF PostCall
<1> QED BY <1>1, <1>2, <1>3, <1>4, <1>5

(* The types of what is not a request's own.                                 *)
LEMMA IntakeTypes ==
    Intake!IntakeIInv =>
        /\ customers \subseteq Emails /\ configs \subseteq customers /\ checkedAlike \in BOOLEAN
        /\ sameCustomer \subseteq Posts /\ intakeCuts \in 0..MaxIntakeCuts
        /\ \A p \in Posts : /\ post[p] \in PostCall /\ Sound(p)
                            /\ charge[p] \in {"none"} \cup Intake!StatusWords
                            /\ payment[p] \in {"none", "SETTLED"} \cup Intake!Statuses
                            /\ approvals[p] \in 0..2
                            /\ webhook[p] \in {"none", "sent", "refused", "acknowledged"}
<1> SUFFICES ASSUME Intake!IntakeIInv
             PROVE  /\ customers \subseteq Emails /\ configs \subseteq customers /\ checkedAlike \in BOOLEAN
                    /\ sameCustomer \subseteq Posts /\ intakeCuts \in 0..MaxIntakeCuts
                    /\ \A p \in Posts : /\ post[p] \in PostCall /\ Sound(p)
                                        /\ charge[p] \in {"none"} \cup Intake!StatusWords
                                        /\ payment[p] \in {"none", "SETTLED"} \cup Intake!Statuses
                                        /\ approvals[p] \in 0..2
                                        /\ webhook[p] \in {"none", "sent", "refused", "acknowledged"}
  OBVIOUS
<1>1. Intake!IntakeTypeOK /\ \A p \in Posts : Sound(p)
  BY IntakeBySound
<1> QED BY <1>1 DEF Intake!IntakeTypeOK, PostCall

(* The first look: a new request, with what it is about.                     *)
LEMMA IntakeChecks ==
    ASSUME Intake!IntakeIInv, NEW p \in Posts, Intake!CheckExternalId(p)
    PROVE  Intake!IntakeIInv'
<1>1. PICK ext \in ExternalIds \cup {NoExternal}, email \in Emails, offer \in Offers :
        /\ post' = [post EXCEPT ![p] =
             [Intake!NewPost EXCEPT
                !.at = IF ext # NoExternal /\ Intake!FindPayments(ext) # {} THEN "refused" ELSE "charge",
                !.ext = ext, !.email = email, !.offer = offer]]
        /\ checkedAlike' = (checkedAlike \/ (ext # NoExternal
             /\ ~(ext # NoExternal /\ Intake!FindPayments(ext) # {})
             /\ \E q \in Posts : post[q].ext = ext /\ post[q].at \in Intake!Under))
  BY DEF Intake!CheckExternalId
<1>2. /\ UNCHANGED <<charge, payment, customers, configs, approvals, webhook, sameCustomer, intakeCuts>>
      /\ post[p].at = "new"
  BY DEF Intake!CheckExternalId, Intake!At
<1> DEFINE place == IF ext # NoExternal /\ Intake!FindPayments(ext) # {} THEN "refused" ELSE "charge"
<1> DEFINE x == [Intake!NewPost EXCEPT !.at = place, !.ext = ext, !.email = email, !.offer = offer]
<1>3. /\ x \in PostCall /\ x.at = place /\ x.ext = ext /\ x.email = email /\ x.offer = offer
      /\ x.answer = "none" /\ post' = [post EXCEPT ![p] = x]
  BY <1>1 DEF PostCall, Intake!NewPost, Intake!IntakePlaces, Intake!Under
<1>4. place \in {"refused", "charge"} /\ (place = "charge" => ext = NoExternal \/ Intake!FindPayments(ext) = {})
  OBVIOUS
<1> HIDE DEF x, place
<1>5. /\ checkedAlike' \in BOOLEAN /\ (checkedAlike => checkedAlike')
      /\ ~checkedAlike' /\ place = "charge" /\ ext # NoExternal =>
            \A q \in Posts : post[q].ext = ext => post[q].at \notin Intake!Under /\ payment[q] = "none"
  BY <1>1, <1>4, IntakeTypes DEF Intake!FindPayments, Intake!Rows
<1>6. /\ Intake!IntakeTypeOK' /\ post'[p] = x /\ \A q \in Posts : q # p => post'[q] = post[q]
      /\ \A q \in Posts : q # p => Sound(q)' /\ payment'[q] = payment[q]
  BY <1>2, <1>3, <1>5, RestsAt, IntakeTypes, PostMoves
<1>7. Sound(p)'
  <2>1. Sound(p) /\ charge[p] = "none" /\ payment[p] = "none"
    BY <1>2, IntakeTypes DEF Sound
  <2>2. /\ post'[p].at \in {"refused", "charge"} /\ post'[p].email \in Emails /\ post'[p].offer \in Offers
        /\ post'[p].answer = "none"
    BY <1>3, <1>4, <1>6
  <2>3. charge'[p] = "none" /\ payment'[p] = "none" /\ approvals'[p] = approvals[p] /\ webhook'[p] = webhook[p]
    BY <1>2, <2>1
  <2> QED BY <1>2, <2>1, <2>2, <2>3 DEF Sound, Intake!Under, Intake!Statuses, Intake!Taken, Intake!StatusWords
<1>8. Intake!RacesForCustomers'
  BY <1>2, <1>3, <1>4, <1>6, NoNewRace
<1>9. Intake!OneClaim'
  <2> SUFFICES ASSUME ~checkedAlike', NEW q \in Posts, NEW r \in Posts, q # r,
                      post'[q].ext = post'[r].ext, post'[q].ext # NoExternal,
                      payment'[q] # "none" \/ post'[q].at \in Intake!Under,
                      payment'[r] # "none" \/ post'[r].at \in Intake!Under
               PROVE  FALSE
    BY DEF Intake!OneClaim, Intake!Claims, Intake!Under
  <2>1. payment[p] = "none"
    BY <1>2, IntakeTypes DEF Sound
  <2>2. CASE q # p /\ r # p
    BY <1>2, <1>5, <1>6, <2>2 DEF Intake!IntakeIInv, Intake!OneClaim, Intake!Claims
  <2>3. "refused" \notin Intake!Under
    BY DEF Intake!Under
  <2>4. CASE q = p
    <3>1. place = "charge" /\ ext # NoExternal /\ post[r] = post'[r] /\ payment'[r] = payment[r]
      BY <1>2, <1>3, <1>4, <1>6, <2>1, <2>3, <2>4
    <3> QED BY <1>3, <1>5, <1>6, <2>4, <3>1
  <2>5. CASE r = p
    <3>1. place = "charge" /\ ext # NoExternal /\ post[q] = post'[q] /\ payment'[q] = payment[q]
      BY <1>2, <1>3, <1>4, <1>6, <2>1, <2>3, <2>5
    <3> QED BY <1>3, <1>5, <1>6, <2>5, <3>1
  <2> QED BY <2>2, <2>4, <2>5
<1> QED BY <1>6, <1>7, <1>8, <1>9, IntakeBySoundNext

(* A request that goes on with what it claimed, to a place where it meets    *)
(* nobody, or whose charge, row, task or webhook changes where it is.        *)
LEMMA IntakeMoves ==
    ASSUME Intake!IntakeIInv, NEW p \in Posts, NEW x \in PostCall, post' = [post EXCEPT ![p] = x],
           x.ext = post[p].ext, x.at # "create" \/ x = post[p],
           payment'[p] # "none" \/ x.at \in Intake!Under => Intake!Claims(p),
           \E c \in {"none"} \cup Intake!StatusWords : charge' = [charge EXCEPT ![p] = c],
           \E r \in {"none", "SETTLED"} \cup Intake!Statuses : payment' = [payment EXCEPT ![p] = r],
           \E n \in 0..2 : approvals' = [approvals EXCEPT ![p] = n],
           \E w \in {"none", "sent", "refused", "acknowledged"} : webhook' = [webhook EXCEPT ![p] = w],
           configs \subseteq configs', configs' \subseteq customers, intakeCuts' \in 0..MaxIntakeCuts,
           UNCHANGED <<customers, checkedAlike, sameCustomer>>,
           Sound(p)'
    PROVE  Intake!IntakeIInv'
<1>1. /\ Intake!IntakeTypeOK' /\ post'[p] = x /\ \A q \in Posts : q # p => post'[q] = post[q]
      /\ \A q \in Posts : q # p => Sound(q)' /\ payment'[q] = payment[q]
  BY IntakeTypes, PostMoves
<1>2. Intake!RacesForCustomers'
  <2>1. CASE x.at # "create"
    BY <1>1, <2>1, NoNewRace
  <2>2. CASE x = post[p]
    BY <1>1, <2>2 DEF Intake!IntakeIInv, Intake!RacesForCustomers, Intake!At
  <2> QED BY <2>1, <2>2
<1>3. Intake!OneClaim'
  BY <1>1, NoNewClaim DEF Intake!Claims
<1> QED BY <1>1, <1>2, <1>3, IntakeBySoundNext

(* Where a request goes, and nothing else about it changes.                  *)
LEMMA PostGoes ==
    ASSUME Intake!IntakeIInv, NEW p \in Posts, NEW place \in Intake!IntakePlaces, Intake!PostTo(p, place)
    PROVE  \E x \in PostCall : /\ post' = [post EXCEPT ![p] = x] /\ post'[p] = x /\ x.at = place
                               /\ x.ext = post[p].ext /\ x.email = post[p].email
                               /\ x.offer = post[p].offer /\ x.answer = post[p].answer
<1> DEFINE x == [post[p] EXCEPT !.at = place]
<1>1. x \in PostCall /\ x.at = place /\ x.ext = post[p].ext /\ x.email = post[p].email
      /\ x.offer = post[p].offer /\ x.answer = post[p].answer
  BY IntakeTypes DEF PostCall
<1>2. post' = [post EXCEPT ![p] = x]
  BY DEF Intake!PostTo
<1> HIDE DEF x
<1>3. post'[p] = x
  BY <1>2 DEF Intake!IntakeIInv, Intake!IntakeTypeOK
<1> QED BY <1>1, <1>2, <1>3

(* The charge, and what is read of its answer.                               *)
LEMMA IntakeCharges ==
    ASSUME Intake!IntakeIInv, NEW p \in Posts, Intake!Charge(p)
    PROVE  Intake!IntakeIInv'
<1>1. /\ UNCHANGED <<payment, customers, configs, approvals, webhook, checkedAlike, sameCustomer, intakeCuts>>
      /\ post[p].at = "charge" /\ Intake!Claims(p)
  BY DEF Intake!Charge, Intake!At, Intake!Claims, Intake!Under
<1>2. Sound(p) /\ charge[p] = "none" /\ payment[p] = "none" /\ ~Intake!Taken(post[p].answer)
  BY <1>1, IntakeTypes DEF Sound, Intake!Taken, Intake!StatusWords, Intake!Statuses
<1>3. CASE Intake!PostTo(p, "refused") /\ UNCHANGED charge
  <2>1. PICK x \in PostCall : /\ post' = [post EXCEPT ![p] = x] /\ post'[p] = x /\ x.at = "refused"
                              /\ x.ext = post[p].ext /\ x.answer = post[p].answer
    BY <1>3, PostGoes DEF Intake!IntakePlaces
  <2>2. Sound(p)'
    BY <1>1, <1>2, <1>3, <2>1 DEF Sound, Intake!Under, Intake!Statuses, Intake!Taken, Intake!StatusWords
  <2> QED BY <1>1, <1>3, <2>1, <2>2, RestsAt, IntakeTypes, IntakeMoves
<1>4. ASSUME Intake!Acceptable(post[p].offer), NEW answer \in Intake!StatusWords,
             charge' = [charge EXCEPT ![p] = answer],
             post' = [post EXCEPT ![p].at = "answer", ![p].answer = answer]
      PROVE  Intake!IntakeIInv'
  <2> DEFINE x == [post[p] EXCEPT !.at = "answer", !.answer = answer]
  <2>1. /\ x \in PostCall /\ post' = [post EXCEPT ![p] = x] /\ x.at = "answer" /\ x.answer = answer
        /\ x.ext = post[p].ext /\ x.email = post[p].email /\ x.offer = post[p].offer
    BY <1>4, IntakeTypes DEF PostCall, Intake!IntakePlaces, Intake!Under
  <2> HIDE DEF x
  <2>2. post'[p] = x /\ charge'[p] = answer
    BY <1>4, <2>1 DEF Intake!IntakeIInv, Intake!IntakeTypeOK
  <2>3. Sound(p)'
    BY <1>1, <1>2, <1>4, <2>1, <2>2 DEF Sound, Intake!Under, Intake!Statuses
  <2> QED BY <1>1, <1>4, <2>1, <2>3, RestsAt, IntakeTypes, IntakeMoves
<1>5. \A environment \in {"SANDBOX", "PRODUCTION"} : \A m : Intake!Answers(environment, m) \subseteq Intake!StatusWords
  BY DEF Intake!Answers, Intake!StatusWords, Intake!Statuses
<1> QED BY <1>3, <1>4, <1>5 DEF Intake!Charge

LEMMA IntakeReads ==
    ASSUME Intake!IntakeIInv, NEW p \in Posts, Intake!ReadAnswer(p)
    PROVE  Intake!IntakeIInv'
<1>1. /\ UNCHANGED <<charge, payment, customers, configs, approvals, webhook, checkedAlike, sameCustomer, intakeCuts>>
      /\ post[p].at = "answer" /\ Intake!Claims(p)
  BY DEF Intake!ReadAnswer, Intake!At, Intake!Claims, Intake!Under
<1>2. Sound(p) /\ payment[p] = "none"
  BY <1>1, IntakeTypes DEF Sound
<1>3. PICK place \in {"refused", "customer"} :
        /\ Intake!PostTo(p, place)
        /\ place = "refused" => ~Intake!Taken(post[p].answer)
  <2>1. Intake!Parsed(post[p].answer) = "REFUSED" => ~Intake!Taken(post[p].answer)
    BY DEF Intake!Parsed, Intake!Taken
  <2>2. CASE Intake!Parsed(post[p].answer) = "REFUSED" /\ post[p].offer.method = "PIX"
    BY <2>1, <2>2 DEF Intake!ReadAnswer
  <2>3. CASE ~(Intake!Parsed(post[p].answer) = "REFUSED" /\ post[p].offer.method = "PIX")
    <3>1. Intake!PostTo(p, "customer")
      BY <2>3 DEF Intake!ReadAnswer
    <3> QED BY <3>1
  <2> QED BY <2>2, <2>3
<1>4. PICK x \in PostCall : /\ post' = [post EXCEPT ![p] = x] /\ post'[p] = x /\ x.at = place
                            /\ x.ext = post[p].ext /\ x.email = post[p].email
                            /\ x.offer = post[p].offer /\ x.answer = post[p].answer
  BY <1>3, PostGoes DEF Intake!IntakePlaces, Intake!Under
<1>5. Sound(p)'
  BY <1>1, <1>2, <1>3, <1>4 DEF Sound, Intake!Under
<1> QED BY <1>1, <1>3, <1>4, <1>5, RestsAt, IntakeTypes, IntakeMoves

(* The customer: found, or to be inserted beside whoever else wants to.      *)
LEMMA IntakeFindsCustomer ==
    ASSUME Intake!IntakeIInv, NEW p \in Posts, Intake!FindCustomer(p)
    PROVE  Intake!IntakeIInv'
<1> DEFINE racing == {q \in Posts : post[q].at = "create" /\ post[q].email = post[p].email}
<1> DEFINE place == IF post[p].email \in customers THEN "insert" ELSE "create"
<1>1. /\ UNCHANGED <<charge, payment, customers, configs, approvals, webhook, checkedAlike, intakeCuts>>
      /\ post[p].at = "customer" /\ Intake!Claims(p) /\ Intake!PostTo(p, place)
      /\ sameCustomer' = IF racing = {} THEN sameCustomer ELSE sameCustomer \cup racing \cup {p}
  BY DEF Intake!FindCustomer, Intake!At, Intake!Claims, Intake!Under
<1>2. /\ sameCustomer \subseteq sameCustomer' /\ sameCustomer' \subseteq Posts
      /\ \A q \in Posts : post[q].at = "create" /\ post[q].email = post[p].email => {p, q} \subseteq sameCustomer'
  BY <1>1, IntakeTypes
<1>3. place \in Intake!IntakePlaces /\ place \in {"insert", "create"}
      /\ (place = "create" => post[p].email \notin customers)
  BY DEF Intake!IntakePlaces, Intake!Under
<1> HIDE DEF racing, place
<1>4. PICK x \in PostCall : /\ post' = [post EXCEPT ![p] = x] /\ post'[p] = x /\ x.at = place
                            /\ x.ext = post[p].ext /\ x.email = post[p].email
                            /\ x.offer = post[p].offer /\ x.answer = post[p].answer
  BY <1>1, <1>3, PostGoes
<1>5. /\ Intake!IntakeTypeOK' /\ \A q \in Posts : q # p => post'[q] = post[q]
      /\ \A q \in Posts : q # p => Sound(q)' /\ payment'[q] = payment[q]
  BY <1>1, <1>2, <1>4, RestsAt, IntakeTypes, PostMoves
<1>6. Sound(p)'
  <2>1. Sound(p)
    BY IntakeTypes
  <2> QED BY <1>1, <1>3, <1>4, <2>1 DEF Sound, Intake!Under
<1>7. Intake!RacesForCustomers'
  <2>1. \A q \in Posts : post[q].at = "create" =>
          /\ post[q].email \in customers => q \in sameCustomer
          /\ \A r \in Posts \ {q} :
               post[r].at = "create" /\ post[r].email = post[q].email => {q, r} \subseteq sameCustomer
    BY DEF Intake!IntakeIInv, Intake!RacesForCustomers, Intake!At
  <2> SUFFICES ASSUME NEW q \in Posts, post'[q].at = "create"
               PROVE  /\ post'[q].email \in customers => q \in sameCustomer'
                      /\ \A r \in Posts \ {q} :
                           post'[r].at = "create" /\ post'[r].email = post'[q].email => {q, r} \subseteq sameCustomer'
    BY <1>1 DEF Intake!RacesForCustomers, Intake!At
  <2>2. CASE q = p
    BY <1>2, <1>3, <1>4, <1>5, <2>2
  <2>3. CASE q # p
    BY <1>2, <1>4, <1>5, <2>1, <2>3
  <2> QED BY <2>2, <2>3
<1>8. Intake!OneClaim'
  BY <1>1, <1>4, <1>5, NoNewClaim DEF Intake!Claims
<1> QED BY <1>5, <1>6, <1>7, <1>8, IntakeBySoundNext

LEMMA IntakeCreatesCustomer ==
    ASSUME Intake!IntakeIInv, NEW p \in Posts, Intake!CreateCustomer(p)
    PROVE  Intake!IntakeIInv'
<1>1. /\ UNCHANGED <<charge, payment, configs, approvals, webhook, checkedAlike, sameCustomer, intakeCuts>>
      /\ post[p].at = "create" /\ Intake!Claims(p)
  BY DEF Intake!CreateCustomer, Intake!At, Intake!Claims, Intake!Under
<1>2. Sound(p) /\ payment[p] = "none"
  BY <1>1, IntakeTypes DEF Sound
<1>3. \A q \in Posts : post[q].at = "create" =>
        /\ post[q].email \in customers => q \in sameCustomer
        /\ \A r \in Posts \ {q} :
             post[r].at = "create" /\ post[r].email = post[q].email => {q, r} \subseteq sameCustomer
  BY DEF Intake!IntakeIInv, Intake!RacesForCustomers, Intake!At
<1>4. CASE post[p].email \in customers
  <2>1. Intake!PostTo(p, "refused") /\ UNCHANGED customers /\ p \in sameCustomer
    BY <1>1, <1>3, <1>4 DEF Intake!CreateCustomer
  <2>2. PICK x \in PostCall : /\ post' = [post EXCEPT ![p] = x] /\ post'[p] = x /\ x.at = "refused"
                              /\ x.ext = post[p].ext /\ x.email = post[p].email
                              /\ x.offer = post[p].offer /\ x.answer = post[p].answer
    BY <2>1, PostGoes DEF Intake!IntakePlaces
  <2>3. Sound(p)'
    BY <1>1, <1>2, <2>1, <2>2 DEF Sound, Intake!Under
  <2> QED BY <1>1, <2>1, <2>2, <2>3, RestsAt, IntakeTypes, IntakeMoves
<1>5. CASE post[p].email \notin customers
  <2>1. Intake!PostTo(p, "config") /\ customers' = customers \cup {post[p].email}
    BY <1>5 DEF Intake!CreateCustomer
  <2>2. PICK x \in PostCall : /\ post' = [post EXCEPT ![p] = x] /\ post'[p] = x /\ x.at = "config"
                              /\ x.ext = post[p].ext /\ x.email = post[p].email
                              /\ x.offer = post[p].offer /\ x.answer = post[p].answer
    BY <2>1, PostGoes DEF Intake!IntakePlaces, Intake!Under
  <2>3. post[p].email \in Emails
    BY <1>1, <1>2 DEF Sound, Intake!Under
  <2>4. customers \subseteq customers' /\ customers' \subseteq Emails /\ configs' \subseteq customers'
    BY <1>1, <2>1, <2>3, IntakeTypes
  <2>5. /\ Intake!IntakeTypeOK' /\ \A q \in Posts : q # p => post'[q] = post[q]
        /\ \A q \in Posts : q # p => Sound(q)' /\ payment'[q] = payment[q]
    BY <1>1, <2>2, <2>4, RestsAt, IntakeTypes, PostMoves
  <2>6. Sound(p)'
    BY <1>1, <1>2, <2>1, <2>2 DEF Sound, Intake!Under
  <2>7. Intake!RacesForCustomers'
    <3> SUFFICES ASSUME NEW q \in Posts, post'[q].at = "create"
                 PROVE  /\ post'[q].email \in customers' => q \in sameCustomer
                        /\ \A r \in Posts \ {q} :
                             post'[r].at = "create" /\ post'[r].email = post'[q].email => {q, r} \subseteq sameCustomer
      BY <1>1 DEF Intake!RacesForCustomers, Intake!At
    <3>1. q # p /\ post'[q] = post[q]
      BY <2>2, <2>5
    <3>2. post[q].email \in customers' => q \in sameCustomer
      BY <1>1, <1>3, <2>1, <3>1
    <3>3. ASSUME NEW r \in Posts \ {q}, post'[r].at = "create", post'[r].email = post'[q].email
          PROVE  {q, r} \subseteq sameCustomer
      BY <1>3, <2>2, <2>5, <3>1, <3>3
    <3> QED BY <3>1, <3>2, <3>3
  <2>8. Intake!OneClaim'
    BY <1>1, <2>2, <2>5, NoNewClaim DEF Intake!Claims
  <2> QED BY <2>5, <2>6, <2>7, <2>8, IntakeBySoundNext
<1> QED BY <1>4, <1>5

(* The customer's config, and the row.                                       *)
LEMMA IntakeWrites ==
    ASSUME Intake!IntakeIInv, NEW p \in Posts, Intake!CreateConfig(p) \/ Intake!Insert(p)
    PROVE  Intake!IntakeIInv'
<1>1. /\ UNCHANGED <<charge, customers, approvals, webhook, checkedAlike, sameCustomer, intakeCuts>>
      /\ post[p].at \in {"config", "insert"} /\ Intake!Claims(p)
  BY DEF Intake!CreateConfig, Intake!Insert, Intake!At, Intake!Claims, Intake!Under
<1>2. Sound(p) /\ payment[p] = "none"
  BY <1>1, IntakeTypes DEF Sound
<1>3. CASE Intake!CreateConfig(p)
  <2>1. /\ configs' = configs \cup {post[p].email} /\ Intake!PostTo(p, "insert") /\ UNCHANGED payment
        /\ post[p].at = "config"
    BY <1>3 DEF Intake!CreateConfig, Intake!At
  <2>2. configs \subseteq configs' /\ configs' \subseteq customers
    BY <1>2, <2>1, IntakeTypes DEF Sound
  <2>3. PICK x \in PostCall : /\ post' = [post EXCEPT ![p] = x] /\ post'[p] = x /\ x.at = "insert"
                              /\ x.ext = post[p].ext /\ x.email = post[p].email
                              /\ x.offer = post[p].offer /\ x.answer = post[p].answer
    BY <2>1, PostGoes DEF Intake!IntakePlaces, Intake!Under
  <2>4. Sound(p)'
    BY <1>1, <1>2, <2>1, <2>3 DEF Sound, Intake!Under
  <2> QED BY <1>1, <2>1, <2>2, <2>3, <2>4, RestsAt, IntakeTypes, IntakeMoves
<1>4. CASE Intake!Insert(p) /\ post[p].answer \notin Intake!Statuses
  <2>1. Intake!PostTo(p, "refused") /\ UNCHANGED <<payment, configs>>
    BY <1>4 DEF Intake!Insert
  <2>2. PICK x \in PostCall : /\ post' = [post EXCEPT ![p] = x] /\ post'[p] = x /\ x.at = "refused"
                              /\ x.ext = post[p].ext /\ x.email = post[p].email
                              /\ x.offer = post[p].offer /\ x.answer = post[p].answer
    BY <2>1, PostGoes DEF Intake!IntakePlaces
  <2>3. Sound(p)'
    BY <1>1, <1>2, <1>4, <2>1, <2>2 DEF Sound, Intake!Under
  <2> QED BY <1>1, <2>1, <2>2, <2>3, RestsAt, IntakeTypes, IntakeMoves
<1>5. CASE Intake!Insert(p) /\ post[p].answer \in Intake!Statuses
  <2>1. PICK place \in {"immediate", "done"} :
          /\ payment' = [payment EXCEPT ![p] = post[p].answer] /\ UNCHANGED configs
          /\ Intake!PostTo(p, place)
          /\ place = "immediate" <=> post[p].answer = "APPROVED"
          /\ post[p].at = "insert"
    BY <1>5 DEF Intake!Insert, Intake!At
  <2>2. PICK x \in PostCall : /\ post' = [post EXCEPT ![p] = x] /\ post'[p] = x /\ x.at = place
                              /\ x.ext = post[p].ext /\ x.email = post[p].email
                              /\ x.offer = post[p].offer /\ x.answer = post[p].answer
    BY <2>1, PostGoes DEF Intake!IntakePlaces
  <2>3. payment'[p] = post[p].answer /\ payment'[p] \in {"PENDING", "APPROVED", "REFUNDED"}
    BY <1>5, <2>1 DEF Intake!IntakeIInv, Intake!IntakeTypeOK, Intake!Statuses
  <2>4. Sound(p)'
    <3>1. /\ charge'[p] = charge[p] /\ approvals'[p] = approvals[p] /\ webhook'[p] = webhook[p]
          /\ Intake!Taken(charge[p]) /\ Intake!Taken(post[p].answer)
          /\ charge[p] # "none" /\ approvals[p] \in Nat
      <4>1. Intake!Taken(post[p].answer)
        BY <1>5 DEF Intake!Taken, Intake!StatusWords, Intake!Statuses
      <4>2. Intake!Taken(charge[p])
        BY <1>2, <4>1 DEF Sound
      <4>3. charge[p] # "none"
        BY <4>2 DEF Intake!Taken, Intake!StatusWords, Intake!Statuses
      <4> QED BY <1>1, <4>1, <4>2, <4>3, IntakeTypes
    <3>2. /\ approvals[p] <= IF webhook[p] = "acknowledged" THEN 1 ELSE 0
          /\ webhook[p] = "acknowledged" => approvals[p] > 0
          /\ post[p].offer \in Offers /\ Intake!Acceptable(post[p].offer)
      BY <1>2, <2>1, <3>1 DEF Sound
    <3>3. post'[p].at = place /\ post'[p].offer = post[p].offer /\ post'[p].answer = post[p].answer
          /\ post'[p].ext = post[p].ext
      BY <2>2
    <3>4. CASE place = "immediate"
      BY <1>1, <1>5, <2>1, <2>3, <3>1, <3>2, <3>3, <3>4 DEF Sound, Intake!Under, Intake!Statuses
    <3>5. CASE place = "done"
      BY <1>1, <1>5, <2>1, <2>3, <3>1, <3>2, <3>3, <3>5 DEF Sound, Intake!Under, Intake!Statuses
    <3> QED BY <3>4, <3>5
  <2>5. \E r \in {"none", "SETTLED"} \cup Intake!Statuses : payment' = [payment EXCEPT ![p] = r]
    BY <1>5, <2>1
  <2> QED BY <1>1, <2>1, <2>2, <2>4, <2>5, RestsAt, IntakeTypes, IntakeMoves
<1> QED BY <1>3, <1>4, <1>5

(* The task after the answer, and requests that are cut off.                 *)
LEMMA IntakeEnds ==
    ASSUME Intake!IntakeIInv, NEW p \in Posts, Intake!QueueApproval(p) \/ Intake!CutOff(p)
    PROVE  Intake!IntakeIInv'
<1>1. /\ UNCHANGED <<charge, payment, customers, configs, webhook, checkedAlike, sameCustomer>>
      /\ post[p].at \in Intake!Under \cup {"immediate"}
  BY DEF Intake!QueueApproval, Intake!CutOff, Intake!At
<1>2. Sound(p) /\ Intake!Claims(p) /\ approvals[p] \in 0..2
  BY <1>1, IntakeTypes DEF Sound, Intake!Claims, Intake!Under
<1>3. CASE Intake!QueueApproval(p)
  <2>1. /\ post[p].at = "immediate" /\ Intake!PostTo(p, "done") /\ UNCHANGED intakeCuts
        /\ approvals' = [approvals EXCEPT ![p] = @ + 1]
    BY <1>3 DEF Intake!QueueApproval, Intake!At
  <2>2. PICK x \in PostCall : /\ post' = [post EXCEPT ![p] = x] /\ post'[p] = x /\ x.at = "done"
                              /\ x.ext = post[p].ext /\ x.email = post[p].email
                              /\ x.offer = post[p].offer /\ x.answer = post[p].answer
    BY <2>1, PostGoes DEF Intake!IntakePlaces
  <2>3. approvals[p] <= IF webhook[p] = "acknowledged" THEN 1 ELSE 0
    BY <1>2, <2>1 DEF Sound
  <2>4. approvals'[p] = approvals[p] + 1 /\ approvals'[p] \in 0..2
    BY <1>2, <2>1, <2>3 DEF Intake!IntakeIInv, Intake!IntakeTypeOK
  <2>5. approvals' = [approvals EXCEPT ![p] = approvals'[p]]
    BY <2>1, <2>4
  <2>6. Sound(p)'
    BY <1>1, <1>2, <2>1, <2>2, <2>3, <2>4 DEF Sound, Intake!Under
  <2>7. \E n \in 0..2 : approvals' = [approvals EXCEPT ![p] = n]
    BY <2>4, <2>5
  <2> QED BY <1>1, <1>2, <2>1, <2>2, <2>6, <2>7, RestsAt, IntakeTypes, IntakeMoves
<1>4. CASE Intake!CutOff(p)
  <2>1. /\ Intake!PostTo(p, "cut") /\ UNCHANGED approvals
        /\ intakeCuts < MaxIntakeCuts /\ intakeCuts' = intakeCuts + 1
    BY <1>4 DEF Intake!CutOff
  <2>2. PICK x \in PostCall : /\ post' = [post EXCEPT ![p] = x] /\ post'[p] = x /\ x.at = "cut"
                              /\ x.ext = post[p].ext /\ x.email = post[p].email
                              /\ x.offer = post[p].offer /\ x.answer = post[p].answer
    BY <2>1, PostGoes DEF Intake!IntakePlaces
  <2>3. intakeCuts' \in 0..MaxIntakeCuts
    BY <2>1, IntakeTypes, ServicesAssumption
  <2>4. Sound(p)'
    <3>1. webhook[p] = "acknowledged" /\ approvals[p] = 0 => payment[p] \in {"APPROVED", "REFUNDED"}
      <4> SUFFICES ASSUME webhook[p] = "acknowledged", approvals[p] = 0, payment[p] # "REFUNDED"
                   PROVE  payment[p] = "APPROVED"
        OBVIOUS
      <4>1. post[p].at # "cut"
        BY <1>1 DEF Intake!Under
      <4>2. post[p].at = "immediate" /\ payment[p] \in {"APPROVED", "SETTLED"}
        BY <1>2, <4>1 DEF Sound
      <4> QED BY <1>2, <4>2 DEF Sound
    <3> QED BY <1>1, <1>2, <2>1, <2>2, <3>1 DEF Sound, Intake!Under
  <2> QED BY <1>1, <1>2, <2>1, <2>2, <2>3, <2>4, RestsAt, IntakeTypes, IntakeMoves
<1> QED BY <1>3, <1>4

(* The customer pays, the provider's webhook comes, and the task is worked.  *)
LEMMA IntakeHears ==
    ASSUME Intake!IntakeIInv, NEW p \in Posts, Intake!Pay(p) \/ Intake!Receive(p) \/ Intake!Settle(p)
    PROVE  Intake!IntakeIInv'
<1>1. /\ UNCHANGED <<post, customers, configs, checkedAlike, sameCustomer, intakeCuts>>
      /\ post[p] \in PostCall /\ post' = [post EXCEPT ![p] = post[p]]
  BY RestsAt DEF Intake!Pay, Intake!Receive, Intake!Settle
<1>2. Sound(p) /\ approvals[p] \in 0..2
  BY IntakeTypes
<1>3. CASE Intake!Pay(p)
  <2>1. /\ UNCHANGED <<payment, approvals>> /\ Intake!Taken(charge[p]) /\ webhook[p] = "none"
        /\ charge' = [charge EXCEPT ![p] = "APPROVED"] /\ webhook' = [webhook EXCEPT ![p] = "sent"]
    BY <1>3 DEF Intake!Pay
  <2>2. charge'[p] = "APPROVED" /\ webhook'[p] = "sent"
    BY <2>1 DEF Intake!IntakeIInv, Intake!IntakeTypeOK
  <2>3. Sound(p)'
    <3>1. Intake!Taken(charge'[p]) /\ charge[p] # "none"
      BY <2>1, <2>2 DEF Intake!Taken, Intake!StatusWords, Intake!Statuses
    <3> QED BY <1>1, <1>2, <2>1, <2>2, <3>1 DEF Sound, Intake!Under
  <2>4. /\ \E c \in {"none"} \cup Intake!StatusWords : charge' = [charge EXCEPT ![p] = c]
        /\ \E w \in {"none", "sent", "refused", "acknowledged"} : webhook' = [webhook EXCEPT ![p] = w]
    BY <2>1 DEF Intake!StatusWords, Intake!Statuses
  <2> QED BY <1>1, <2>1, <2>3, <2>4, RestsAt, IntakeTypes, IntakeMoves DEF Intake!Claims
<1>4. CASE Intake!Receive(p) /\ payment[p] # "PENDING"
  <2>1. PICK w \in {"refused", "acknowledged"} :
          /\ UNCHANGED <<charge, payment, approvals>> /\ webhook[p] \in {"sent", "refused"}
          /\ webhook' = [webhook EXCEPT ![p] = w]
          /\ payment[p] = "none" => w = "refused"
    BY <1>4 DEF Intake!Receive, Intake!Acknowledge, Intake!Delivered
  <2>2. webhook'[p] = w
    BY <2>1 DEF Intake!IntakeIInv, Intake!IntakeTypeOK
  <2>3. payment[p] \in {"none", "SETTLED", "APPROVED", "REFUNDED"}
    BY <1>4, IntakeTypes DEF Intake!Statuses
  <2>4. Sound(p)'
    BY <1>1, <1>2, <2>1, <2>2, <2>3 DEF Sound, Intake!Under
  <2> QED BY <1>1, <2>1, <2>4, RestsAt, IntakeTypes, IntakeMoves DEF Intake!Claims
<1>5. CASE Intake!Receive(p) /\ payment[p] = "PENDING"
  <2>1. /\ UNCHANGED <<charge, payment>> /\ webhook[p] \in {"sent", "refused"}
        /\ webhook' = [webhook EXCEPT ![p] = "acknowledged"]
        /\ approvals' = [approvals EXCEPT ![p] = @ + 1]
    BY <1>5 DEF Intake!Receive, Intake!Acknowledge, Intake!Delivered
  <2>2. webhook'[p] = "acknowledged"
    BY <2>1 DEF Intake!IntakeIInv, Intake!IntakeTypeOK
  <2>3. approvals[p] <= IF post[p].at = "done" THEN 1 ELSE 0
    BY <1>2, <2>1 DEF Sound
  <2>4. approvals'[p] = approvals[p] + 1 /\ approvals'[p] \in 0..2
    BY <1>2, <2>1, <2>3 DEF Intake!IntakeIInv, Intake!IntakeTypeOK
  <2>5. approvals' = [approvals EXCEPT ![p] = approvals'[p]]
    BY <2>1, <2>4
  <2>6. Sound(p)'
    BY <1>1, <1>2, <1>5, <2>1, <2>2, <2>3, <2>4 DEF Sound, Intake!Under
  <2>7. \E n \in 0..2 : approvals' = [approvals EXCEPT ![p] = n]
    BY <2>4, <2>5
  <2>8. \E w \in {"none", "sent", "refused", "acknowledged"} : webhook' = [webhook EXCEPT ![p] = w]
    BY <2>1
  <2> QED BY <1>1, <2>1, <2>6, <2>7, <2>8, RestsAt, IntakeTypes, IntakeMoves DEF Intake!Claims
<1>6. CASE Intake!Settle(p)
  <2>1. /\ UNCHANGED <<charge, approvals, webhook>> /\ approvals[p] > 0 /\ payment[p] \in {"PENDING", "APPROVED"}
        /\ payment' = [payment EXCEPT ![p] = "SETTLED"]
    BY <1>6 DEF Intake!Settle
  <2>2. payment'[p] = "SETTLED" /\ payment[p] # "none"
    BY <2>1 DEF Intake!IntakeIInv, Intake!IntakeTypeOK, Intake!Statuses
  <2>3. Sound(p)'
    BY <1>1, <1>2, <2>1, <2>2 DEF Sound, Intake!Under
  <2>4. /\ \E r \in {"none", "SETTLED"} \cup Intake!Statuses : payment' = [payment EXCEPT ![p] = r]
        /\ Intake!Claims(p)
    BY <2>1, <2>2 DEF Intake!Claims
  <2> QED BY <1>1, <2>1, <2>3, <2>4, RestsAt, IntakeTypes, IntakeMoves
<1> QED BY <1>3, <1>4, <1>5, <1>6

LEMMA IntakeStep == Intake!IntakeIInv /\ [Intake!IntakeNext]_intakeVars => Intake!IntakeIInv'
<1> SUFFICES ASSUME Intake!IntakeIInv, [Intake!IntakeNext]_intakeVars PROVE Intake!IntakeIInv'
  OBVIOUS
<1>1. CASE UNCHANGED intakeVars
  BY <1>1 DEF intakeVars, Intake!IntakeIInv, Intake!IntakeTypeOK, Intake!FarAsItsPlace,
     Intake!RacesForCustomers, Intake!OneClaim, Intake!Claims, Intake!ApprovedIsQueued,
     Intake!ChargedIsKnown, Intake!AcknowledgedIsQueued, Intake!At
<1> QED BY <1>1, IntakeChecks, IntakeCharges, IntakeReads, IntakeFindsCustomer, IntakeCreatesCustomer,
        IntakeWrites, IntakeEnds, IntakeHears DEF Intake!IntakeNext

-----------------------------------------------------------------------------
(* Infractions.                                                              *)

NoticeCall == [at : Infraction!NoticePlaces, about : Disputes \cup {"none"},
               status : Infraction!InfractionStatuses \cup {"none"}, result : BOOLEAN,
               saw : Infraction!InfractionStatuses \cup {"none"}, sawRefund : BOOLEAN]
DisputeRow == [status : Infraction!InfractionStatuses \cup {"none"},
               providerPayment : {Infraction!ProviderIdOf(p) : p \in Infraction!Payments}]
Working == [tasks : SUBSET Notices, known : SUBSET Disputes]

LEMMA InfractionTypes ==
    Infraction!InfractionTypeOK <=>
        /\ infraction \in [Disputes -> DisputeRow] /\ refunded \subseteq Infraction!Payments
        /\ notice \in [Notices -> NoticeCall] /\ batcher \in [Batchers -> Working]
        /\ together \subseteq Disputes
BY DEF Infraction!InfractionTypeOK, NoticeCall, DisputeRow, Working

LEMMA InfractionTypesNext ==
    Infraction!InfractionTypeOK' <=>
        /\ infraction' \in [Disputes -> DisputeRow] /\ refunded' \subseteq Infraction!Payments
        /\ notice' \in [Notices -> NoticeCall] /\ batcher' \in [Batchers -> Working]
        /\ together' \subseteq Disputes
BY DEF Infraction!InfractionTypeOK, NoticeCall, DisputeRow, Working

LEMMA OverIsTyped ==
    ASSUME NEW how \in {"COMPLETED", "FAILED", "ignored"}
    PROVE  /\ Infraction!Over(how) \in NoticeCall /\ Infraction!Over(how).at = how
           /\ Infraction!Over(how).saw = "none" /\ ~Infraction!Over(how).sawRefund
BY DEF Infraction!Over, Infraction!NewNotice, NoticeCall, Infraction!NoticePlaces

LEMMA InfractionsStart == Infraction!Init => Infraction!InfractionIInv
<1> SUFFICES ASSUME Infraction!Init PROVE Infraction!InfractionIInv
  OBVIOUS
<1> USE DEF Infraction!Init
<1>1. Infraction!InfractionTypeOK
  <2>1. \A d \in Disputes : Infraction!NoRow(PaymentOf[d]) \in DisputeRow
    BY DEF Infraction!NoRow, DisputeRow, Infraction!ProviderIdOf, Infraction!Payments
  <2>2. infraction \in [Disputes -> DisputeRow]
    BY <2>1
  <2>3. Infraction!NewNotice \in NoticeCall /\ Infraction!Idle \in Working
    BY DEF Infraction!NewNotice, NoticeCall, Infraction!NoticePlaces, Infraction!Idle, Working
  <2>4. notice \in [Notices -> NoticeCall] /\ batcher \in [Batchers -> Working]
    BY <2>3
  <2> QED BY <2>2, <2>4, InfractionTypes
<1>2. \A n \in Notices : notice[n].at = "new" /\ notice[n].saw = "none" /\ ~notice[n].sawRefund
  BY DEF Infraction!NewNotice
<1>3. \A b \in Batchers : batcher[b].tasks = {}
  BY DEF Infraction!Idle
<1>4. Infraction!PassedOpen
  BY <1>2 DEF Infraction!PassedOpen, Infraction!UnderWay, Infraction!Final
<1>5. Infraction!TasksInWork /\ Infraction!TogetherIsNoted /\ Infraction!UnknownIsAbsent
  BY <1>2, <1>3 DEF Infraction!TasksInWork, Infraction!TogetherIsNoted, Infraction!UnknownIsAbsent,
     Infraction!InWork
<1> QED BY <1>1, <1>4, <1>5 DEF Infraction!InfractionIInv

(* A notice outside of a batch goes on: the batches' tasks are what they were. *)
LEMMA NoticeMoves ==
    ASSUME Infraction!InfractionIInv, NEW n \in Notices, NEW x \in NoticeCall,
           notice[n].at # "batch", x.at # "batch", notice' = [notice EXCEPT ![n] = x],
           UNCHANGED <<infraction, refunded, batcher, together>>,
           x.at \in Infraction!UnderWay => x.about \in Disputes /\ x.status # "none",
           x.saw \notin Infraction!Final, ~x.sawRefund
    PROVE  Infraction!InfractionIInv'
<1>1. Infraction!InfractionTypeOK' /\ notice'[n] = x /\ \A m \in Notices : m # n => notice'[m] = notice[m]
  BY InfractionTypes, InfractionTypesNext DEF Infraction!InfractionIInv
<1>2. Infraction!PassedOpen'
  BY <1>1 DEF Infraction!PassedOpen, Infraction!InfractionIInv, Infraction!UnderWay, Infraction!Final
<1>3. n \notin Infraction!InWork /\ \A b \in Batchers : n \notin batcher[b].tasks
  BY DEF Infraction!InfractionIInv, Infraction!TasksInWork, Infraction!InWork
<1>4. Infraction!TasksInWork'
  BY <1>1 DEF Infraction!InfractionIInv, Infraction!TasksInWork, Infraction!InWork
<1>5. \A b \in Batchers : batcher[b].tasks \subseteq Notices
  BY InfractionTypes DEF Infraction!InfractionIInv, Working
<1>6. Infraction!TogetherIsNoted'
  <2>1. Infraction!InWork \subseteq Notices /\ Infraction!InWork' = Infraction!InWork
    BY <1>5 DEF Infraction!InWork
  <2> QED BY <1>1, <1>3, <2>1 DEF Infraction!InfractionIInv, Infraction!TogetherIsNoted
<1>7. Infraction!UnknownIsAbsent'
  BY <1>1, <1>3, <1>5 DEF Infraction!InfractionIInv, Infraction!UnknownIsAbsent, Infraction!Status
<1> QED BY <1>1, <1>2, <1>4, <1>6, <1>7 DEF Infraction!InfractionIInv

(* The receiver's check and its task.                                        *)
LEMMA NoticeChecked ==
    ASSUME Infraction!InfractionIInv, NEW n \in Notices, Infraction!Check(n) \/ Infraction!Enqueue(n)
    PROVE  Infraction!InfractionIInv'
<1>1. UNCHANGED <<infraction, refunded, batcher, together>> /\ notice \in [Notices -> NoticeCall]
  BY InfractionTypes DEF Infraction!InfractionIInv, Infraction!Check, Infraction!Enqueue
<1>2. CASE Infraction!Check(n)
  <2>1. PICK d \in Disputes, word \in Words, result \in BOOLEAN :
          notice' = [notice EXCEPT ![n] =
             IF Infraction!Dismissed(d, Infraction!parseInfractionStatus(word)) THEN Infraction!Over("ignored") ELSE
             [at |-> "check", about |-> d, status |-> Infraction!parseInfractionStatus(word),
              result |-> result, saw |-> Infraction!Status(d), sawRefund |-> PaymentOf[d] \in refunded]]
    BY <1>2 DEF Infraction!Check
  <2> DEFINE status == Infraction!parseInfractionStatus(word)
  <2>2. status \in Infraction!InfractionStatuses /\ status # "none"
    BY DEF Infraction!parseInfractionStatus, Infraction!InfractionStatuses, Infraction!InDispute, Infraction!Final
  <2>3. notice[n].at = "new" /\ Infraction!Status(d) \in Infraction!InfractionStatuses \cup {"none"}
    BY <1>2, InfractionTypes DEF Infraction!Check, Infraction!InfractionIInv, DisputeRow, Infraction!Status
  <2> HIDE DEF status
  <2>4. CASE Infraction!Dismissed(d, status)
    <3>1. notice' = [notice EXCEPT ![n] = Infraction!Over("ignored")]
      BY <2>1, <2>4 DEF status
    <3>2. /\ Infraction!Over("ignored") \in NoticeCall /\ Infraction!Over("ignored").at = "ignored"
          /\ Infraction!Over("ignored").saw = "none" /\ ~Infraction!Over("ignored").sawRefund
      BY OverIsTyped
    <3> QED BY <1>1, <2>3, <3>1, <3>2, NoticeMoves DEF Infraction!UnderWay, Infraction!Final
  <2>5. CASE ~Infraction!Dismissed(d, status)
    <3> DEFINE x == [at |-> "check", about |-> d, status |-> status, result |-> result,
                     saw |-> Infraction!Status(d), sawRefund |-> FALSE]
    <3>1. PaymentOf[d] \notin refunded /\ Infraction!Status(d) \notin Infraction!Final
      BY <2>5 DEF Infraction!Dismissed
    <3>2. (PaymentOf[d] \in refunded) = FALSE
      BY <3>1
    <3>3. notice' = [notice EXCEPT ![n] = x]
      BY <2>1, <2>5, <3>2 DEF status
    <3>4. /\ x \in NoticeCall /\ x.at = "check" /\ x.about = d /\ x.status = status
          /\ x.saw = Infraction!Status(d) /\ ~x.sawRefund
      BY <2>2, <2>3 DEF NoticeCall, Infraction!NoticePlaces
    <3> HIDE DEF x
    <3> QED BY <1>1, <2>2, <2>3, <3>1, <3>3, <3>4, NoticeMoves DEF Infraction!UnderWay
  <2> QED BY <2>4, <2>5
<1>3. CASE Infraction!Enqueue(n)
  <2> DEFINE x == [notice[n] EXCEPT !.at = "queued"]
  <2>1. notice[n].at = "check" /\ notice' = [notice EXCEPT ![n] = x]
    BY <1>1, <1>3 DEF Infraction!Enqueue, Infraction!NoticesTo
  <2>2. /\ x \in NoticeCall /\ x.at = "queued" /\ x.about = notice[n].about /\ x.status = notice[n].status
        /\ x.saw = notice[n].saw /\ x.sawRefund = notice[n].sawRefund
    BY <1>1 DEF NoticeCall, Infraction!NoticePlaces
  <2> HIDE DEF x
  <2>3. /\ notice[n].about \in Disputes /\ notice[n].status # "none"
        /\ notice[n].saw \notin Infraction!Final /\ ~notice[n].sawRefund
    BY <2>1 DEF Infraction!InfractionIInv, Infraction!PassedOpen, Infraction!UnderWay
  <2> QED BY <1>1, <2>1, <2>2, <2>3, NoticeMoves
<1> QED BY <1>2, <1>3

(* A batch takes its tasks and reads the rows.                               *)
LEMMA BatchReads ==
    ASSUME Infraction!InfractionIInv, NEW b \in Batchers, Infraction!ReadRows(b)
    PROVE  Infraction!InfractionIInv'
<1>1. PICK ns \in SUBSET Notices :
        /\ \A n \in ns : notice[n].at = "queued"
        /\ Infraction!NoticesTo(ns, "batch")
        /\ batcher' = [batcher EXCEPT ![b] = [tasks |-> ns,
                           known |-> {d \in Infraction!About(ns) : Infraction!Status(d) # "none"}]]
        /\ together' = together \cup (Infraction!About(ns) \cap Infraction!About(Infraction!InWork))
              \cup {d \in Disputes : Infraction!Cardinality({n \in ns : notice[n].about = d}) > 1}
  BY DEF Infraction!ReadRows
<1>2. /\ UNCHANGED <<infraction, refunded>> /\ batcher[b] = Infraction!Idle
      /\ infraction \in [Disputes -> DisputeRow] /\ refunded \subseteq Infraction!Payments
      /\ notice \in [Notices -> NoticeCall] /\ batcher \in [Batchers -> Working] /\ together \subseteq Disputes
  BY InfractionTypes DEF Infraction!InfractionIInv, Infraction!ReadRows
<1>3. \A n \in ns : notice[n].about \in Disputes
  BY <1>1 DEF Infraction!InfractionIInv, Infraction!PassedOpen, Infraction!UnderWay
<1> DEFINE known == {d \in Infraction!About(ns) : Infraction!Status(d) # "none"}
<1>4. Infraction!About(ns) \subseteq Disputes /\ known \subseteq Disputes
  BY <1>3 DEF Infraction!About
<1>5. /\ \A n \in Notices : n \in ns => notice'[n] = [notice[n] EXCEPT !.at = "batch"]
      /\ \A n \in Notices : n \notin ns => notice'[n] = notice[n]
  BY <1>1 DEF Infraction!NoticesTo
<1>6. /\ notice' \in [Notices -> NoticeCall]
      /\ \A n \in ns : /\ notice'[n].at = "batch" /\ notice'[n].about = notice[n].about
                       /\ notice'[n].status = notice[n].status /\ notice'[n].saw = notice[n].saw
                       /\ notice'[n].sawRefund = notice[n].sawRefund
  <2>1. ASSUME NEW n \in ns
        PROVE  /\ notice'[n] \in NoticeCall /\ notice'[n].at = "batch" /\ notice'[n].about = notice[n].about
               /\ notice'[n].status = notice[n].status /\ notice'[n].saw = notice[n].saw
               /\ notice'[n].sawRefund = notice[n].sawRefund
    <3>1. notice[n] \in NoticeCall /\ notice'[n] = [notice[n] EXCEPT !.at = "batch"]
      BY <1>2, <1>5
    <3> QED BY <3>1 DEF NoticeCall, Infraction!NoticePlaces
  <2>2. \A n \in Notices : notice'[n] \in NoticeCall
    BY <1>2, <1>5, <2>1
  <2>3. notice' = [n \in Notices |-> notice'[n]]
    BY <1>1 DEF Infraction!NoticesTo
  <2> QED BY <2>1, <2>2, <2>3
<1>7. /\ batcher' \in [Batchers -> Working] /\ batcher'[b].tasks = ns /\ batcher'[b].known = known
      /\ \A a \in Batchers : a # b => batcher'[a] = batcher[a]
  <2> HIDE DEF known
  <2>1. [tasks |-> ns, known |-> known] \in Working
    BY <1>4 DEF Working
  <2>2. batcher' = [batcher EXCEPT ![b] = [tasks |-> ns, known |-> known]]
    BY <1>1 DEF known
  <2> QED BY <1>2, <2>1, <2>2
<1>8. together' \subseteq Disputes /\ together \subseteq together'
  BY <1>1, <1>2, <1>4
<1>9. Infraction!InfractionTypeOK'
  BY <1>2, <1>6, <1>7, <1>8, InfractionTypesNext
<1>10. Infraction!PassedOpen'
  BY <1>1, <1>5, <1>6 DEF Infraction!InfractionIInv, Infraction!PassedOpen, Infraction!UnderWay, Infraction!Final
<1>11. /\ Infraction!InWork \cap ns = {} /\ Infraction!InWork \subseteq Notices
       /\ \A a \in Batchers : batcher[a].tasks \subseteq Infraction!InWork
       /\ batcher[b].tasks = {}
  <2>1. \A a \in Batchers : batcher[a].tasks \subseteq Notices
    BY <1>2 DEF Working
  <2> QED BY <1>1, <1>2, <2>1 DEF Infraction!InfractionIInv, Infraction!TasksInWork, Infraction!InWork,
             Infraction!Idle
<1>12. Infraction!InWork' = Infraction!InWork \cup ns
  BY <1>7, <1>11 DEF Infraction!InWork
<1>13. Infraction!TasksInWork'
  <2>1. \A n \in Notices : notice'[n].at = "batch" <=> n \in Infraction!InWork'
    BY <1>5, <1>6, <1>12 DEF Infraction!InfractionIInv, Infraction!TasksInWork
  <2>2. \A a, c \in Batchers : a # c => batcher'[a].tasks \cap batcher'[c].tasks = {}
    BY <1>7, <1>11 DEF Infraction!InfractionIInv, Infraction!TasksInWork
  <2> QED BY <2>1, <2>2 DEF Infraction!TasksInWork, Infraction!InWork
<1>14. Infraction!TogetherIsNoted'
  <2> SUFFICES ASSUME NEW m \in Infraction!InWork \cup ns, NEW n \in Infraction!InWork \cup ns, m # n,
                      notice'[m].about = notice'[n].about
               PROVE  notice'[n].about \in together'
    BY <1>12 DEF Infraction!TogetherIsNoted
  <2>1. \A o \in Infraction!InWork \cup ns : notice'[o].about = notice[o].about
    BY <1>5, <1>6, <1>11
  <2>2. CASE m \in Infraction!InWork /\ n \in Infraction!InWork
    BY <1>8, <2>1, <2>2 DEF Infraction!InfractionIInv, Infraction!TogetherIsNoted
  <2>3. CASE (m \in ns /\ n \in Infraction!InWork) \/ (n \in ns /\ m \in Infraction!InWork)
    <3>1. notice[n].about \in Infraction!About(ns) \cap Infraction!About(Infraction!InWork)
      BY <2>1, <2>3 DEF Infraction!About
    <3> QED BY <1>1, <2>1, <3>1
  <2>4. CASE m \in ns /\ n \in ns
    <3> DEFINE alike == {o \in ns : notice[o].about = notice[n].about}
    <3>1. alike \in SUBSET Notices /\ m \in alike /\ n \in alike
      BY <2>1, <2>4
    <3>2. IsFiniteSet(Notices)
      BY ServicesAssumption, CountsAlike DEF Infraction!InfractionsAssumption
    <3>3. IsFiniteSet(alike) /\ Cardinality(alike) \in Nat
      BY <3>1, <3>2, FS_Subset, FS_CardinalityType
    <3>4. Cardinality({m, n}) = 2 /\ {m, n} \in SUBSET alike
      <4>1. IsFiniteSet({m}) /\ Cardinality({m}) = 1
        BY FS_Singleton
      <4>2. Cardinality({m} \cup {n}) = 2
        BY <4>1, OneAdded
      <4>3. {m} \cup {n} = {m, n}
        OBVIOUS
      <4> QED BY <3>1, <4>2, <4>3
    <3>5. Cardinality(alike) > 1
      <4>1. Cardinality({m, n}) <= Cardinality(alike)
        BY <3>3, <3>4, FS_Subset
      <4> QED BY <3>3, <3>4, <4>1
    <3>6. Infraction!Cardinality(alike) > 1
      BY <3>5, CountsAlike
    <3>7. notice[n].about \in {d \in Disputes : Infraction!Cardinality({o \in ns : notice[o].about = d}) > 1}
      BY <1>3, <2>4, <3>6
    <3> QED BY <1>1, <2>1, <3>7
  <2> QED BY <2>2, <2>3, <2>4
<1>15. Infraction!UnknownIsAbsent'
  <2> SUFFICES ASSUME NEW a \in Batchers, NEW n \in batcher'[a].tasks,
                      notice'[n].about \notin batcher'[a].known, notice'[n].about \notin together'
               PROVE  infraction'[notice'[n].about].status = "none"
    BY DEF Infraction!UnknownIsAbsent, Infraction!Status
  <2>1. CASE a = b
    <3>1. n \in ns /\ notice'[n].about = notice[n].about /\ notice[n].about \in Infraction!About(ns)
      BY <1>6, <1>7, <2>1 DEF Infraction!About
    <3>2. Infraction!Status(notice[n].about) = "none"
      BY <1>7, <2>1, <3>1
    <3> QED BY <1>2, <3>1, <3>2 DEF Infraction!Status
  <2>2. CASE a # b
    <3>1. n \in batcher[a].tasks /\ batcher'[a] = batcher[a] /\ notice'[n] = notice[n]
      BY <1>5, <1>7, <1>11, <2>2
    <3> QED BY <1>2, <1>8, <3>1 DEF Infraction!InfractionIInv, Infraction!UnknownIsAbsent, Infraction!Status
  <2> QED BY <2>1, <2>2
<1> QED BY <1>9, <1>10, <1>13, <1>14, <1>15 DEF Infraction!InfractionIInv

(* What a transaction did, row by row and task by task.                      *)
LEMMA WhatIsWritten ==
    ASSUME Infraction!InfractionIInv, NEW b \in Batchers, Infraction!Transact(b)
    PROVE  /\ batcher' = [batcher EXCEPT ![b] = Infraction!Idle] /\ UNCHANGED <<refunded, together>>
           /\ notice' = [n \in Notices |-> notice'[n]]
           /\ \A n \in Notices : n \notin batcher[b].tasks => notice'[n] = notice[n]
           /\ \A n \in batcher[b].tasks :
                /\ notice'[n] \in {Infraction!Over("COMPLETED"), Infraction!Over("FAILED")}
                /\ notice'[n].at = "COMPLETED" => ~Infraction!Fails(b, n)
           /\ infraction' = [d \in Disputes |-> infraction'[d]]
           /\ \A d \in Disputes :
                \/ infraction'[d] = infraction[d]
                \/ \E n \in batcher[b].tasks :
                     /\ notice[n].about = d
                     /\ infraction'[d] = [infraction[d] EXCEPT !.status = notice[n].status]
           /\ \A d \in Disputes : \A n \in batcher[b].tasks :
                /\ notice[n].about = d /\ ~Infraction!Fails(b, n)
                /\ IF d \in batcher[b].known THEN Infraction!Writes(b, n) ELSE Infraction!Status(d) = "none"
                => \E m \in batcher[b].tasks :
                     /\ notice[m].about = d
                     /\ infraction'[d] = [infraction[d] EXCEPT !.status = notice[m].status]
<1> DEFINE tasks == batcher[b].tasks
<1> DEFINE good == {n \in tasks : ~Infraction!Fails(b, n)}
<1> DEFINE creates == {n \in good : notice[n].about \notin batcher[b].known}
<1> DEFINE updates == {n \in good \ creates : Infraction!Writes(b, n)}
<1> DEFINE Of(d) == {n \in updates : notice[n].about = d}
                      \cup {n \in creates : notice[n].about = d /\ Infraction!Status(d) = "none"}
<1>1. PICK last \in [Disputes -> tasks], reported \in {good, {}} :
        /\ \A d \in Disputes : Of(d) # {} => last[d] \in Of(d)
        /\ infraction' = [d \in Disputes |->
             IF Of(d) = {} THEN infraction[d]
             ELSE [infraction[d] EXCEPT !.status = notice[last[d]].status]]
        /\ notice' = [n \in Notices |->
             IF n \in tasks THEN Infraction!Over(IF n \in reported THEN "COMPLETED" ELSE "FAILED")
             ELSE notice[n]]
        /\ batcher' = [batcher EXCEPT ![b] = Infraction!Idle] /\ UNCHANGED <<refunded, together>>
  BY DEF Infraction!Transact
<1>2. tasks \subseteq Notices
  BY InfractionTypes DEF Infraction!InfractionIInv, Working
<1>3. /\ \A n \in Notices : n \notin tasks => notice'[n] = notice[n]
      /\ \A n \in tasks : notice'[n] = Infraction!Over(IF n \in reported THEN "COMPLETED" ELSE "FAILED")
  BY <1>1, <1>2
<1>4. ASSUME NEW n \in tasks
      PROVE  /\ notice'[n] \in {Infraction!Over("COMPLETED"), Infraction!Over("FAILED")}
             /\ notice'[n].at = "COMPLETED" => ~Infraction!Fails(b, n)
  <2>1. CASE n \in reported
    <3>1. notice'[n] = Infraction!Over("COMPLETED") /\ n \in good
      BY <1>1, <1>3, <2>1
    <3> QED BY <3>1
  <2>2. CASE n \notin reported
    <3>1. notice'[n] = Infraction!Over("FAILED")
      BY <1>3, <2>2
    <3> QED BY <3>1, OverIsTyped
  <2> QED BY <2>1, <2>2
<1>5. \A d \in Disputes : /\ Of(d) = {} => infraction'[d] = infraction[d]
                          /\ Of(d) # {} => infraction'[d] = [infraction[d] EXCEPT !.status = notice[last[d]].status]
  BY <1>1
<1>6. \A d \in Disputes : Of(d) # {} => last[d] \in tasks /\ notice[last[d]].about = d
  BY <1>1
<1>7. \A d \in Disputes : \A n \in tasks :
        /\ notice[n].about = d /\ ~Infraction!Fails(b, n)
        /\ IF d \in batcher[b].known THEN Infraction!Writes(b, n) ELSE Infraction!Status(d) = "none"
        => n \in Of(d)
  OBVIOUS
<1>8. infraction' = [d \in Disputes |-> infraction'[d]] /\ notice' = [n \in Notices |-> notice'[n]]
  BY <1>1
<1> HIDE DEF Of, good, creates, updates
<1>9. \A d \in Disputes :
        \/ infraction'[d] = infraction[d]
        \/ \E n \in tasks : /\ notice[n].about = d
                            /\ infraction'[d] = [infraction[d] EXCEPT !.status = notice[n].status]
  BY <1>5, <1>6
<1>10. \A d \in Disputes : \A n \in tasks :
        /\ notice[n].about = d /\ ~Infraction!Fails(b, n)
        /\ IF d \in batcher[b].known THEN Infraction!Writes(b, n) ELSE Infraction!Status(d) = "none"
        => \E m \in tasks : /\ notice[m].about = d
                            /\ infraction'[d] = [infraction[d] EXCEPT !.status = notice[m].status]
  BY <1>5, <1>6, <1>7
<1> QED BY <1>1, <1>3, <1>4, <1>8, <1>9, <1>10

(* A batch ends: its notices are over, and the rows of disputes that others  *)
(* work alone are as they were.                                              *)
LEMMA BatchEnds ==
    ASSUME Infraction!InfractionIInv, NEW b \in Batchers,
           batcher' = [batcher EXCEPT ![b] = Infraction!Idle], UNCHANGED <<refunded, together>>,
           notice' = [n \in Notices |-> notice'[n]],
           \A n \in Notices : n \notin batcher[b].tasks => notice'[n] = notice[n],
           \A n \in batcher[b].tasks : notice'[n] \in {Infraction!Over("COMPLETED"), Infraction!Over("FAILED")},
           infraction' = [d \in Disputes |-> infraction'[d]],
           \A d \in Disputes :
             \/ infraction'[d] = infraction[d]
             \/ \E n \in batcher[b].tasks :
                  /\ notice[n].about = d
                  /\ infraction'[d] = [infraction[d] EXCEPT !.status = notice[n].status]
    PROVE  Infraction!InfractionIInv'
<1>1. /\ infraction \in [Disputes -> DisputeRow] /\ refunded \subseteq Infraction!Payments
      /\ notice \in [Notices -> NoticeCall] /\ batcher \in [Batchers -> Working] /\ together \subseteq Disputes
  BY InfractionTypes DEF Infraction!InfractionIInv
<1>2. \A a \in Batchers : batcher[a].tasks \subseteq Notices
  BY <1>1 DEF Working
<1>3. ASSUME NEW n \in batcher[b].tasks
      PROVE  /\ notice'[n] \in NoticeCall /\ notice'[n].at \in {"COMPLETED", "FAILED"}
             /\ notice'[n].saw = "none" /\ ~notice'[n].sawRefund
  BY OverIsTyped
<1>4. notice' \in [Notices -> NoticeCall]
  <2>1. \A n \in Notices : notice'[n] \in NoticeCall
    BY <1>1, <1>3
  <2> QED BY <2>1
<1>5. infraction' \in [Disputes -> DisputeRow]
  <2>1. ASSUME NEW d \in Disputes PROVE infraction'[d] \in DisputeRow
    <3>1. infraction[d] \in DisputeRow /\ \A n \in Notices : notice[n] \in NoticeCall
      BY <1>1
    <3>2. ASSUME NEW n \in batcher[b].tasks
          PROVE  [infraction[d] EXCEPT !.status = notice[n].status] \in DisputeRow
      <4>1. notice[n].status \in Infraction!InfractionStatuses \cup {"none"}
        BY <1>2, <3>1 DEF NoticeCall
      <4> QED BY <3>1, <4>1 DEF DisputeRow
    <3> QED BY <3>1, <3>2
  <2> QED BY <2>1
<1>6. /\ batcher' \in [Batchers -> Working] /\ batcher'[b].tasks = {}
      /\ \A a \in Batchers : a # b => batcher'[a] = batcher[a]
  <2>1. Infraction!Idle \in Working /\ Infraction!Idle.tasks = {}
    BY DEF Infraction!Idle, Working
  <2> QED BY <1>1, <2>1
<1>7. Infraction!InfractionTypeOK'
  BY <1>1, <1>4, <1>5, <1>6, InfractionTypesNext
<1>8. Infraction!PassedOpen'
  BY <1>3 DEF Infraction!InfractionIInv, Infraction!PassedOpen, Infraction!UnderWay, Infraction!Final
<1>9. /\ \A a, c \in Batchers : a # c => batcher[a].tasks \cap batcher[c].tasks = {}
      /\ \A n \in Notices : notice[n].at = "batch" <=> \E a \in Batchers : n \in batcher[a].tasks
  BY DEF Infraction!InfractionIInv, Infraction!TasksInWork, Infraction!InWork
<1>10. ASSUME NEW a \in Batchers, NEW n \in batcher'[a].tasks
       PROVE  a # b /\ n \in batcher[a].tasks /\ n \notin batcher[b].tasks /\ notice'[n] = notice[n]
  BY <1>2, <1>6, <1>9
<1>11. Infraction!TasksInWork'
  <2>1. ASSUME NEW n \in Notices
        PROVE  notice'[n].at = "batch" <=> \E a \in Batchers : n \in batcher'[a].tasks
    <3>1. CASE n \in batcher[b].tasks
      BY <1>3, <1>10, <3>1
    <3>2. CASE n \notin batcher[b].tasks
      BY <1>6, <1>9, <3>2
    <3> QED BY <3>1, <3>2
  <2>2. \A a, c \in Batchers : a # c => batcher'[a].tasks \cap batcher'[c].tasks = {}
    BY <1>6, <1>9
  <2> QED BY <2>1, <2>2 DEF Infraction!TasksInWork, Infraction!InWork
<1>12. \A m, n : (\E a \in Batchers : m \in batcher[a].tasks) /\ (\E a \in Batchers : n \in batcher[a].tasks)
                 /\ m # n /\ notice[m].about = notice[n].about => notice[n].about \in together
  BY DEF Infraction!InfractionIInv, Infraction!TogetherIsNoted, Infraction!InWork
<1>13. Infraction!TogetherIsNoted'
  <2> SUFFICES ASSUME NEW a \in Batchers, NEW m \in batcher'[a].tasks, NEW c \in Batchers,
                      NEW n \in batcher'[c].tasks, m # n, notice'[m].about = notice'[n].about
               PROVE  notice'[n].about \in together'
    BY DEF Infraction!TogetherIsNoted, Infraction!InWork
  <2> QED BY <1>10, <1>12
<1>14. Infraction!UnknownIsAbsent'
  <2> SUFFICES ASSUME NEW a \in Batchers, NEW n \in batcher'[a].tasks,
                      notice'[n].about \notin batcher'[a].known, notice'[n].about \notin together'
               PROVE  infraction'[notice'[n].about].status = "none"
    BY DEF Infraction!UnknownIsAbsent, Infraction!Status
  <2>1. a # b /\ n \in batcher[a].tasks /\ n \notin batcher[b].tasks /\ notice'[n] = notice[n]
        /\ batcher'[a] = batcher[a]
    BY <1>6, <1>10
  <2>2. infraction[notice[n].about].status = "none"
    BY <2>1 DEF Infraction!InfractionIInv, Infraction!UnknownIsAbsent, Infraction!Status
  <2>3. notice[n].about \in Disputes
    BY <1>2, <1>9, <2>1 DEF Infraction!InfractionIInv, Infraction!PassedOpen, Infraction!UnderWay
  <2>4. \A m \in batcher[b].tasks : notice[m].about # notice[n].about
    BY <1>12, <2>1
  <2> QED BY <2>1, <2>2, <2>3, <2>4
<1> QED BY <1>7, <1>8, <1>11, <1>13, <1>14 DEF Infraction!InfractionIInv

LEMMA BatchOfNoticesEnds ==
    ASSUME Infraction!InfractionIInv, NEW b \in Batchers, Infraction!Transact(b) \/ Infraction!Throw(b)
    PROVE  Infraction!InfractionIInv'
<1>1. CASE Infraction!Transact(b)
  BY <1>1, WhatIsWritten, BatchEnds
<1>2. CASE Infraction!Throw(b)
  <2>1. /\ notice' = [n \in Notices |-> IF n \in batcher[b].tasks THEN Infraction!Over("FAILED") ELSE notice[n]]
        /\ batcher' = [batcher EXCEPT ![b] = Infraction!Idle] /\ UNCHANGED <<infraction, refunded, together>>
    BY <1>2 DEF Infraction!Throw
  <2>2. batcher[b].tasks \subseteq Notices /\ infraction \in [Disputes -> DisputeRow]
    BY InfractionTypes DEF Infraction!InfractionIInv, Working
  <2>3. /\ notice' = [n \in Notices |-> notice'[n]]
        /\ \A n \in Notices : n \notin batcher[b].tasks => notice'[n] = notice[n]
        /\ \A n \in batcher[b].tasks : notice'[n] \in {Infraction!Over("COMPLETED"), Infraction!Over("FAILED")}
        /\ infraction' = [d \in Disputes |-> infraction'[d]]
        /\ \A d \in Disputes : infraction'[d] = infraction[d]
    BY <2>1, <2>2
  <2> QED BY <2>1, <2>3, BatchEnds
<1> QED BY <1>1, <1>2

(* A refund looks for the payment's own id, which no infraction carries.     *)
LEMMA RefundClosesNothing ==
    ASSUME Infraction!InfractionIInv, NEW p \in Infraction!Payments, Infraction!Refund(p)
    PROVE  UNCHANGED <<infraction, notice, batcher, together>> /\ refunded' = refunded \cup {p}
<1>1. infraction \in [Disputes -> DisputeRow]
  BY InfractionTypes DEF Infraction!InfractionIInv
<1>2. PICK given \in SUBSET Disputes :
        infraction' = [d \in Disputes |->
          IF /\ infraction[d].providerPayment = Infraction!ToCheck(p)
             /\ Infraction!Status(d) \notin Infraction!Final \cup {"none"} /\ d \notin given
          THEN [infraction[d] EXCEPT !.status = "CLOSED"] ELSE infraction[d]]
  BY DEF Infraction!Refund
<1>3. \A d \in Disputes : infraction[d].providerPayment # Infraction!ToCheck(p)
  <2> TAKE d \in Disputes
  <2>1. PICK q \in Infraction!Payments : infraction[d].providerPayment = <<"provider", q>>
    BY <1>1 DEF DisputeRow, Infraction!ProviderIdOf
  <2>2. Infraction!ToCheck(p) = <<"payment", p>>
    BY DEF Infraction!ToCheck, Infraction!IdOf
  <2> QED BY <2>1, <2>2
<1>4. infraction' = infraction
  BY <1>1, <1>2, <1>3
<1> QED BY <1>4 DEF Infraction!Refund

LEMMA InfractionsStep ==
    Infraction!InfractionIInv /\ [Infraction!InfractionNext]_infractionVars => Infraction!InfractionIInv'
<1> SUFFICES ASSUME Infraction!InfractionIInv, [Infraction!InfractionNext]_infractionVars
             PROVE  Infraction!InfractionIInv'
  OBVIOUS
<1>1. ASSUME UNCHANGED <<infraction, notice, batcher, together>>, refunded' \subseteq Infraction!Payments
      PROVE  Infraction!InfractionIInv'
  BY <1>1 DEF Infraction!InfractionIInv, Infraction!InfractionTypeOK, Infraction!PassedOpen,
     Infraction!TasksInWork, Infraction!TogetherIsNoted, Infraction!UnknownIsAbsent, Infraction!Status,
     Infraction!InWork
<1>2. refunded \subseteq Infraction!Payments
  BY DEF Infraction!InfractionIInv, Infraction!InfractionTypeOK
<1>3. CASE UNCHANGED infractionVars
  BY <1>1, <1>2, <1>3 DEF infractionVars
<1>4. ASSUME NEW p \in Infraction!Payments, Infraction!Refund(p) PROVE Infraction!InfractionIInv'
  BY <1>1, <1>2, <1>4, RefundClosesNothing
<1> QED BY <1>3, <1>4, NoticeChecked, BatchReads, BatchOfNoticesEnds DEF Infraction!InfractionNext

(* A row that changes, and a notice that is over, are of a transaction or of *)
(* a batch that throws.                                                      *)
LEMMA DisputesStep ==
    ASSUME Infraction!InfractionIInv, [Infraction!InfractionNext]_infractionVars
    PROVE  /\ \A d \in Disputes :
                /\ Infraction!Status(d) \in Infraction!Final /\ infraction'[d].status # Infraction!Status(d) =>
                     \E n \in Infraction!Ended(d) : notice[n].saw \notin Infraction!Final
                /\ PaymentOf[d] \in refunded /\ infraction'[d] # infraction[d] =>
                     \E n \in Infraction!Ended(d) : ~notice[n].sawRefund
           /\ \A d \in Disputes :
                d \notin together /\ (\E n \in Infraction!Completed(d) : notice[n].status \in Infraction!Final) =>
                    infraction'[d].status \in Infraction!Final
<1>1. /\ infraction \in [Disputes -> DisputeRow] /\ notice \in [Notices -> NoticeCall]
      /\ \A a \in Batchers : batcher[a].tasks \subseteq Notices
  BY InfractionTypes DEF Infraction!InfractionIInv, Working
<1>2. /\ \A n \in Notices : notice[n].at = "batch" <=> \E a \in Batchers : n \in batcher[a].tasks
      /\ \A n \in Notices : notice[n].saw \notin Infraction!Final /\ ~notice[n].sawRefund
  BY DEF Infraction!InfractionIInv, Infraction!TasksInWork, Infraction!InWork, Infraction!PassedOpen
<1>3. ASSUME NEW d \in Disputes, infraction'[d] # infraction[d]
      PROVE  \E n \in Infraction!Ended(d) : n \in Notices
  <2>1. PICK b \in Batchers : Infraction!Transact(b)
    BY <1>3, RefundClosesNothing DEF Infraction!InfractionNext, infractionVars, Infraction!Check,
       Infraction!Enqueue, Infraction!ReadRows, Infraction!Throw
  <2>2. PICK n \in batcher[b].tasks : notice[n].about = d
    <3>1. \/ infraction'[d] = infraction[d]
          \/ \E n \in batcher[b].tasks :
               /\ notice[n].about = d
               /\ infraction'[d] = [infraction[d] EXCEPT !.status = notice[n].status]
      BY <2>1, WhatIsWritten
    <3> QED BY <1>3, <3>1
  <2>3. notice'[n].at # "batch"
    BY <2>1, WhatIsWritten, OverIsTyped
  <2> QED BY <1>1, <1>2, <2>2, <2>3 DEF Infraction!Ended
<1>4. ASSUME NEW d \in Disputes, d \notin together, NEW n \in Infraction!Completed(d),
             notice[n].status \in Infraction!Final
      PROVE  infraction'[d].status \in Infraction!Final
  <2>1. n \in Notices /\ notice[n].about = d /\ notice[n].at = "batch" /\ notice'[n].at = "COMPLETED"
    BY <1>4 DEF Infraction!Completed, Infraction!Ended
  <2>2. PICK b \in Batchers : n \in batcher[b].tasks
    BY <1>2, <2>1
  <2>3. PICK a \in Batchers : Infraction!Transact(a)
    <3>1. ASSUME NEW m \in Notices, Infraction!Check(m) \/ Infraction!Enqueue(m) PROVE FALSE
      <4>1. m # n /\ notice'[n] = notice[n]
        BY <1>1, <2>1, <3>1 DEF Infraction!Check, Infraction!Enqueue, Infraction!NoticesTo
      <4> QED BY <2>1, <4>1
    <3>2. ASSUME NEW a \in Batchers, Infraction!ReadRows(a) PROVE FALSE
      <4>1. PICK ns \in SUBSET {m \in Notices : notice[m].at = "queued"} : Infraction!NoticesTo(ns, "batch")
        BY <3>2 DEF Infraction!ReadRows
      <4>2. notice'[n] = notice[n]
        BY <1>1, <2>1, <4>1 DEF Infraction!NoticesTo
      <4> QED BY <2>1, <4>2
    <3>3. ASSUME NEW a \in Batchers, Infraction!Throw(a) PROVE FALSE
      <4>1. notice'[n] \in {notice[n], Infraction!Over("FAILED")}
        BY <2>1, <3>3 DEF Infraction!Throw
      <4> QED BY <2>1, <4>1, OverIsTyped
    <3>4. ASSUME NEW p \in Infraction!Payments, Infraction!Refund(p) PROVE FALSE
      BY <2>1, <3>4 DEF Infraction!Refund
    <3>5. ~UNCHANGED infractionVars
      BY <2>1 DEF infractionVars
    <3> QED BY <3>1, <3>2, <3>3, <3>4, <3>5 DEF Infraction!InfractionNext
  <2>4. n \in batcher[a].tasks
    BY <2>1, <2>3, WhatIsWritten
  <2>5. ~Infraction!Fails(a, n) /\ Infraction!Writes(a, n)
    BY <1>4, <2>3, <2>4, <2>1, WhatIsWritten DEF Infraction!Writes
  <2>6. IF d \in batcher[a].known THEN Infraction!Writes(a, n) ELSE Infraction!Status(d) = "none"
    BY <1>4, <2>1, <2>4, <2>5 DEF Infraction!InfractionIInv, Infraction!UnknownIsAbsent
  <2>7. PICK m \in batcher[a].tasks :
          /\ notice[m].about = d
          /\ infraction'[d] = [infraction[d] EXCEPT !.status = notice[m].status]
    BY <2>1, <2>3, <2>4, <2>5, <2>6, WhatIsWritten
  <2>8. m = n
    BY <1>4, <2>1, <2>4, <2>7 DEF Infraction!InfractionIInv, Infraction!TogetherIsNoted, Infraction!InWork
  <2>9. infraction'[d].status = notice[n].status
    <3>1. infraction[d] \in DisputeRow
      BY <1>1
    <3> QED BY <2>7, <2>8, <3>1 DEF DisputeRow
  <2> QED BY <1>4, <2>9
<1>5. \A d \in Disputes : infraction'[d].status # Infraction!Status(d) => infraction'[d] # infraction[d]
  BY DEF Infraction!Status
<1>6. \A d \in Disputes : \A n \in Infraction!Ended(d) : n \in Notices
  BY DEF Infraction!Ended
<1> QED BY <1>2, <1>3, <1>4, <1>5, <1>6

-----------------------------------------------------------------------------
(* Receivers and withdrawal requests.                                        *)

ReceiverRow == [form : Forms \cup {NoForm}, deleted : BOOLEAN, known : SUBSET Receivers,
                status : {"none", "PENDING", "ACTIVE", "REJECTED"}]
DeedCall == [at : {"new", "insert", "decide", "delete", "over"}, of : Receivers \cup {NoReceiver},
             form : Forms \cup {NoForm}, known : SUBSET Receivers]
PayoutCall == [at : {"new", "receiver", "insert", "inserted", "refused"},
               external : PayoutIds \cup {NoPayoutId}, of : Receivers \cup {NoReceiver},
               known : SUBSET Payouts]

LEMMA PayoutTypesAre ==
    /\ Payout!PayoutIntakeTypeOK <=>
         /\ receiver \in [Receivers -> ReceiverRow] /\ deed \in [ReceiverDeeds -> DeedCall]
         /\ withdrawal \in [Payouts -> PayoutCall]
         /\ accepted \subseteq Receivers /\ decidedTwice \subseteq Receivers
    /\ Payout!PayoutIntakeTypeOK' <=>
         /\ receiver' \in [Receivers -> ReceiverRow] /\ deed' \in [ReceiverDeeds -> DeedCall]
         /\ withdrawal' \in [Payouts -> PayoutCall]
         /\ accepted' \subseteq Receivers /\ decidedTwice' \subseteq Receivers
BY DEF Payout!PayoutIntakeTypeOK, ReceiverRow, DeedCall, PayoutCall

LEMMA PayoutsStart == Payout!Init => Payout!PayoutIntakeIInv
<1> SUFFICES ASSUME Payout!Init PROVE Payout!PayoutIntakeIInv
  OBVIOUS
<1> USE ServicesAssumption DEF Payout!PayoutIntakeAssumption, Payout!Init
<1>1. /\ Payout!Row(Registered, {}) \in ReceiverRow /\ Payout!Unregistered \in ReceiverRow
      /\ Payout!NewDeed \in DeedCall /\ Payout!NewPayout \in PayoutCall
  BY DEF Payout!Row, Payout!Unregistered, Payout!NewDeed, Payout!NewPayout, ReceiverRow, DeedCall, PayoutCall
<1>2. \A r \in Receivers : receiver[r] \in {Payout!Row(Registered, {}), Payout!Unregistered}
  OBVIOUS
<1>3. receiver \in [Receivers -> ReceiverRow]
  BY <1>1, <1>2
<1>4. deed \in [ReceiverDeeds -> DeedCall] /\ withdrawal \in [Payouts -> PayoutCall]
  BY <1>1
<1>5. Payout!PayoutIntakeTypeOK
  BY <1>3, <1>4, PayoutTypesAre
<1>6. \A d \in ReceiverDeeds : deed[d].at = "new"
  BY DEF Payout!NewDeed
<1>7. \A w \in Payouts : withdrawal[w].at = "new"
  BY DEF Payout!NewPayout
<1>8. \A r \in Receivers : receiver[r].status \in {"none", "PENDING"} /\ receiver[r].known = {}
  BY <1>2 DEF Payout!Row, Payout!Unregistered
<1>9. /\ Payout!DecidesARow /\ Payout!AcceptedByStatus /\ Payout!ReadsAccepted /\ Payout!SawOthers
      /\ Payout!SawOtherIds
  BY <1>6, <1>7, <1>8 DEF Payout!DecidesARow, Payout!AcceptedByStatus, Payout!ReadsAccepted,
     Payout!SawOthers, Payout!SawOtherIds, Payout!Unlike
<1> QED BY <1>5, <1>9 DEF Payout!PayoutIntakeIInv

(* What the properties add to it.                                            *)
LEMMA PayoutsShow ==
    Payout!PayoutIntakeIInv =>
        /\ Payout!PaidToAccepted /\ Payout!OneReceiverPerDestination /\ Payout!OnePayoutPerExternalId
<1> SUFFICES ASSUME Payout!PayoutIntakeIInv
             PROVE  /\ Payout!PaidToAccepted /\ Payout!OneReceiverPerDestination
                    /\ Payout!OnePayoutPerExternalId
  OBVIOUS
<1>1. Payout!PaidToAccepted
  <2>1. accepted \subseteq Receivers
    BY PayoutTypesAre DEF Payout!PayoutIntakeIInv
  <2> QED BY <2>1 DEF Payout!PayoutIntakeIInv, Payout!PaidToAccepted, Payout!Inserted, Payout!ReadsAccepted,
             Payout!AcceptedByStatus
<1>2. Payout!OneReceiverPerDestination
  <2> SUFFICES ASSUME NEW r \in Receivers, NEW s \in Receivers, Payout!Alike(receiver[r].form, receiver[s].form)
               PROVE  r \notin receiver[s].known /\ s \notin receiver[r].known
    BY DEF Payout!OneReceiverPerDestination, Payout!Live
  <2>1. Payout!Alike(receiver[s].form, receiver[r].form)
    BY DEF Payout!Alike
  <2>2. /\ \A q \in receiver[s].known : ~Payout!Alike(receiver[q].form, receiver[s].form)
        /\ \A q \in receiver[r].known : ~Payout!Alike(receiver[q].form, receiver[r].form)
    BY DEF Payout!PayoutIntakeIInv, Payout!SawOthers, Payout!Unlike
  <2> QED BY <2>1, <2>2
<1>3. Payout!OnePayoutPerExternalId
  BY DEF Payout!PayoutIntakeIInv, Payout!OnePayoutPerExternalId, Payout!Inserted, Payout!SawOtherIds
<1> QED BY <1>1, <1>2, <1>3

(* A request about a receiver goes on; the rows stay.                        *)
LEMMA DeedMoves ==
    ASSUME Payout!PayoutIntakeIInv, NEW d \in ReceiverDeeds, NEW x \in DeedCall,
           deed' = [deed EXCEPT ![d] = x], UNCHANGED <<receiver, withdrawal, accepted, decidedTwice>>,
           x.at \in {"decide", "delete"} => x.of \in Receivers /\ receiver[x.of].status # "none",
           x.at = "decide" => x.known = {x.of},
           x.at = "insert" => Payout!Unlike(x.form, x.known)
    PROVE  Payout!PayoutIntakeIInv'
<1>1. /\ deed' \in [ReceiverDeeds -> DeedCall] /\ deed'[d] = x
      /\ \A e \in ReceiverDeeds : e # d => deed'[e] = deed[e]
  BY PayoutTypesAre DEF Payout!PayoutIntakeIInv
<1>2. Payout!PayoutIntakeTypeOK'
  BY <1>1, PayoutTypesAre DEF Payout!PayoutIntakeIInv
<1>3. Payout!DecidesARow'
  BY <1>1 DEF Payout!PayoutIntakeIInv, Payout!DecidesARow
<1>4. Payout!AcceptedByStatus' /\ Payout!ReadsAccepted' /\ Payout!SawOtherIds'
  BY DEF Payout!PayoutIntakeIInv, Payout!AcceptedByStatus, Payout!ReadsAccepted, Payout!SawOtherIds
<1>5. Payout!SawOthers'
  BY <1>1 DEF Payout!PayoutIntakeIInv, Payout!SawOthers, Payout!Unlike
<1> QED BY <1>2, <1>3, <1>4, <1>5 DEF Payout!PayoutIntakeIInv

LEMMA OverIs == Payout!Over \in DeedCall /\ Payout!Over.at = "over"
BY DEF Payout!Over, Payout!NewDeed, DeedCall

LEMMA DeedLooks ==
    ASSUME Payout!PayoutIntakeIInv, NEW d \in ReceiverDeeds,
           Payout!Register(d) \/ Payout!ReadToDecide(d) \/ Payout!ReadToDelete(d)
    PROVE  Payout!PayoutIntakeIInv'
<1>1. UNCHANGED <<receiver, withdrawal, accepted, decidedTwice>> /\ deed[d].at = "new" /\ deed[d] \in DeedCall
  BY PayoutTypesAre DEF Payout!Register, Payout!ReadToDecide, Payout!ReadToDelete, Payout!RowsStay,
     Payout!PayoutIntakeIInv
<1>2. Payout!Live \subseteq Receivers /\ \A r \in Payout!Live : receiver[r].status # "none"
  BY DEF Payout!Live
<1>3. CASE deed' = [deed EXCEPT ![d] = Payout!Over]
  BY <1>1, <1>3, OverIs, DeedMoves
<1>4. ASSUME NEW form \in Forms, ~Payout!CheckDuplicate(form),
             deed' = [deed EXCEPT ![d] = [Payout!NewDeed EXCEPT !.at = "insert", !.form = form,
                                                                !.known = Payout!Live]]
      PROVE  Payout!PayoutIntakeIInv'
  <2> DEFINE x == [Payout!NewDeed EXCEPT !.at = "insert", !.form = form, !.known = Payout!Live]
  <2>1. /\ x \in DeedCall /\ x.at = "insert" /\ x.form = form /\ x.known = Payout!Live
        /\ deed' = [deed EXCEPT ![d] = x]
    BY <1>2, <1>4 DEF Payout!NewDeed, DeedCall
  <2> HIDE DEF x
  <2>2. \A q \in Payout!Live : ~Payout!Alike(receiver[q].form, form)
    <3>1. \A q \in Payout!Live : ~Payout!Alike(form, receiver[q].form)
      BY <1>4 DEF Payout!CheckDuplicate
    <3>2. \A q \in Payout!Live : Payout!Alike(receiver[q].form, form) => Payout!Alike(form, receiver[q].form)
      BY DEF Payout!Alike
    <3> QED BY <3>1, <3>2
  <2>3. Payout!Unlike(form, Payout!Live)
    BY <1>2, <2>2 DEF Payout!Unlike
  <2>4. Payout!Unlike(x.form, x.known)
    BY <2>1, <2>3
  <2> QED BY <1>1, <2>1, <2>4, DeedMoves
<1>5. ASSUME NEW r \in Payout!Live,
             deed' = [deed EXCEPT ![d] = [Payout!NewDeed EXCEPT !.at = "decide", !.of = r, !.known = {r}]]
      PROVE  Payout!PayoutIntakeIInv'
  <2> DEFINE x == [Payout!NewDeed EXCEPT !.at = "decide", !.of = r, !.known = {r}]
  <2>1. /\ x \in DeedCall /\ x.at = "decide" /\ x.of = r /\ x.known = {r}
        /\ deed' = [deed EXCEPT ![d] = x]
    BY <1>2, <1>5 DEF Payout!NewDeed, DeedCall
  <2> HIDE DEF x
  <2> QED BY <1>1, <1>2, <2>1, DeedMoves
<1>6. ASSUME NEW r \in Payout!Live, deed' = [deed EXCEPT ![d].at = "delete", ![d].of = r]
      PROVE  Payout!PayoutIntakeIInv'
  <2> DEFINE x == [deed[d] EXCEPT !.at = "delete", !.of = r]
  <2>1. x \in DeedCall /\ x.at = "delete" /\ x.of = r /\ deed' = [deed EXCEPT ![d] = x]
    BY <1>1, <1>2, <1>6 DEF DeedCall
  <2> HIDE DEF x
  <2> QED BY <1>1, <1>2, <2>1, DeedMoves
<1>7. CASE Payout!Register(d)
  <2>1. PICK form \in Forms :
          deed' = [deed EXCEPT ![d] = IF Payout!CheckDuplicate(form) THEN Payout!Over
                     ELSE [Payout!NewDeed EXCEPT !.at = "insert", !.form = form, !.known = Payout!Live]]
    BY <1>7 DEF Payout!Register
  <2>2. CASE Payout!CheckDuplicate(form)
    BY <1>3, <2>1, <2>2
  <2>3. CASE ~Payout!CheckDuplicate(form)
    BY <1>4, <2>1, <2>3
  <2> QED BY <2>2, <2>3
<1>8. CASE Payout!ReadToDecide(d)
  <2>1. PICK r \in Payout!Live :
          deed' = [deed EXCEPT ![d] = IF receiver[r].status = "PENDING"
                     THEN [Payout!NewDeed EXCEPT !.at = "decide", !.of = r, !.known = {r}] ELSE Payout!Over]
    BY <1>8 DEF Payout!ReadToDecide
  <2>2. CASE receiver[r].status = "PENDING"
    BY <1>5, <2>1, <2>2
  <2>3. CASE receiver[r].status # "PENDING"
    BY <1>3, <2>1, <2>3
  <2> QED BY <2>2, <2>3
<1>9. CASE Payout!ReadToDelete(d)
  BY <1>6, <1>9 DEF Payout!ReadToDelete
<1> QED BY <1>7, <1>8, <1>9

(* One row is written by a request that is then over.                        *)
LEMMA RowWritten ==
    ASSUME Payout!PayoutIntakeIInv, NEW d \in ReceiverDeeds, NEW r \in Receivers, NEW y \in ReceiverRow,
           deed' = [deed EXCEPT ![d] = Payout!Over], receiver' = [receiver EXCEPT ![r] = y], UNCHANGED withdrawal,
           accepted \subseteq accepted', accepted' \subseteq accepted \cup {r},
           decidedTwice \subseteq decidedTwice', decidedTwice' \subseteq Receivers,
           y.status # "none", receiver[r].status # "none" => y.form = receiver[r].form,
           Payout!Unlike(y.form, y.known),
           y.status = "ACTIVE" => r \in accepted', y.status = "PENDING" => r \notin accepted',
           y.status = "REJECTED" /\ r \in accepted' => r \in decidedTwice'
    PROVE  Payout!PayoutIntakeIInv'
<1>1. /\ deed' \in [ReceiverDeeds -> DeedCall] /\ deed'[d].at = "over"
      /\ \A e \in ReceiverDeeds : e # d => deed'[e] = deed[e]
  BY PayoutTypesAre, OverIs DEF Payout!PayoutIntakeIInv
<1>2. /\ receiver' \in [Receivers -> ReceiverRow] /\ receiver'[r] = y
      /\ \A s \in Receivers : s # r => receiver'[s] = receiver[s]
      /\ accepted \subseteq Receivers /\ receiver \in [Receivers -> ReceiverRow]
      /\ deed \in [ReceiverDeeds -> DeedCall]
  BY PayoutTypesAre DEF Payout!PayoutIntakeIInv
<1>3. Payout!PayoutIntakeTypeOK'
  <2>1. withdrawal \in [Payouts -> PayoutCall] /\ accepted' \subseteq Receivers
    BY <1>2, PayoutTypesAre DEF Payout!PayoutIntakeIInv
  <2> QED BY <1>1, <1>2, <2>1, PayoutTypesAre
<1>4. Payout!DecidesARow'
  BY <1>1, <1>2 DEF Payout!PayoutIntakeIInv, Payout!DecidesARow
<1>5. Payout!AcceptedByStatus'
  <2> SUFFICES ASSUME NEW s \in Receivers
               PROVE  /\ receiver'[s].status = "ACTIVE" => s \in accepted'
                      /\ receiver'[s].status \in {"none", "PENDING"} => s \notin accepted'
                      /\ receiver'[s].status = "REJECTED" /\ s \in accepted' => s \in decidedTwice'
    BY DEF Payout!AcceptedByStatus
  <2>1. CASE s = r
    BY <1>2, <2>1
  <2>2. CASE s # r
    BY <1>2, <2>2 DEF Payout!PayoutIntakeIInv, Payout!AcceptedByStatus
  <2> QED BY <2>1, <2>2
<1>6. Payout!ReadsAccepted' /\ Payout!SawOtherIds'
  BY DEF Payout!PayoutIntakeIInv, Payout!ReadsAccepted, Payout!SawOtherIds
<1>7. \A form : \A known \in SUBSET Receivers :
        Payout!Unlike(form, known) =>
            \A q \in known : receiver'[q].status # "none" /\ ~Payout!Alike(receiver'[q].form, form)
  BY <1>2 DEF Payout!Unlike
<1>8. Payout!SawOthers'
  <2>1. ASSUME NEW s \in Receivers, NEW q \in receiver'[s].known
        PROVE  receiver'[q].status # "none" /\ ~Payout!Alike(receiver'[q].form, receiver'[s].form)
    <3>1. receiver'[s].known \in SUBSET Receivers
      BY <1>2 DEF ReceiverRow
    <3>2. Payout!Unlike(receiver'[s].form, receiver'[s].known)
      BY <1>2 DEF Payout!PayoutIntakeIInv, Payout!SawOthers
    <3> QED BY <1>7, <2>1, <3>1, <3>2
  <2>2. ASSUME NEW e \in ReceiverDeeds, deed'[e].at = "insert", NEW q \in deed'[e].known
        PROVE  receiver'[q].status # "none" /\ ~Payout!Alike(receiver'[q].form, deed'[e].form)
    <3>1. deed'[e] = deed[e] /\ deed[e].known \in SUBSET Receivers
      BY <1>1, <1>2, <2>2 DEF DeedCall
    <3>2. Payout!Unlike(deed[e].form, deed[e].known)
      BY <2>2, <3>1 DEF Payout!PayoutIntakeIInv, Payout!SawOthers
    <3> QED BY <1>7, <2>2, <3>1, <3>2
  <2> QED BY <2>1, <2>2 DEF Payout!SawOthers, Payout!Unlike, Payout!Alike
<1> QED BY <1>3, <1>4, <1>5, <1>6, <1>8 DEF Payout!PayoutIntakeIInv

LEMMA DeedWrites ==
    ASSUME Payout!PayoutIntakeIInv, NEW d \in ReceiverDeeds,
           Payout!InsertReceiver(d) \/ Payout!Decide(d) \/ Payout!SoftDelete(d)
    PROVE  Payout!PayoutIntakeIInv'
<1>1. /\ deed' = [deed EXCEPT ![d] = Payout!Over] /\ UNCHANGED withdrawal
      /\ deed[d] \in DeedCall /\ receiver \in [Receivers -> ReceiverRow]
      /\ accepted \subseteq Receivers /\ decidedTwice \subseteq Receivers
  BY PayoutTypesAre DEF Payout!InsertReceiver, Payout!Decide, Payout!SoftDelete, Payout!Ends,
     Payout!PayoutIntakeIInv
<1>2. CASE Payout!InsertReceiver(d)
  <2> DEFINE r == CHOOSE q \in Receivers : receiver[q] = Payout!Unregistered
  <2> DEFINE y == Payout!Row(deed[d].form, deed[d].known)
  <2>1. /\ r \in Receivers /\ receiver[r] = Payout!Unregistered
        /\ receiver' = [receiver EXCEPT ![r] = y] /\ UNCHANGED <<accepted, decidedTwice>>
    BY <1>2 DEF Payout!InsertReceiver
  <2>2. /\ y \in ReceiverRow /\ y.status = "PENDING" /\ y.form = deed[d].form /\ y.known = deed[d].known
    BY <1>1 DEF Payout!Row, ReceiverRow, DeedCall
  <2>3. receiver[r].status = "none"
    BY <2>1 DEF Payout!Unregistered
  <2> HIDE DEF r, y
  <2>4. Payout!Unlike(y.form, y.known)
    BY <1>2, <2>2 DEF Payout!InsertReceiver, Payout!PayoutIntakeIInv, Payout!SawOthers
  <2>6. r \notin accepted
    BY <2>1, <2>3 DEF Payout!PayoutIntakeIInv, Payout!AcceptedByStatus
  <2> QED BY <1>1, <2>1, <2>2, <2>3, <2>4, <2>6, RowWritten
<1>3. ASSUME deed[d].at \in {"decide", "delete"}
      PROVE  /\ deed[d].of \in Receivers /\ receiver[deed[d].of].status # "none"
             /\ receiver[deed[d].of] \in ReceiverRow
             /\ deed[d].at = "decide" => deed[d].known = {deed[d].of}
             /\ Payout!Unlike(receiver[deed[d].of].form, receiver[deed[d].of].known)
  BY <1>1, <1>3 DEF Payout!PayoutIntakeIInv, Payout!DecidesARow, Payout!SawOthers
<1>4. CASE Payout!Decide(d)
  <2> DEFINE r == deed[d].of
  <2>1. PICK status \in {"ACTIVE", "REJECTED"} :
          /\ receiver' = [receiver EXCEPT ![r].status = status]
          /\ accepted' = IF status = "ACTIVE" THEN accepted \cup {r} ELSE accepted
    BY <1>4 DEF Payout!Decide
  <2>2. /\ decidedTwice' = IF r \in deed[d].known /\ receiver[r].status # "PENDING"
                           THEN decidedTwice \cup {r} ELSE decidedTwice
        /\ deed[d].at = "decide"
    BY <1>4 DEF Payout!Decide
  <2>3. /\ r \in Receivers /\ receiver[r].status # "none" /\ receiver[r] \in ReceiverRow
        /\ deed[d].known = {r} /\ Payout!Unlike(receiver[r].form, receiver[r].known)
    BY <1>3, <2>2
  <2> HIDE DEF r
  <2> DEFINE y == [receiver[r] EXCEPT !.status = status]
  <2>4. /\ y \in ReceiverRow /\ y.status = status /\ y.form = receiver[r].form /\ y.known = receiver[r].known
        /\ receiver' = [receiver EXCEPT ![r] = y]
    BY <2>1, <2>3 DEF ReceiverRow
  <2> HIDE DEF y
  <2>5. /\ accepted \subseteq accepted' /\ accepted' \subseteq accepted \cup {r}
        /\ decidedTwice \subseteq decidedTwice' /\ decidedTwice' \subseteq Receivers
    BY <1>1, <2>1, <2>2, <2>3
  <2>6. status = "REJECTED" /\ r \in accepted' => r \in decidedTwice'
    BY <2>1, <2>2, <2>3 DEF Payout!PayoutIntakeIInv, Payout!AcceptedByStatus
  <2> QED BY <1>1, <2>1, <2>3, <2>4, <2>5, <2>6, RowWritten
<1>5. CASE Payout!SoftDelete(d)
  <2> DEFINE r == deed[d].of
  <2>1. /\ receiver' = [receiver EXCEPT ![r].deleted = TRUE] /\ UNCHANGED <<accepted, decidedTwice>>
        /\ deed[d].at = "delete"
    BY <1>5 DEF Payout!SoftDelete
  <2>3. /\ r \in Receivers /\ receiver[r].status # "none" /\ receiver[r] \in ReceiverRow
        /\ Payout!Unlike(receiver[r].form, receiver[r].known)
    BY <1>3, <2>1
  <2> HIDE DEF r
  <2> DEFINE y == [receiver[r] EXCEPT !.deleted = TRUE]
  <2>4. /\ y \in ReceiverRow /\ y.status = receiver[r].status /\ y.form = receiver[r].form
        /\ y.known = receiver[r].known /\ receiver' = [receiver EXCEPT ![r] = y]
    BY <2>1, <2>3 DEF ReceiverRow
  <2> HIDE DEF y
  <2>8. /\ receiver[r].status = "ACTIVE" => r \in accepted
        /\ receiver[r].status = "PENDING" => r \notin accepted
        /\ receiver[r].status = "REJECTED" /\ r \in accepted => r \in decidedTwice
    BY <2>3 DEF Payout!PayoutIntakeIInv, Payout!AcceptedByStatus
  <2> QED BY <1>1, <2>1, <2>3, <2>4, <2>8, RowWritten
<1> QED BY <1>2, <1>4, <1>5

(* A withdrawal request goes on; the receivers stay.                         *)
LEMMA PayoutMoves ==
    ASSUME Payout!PayoutIntakeIInv, NEW w \in Payouts, NEW x \in PayoutCall,
           withdrawal' = [withdrawal EXCEPT ![w] = x], UNCHANGED <<receiver, deed, accepted, decidedTwice>>,
           withdrawal[w].at # "inserted",
           x.at \in {"insert", "inserted"} => x.of \in accepted,
           x.at \in {"receiver", "insert", "inserted"} =>
               \A v \in x.known :
                   /\ withdrawal[v].at = "inserted"
                   /\ x.external # NoPayoutId => withdrawal[v].external # x.external
    PROVE  Payout!PayoutIntakeIInv'
<1>1. /\ withdrawal' \in [Payouts -> PayoutCall] /\ withdrawal'[w] = x
      /\ \A v \in Payouts : v # w => withdrawal'[v] = withdrawal[v]
      /\ withdrawal \in [Payouts -> PayoutCall]
  BY PayoutTypesAre DEF Payout!PayoutIntakeIInv
<1>2. Payout!PayoutIntakeTypeOK'
  BY <1>1, PayoutTypesAre DEF Payout!PayoutIntakeIInv
<1>3. Payout!DecidesARow' /\ Payout!AcceptedByStatus' /\ Payout!SawOthers'
  BY DEF Payout!PayoutIntakeIInv, Payout!DecidesARow, Payout!AcceptedByStatus, Payout!SawOthers, Payout!Unlike
<1>4. Payout!ReadsAccepted'
  BY <1>1 DEF Payout!PayoutIntakeIInv, Payout!ReadsAccepted
<1>5. Payout!SawOtherIds'
  <2> SUFFICES ASSUME NEW u \in Payouts, withdrawal'[u].at \in {"receiver", "insert", "inserted"},
                      NEW v \in withdrawal'[u].known
               PROVE  /\ withdrawal'[v].at = "inserted"
                      /\ withdrawal'[u].external # NoPayoutId => withdrawal'[v].external # withdrawal'[u].external
    BY DEF Payout!SawOtherIds
  <2>1. /\ withdrawal[v].at = "inserted"
        /\ withdrawal'[u].external # NoPayoutId => withdrawal[v].external # withdrawal'[u].external
    <3>1. CASE u = w
      BY <1>1, <3>1
    <3>2. CASE u # w
      BY <1>1, <3>2 DEF Payout!PayoutIntakeIInv, Payout!SawOtherIds
    <3> QED BY <3>1, <3>2
  <2>2. v \in Payouts
    BY <1>1 DEF PayoutCall
  <2>3. withdrawal'[v] = withdrawal[v]
    BY <1>1, <2>1, <2>2
  <2> QED BY <2>1, <2>3
<1> QED BY <1>2, <1>3, <1>4, <1>5 DEF Payout!PayoutIntakeIInv

LEMMA TurnedIs == Payout!Turned \in PayoutCall /\ Payout!Turned.at = "refused"
BY DEF Payout!Turned, Payout!NewPayout, PayoutCall

LEMMA PayoutRequests ==
    ASSUME Payout!PayoutIntakeIInv, NEW w \in Payouts,
           Payout!AskPayout(w) \/ Payout!ReadReceiver(w) \/ Payout!InsertPayout(w)
    PROVE  Payout!PayoutIntakeIInv'
<1>1. UNCHANGED <<receiver, deed, accepted, decidedTwice>> /\ withdrawal[w].at # "inserted"
      /\ withdrawal[w] \in PayoutCall
  BY PayoutTypesAre DEF Payout!AskPayout, Payout!ReadReceiver, Payout!InsertPayout, Payout!RowsStay,
     Payout!PayoutIntakeIInv
<1>2. CASE withdrawal' = [withdrawal EXCEPT ![w] = Payout!Turned]
  BY <1>1, <1>2, TurnedIs, PayoutMoves
<1>3. CASE Payout!AskPayout(w)
  <2>1. PICK id \in PayoutIds \cup {NoPayoutId} :
          withdrawal' = [withdrawal EXCEPT ![w] =
             IF Payout!FindExternal(w, id) THEN Payout!Turned
             ELSE [Payout!NewPayout EXCEPT !.at = "receiver", !.external = id, !.known = Payout!Inserted]]
    BY <1>3 DEF Payout!AskPayout
  <2>2. CASE Payout!FindExternal(w, id)
    BY <1>2, <2>1, <2>2
  <2>3. CASE ~Payout!FindExternal(w, id)
    <3> DEFINE x == [Payout!NewPayout EXCEPT !.at = "receiver", !.external = id, !.known = Payout!Inserted]
    <3>1. Payout!Inserted \subseteq Payouts /\ \A v \in Payout!Inserted : withdrawal[v].at = "inserted"
      BY DEF Payout!Inserted
    <3>2. /\ x \in PayoutCall /\ x.at = "receiver" /\ x.external = id /\ x.known = Payout!Inserted
      BY <3>1 DEF Payout!NewPayout, PayoutCall
    <3>3. withdrawal' = [withdrawal EXCEPT ![w] = x]
      BY <2>1, <2>3
    <3> HIDE DEF x
    <3>4. id # NoPayoutId => \A v \in Payout!Inserted : withdrawal[v].external # id
      BY <2>3 DEF Payout!FindExternal
    <3>5. \A v \in x.known :
              /\ withdrawal[v].at = "inserted"
              /\ x.external # NoPayoutId => withdrawal[v].external # x.external
      BY <3>1, <3>2, <3>4
    <3> QED BY <1>1, <3>2, <3>3, <3>5, PayoutMoves
  <2> QED BY <2>2, <2>3
<1>4. CASE Payout!ReadReceiver(w)
  <2>1. PICK r \in Payout!Live, type \in PayoutTypes :
          withdrawal' = [withdrawal EXCEPT ![w] =
             IF Payout!ValidFor(r, type) /\ Payout!ProviderTakes(type)
             THEN [withdrawal[w] EXCEPT !.at = "insert", !.of = r] ELSE Payout!Turned]
    BY <1>4 DEF Payout!ReadReceiver
  <2>2. CASE ~(Payout!ValidFor(r, type) /\ Payout!ProviderTakes(type))
    BY <1>2, <2>1, <2>2
  <2>3. CASE Payout!ValidFor(r, type) /\ Payout!ProviderTakes(type)
    <3> DEFINE x == [withdrawal[w] EXCEPT !.at = "insert", !.of = r]
    <3>1. r \in Receivers /\ r \in accepted
      BY <2>3 DEF Payout!Live, Payout!ValidFor, Payout!PayoutIntakeIInv, Payout!AcceptedByStatus
    <3>2. /\ x \in PayoutCall /\ x.at = "insert" /\ x.of = r
          /\ x.external = withdrawal[w].external /\ x.known = withdrawal[w].known
      BY <1>1, <3>1 DEF PayoutCall
    <3>3. withdrawal' = [withdrawal EXCEPT ![w] = x]
      BY <2>1, <2>3
    <3> HIDE DEF x
    <3>4. \A v \in withdrawal[w].known :
              /\ withdrawal[v].at = "inserted"
              /\ withdrawal[w].external # NoPayoutId => withdrawal[v].external # withdrawal[w].external
      BY <1>4 DEF Payout!ReadReceiver, Payout!PayoutIntakeIInv, Payout!SawOtherIds
    <3> QED BY <1>1, <3>1, <3>2, <3>3, <3>4, PayoutMoves
  <2> QED BY <2>2, <2>3
<1>5. CASE Payout!InsertPayout(w)
  <2> DEFINE x == [withdrawal[w] EXCEPT !.at = "inserted"]
  <2>1. /\ withdrawal' = [withdrawal EXCEPT ![w] = x] \/ withdrawal' = [withdrawal EXCEPT ![w] = Payout!Turned]
        /\ withdrawal[w].at = "insert"
    BY <1>5 DEF Payout!InsertPayout
  <2>2. CASE withdrawal' = [withdrawal EXCEPT ![w] = x]
    <3>2. /\ x \in PayoutCall /\ x.at = "inserted" /\ x.of = withdrawal[w].of
          /\ x.external = withdrawal[w].external /\ x.known = withdrawal[w].known
      BY <1>1 DEF PayoutCall
    <3> HIDE DEF x
    <3>3. withdrawal[w].of \in accepted
      BY <2>1 DEF Payout!PayoutIntakeIInv, Payout!ReadsAccepted
    <3>4. \A v \in withdrawal[w].known :
              /\ withdrawal[v].at = "inserted"
              /\ withdrawal[w].external # NoPayoutId => withdrawal[v].external # withdrawal[w].external
      BY <2>1 DEF Payout!PayoutIntakeIInv, Payout!SawOtherIds
    <3> QED BY <1>1, <2>2, <3>2, <3>3, <3>4, PayoutMoves
  <2> QED BY <1>2, <2>1, <2>2
<1> QED BY <1>3, <1>4, <1>5

LEMMA PayoutsStep ==
    Payout!PayoutIntakeIInv /\ [Payout!PayoutIntakeNext]_payoutVars => Payout!PayoutIntakeIInv'
<1> SUFFICES ASSUME Payout!PayoutIntakeIInv, [Payout!PayoutIntakeNext]_payoutVars
             PROVE  Payout!PayoutIntakeIInv'
  OBVIOUS
<1>1. CASE UNCHANGED payoutVars
  BY <1>1 DEF payoutVars, Payout!PayoutIntakeIInv, Payout!PayoutIntakeTypeOK, Payout!DecidesARow,
     Payout!AcceptedByStatus, Payout!ReadsAccepted, Payout!SawOthers, Payout!Unlike, Payout!SawOtherIds
<1>2. CASE Payout!PayoutIntakeNext
  BY <1>2, DeedLooks, DeedWrites, PayoutRequests DEF Payout!PayoutIntakeNext
<1> QED BY <1>1, <1>2
-----------------------------------------------------------------------------
(* The identity documents of a user.                                         *)

LEMMA DocumentsStart == Documents!Init => Documents!UserDocumentsIInv
<1> SUFFICES ASSUME Documents!Init PROVE Documents!UserDocumentsIInv
  OBVIOUS
<1> USE DEF Documents!Init
<1>1. Documents!UserDocumentsTypeOK
  <2>1. mishaps \in 0..MaxMishaps
    BY ServicesAssumption DEF Documents!UserDocumentsAssumption
  <2>2. "new" \in Documents!UploadSteps
    BY DEF Documents!UploadSteps
  <2> QED BY <2>1, <2>2 DEF Documents!UserDocumentsTypeOK
<1>2. Documents!StepsHold /\ Documents!OneAtATime
  BY DEF Documents!StepsHold, Documents!OneAtATime, Documents!Busy
<1>3. Documents!PicturesAreTheRows /\ Documents!RowActivates
  BY DEF Documents!PicturesAreTheRows, Documents!RowActivates
<1> QED BY <1>1, <1>2, <1>3 DEF Documents!UserDocumentsIInv

(* One request goes to another step, and what it has on its way changes.     *)
LEMMA UploadGoes ==
    ASSUME Documents!UserDocumentsIInv, NEW u \in Uploads, NEW step \in Documents!UploadSteps,
           NEW S \in SUBSET Documents!Pictures,
           upload' = [upload EXCEPT ![u] = step], flying' = [flying EXCEPT ![u] = S]
    PROVE  /\ upload' \in [Uploads -> Documents!UploadSteps]
           /\ flying' \in [Uploads -> SUBSET Documents!Pictures]
           /\ upload'[u] = step /\ flying'[u] = S
           /\ \A v \in Uploads : v # u => upload'[v] = upload[v] /\ flying'[v] = flying[v]
BY DEF Documents!UserDocumentsIInv, Documents!UserDocumentsTypeOK

(* The look for the row, and the three pictures sent.                        *)
LEMMA UploadLooks ==
    ASSUME Documents!UserDocumentsIInv, NEW u \in Uploads, Documents!FindNoDocument(u)
    PROVE  Documents!UserDocumentsIInv'
<1> USE DEF Documents!UserDocumentsIInv
<1>1. PICK step \in {"send", "refused"}, S \in SUBSET Documents!Pictures :
        /\ upload' = [upload EXCEPT ![u] = step] /\ flying' = [flying EXCEPT ![u] = S]
        /\ \/ /\ step = "send" /\ S = Documents!Pictures /\ userDocument = NoUpload
              /\ crossed' = (crossed \/ \E v \in Uploads : Documents!Busy(v))
           \/ step = "refused" /\ S = {} /\ crossed' = crossed
  <2>1. flying \in [Uploads -> SUBSET Documents!Pictures] /\ flying[u] = {}
    BY DEF Documents!FindNoDocument, Documents!UserDocumentsTypeOK, Documents!StepsHold
  <2>2. flying = [flying EXCEPT ![u] = {}]
    BY <2>1
  <2> QED BY <2>2 DEF Documents!FindNoDocument, Documents!Goes
<1>2. /\ upload' \in [Uploads -> Documents!UploadSteps]
      /\ flying' \in [Uploads -> SUBSET Documents!Pictures]
      /\ upload'[u] = step /\ flying'[u] = S
      /\ \A v \in Uploads : v # u => upload'[v] = upload[v] /\ flying'[v] = flying[v]
  BY <1>1, UploadGoes DEF Documents!UploadSteps
<1>3. /\ upload[u] = "new" /\ flying[u] = {} /\ crossed' \in BOOLEAN
      /\ UNCHANGED <<picture, userDocument, userActive, mishaps>>
  BY <1>1 DEF Documents!FindNoDocument, Documents!userVars, Documents!UserDocumentsTypeOK, Documents!StepsHold
<1>4. Documents!UserDocumentsTypeOK'
  BY <1>2, <1>3 DEF Documents!UserDocumentsTypeOK
<1>5. Documents!StepsHold'
  <2> SUFFICES ASSUME NEW v \in Uploads
               PROVE  /\ upload'[v] \notin {"send", "refused", "cut"} => flying'[v] = {}
                      /\ upload'[v] = "activate" => userDocument' = v
    BY DEF Documents!StepsHold
  <2> QED BY <1>1, <1>2, <1>3 DEF Documents!StepsHold
<1>6. Documents!OneAtATime'
  <2> SUFFICES ASSUME ~crossed'
               PROVE  /\ \A v, w \in Uploads : Documents!Busy(v)' /\ Documents!Busy(w)' => v = w
                      /\ \A v \in Uploads :
                           /\ upload'[v] \in {"send", "row"} =>
                                \A f \in Documents!Pictures \ flying'[v] : picture'[f] = v
                           /\ userDocument' # NoUpload => ~Documents!Busy(v)'
    BY DEF Documents!OneAtATime
  <2>1. CASE step = "send"
    <3>1. \A v \in Uploads : ~Documents!Busy(v)
      BY <1>1, <2>1
    <3>2. \A v \in Uploads : v # u => ~Documents!Busy(v)' /\ upload'[v] \notin {"send", "row"}
      BY <1>2, <3>1 DEF Documents!Busy
    <3> QED BY <1>1, <1>2, <1>3, <2>1, <3>2
  <2>2. CASE step = "refused"
    <3>1. ~crossed /\ \A v \in Uploads : Documents!Busy(v)' => Documents!Busy(v) /\ v # u
      BY <1>1, <1>2, <2>2 DEF Documents!Busy
    <3> QED BY <1>2, <1>3, <2>2, <3>1 DEF Documents!OneAtATime
  <2> QED BY <2>1, <2>2
<1>7. Documents!PicturesAreTheRows' /\ Documents!RowActivates'
  BY <1>1, <1>2, <1>3, ServicesAssumption
  DEF Documents!PicturesAreTheRows, Documents!RowActivates, Documents!UserDocumentsAssumption, Documents!UserDocumentsTypeOK
<1> QED BY <1>4, <1>5, <1>6, <1>7

(* A picture lands or fails; the request waits, goes on or is refused.       *)
LEMMA PictureEnds ==
    ASSUME Documents!UserDocumentsIInv, NEW u \in Uploads, NEW f \in Documents!Pictures,
           Documents!Land(u, f) \/ Documents!Fail(u, f)
    PROVE  Documents!UserDocumentsIInv'
<1> USE DEF Documents!UserDocumentsIInv
<1>1. PICK step \in Documents!UploadSteps :
        /\ upload' = [upload EXCEPT ![u] = step]
        /\ flying' = [flying EXCEPT ![u] = @ \ {f}]
        /\ \/ step = upload[u] /\ (step = "send" => flying[u] # {f} /\ picture' = [picture EXCEPT ![f] = u])
           \/ /\ step = "row" /\ upload[u] = "send" /\ flying[u] = {f}
              /\ picture' = [picture EXCEPT ![f] = u]
           \/ step = "refused" /\ upload[u] = "send"
        /\ picture' = picture \/ picture' = [picture EXCEPT ![f] = u]
  <2>1. upload = [upload EXCEPT ![u] = upload[u]] /\ upload[u] \in Documents!UploadSteps
    BY DEF Documents!UserDocumentsTypeOK
  <2>2. {"row", "refused"} \subseteq Documents!UploadSteps
    BY DEF Documents!UploadSteps
  <2>3. CASE Documents!Land(u, f)
    BY <2>1, <2>2, <2>3 DEF Documents!Land, Documents!Goes
  <2>4. CASE Documents!Fail(u, f)
    BY <2>1, <2>2, <2>4 DEF Documents!Fail, Documents!Goes
  <2> QED BY <2>3, <2>4
<1>2. /\ f \in flying[u] /\ UNCHANGED <<userDocument, userActive, crossed>>
      /\ mishaps' \in 0..MaxMishaps
  BY ServicesAssumption DEF Documents!Land, Documents!Fail, Documents!userVars, Documents!UserDocumentsTypeOK,
     Documents!UserDocumentsAssumption
<1>3. /\ upload' \in [Uploads -> Documents!UploadSteps]
      /\ flying' \in [Uploads -> SUBSET Documents!Pictures]
      /\ upload'[u] = step /\ flying'[u] = flying[u] \ {f}
      /\ \A v \in Uploads : v # u => upload'[v] = upload[v] /\ flying'[v] = flying[v]
  <2>1. flying[u] \ {f} \in SUBSET Documents!Pictures
    BY DEF Documents!UserDocumentsTypeOK
  <2> QED BY <1>1, <2>1, UploadGoes
<1>4. /\ upload[u] \in {"send", "refused", "cut"} /\ Documents!Busy(u)
      /\ picture \in [Documents!Pictures -> Uploads \cup {NoUpload}]
  BY <1>2 DEF Documents!StepsHold, Documents!Busy, Documents!UserDocumentsTypeOK
<1>5. Documents!UserDocumentsTypeOK'
  BY <1>1, <1>2, <1>3, <1>4 DEF Documents!UserDocumentsTypeOK
<1>6. Documents!StepsHold'
  <2> SUFFICES ASSUME NEW v \in Uploads
               PROVE  /\ upload'[v] \notin {"send", "refused", "cut"} => flying'[v] = {}
                      /\ upload'[v] = "activate" => userDocument' = v
    BY DEF Documents!StepsHold
  <2>1. CASE v = u
    BY <1>1, <1>3, <1>4, <2>1
  <2>2. CASE v # u
    BY <1>2, <1>3, <2>2 DEF Documents!StepsHold
  <2> QED BY <2>1, <2>2
<1>7. ASSUME ~crossed
      PROVE  /\ userDocument = NoUpload
             /\ \A v \in Uploads : v # u => ~Documents!Busy(v) /\ ~Documents!Busy(v)'
  <2>1. userDocument = NoUpload /\ \A v \in Uploads : v # u => ~Documents!Busy(v)
    BY <1>4, <1>7 DEF Documents!OneAtATime
  <2> QED BY <1>3, <2>1 DEF Documents!Busy
<1>8. Documents!OneAtATime'
  <2> SUFFICES ASSUME ~crossed
               PROVE  /\ \A v, w \in Uploads : Documents!Busy(v)' /\ Documents!Busy(w)' => v = w
                      /\ \A v \in Uploads :
                           /\ upload'[v] \in {"send", "row"} =>
                                \A g \in Documents!Pictures \ flying'[v] : picture'[g] = v
                           /\ userDocument' # NoUpload => ~Documents!Busy(v)'
    BY <1>2 DEF Documents!OneAtATime
  <2>1. ASSUME upload'[u] \in {"send", "row"}, NEW g \in Documents!Pictures, g \notin flying'[u]
        PROVE  picture'[g] = u
    <3>1. upload[u] = "send" /\ picture' = [picture EXCEPT ![f] = u]
      BY <1>1, <1>3, <1>4, <2>1
    <3>2. g # f => g \in Documents!Pictures \ flying[u]
      BY <1>3, <2>1
    <3> QED BY <1>4, <3>1, <3>2 DEF Documents!OneAtATime
  <2>2. \A v \in Uploads : v # u => upload'[v] \notin {"send", "row"}
    BY <1>7 DEF Documents!Busy
  <2> QED BY <1>2, <1>7, <2>1, <2>2
<1>9. Documents!PicturesAreTheRows'
  BY <1>2, <1>7 DEF Documents!PicturesAreTheRows
<1>10. Documents!RowActivates'
  <2>1. userDocument \in Uploads \cup {NoUpload} /\ NoUpload \notin Uploads
    BY ServicesAssumption DEF Documents!UserDocumentsTypeOK, Documents!UserDocumentsAssumption
  <2>2. upload[u] = "cut" => upload'[u] = "cut"
    BY <1>1, <1>3
  <2> QED BY <1>2, <1>3, <1>4, <2>1, <2>2 DEF Documents!RowActivates
<1> QED BY <1>5, <1>6, <1>8, <1>9, <1>10

(* The row, the user's status, or the end of the request.                    *)
LEMMA UploadWrites ==
    ASSUME Documents!UserDocumentsIInv, NEW u \in Uploads,
           Documents!InsertDocument(u) \/ Documents!Activate(u) \/ Documents!BreakOff(u)
    PROVE  Documents!UserDocumentsIInv'
<1> USE DEF Documents!UserDocumentsIInv
<1>1. PICK step \in Documents!UploadSteps :
        /\ upload' = [upload EXCEPT ![u] = step]
        /\ \/ /\ upload[u] = "row" /\ userDocument = NoUpload
              /\ step = "activate" /\ userDocument' = u /\ userActive' = userActive
           \/ upload[u] = "row" /\ step = "refused" /\ UNCHANGED <<userDocument, userActive>>
           \/ upload[u] = "activate" /\ step = "done" /\ userActive' = TRUE /\ userDocument' = userDocument
           \/ /\ upload[u] \in {"send", "row", "activate"} /\ step = "cut"
              /\ UNCHANGED <<userDocument, userActive>>
  <2>1. {"activate", "done", "refused", "cut"} \subseteq Documents!UploadSteps
    BY DEF Documents!UploadSteps
  <2>2. CASE Documents!InsertDocument(u)
    BY <2>1, <2>2 DEF Documents!InsertDocument, Documents!Goes
  <2>3. CASE Documents!Activate(u)
    BY <2>1, <2>3 DEF Documents!Activate, Documents!Goes
  <2>4. CASE Documents!BreakOff(u)
    BY <2>1, <2>4 DEF Documents!BreakOff, Documents!Goes, Documents!userVars
  <2> QED BY <2>2, <2>3, <2>4
<1>2. UNCHANGED <<flying, picture, crossed>> /\ mishaps' \in 0..MaxMishaps
  BY ServicesAssumption DEF Documents!InsertDocument, Documents!Activate, Documents!BreakOff, Documents!userVars,
     Documents!UserDocumentsTypeOK, Documents!UserDocumentsAssumption
<1>3. /\ upload' \in [Uploads -> Documents!UploadSteps] /\ upload'[u] = step
      /\ \A v \in Uploads : v # u => upload'[v] = upload[v]
  BY <1>1 DEF Documents!UserDocumentsTypeOK
<1>4. NoUpload \notin Uploads /\ userDocument \in Uploads \cup {NoUpload}
  BY ServicesAssumption DEF Documents!UserDocumentsAssumption, Documents!UserDocumentsTypeOK
<1>5. Documents!UserDocumentsTypeOK'
  BY <1>1, <1>2, <1>3 DEF Documents!UserDocumentsTypeOK
<1>6. Documents!StepsHold'
  <2> SUFFICES ASSUME NEW v \in Uploads
               PROVE  /\ upload'[v] \notin {"send", "refused", "cut"} => flying'[v] = {}
                      /\ upload'[v] = "activate" => userDocument' = v
    BY DEF Documents!StepsHold
  <2>1. CASE v = u
    BY <1>1, <1>2, <1>3, <2>1 DEF Documents!StepsHold
  <2>2. CASE v # u
    BY <1>1, <1>2, <1>3, <1>4, <2>2 DEF Documents!StepsHold
  <2> QED BY <2>1, <2>2
<1>7. \A v \in Uploads : Documents!Busy(v)' => Documents!Busy(v)
  BY <1>1, <1>2, <1>3 DEF Documents!Busy, Documents!StepsHold
<1>8. Documents!OneAtATime'
  <2> SUFFICES ASSUME ~crossed
               PROVE  /\ \A v, w \in Uploads : Documents!Busy(v)' /\ Documents!Busy(w)' => v = w
                      /\ \A v \in Uploads :
                           /\ upload'[v] \in {"send", "row"} =>
                                \A g \in Documents!Pictures \ flying'[v] : picture'[g] = v
                           /\ userDocument' # NoUpload => ~Documents!Busy(v)'
    BY <1>2 DEF Documents!OneAtATime
  <2>1. \A v, w \in Uploads : Documents!Busy(v)' /\ Documents!Busy(w)' => v = w
    BY <1>7 DEF Documents!OneAtATime
  <2>2. ASSUME NEW v \in Uploads, upload'[v] \in {"send", "row"}, NEW g \in Documents!Pictures \ flying'[v]
        PROVE  picture'[g] = v
    <3>1. v # u /\ upload[v] \in {"send", "row"}
      BY <1>1, <1>3, <2>2
    <3> QED BY <1>2, <2>2, <3>1 DEF Documents!OneAtATime
  <2>3. ASSUME userDocument' # NoUpload, NEW v \in Uploads, Documents!Busy(v)' PROVE FALSE
    <3>1. CASE userDocument # NoUpload
      BY <1>7, <2>3, <3>1 DEF Documents!OneAtATime
    <3>2. CASE userDocument = NoUpload
      <4>1. upload[u] = "row" /\ step = "activate"
        BY <1>1, <2>3, <3>2
      <4>2. v = u
        BY <1>7, <2>3, <4>1 DEF Documents!OneAtATime, Documents!Busy
      <4> QED BY <1>2, <1>3, <2>3, <4>1, <4>2 DEF Documents!Busy, Documents!StepsHold
    <3> QED BY <3>1, <3>2
  <2> QED BY <2>1, <2>2, <2>3
<1>9. Documents!PicturesAreTheRows'
  <2> SUFFICES ASSUME userDocument' # NoUpload, ~crossed, NEW f \in Documents!Pictures
               PROVE  picture[f] = userDocument'
    BY <1>2 DEF Documents!PicturesAreTheRows
  <2>1. CASE userDocument # NoUpload
    BY <1>1, <2>1 DEF Documents!PicturesAreTheRows
  <2>2. CASE userDocument = NoUpload
    <3>1. upload[u] = "row" /\ userDocument' = u /\ flying[u] = {}
      BY <1>1, <2>2 DEF Documents!StepsHold
    <3> QED BY <3>1 DEF Documents!OneAtATime
  <2> QED BY <2>1, <2>2
<1>10. Documents!RowActivates'
  BY <1>1, <1>3, <1>4 DEF Documents!RowActivates, Documents!StepsHold
<1> QED BY <1>5, <1>6, <1>8, <1>9, <1>10

LEMMA DocumentsStep ==
    Documents!UserDocumentsIInv /\ [Documents!UserDocumentsNext]_documentVars => Documents!UserDocumentsIInv'
<1> SUFFICES ASSUME Documents!UserDocumentsIInv, [Documents!UserDocumentsNext]_documentVars
             PROVE  Documents!UserDocumentsIInv'
  OBVIOUS
<1>1. CASE UNCHANGED documentVars
  BY <1>1 DEF documentVars, Documents!UserDocumentsIInv, Documents!UserDocumentsTypeOK, Documents!StepsHold,
     Documents!OneAtATime, Documents!Busy, Documents!PicturesAreTheRows, Documents!RowActivates
<1>2. CASE Documents!UserDocumentsNext
  BY <1>2, UploadLooks, PictureEnds, UploadWrites DEF Documents!UserDocumentsNext
<1> QED BY <1>1, <1>2

-----------------------------------------------------------------------------
(* What the services' properties add to their invariants.                    *)

(* Requests that still have to save their token only make room.              *)
LEMMA SessionsWithin == Auth!SessionsIInv => Auth!SessionsFromLogins
<1> SUFFICES ASSUME Auth!SessionsIInv PROVE Auth!SessionsFromLogins
  OBVIOUS
<1>1. /\ Auth!Cardinality(Auth!LiveTokens) \in Nat /\ Auth!Cardinality(Saving) \in Nat
      /\ Auth!Cardinality(Auth!LiveTokens) + Auth!Cardinality(Saving) <= logins + doubled
  BY SessionsFinite, CountsAlike DEF Auth!SessionsIInv, Auth!RotationsFromLogins, Saving
<1>2. logins \in Nat /\ doubled \in Nat
  BY SessionsFinite DEF Auth!SessionsIInv, Auth!SessionTypeOK
<1> QED BY <1>1, <1>2 DEF Auth!SessionsFromLogins

-----------------------------------------------------------------------------
(* All services.                                                             *)

(* Of each service, a step of the whole is a step or a stutter.              *)
LEMMA OneGoesOn ==
    [Next]_vars =>
        /\ [Webhooks!WebhookNext]_webhookVars /\ [Members!MembershipNext]_memberVars
        /\ [Auth!SessionNext]_authVars /\ [Keys!ApiKeyNext]_keyVars
        /\ [Companies!OnboardingNext]_companyVars /\ [Intake!IntakeNext]_intakeVars
        /\ [Infraction!InfractionNext]_infractionVars /\ [Payout!PayoutIntakeNext]_payoutVars
        /\ [Documents!UserDocumentsNext]_documentVars
<1> SUFFICES ASSUME [Next]_vars
             PROVE  /\ [Webhooks!WebhookNext]_webhookVars /\ [Members!MembershipNext]_memberVars
                    /\ [Auth!SessionNext]_authVars /\ [Keys!ApiKeyNext]_keyVars
                    /\ [Companies!OnboardingNext]_companyVars /\ [Intake!IntakeNext]_intakeVars
                    /\ [Infraction!InfractionNext]_infractionVars /\ [Payout!PayoutIntakeNext]_payoutVars
                    /\ [Documents!UserDocumentsNext]_documentVars
  OBVIOUS
<1>1. CASE UNCHANGED vars
  BY <1>1 DEF vars
<1>2. CASE WebhooksGoOn
  BY <1>2 DEF WebhooksGoOn
<1>3. CASE MembersGoOn
  BY <1>3 DEF MembersGoOn
<1>4. CASE AuthGoesOn
  BY <1>4 DEF AuthGoesOn
<1>5. CASE KeysGoOn
  BY <1>5 DEF KeysGoOn
<1>6. CASE CompaniesGoOn
  BY <1>6 DEF CompaniesGoOn
<1>7. CASE IntakeGoesOn
  BY <1>7 DEF IntakeGoesOn
<1>8. CASE InfractionsGoOn
  BY <1>8 DEF InfractionsGoOn
<1>9. CASE PayoutsGoOn
  BY <1>9 DEF PayoutsGoOn
<1>10. CASE DocumentsGoOn
  BY <1>10 DEF DocumentsGoOn
<1> QED BY <1>1, <1>2, <1>3, <1>4, <1>5, <1>6, <1>7, <1>8, <1>9, <1>10 DEF Next

(* Every service keeps its inductive invariant, whatever the numbers of      *)
(* requests, processes, rows, offers and deaths: the copies that requests    *)
(* hold of rows they read agree with the rows, or a race is noted.           *)
THEOREM ServicesInductive == Spec => []ServicesIInv
<1>1. Init => ServicesIInv
  BY WebhooksStart, MembersStart, SessionsStart, KeysStart, CompaniesStart, IntakeStart, InfractionsStart,
     PayoutsStart, DocumentsStart DEF Init, ServicesIInv
<1>2. ServicesIInv /\ [Next]_vars => ServicesIInv'
  <2> SUFFICES ASSUME ServicesIInv, [Next]_vars PROVE ServicesIInv'
    OBVIOUS
  <2>1. Webhooks!WebhookIInv' /\ Members!MembershipIInv' /\ Auth!SessionsIInv' /\ Keys!ApiKeysIInv'
    BY OneGoesOn, WebhooksStep, MembersStep, SessionsStep, KeysStep DEF ServicesIInv
  <2>2. /\ Companies!OnboardingIInv' /\ Intake!IntakeIInv' /\ Infraction!InfractionIInv'
        /\ Payout!PayoutIntakeIInv' /\ Documents!UserDocumentsIInv'
    BY OneGoesOn, CompaniesStep, IntakeStep, InfractionsStep, PayoutsStep, DocumentsStep DEF ServicesIInv
  <2> QED BY <2>1, <2>2 DEF ServicesIInv
<1> QED BY <1>1, <1>2, PTL DEF Spec

(* Type correctness of all tables: rows, requests under way and history.     *)
THEOREM ServiceTypesCorrect == Spec => []TypeOK
<1>1. ServicesIInv => TypeOK
  BY DEF ServicesIInv, TypeOK, Webhooks!WebhookIInv, Members!MembershipIInv, Auth!SessionsIInv,
     Keys!ApiKeysIInv, Companies!OnboardingIInv, Intake!IntakeIInv, Infraction!InfractionIInv,
     Payout!PayoutIntakeIInv, Documents!UserDocumentsIInv
<1> QED BY <1>1, ServicesInductive, PTL

(* What a request checked before it wrote, with no unique index behind it    *)
(* (webhook.service, api-key.service, company.service, user.service,         *)
(* receiver.service, withdrawal-transaction.service), holds afterwards       *)
(* unless requests raced, or an update that looked for nothing wrote back a  *)
(* webhook's type.                                                           *)
THEOREM ChecksHoldUnlessRacedAlways == Spec => []ChecksHoldUnlessRaced
<1>1. ServicesIInv => ChecksHoldUnlessRaced
  <2> SUFFICES ASSUME ServicesIInv PROVE ChecksHoldUnlessRaced
    OBVIOUS
  <2>1. Webhooks!OneHookPerType
    BY HooksApart DEF ServicesIInv
  <2>2. Keys!KeysWithinLimit
    BY DEF ServicesIInv, Keys!ApiKeysIInv
  <2>3. Companies!NoDuplicates /\ Companies!FilesAreTheRows
    BY DEF ServicesIInv, Companies!OnboardingIInv
  <2>4. Payout!OneReceiverPerDestination /\ Payout!OnePayoutPerExternalId
    BY PayoutsShow DEF ServicesIInv
  <2>5. Documents!PicturesAreTheRows /\ Documents!RowActivates
    BY DEF ServicesIInv, Documents!UserDocumentsIInv
  <2> QED BY <2>1, <2>2, <2>3, <2>4, <2>5 DEF ChecksHoldUnlessRaced
<1> QED BY <1>1, ServicesInductive, PTL

(* A webhook that was queued is on the list, in a sender's hands or sent,    *)
(* unless a list was overwritten, a call of the cache failed or a process    *)
(* died: through any partial failure of the provider that is called.         *)
THEOREM LostOnlyByOverwritingAlways == Spec => []LostOnlyByOverwriting
<1>1. ServicesIInv => LostOnlyByOverwriting
  BY DEF ServicesIInv, Webhooks!WebhookIInv, LostOnlyByOverwriting
<1> QED BY <1>1, ServicesInductive, PTL

(* A company keeps an owner who is not banned, by any sequence of requests   *)
(* of any number of members, but for overtaken and untyped writes.           *)
THEOREM OwnerRemainsAlways == Spec => []OwnerRemains
<1>1. ServicesIInv => OwnerRemains
  BY DEF ServicesIInv, Members!MembershipIInv, OwnerRemains
<1> QED BY <1>1, ServicesInductive, PTL

(* Members founded the company or accepted an invitation sent to them, an    *)
(* invitation brings its user in once, and a reset token writes one          *)
(* password, but for races at its row.                                       *)
THEOREM UsedByWhomItWasGivenAlways == Spec => []UsedByWhomItWasGiven
<1>1. ServicesIInv => UsedByWhomItWasGiven
  <2> SUFFICES ASSUME ServicesIInv PROVE UsedByWhomItWasGiven
    OBVIOUS
  <2>1. Members!MembersWereInvited
    BY DEF ServicesIInv, Members!MembershipIInv
  <2>2. Members!InvitationUsedOnce
    BY DEF ServicesIInv, Members!MembershipIInv, Members!UsedWhenAccepted, Members!InvitationUsedOnce
  <2>3. Auth!ResetsAreSpent
    BY DEF ServicesIInv, Auth!SessionsIInv
  <2> QED BY <2>1, <2>2, <2>3 DEF UsedByWhomItWasGiven
<1> QED BY <1>1, ServicesInductive, PTL

(* Sessions older than the last change of the password end with that         *)
(* request, and refreshes do not multiply sessions, but for two of one token.*)
THEOREM SessionsEndAlways == Spec => []SessionsEnd
<1>1. ServicesIInv => SessionsEnd
  <2> SUFFICES ASSUME ServicesIInv PROVE SessionsEnd
    OBVIOUS
  <2>1. Auth!OldSessionsEnd
    BY DEF ServicesIInv, Auth!SessionsIInv
  <2>2. Auth!SessionsFromLogins
    BY SessionsWithin DEF ServicesIInv
  <2> QED BY <2>1, <2>2 DEF SessionsEnd
<1> QED BY <1>1, ServicesInductive, PTL

(* A charge the provider took has its payment row, or a request that still   *)
(* owes it, was cut off, lost the race for the customer or was answered a    *)
(* word that is no payment_status; one external_id is charged once but for   *)
(* races and retries after a lost charge.                                    *)
THEOREM ChargesAreKnownAlways == Spec => []ChargesAreKnown
<1>1. ServicesIInv => ChargesAreKnown
  BY IntakeShows DEF ServicesIInv, Intake!IntakeIInv, ChargesAreKnown
<1> QED BY <1>1, ServicesInductive, PTL

(* An approval webhook that was acknowledged has its task, or the request    *)
(* that saw the approval owes it or died with it, or the row was REFUNDED    *)
(* from the start.                                                           *)
THEOREM AcknowledgedIsQueuedAlways == Spec => []AcknowledgedIsQueued
<1>1. ServicesIInv => AcknowledgedIsQueued
  BY DEF ServicesIInv, Intake!IntakeIInv, AcknowledgedIsQueued
<1> QED BY <1>1, ServicesInductive, PTL

(* What a payment's row takes as reserve is held, for every offer; a company *)
(* with a reserve has days, unless an update named one of the fields only.   *)
THEOREM ReserveIsHeldAlways == Spec => []ReserveIsHeld
<1>1. ServicesIInv => ReserveIsHeld
  BY IntakeShows DEF ServicesIInv, Companies!OnboardingIInv, ReserveIsHeld
<1> QED BY <1>1, ServicesInductive, PTL

(* The receiver of a withdrawal row was accepted, and is REJECTED since only *)
(* where two decisions that both read it PENDING raced.                      *)
THEOREM PaidToAcceptedAlways == Spec => []PaidToAccepted
<1>1. ServicesIInv => PaidToAccepted
  BY PayoutsShow DEF ServicesIInv, PaidToAccepted
<1> QED BY <1>1, ServicesInductive, PTL

(* No step opens a closed infraction, changes one of a refunded payment or   *)
(* leaves one open behind a notice reported COMPLETED, but by notices that   *)
(* had been checked before, or were worked together.                         *)
THEOREM DisputesEndAlways == Spec => DisputesEnd
<1>1. ServicesIInv /\ [Next]_vars =>
        /\ \A d \in Disputes :
             Infraction!Status(d) \in Infraction!Final /\ infraction'[d].status # Infraction!Status(d) =>
                 \E n \in Infraction!Ended(d) : notice[n].saw \notin Infraction!Final
        /\ \A d \in Disputes :
             PaymentOf[d] \in refunded /\ infraction'[d] # infraction[d] =>
                 \E n \in Infraction!Ended(d) : ~notice[n].sawRefund
        /\ \A d \in Disputes :
             d \notin together /\ (\E n \in Infraction!Completed(d) : notice[n].status \in Infraction!Final) =>
                 infraction'[d].status \in Infraction!Final
  <2> SUFFICES ASSUME ServicesIInv, [Next]_vars
               PROVE  /\ \A d \in Disputes :
                          Infraction!Status(d) \in Infraction!Final /\ infraction'[d].status # Infraction!Status(d) =>
                              \E n \in Infraction!Ended(d) : notice[n].saw \notin Infraction!Final
                      /\ \A d \in Disputes :
                          PaymentOf[d] \in refunded /\ infraction'[d] # infraction[d] =>
                              \E n \in Infraction!Ended(d) : ~notice[n].sawRefund
                      /\ \A d \in Disputes :
                          d \notin together /\ (\E n \in Infraction!Completed(d) : notice[n].status \in Infraction!Final) =>
                              infraction'[d].status \in Infraction!Final
    OBVIOUS
  <2>1. Infraction!InfractionIInv /\ [Infraction!InfractionNext]_infractionVars
    BY OneGoesOn DEF ServicesIInv
  <2> QED BY <2>1, DisputesStep
<1>2. Spec => Infraction!ClosedIsFinal
  BY <1>1, ServicesInductive, PTL DEF Spec, Infraction!ClosedIsFinal, infractionVars, Infraction!infractionVars
<1>3. Spec => Infraction!QuietAfterRefund
  BY <1>1, ServicesInductive, PTL DEF Spec, Infraction!QuietAfterRefund
<1>4. Spec => Infraction!CompletedCloses
  BY <1>1, ServicesInductive, PTL DEF Spec, Infraction!CompletedCloses
<1> QED BY <1>2, <1>3, <1>4 DEF DisputesEnd
=============================================================================
