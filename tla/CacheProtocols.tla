--------------------------- MODULE CacheProtocols ---------------------------
(***************************************************************************)
(* The protocols the program builds on CacheService, side by side: the     *)
(* guards' loads, the idempotency interceptor and the election of the      *)
(* wallet refresh.  Each has cache keys of its own and reads nobody        *)
(* else's, so a history of one of them says all there is about it: a       *)
(* behaviour follows the protocol it began with, and the others rest.      *)
(***************************************************************************)
EXTENDS GuardCache, Idempotency, WalletElection

VARIABLE protocol   \* whose behaviour it is

vars == <<protocol, guardVars, idempotencyVars, electionVars>>

Protocols == {"guards", "interceptor", "election"}

Init ==
    /\ protocol \in Protocols
    /\ GuardInit /\ IdempotencyInit /\ ElectionInit

GuardsGoOn(A) ==
    protocol = "guards" /\ A /\ UNCHANGED <<protocol, idempotencyVars, electionVars>>
InterceptorGoesOn(A) ==
    protocol = "interceptor" /\ A /\ UNCHANGED <<protocol, guardVars, electionVars>>
ElectionGoesOn(A) ==
    protocol = "election" /\ A /\ UNCHANGED <<protocol, guardVars, idempotencyVars>>

Next ==
    \/ GuardsGoOn(GuardNext)
    \/ InterceptorGoesOn(IdempotencyNext)
    \/ ElectionGoesOn(ElectionNext)

\* The fairness of the protocol that goes on.
Fairness ==
    /\ WF_vars(GuardsGoOn(GuardTick))
    /\ \A r \in Requests : WF_vars(GuardsGoOn(GoOn(r)))
    /\ \A a \in Attempts : WF_vars(InterceptorGoesOn(Step(a)))
    /\ WF_vars(ElectionGoesOn(ElectionTick))
    /\ \A p \in Pods : WF_vars(ElectionGoesOn(PodStep(p)))

Spec == Init /\ [][Next]_vars /\ Fairness

(***************************************************************************)
(* Properties.                                                             *)
(***************************************************************************)

\* Every variable of every protocol keeps its range.
TypeOK ==
    protocol \in Protocols /\ GuardTypeOK /\ IdempotencyTypeOK /\ ElectionTypeOK

\* A guard that did not get the lock, and a request the interceptor let pass,
\* are answered, or their process died.
RequestsAreAnswered == GuardAnswers /\ AttemptEnds

\* The wallets are refreshed again and again, through lost elections and
\* processes that die as the elected one.
RefreshRecurs == [](protocol = "election") => ImplementsRecurrent
=============================================================================
