------------------------------- MODULE ApiKeys -------------------------------
(***************************************************************************)
(* The keys of one company as ApiKeysService creates, deletes and          *)
(* regenerates them.  A company may have KeyMax keys: create counts them   *)
(* and writes later; regenerate deletes one row and creates another, in    *)
(* two statements.  What the guards keep of a key in the cache is the      *)
(* module GuardCache.                                                      *)
(***************************************************************************)
EXTENDS Integers, FiniteSets

CONSTANTS
    ApiKeyIds,   \* rows of company_api_keys there may come to be
    StartKeys,   \* those there are at the beginning
    KeyCalls,    \* requests to the service, each made once
    KeyMax,      \* 10
    MaxKeyCuts,  \* bound: regenerations that end between their statements
    NoKey

ApiKeysAssumption ==
    /\ IsFiniteSet(ApiKeyIds) /\ IsFiniteSet(KeyCalls)
    /\ KeyMax \in Nat \ {0} /\ MaxKeyCuts \in Nat
    /\ NoKey \notin ApiKeyIds
    /\ StartKeys \subseteq ApiKeyIds /\ Cardinality(StartKeys) <= KeyMax

VARIABLES
    apiKey,    \* the rows
    keyCall,
    overrun,   \* history: keys created although others had been meanwhile
    keyCuts

apiKeyVars == <<apiKey, keyCall, overrun, keyCuts>>

LiveKeys == {k \in ApiKeyIds : apiKey[k] = "live"}
LiveCount == Cardinality(LiveKeys)
KeyPlaces == {"new", "create", "delete", "hide", "replace", "done", "refused", "cut"}

ApiKeyTypeOK ==
    /\ apiKey \in [ApiKeyIds -> {"none", "live", "deleted"}]
    /\ keyCall \in [KeyCalls -> [at : KeyPlaces, key : ApiKeyIds \cup {NoKey}, saw : Nat]]
    /\ overrun \in Nat
    /\ keyCuts \in 0..MaxKeyCuts

Init ==
    /\ apiKey = [k \in ApiKeyIds |-> IF k \in StartKeys THEN "live" ELSE "none"]
    /\ keyCall = [c \in KeyCalls |-> [at |-> "new", key |-> NoKey, saw |-> 0]]
    /\ overrun = 0 /\ keyCuts = 0

KeyAt(c, place) == keyCall[c].at = place
KeyGo(c, place) == keyCall' = [keyCall EXCEPT ![c].at = place]

\* existingKeys.length >= 10 is refused.
Room == LiveCount < KeyMax

CountKeys(c) ==
    /\ KeyAt(c, "new")
    /\ \/ /\ Room
          /\ keyCall' = [keyCall EXCEPT ![c].at = "create", ![c].saw = LiveCount]
       \/ ~Room /\ KeyGo(c, "refused")
    /\ UNCHANGED <<apiKey, overrun, keyCuts>>

\* The row, under a new id, and whether keys appeared since the request looked.
InsertKey(c, k) ==
    /\ apiKey[k] = "none"
    /\ apiKey' = [apiKey EXCEPT ![k] = "live"]
    /\ overrun' = IF LiveCount > keyCall[c].saw THEN overrun + 1 ELSE overrun

CreateKey(c) ==
    /\ KeyAt(c, "create")
    /\ \E k \in ApiKeyIds : InsertKey(c, k)
    /\ KeyGo(c, "done")
    /\ UNCHANGED keyCuts

\* findById of a key that is not deleted, before delete or regenerate.
FindKey(c) ==
    /\ KeyAt(c, "new")
    /\ \E k \in LiveKeys, place \in {"delete", "hide"} :
         keyCall' = [keyCall EXCEPT ![c] = [at |-> place, key |-> k, saw |-> LiveCount - 1]]
    /\ UNCHANGED <<apiKey, overrun, keyCuts>>

\* softDelete by id, whoever did it before.
Hide(c, place) ==
    /\ apiKey' = [apiKey EXCEPT ![keyCall[c].key] = "deleted"]
    /\ KeyGo(c, place)
    /\ UNCHANGED <<overrun, keyCuts>>

DeleteKey(c) == KeyAt(c, "delete") /\ Hide(c, "done")
HideOld(c) == KeyAt(c, "hide") /\ Hide(c, "replace")

Replace(c) ==
    /\ KeyAt(c, "replace")
    /\ \E k \in ApiKeyIds : InsertKey(c, k)
    /\ KeyGo(c, "done")
    /\ UNCHANGED keyCuts

\* The second statement fails, or the process dies before it.
CutOffKey(c) ==
    /\ KeyAt(c, "replace") /\ keyCuts < MaxKeyCuts
    /\ keyCuts' = keyCuts + 1
    /\ KeyGo(c, "cut")
    /\ UNCHANGED <<apiKey, overrun>>

ApiKeyNext ==
    \E c \in KeyCalls : CountKeys(c) \/ CreateKey(c) \/ FindKey(c) \/ DeleteKey(c)
                            \/ HideOld(c) \/ Replace(c) \/ CutOffKey(c)

Spec == Init /\ [][ApiKeyNext]_apiKeyVars

(***************************************************************************)
(* Properties.                                                             *)
(***************************************************************************)

\* The company exceeds its ten keys only by keys that were created although
\* others had been since the request counted them (create beside create, or
\* beside a regeneration between its two statements).
KeysWithinLimit == LiveCount <= KeyMax + overrun

\* The inductive invariant behind it: what a request that may create a key
\* has counted leaves room for one.
CountedRoom ==
    \A c \in KeyCalls : keyCall[c].at \in {"create", "delete", "hide", "replace"} =>
        /\ keyCall[c].saw + 1 <= KeyMax + overrun
        /\ keyCall[c].at \in {"delete", "hide"} => keyCall[c].key \in ApiKeyIds

ApiKeysIInv == ApiKeyTypeOK /\ KeysWithinLimit /\ CountedRoom
=============================================================================
