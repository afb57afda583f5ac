--------------------------- MODULE PayoutContract ---------------------------
(***************************************************************************)
(* What becomes of the money of a withdrawal, without queue, batches,      *)
(* locks, rows, sums or webhooks: it is taken from the company, then the   *)
(* provider gets it to pay out, once; it goes back to the company only     *)
(* when the provider does not have it, and what went back is never handed  *)
(* to the provider again.  How often it went back is not told apart.       *)
(***************************************************************************)
CONSTANT Withdrawals

VARIABLES
    heard,    \* the provider's answers all arrive and are stored
    account,  \* where the company's account stands with a withdrawal
    provider  \* what the provider did with it

vars == <<heard, account, provider>>

Init ==
    /\ heard \in BOOLEAN
    /\ account = [w \in Withdrawals |-> "held"]
    /\ provider = [w \in Withdrawals |-> "none"]

\* A batch takes the money of some withdrawals together.
Take(S) ==
    /\ \A w \in S : account[w] = "held"
    /\ account' = [w \in Withdrawals |-> IF w \in S THEN "taken" ELSE account[w]]
    /\ UNCHANGED provider

\* The provider accepts or refuses what was taken.
Ask(w) ==
    /\ account[w] = "taken" /\ provider[w] = "none"
    /\ \E p \in {"accepted", "failed"} : provider' = [provider EXCEPT ![w] = p]
    /\ UNCHANGED account

\* The provider pays or fails what it accepted; a bank may return it.
Settle(w) ==
    /\ \/ provider[w] = "accepted" /\ \E p \in {"paid", "failed"} : provider' = [provider EXCEPT ![w] = p]
       \/ provider[w] = "paid" /\ provider' = [provider EXCEPT ![w] = "returned"]
    /\ UNCHANGED account

\* The money goes back; an answer that was lost excuses a payout kept.
GiveBack(w) ==
    /\ account[w] = "taken"
    /\ heard => provider[w] \in {"none", "failed", "returned"}
    /\ account' = [account EXCEPT ![w] = "given back"]
    /\ UNCHANGED provider

Next ==
    /\ \/ \E S \in SUBSET Withdrawals : Take(S)
       \/ \E w \in Withdrawals : Ask(w) \/ Settle(w) \/ GiveBack(w)
    /\ UNCHANGED heard

Spec == Init /\ [][Next]_vars
=============================================================================
