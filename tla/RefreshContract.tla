-------------------------- MODULE RefreshContract --------------------------
(***************************************************************************)
(* What the election of the wallet refresh promises, without clocks, bids  *)
(* or a cache: of the processes that run the timer, one at a time executes *)
(* update_recent_wallet_balances, for as long as it takes, and the refresh *)
(* is executed again and again.                                            *)
(***************************************************************************)
CONSTANT Pods

VARIABLE executing   \* the processes that execute the refresh

Init == executing = {}

Begin(p) == executing = {} /\ executing' = {p}

End(p) == executing = {p} /\ executing' = {}

Next == \E p \in Pods : Begin(p) \/ End(p)

\* One at a time, and always another one later.
Exclusive == Init /\ [][Next]_executing
Recurrent == []<>(executing # {})
=============================================================================
