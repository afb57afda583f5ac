------------------------- MODULE MCWithdrawalPayout -------------------------
(* Two withdrawals of different amounts that the deposits do not both cover. *)
EXTENDS WithdrawalPayout, TLC

CONSTANTS w1, w2

TwoWithdrawals == {w1, w2}
TwoAndThree == w1 :> 2 @@ w2 :> 3
TwoEach == [w \in Withdrawals |-> 2]
NoFee == [w \in Withdrawals |-> 0]
FeeOne == [w \in Withdrawals |-> 1]

Quiet(asked) == [faults |-> {}, copies |-> 1, asked |-> asked]
QuietOnly == {Quiet(Withdrawals)}
\* Both withdrawals, processes that die and validations that time out.
CrashesAndTimeouts == {[Quiet(Withdrawals) EXCEPT !.faults = {"crash", "timeout"}]}
\* One withdrawal with every fault and doubled webhooks; both without faults.
AllFaultsOrNone ==
    {[faults |-> FaultKinds, copies |-> 2, asked |-> {w1}], Quiet(Withdrawals)}

=============================================================================
