------------------------ MODULE MCPaymentSettlement ------------------------
(* Terms for TLC: a reserve of 2, two installments.  A card has two copies   *)
(* of a webhook, or two release tasks for a schedule, or a refund request;   *)
(* the other payments have two release tasks and a request at once, a        *)
(* delayed one also two copies of a webhook around the date.                 *)
EXTENDS PaymentSettlement

Plain == [card |-> FALSE, delayed |-> FALSE, reserveDelayed |-> FALSE,
          reserve |-> 0, installments |-> 0, copies |-> 1, runs |-> 2, requests |-> 1]
CardWithReserve == [Plain EXCEPT !.card = TRUE, !.installments = 2,
                                 !.reserveDelayed = TRUE, !.reserve = 2]
CardApprovedTwice == [CardWithReserve EXCEPT !.copies = 2, !.runs = 1, !.requests = 0]
CardReleasedTwice == [CardWithReserve EXCEPT !.requests = 0]
CardRefunded == [CardWithReserve EXCEPT !.runs = 1]
DelayedBalance == [Plain EXCEPT !.delayed = TRUE]
DelayedApprovedTwice == [DelayedBalance EXCEPT !.copies = 2, !.runs = 1, !.requests = 0]
DelayedReserve == [Plain EXCEPT !.reserveDelayed = TRUE, !.reserve = 2]
BothDelayed == [DelayedReserve EXCEPT !.delayed = TRUE, !.runs = 1, !.requests = 0]

OneOfEach == {CardApprovedTwice, CardReleasedTwice, CardRefunded, DelayedBalance,
              DelayedApprovedTwice, DelayedReserve}
RunsOnce == {CardRefunded, [DelayedBalance EXCEPT !.runs = 1], [DelayedReserve EXCEPT !.runs = 1]}
OnlyBothDelayed == {BothDelayed}
=============================================================================
