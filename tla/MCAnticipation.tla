--------------------------- MODULE MCAnticipation ---------------------------
(* Two installments of one payment and one of another, two requests. *)
EXTENDS Anticipation, TLC

CONSTANTS a1, a2, b1

Payments == a1 :> "a" @@ a2 :> "a" @@ b1 :> "b"
Amounts == a1 :> 3 @@ a2 :> 3 @@ b1 :> 2
One == [s \in Schedules |-> 1]

=============================================================================
