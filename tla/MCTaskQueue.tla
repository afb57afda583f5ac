---------------------------- MODULE MCTaskQueue ----------------------------
(* Instances of TaskQueue for TLC. *)
EXTENDS TaskQueue, TLC

CONSTANTS t1, t2, t3

\* A withdrawal webhook, which may be a devolution reported done and failed, and
\* two payouts, which a batch may report nothing of.
OneWithdrawalTwoPayouts ==
    (t1 :> "WITHDRAWAL") @@ (t2 :> PayoutType) @@ (t3 :> PayoutType)

\* A payment webhook, which may be omitted, and a payout.
OneOfEach == (t1 :> "PAYMENT") @@ (t2 :> PayoutType)
=============================================================================
