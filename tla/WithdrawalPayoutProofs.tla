------------------------ MODULE WithdrawalPayoutProofs ------------------------
(***************************************************************************)
(* For any number of withdrawals, batches and deliveries and any faults:   *)
(* the provider is asked at most once, FAILED is final, and money moves as *)
(* in PayoutContract.  The invariant behind this is                        *)
(* WithdrawalIInv: per withdrawal, what the row, the ledger, the call, the *)
(* provider and the webhooks may say together.  It needs no sums: a batch  *)
(* deducts from rows it has locked, whatever amounts it found.  That the   *)
(* account is never overdrawn is about the sums alone: Balance changes by  *)
(* what is posted (SumTheorems), and only a deduction posts a debit, after *)
(* its check of the balance that the posting leaves.                       *)
(***************************************************************************)
EXTENDS WithdrawalPayout, SumTheorems, TLAPS

(* What a debit and a refund post is a positive amount. *)
LEMMA PositiveAmounts ==
    \A w \in Withdrawals : Total(w) \in Nat \ {0} /\ Amount[w] + Fee[w] \in Nat \ {0}
BY AmountAssumption DEF Total

(* A posting fills its own key and leaves the others alone. *)
LEMMA Posting ==
    ASSUME RowsTypeOK, NEW w \in Withdrawals, NEW key \in Keys, NEW amount \in Nat \ {0},
           ledger' = Post(w, key, amount)
    PROVE  /\ ledger' \in [Withdrawals -> [Keys -> Nat]]
           /\ ledger'[w][key] > 0
           /\ \A v \in Withdrawals : v # w => ledger'[v] = ledger[v]
           /\ \A k \in Keys : k # key => ledger'[w][k] = ledger[w][k]
<1>1. ledger \in [Withdrawals -> [Keys -> Nat]]
  BY DEF RowsTypeOK
<1>2. CASE ledger[w][key] = 0
  <2>1. ledger' = [ledger EXCEPT ![w] = [ledger[w] EXCEPT ![key] = amount]]
    BY <1>2 DEF Post
  <2>2. [ledger[w] EXCEPT ![key] = amount] \in [Keys -> Nat]
    BY <1>1
  <2> QED BY <1>1, <2>1, <2>2
<1>3. CASE ledger[w][key] # 0
  <2>1. ledger' = ledger
    BY <1>3 DEF Post
  <2>2. ledger[w][key] \in Nat
    BY <1>1
  <2> QED BY <1>1, <1>3, <2>1, <2>2
<1> QED BY <1>2, <1>3

RowRecord == [status : Statuses, deducted : BOOLEAN, known : BOOLEAN, refunded : BOOLEAN]

(* Writing one row leaves the others alone. *)
LEMMA Writing ==
    ASSUME RowsTypeOK, NEW w \in Withdrawals, NEW rec \in RowRecord, row' = [row EXCEPT ![w] = rec]
    PROVE  /\ row' \in [Withdrawals -> RowRecord]
           /\ row'[w] = rec
           /\ \A v \in Withdrawals : v # w => row'[v] = row[v]
BY DEF RowsTypeOK, RowRecord

LEMMA StatusWritten ==
    ASSUME RowsTypeOK, NEW w \in Withdrawals, NEW s \in Statuses, SetStatus(w, s)
    PROVE  /\ row' \in [Withdrawals -> RowRecord]
           /\ row'[w] = [row[w] EXCEPT !.status = s]
           /\ row'[w].status = s /\ row'[w].deducted = row[w].deducted
           /\ row'[w].known = row[w].known
           /\ \A v \in Withdrawals : v # w => row'[v] = row[v]
<1>1. row \in [Withdrawals -> RowRecord]
  BY DEF RowsTypeOK, RowRecord
<1>2. row' = [row EXCEPT ![w] = [row[w] EXCEPT !.status = s]]
  BY DEF SetStatus
<1>3. [row[w] EXCEPT !.status = s] \in RowRecord
  BY <1>1 DEF RowRecord
<1>4. row[w] \in RowRecord
  BY <1>1
<1>5. /\ [row[w] EXCEPT !.status = s].status = s
      /\ [row[w] EXCEPT !.status = s].deducted = row[w].deducted
      /\ [row[w] EXCEPT !.status = s].known = row[w].known
  BY <1>4 DEF RowRecord
<1> QED BY <1>1, <1>2, <1>3, <1>5

(* A step that touches one withdrawal keeps the invariant when it does so   *)
(* for that withdrawal, does not touch what a batch has locked, and leaves  *)
(* the webhooks true.                                                       *)
LEMMA OneWithdrawal ==
    ASSUME WithdrawalIInv, NEW w \in Withdrawals,
           env' = env, batch' = batch, RowsTypeOK', HooksTell',
           \A v \in Withdrawals : v # w =>
              /\ row'[v] = row[v] /\ ledger'[v] = ledger[v] /\ call'[v] = call[v]
              /\ prov'[v] = prov[v] /\ calls'[v] = calls[v],
           row'[w] = row[w] \/ row[w].deducted \/ row[w].status # "PENDING",
           InStep(w)', InError(w)'
    PROVE  WithdrawalIInv'
<1>1. LocksHold'
  <2>1. \A b \in Batches, v \in Withdrawals :
           v \in batch[b].got => row'[v].status = "PENDING" /\ ~row'[v].deducted
    BY DEF WithdrawalIInv, LocksHold
  <2> QED BY <2>1 DEF WithdrawalIInv, LocksHold
<1>2. \A v \in Withdrawals : v # w => InStep(v)' /\ InError(v)'
  BY DEF WithdrawalIInv, InStep, InError, Credited, Posted
<1> QED BY <1>1, <1>2 DEF WithdrawalIInv

(* What a step of the call does to the rows' ranges. *)
LEMMA CallWritten ==
    ASSUME RowsTypeOK, NEW w \in Withdrawals, NEW c \in Calls, SetCall(w, c)
    PROVE  /\ call' \in [Withdrawals -> Calls] /\ call'[w] = c
           /\ \A v \in Withdrawals : v # w => call'[v] = call[v]
BY DEF SetCall, RowsTypeOK

(* The request: rows that no batch has seen. *)
LEMMA StepCheck ==
    ASSUME WithdrawalIInv, NEW w \in Withdrawals, Check(w) \/ Insert(w)
    PROVE  WithdrawalIInv'
<1> USE DEF WithdrawalIInv
<1>1. PICK s \in {"CHECKED", "PENDING"} : SetStatus(w, s)
  BY DEF Check, Insert
<1>2. /\ row' \in [Withdrawals -> RowRecord]
      /\ row'[w].status = s /\ row'[w].deducted = row[w].deducted /\ row'[w].known = row[w].known
      /\ \A v \in Withdrawals : v # w => row'[v] = row[v]
  BY <1>1, StatusWritten DEF Statuses
<1>3. /\ row[w].status \in {"NONE", "CHECKED"}
      /\ UNCHANGED <<env, money, snap, batch, call, prov, calls, hooks, rejected>>
      /\ tasks' \in [Withdrawals -> 0..MaxDeliveries]
  <2>1. CASE Check(w)
    BY <2>1 DEF Check, RowsTypeOK
  <2>2. CASE Insert(w)
    <3>1. MaxDeliveries \in 0..MaxDeliveries
      BY PayoutBoundsAssumption
    <3>2. tasks' \in [Withdrawals -> 0..MaxDeliveries]
      BY <2>2, <3>1 DEF Insert, RowsTypeOK
    <3> QED BY <2>2, <3>2 DEF Insert
  <2> QED BY <2>1, <2>2
<1>4. RowsTypeOK'
  BY <1>2, <1>3 DEF RowsTypeOK, RowRecord, money
<1>5. HooksTell'
  BY <1>2, <1>3 DEF HooksTell, RowsTypeOK
<1>6. InStep(w)' /\ InError(w)'
  BY <1>2, <1>3 DEF InStep, InError, Credited, Posted, money
<1> QED BY <1>2, <1>3, <1>4, <1>5, <1>6, OneWithdrawal DEF money

(* The provider is called for a withdrawal that is deducted and was never    *)
(* called for: its call leaves "ready" for good.                             *)
LEMMA StepCallProvider ==
    ASSUME WithdrawalIInv, NEW w \in Withdrawals, CallProvider(w)
    PROVE  WithdrawalIInv'
<1> USE DEF WithdrawalIInv
<1>1. PICK outcome \in createWithdrawal(w) :
          prov' = [prov EXCEPT ![w] = outcome.prov] /\ SetCall(w, outcome.call)
  BY DEF CallProvider
<1>2. /\ call[w] = "ready"
      /\ calls' = [calls EXCEPT ![w] = @ + 1]
      /\ UNCHANGED <<env, row, money, snap, tasks, batch, hooks, rejected>>
  BY DEF CallProvider, Callable
<1>3. calls[w] = 0 /\ prov[w] = "none" /\ row[w].status = "PENDING" /\ row[w].deducted
      /\ ~row[w].known /\ ~Credited(w)
  BY <1>2 DEF InStep, Past
<1>4. /\ \/ outcome.prov = "accepted" /\ outcome.call = "answered"
         \/ outcome.prov = "failed" /\ outcome.call = "refused"
         \/ outcome.prov = "none" /\ outcome.call = "erring"
         \/ outcome.prov = "accepted" /\ outcome.call = "erring" /\ "lostAnswer" \in env.faults
  BY <1>3 DEF createWithdrawal
<1>5. /\ call' \in [Withdrawals -> Calls] /\ call'[w] = outcome.call
      /\ \A v \in Withdrawals : v # w => call'[v] = call[v]
  BY <1>1, <1>4, CallWritten DEF Calls
<1>6. /\ prov' \in [Withdrawals -> {"none", "accepted", "failed", "paid", "returned"}]
      /\ prov'[w] = outcome.prov
      /\ \A v \in Withdrawals : v # w => prov'[v] = prov[v]
  BY <1>1, <1>4 DEF RowsTypeOK
<1>7. /\ calls' \in [Withdrawals -> Nat] /\ calls'[w] = 1
      /\ \A v \in Withdrawals : v # w => calls'[v] = calls[v]
  BY <1>2, <1>3 DEF RowsTypeOK
<1>8. RowsTypeOK'
  BY <1>2, <1>5, <1>6, <1>7 DEF RowsTypeOK, money
<1>9. HooksTell'
  BY <1>2, <1>3, <1>6 DEF HooksTell, RowsTypeOK
<1>10. InStep(w)' /\ InError(w)'
  BY <1>2, <1>3, <1>4, <1>5, <1>6, <1>7 DEF InStep, InError, Credited, Posted, money
<1> QED BY <1>2, <1>5, <1>6, <1>7, <1>8, <1>9, <1>10, OneWithdrawal DEF money

(* The answer is stored in a row that is still PENDING and that no webhook    *)
(* can be about; a refused payout goes on to the error path.                 *)
LEMMA StepStoreAnswer ==
    ASSUME WithdrawalIInv, NEW w \in Withdrawals, StoreAnswer(w)
    PROVE  WithdrawalIInv'
<1> USE DEF WithdrawalIInv
<1>1. /\ call[w] \in {"answered", "refused"}
      /\ UNCHANGED <<env, money, snap, tasks, batch, prov, calls, hooks, rejected>>
  BY DEF StoreAnswer
<1>2. row[w].deducted /\ ~row[w].known /\ ~Credited(w) /\ row \in [Withdrawals -> RowRecord]
  BY <1>1 DEF InStep, Past, RowsTypeOK, RowRecord
<1>3. CASE /\ row' = [row EXCEPT ![w].status = "PROCESSING", ![w].known = TRUE]
           /\ SetCall(w, AfterAnswer(w))
  <2>1. row' = [row EXCEPT ![w] = [[row[w] EXCEPT !.status = "PROCESSING"] EXCEPT !.known = TRUE]]
    BY <1>3, <1>2
  <2> DEFINE rec == [[row[w] EXCEPT !.status = "PROCESSING"] EXCEPT !.known = TRUE]
  <2>2. rec \in RowRecord /\ rec.status = "PROCESSING" /\ rec.known /\ rec.deducted
    BY <1>2 DEF RowRecord, Statuses
  <2> HIDE DEF rec
  <2>3. /\ row' \in [Withdrawals -> RowRecord] /\ row'[w] = rec
        /\ \A v \in Withdrawals : v # w => row'[v] = row[v]
    BY <2>1, <2>2, Writing DEF rec
  <2>4. AfterAnswer(w) \in Calls
    BY DEF AfterAnswer, Calls
  <2>5. /\ call' \in [Withdrawals -> Calls] /\ call'[w] = AfterAnswer(w)
        /\ \A v \in Withdrawals : v # w => call'[v] = call[v]
    BY <1>3, <2>4, CallWritten
  <2>6. call[w] = "refused" => call'[w] = "erring" /\ prov[w] = "failed"
    BY <2>5 DEF AfterAnswer, InStep
  <2>7. call[w] = "answered" => call'[w] = "over"
    BY <2>5 DEF AfterAnswer
  <2>8. RowsTypeOK'
    BY <1>1, <2>3, <2>5 DEF RowsTypeOK, RowRecord, money
  <2>9. HooksTell'
    BY <1>1, <2>2, <2>3 DEF HooksTell, RowsTypeOK
  <2>10. InStep(w)' /\ InError(w)'
    BY <1>1, <1>2, <2>2, <2>3, <2>6, <2>7 DEF InStep, InError, Credited, Posted, Past, money
  <2> QED BY <1>1, <1>2, <2>3, <2>5, <2>8, <2>9, <2>10, OneWithdrawal DEF money
<1>4. CASE "database" \in env.faults /\ SetCall(w, "erring") /\ UNCHANGED row
  <2>1. /\ call' \in [Withdrawals -> Calls] /\ call'[w] = "erring"
        /\ \A v \in Withdrawals : v # w => call'[v] = call[v]
    BY <1>4, CallWritten DEF Calls
  <2>2. RowsTypeOK' /\ HooksTell'
    BY <1>1, <1>4, <2>1 DEF RowsTypeOK, HooksTell, money
  <2>3. InStep(w)' /\ InError(w)'
    BY <1>1, <1>2, <1>4, <2>1 DEF InStep, InError, Credited, Posted, Past, money
  <2> QED BY <1>1, <1>4, <2>1, <2>2, <2>3, OneWithdrawal DEF money
<1> QED BY <1>3, <1>4 DEF StoreAnswer

(* The error path marks FAILED a payout the provider refused, or one it never *)
(* answered and the row does not know.                                        *)
LEMMA StepMarkFailed ==
    ASSUME WithdrawalIInv, NEW w \in Withdrawals, MarkFailed(w)
    PROVE  WithdrawalIInv'
<1> USE DEF WithdrawalIInv
<1>1. /\ call[w] = "erring" /\ row[w].deducted
      /\ UNCHANGED <<env, money, snap, tasks, batch, prov, calls, hooks, rejected>>
  BY DEF MarkFailed, InStep
<1>2. PICK c \in {"refunding", "emergency"} : SetCall(w, c)
  BY DEF MarkFailed
<1>3. /\ call' \in [Withdrawals -> Calls] /\ call'[w] = c
      /\ \A v \in Withdrawals : v # w => call'[v] = call[v]
  BY <1>2, CallWritten DEF Calls
<1>4. /\ row' \in [Withdrawals -> RowRecord]
      /\ row'[w].deducted = row[w].deducted /\ row'[w].known = row[w].known
      /\ row'[w].status \in {row[w].status, "FAILED"}
      /\ \A v \in Withdrawals : v # w => row'[v] = row[v]
  <2>1. CASE SetStatus(w, "FAILED")
    BY <2>1, StatusWritten DEF Statuses
  <2>2. CASE UNCHANGED row
    BY <2>2 DEF RowsTypeOK, RowRecord
  <2> QED BY <2>1, <2>2 DEF MarkFailed
<1>5. RowsTypeOK'
  BY <1>1, <1>3, <1>4 DEF RowsTypeOK, RowRecord, money
<1>6. HooksTell'
  BY <1>1, <1>4 DEF HooksTell, RowsTypeOK
<1>7. InStep(w)' /\ InError(w)'
  BY <1>1, <1>3, <1>4 DEF InStep, InError, Credited, Posted, Past, money
<1> QED BY <1>1, <1>3, <1>4, <1>5, <1>6, <1>7, OneWithdrawal DEF money

(* The refund credits a withdrawal that was debited and called for. *)
LEMMA StepRefundCommit ==
    ASSUME WithdrawalIInv, NEW w \in Withdrawals, RefundCommit(w)
    PROVE  WithdrawalIInv'
<1> USE DEF WithdrawalIInv
<1>1. /\ call[w] \in {"refunding", "emergency"}
      /\ ledger' = Post(w, RefundCredit, Total(w)) /\ SetCall(w, "over")
      /\ UNCHANGED <<env, row, tasks, batch, prov, calls, hooks, rejected>>
  BY DEF RefundCommit
<1>2. /\ ledger' \in [Withdrawals -> [Keys -> Nat]] /\ ledger'[w][RefundCredit] > 0
      /\ \A v \in Withdrawals : v # w => ledger'[v] = ledger[v]
      /\ \A k \in Keys : k # RefundCredit => ledger'[w][k] = ledger[w][k]
  BY <1>1, Posting, PositiveAmounts DEF Keys, RefundCredit
<1>3. /\ call' \in [Withdrawals -> Calls] /\ call'[w] = "over"
      /\ \A v \in Withdrawals : v # w => call'[v] = call[v]
  BY <1>1, CallWritten DEF Calls
<1>4. RowsTypeOK' /\ HooksTell'
  BY <1>1, <1>2, <1>3 DEF RowsTypeOK, HooksTell
<1>5. ledger'[w][Debit] = ledger[w][Debit]
  BY <1>2 DEF Keys, Debit, RefundCredit
<1>6. InStep(w)' /\ InError(w)'
  BY <1>1, <1>3, <1>5 DEF InStep, InError, Credited, Posted, Past
<1> QED BY <1>1, <1>2, <1>3, <1>4, <1>6, OneWithdrawal

(* Sums, failed refunds and deaths between the steps. *)
LEMMA StepRefundSum ==
    ASSUME WithdrawalIInv, NEW w \in Withdrawals, RefundSum(w)
    PROVE  WithdrawalIInv'
BY DEF RefundSum, money, WithdrawalIInv, RowsTypeOK, LocksHold, HooksTell, InStep, InError, Credited, Posted

LEMMA StepGivesUp ==
    ASSUME WithdrawalIInv, NEW w \in Withdrawals, RefundFails(w) \/ Cut(w)
    PROVE  WithdrawalIInv'
<1> USE DEF WithdrawalIInv
<1>1. UNCHANGED <<env, row, money, tasks, batch, prov, calls, hooks, rejected>>
  BY DEF RefundFails, Cut
<1>2. PICK c \in {"emergency", "over", "cut"} : SetCall(w, c) /\ (c = "emergency" => call[w] = "refunding")
  BY DEF RefundFails, Cut
<1>3. /\ call' \in [Withdrawals -> Calls] /\ call'[w] = c
      /\ \A v \in Withdrawals : v # w => call'[v] = call[v]
  BY <1>2, CallWritten DEF Calls
<1>4. call[w] # "no"
  BY DEF RefundFails, Cut
<1>5. RowsTypeOK' /\ HooksTell'
  BY <1>1, <1>3 DEF RowsTypeOK, HooksTell, money
<1>6. InStep(w)' /\ InError(w)'
  BY <1>1, <1>2, <1>3, <1>4 DEF InStep, InError, Credited, Posted, Past, money
<1> QED BY <1>1, <1>3, <1>5, <1>6, OneWithdrawal DEF money

(* The provider moves on; what it announced stays true. *)
LEMMA StepProviderSettles ==
    ASSUME WithdrawalIInv, NEW w \in Withdrawals, ProviderSettles(w)
    PROVE  WithdrawalIInv'
<1> USE DEF WithdrawalIInv
<1>1. UNCHANGED <<env, row, money, snap, tasks, batch, call, calls, hooks, rejected>>
  BY DEF ProviderSettles
<1>2. PICK p \in {"paid", "failed", "returned"} :
        /\ prov' = [prov EXCEPT ![w] = p]
        /\ \/ prov[w] = "accepted" /\ p \in {"paid", "failed"}
           \/ prov[w] = "paid" /\ p = "returned"
  BY DEF ProviderSettles
<1>3. /\ prov' \in [Withdrawals -> {"none", "accepted", "failed", "paid", "returned"}]
      /\ prov'[w] = p
      /\ \A v \in Withdrawals : v # w => prov'[v] = prov[v]
  BY <1>2 DEF RowsTypeOK
<1>4. RowsTypeOK'
  BY <1>1, <1>3 DEF RowsTypeOK, money
<1>5. HooksTell'
  BY <1>1, <1>2, <1>3 DEF HooksTell, RowsTypeOK
<1>6. InStep(w)' /\ InError(w)'
  BY <1>1, <1>2, <1>3 DEF InStep, InError, Credited, Posted, money
<1> QED BY <1>1, <1>3, <1>4, <1>5, <1>6, OneWithdrawal DEF money

(* Webhooks come, are read and dropped. *)
LEMMA StepReceive ==
    ASSUME WithdrawalIInv, NEW w \in Withdrawals, NEW st \in WebhookStatuses,
           NEW c \in 1..env.copies, Receive(w, st, c)
    PROVE  WithdrawalIInv'
<1> USE DEF WithdrawalIInv
<1> DEFINE new == [w |-> w, st |-> st, copy |-> c, seen |-> "unread"]
<1>1. /\ hooks' = hooks \cup {new} /\ st \in Announced(w) /\ row[w].known
      /\ UNCHANGED <<env, row, money, snap, tasks, batch, call, prov, calls, rejected>>
  BY DEF Receive
<1>2. RowsTypeOK'
  BY <1>1 DEF RowsTypeOK, money
<1>3. /\ st = "FAILED" => prov[w] = "failed"
      /\ st = "APPROVED" => prov[w] \in {"paid", "returned"}
      /\ st = "REFUNDED" => prov[w] = "returned"
  <2>1. CASE prov[w] = "paid"
    BY <1>1, <2>1 DEF Announced
  <2>2. CASE prov[w] = "returned"
    BY <1>1, <2>2 DEF Announced
  <2>3. CASE prov[w] = "failed"
    BY <1>1, <2>3 DEF Announced
  <2>4. CASE prov[w] \notin {"paid", "returned", "failed"}
    BY <1>1, <2>4 DEF Announced
  <2> QED BY <2>1, <2>2, <2>3, <2>4
<1>4. HooksTell'
  BY <1>1, <1>3 DEF HooksTell
<1>5. LocksHold' /\ \A v \in Withdrawals : InStep(v)' /\ InError(v)'
  BY <1>1 DEF LocksHold, InStep, InError, Credited, Posted, money
<1> QED BY <1>2, <1>4, <1>5

LEMMA StepReadHook ==
    ASSUME WithdrawalIInv, NEW h \in hooks, ReadHook(h) \/ DropHook(h)
    PROVE  WithdrawalIInv'
<1> USE DEF WithdrawalIInv
<1>1. UNCHANGED <<env, row, money, snap, tasks, batch, call, prov, calls, rejected>>
  BY DEF ReadHook, DropHook
<1>2. h \in [w : Withdrawals, st : WebhookStatuses, copy : Nat, seen : {"unread", "can", "cannot"}]
  BY DEF RowsTypeOK
<1>3. ASSUME NEW s \in {"can", "cannot"}
      PROVE  /\ [h EXCEPT !.seen = s] \in [w : Withdrawals, st : WebhookStatuses, copy : Nat,
                                           seen : {"unread", "can", "cannot"}]
             /\ [h EXCEPT !.seen = s].w = h.w /\ [h EXCEPT !.seen = s].st = h.st
  BY <1>2
<1>4. \/ hooks' = hooks \ {h}
      \/ \E s \in {"can", "cannot"} : hooks' = (hooks \ {h}) \cup {[h EXCEPT !.seen = s]}
  BY DEF ReadHook, DropHook
<1>5. RowsTypeOK'
  BY <1>1, <1>3, <1>4 DEF RowsTypeOK, money
<1>6. HooksTell'
  BY <1>1, <1>3, <1>4 DEF HooksTell
<1>7. LocksHold' /\ \A v \in Withdrawals : InStep(v)' /\ InError(v)'
  BY <1>1 DEF LocksHold, InStep, InError, Credited, Posted, money
<1> QED BY <1>5, <1>6, <1>7

(* A webhook is applied to a row that knows its payout, hence was debited and *)
(* called for: APPROVED and REFUNDED come of payouts that did not fail.       *)
LEMMA StepApplyHook ==
    ASSUME WithdrawalIInv, NEW h \in hooks, ApplyHook(h)
    PROVE  WithdrawalIInv'
<1> USE DEF WithdrawalIInv
<1>1. /\ hooks' = hooks \ {h}
      /\ UNCHANGED <<env, wallet, snap, tasks, batch, call, prov, calls, rejected>>
  BY DEF ApplyHook
<1>2. h.w \in Withdrawals /\ h.st \in WebhookStatuses
  BY DEF RowsTypeOK
<1>3. row[h.w].known /\ row[h.w].deducted /\ call[h.w] \in Past /\ row[h.w] \in RowRecord
  BY <1>2 DEF HooksTell, InStep, Past, RowsTypeOK, RowRecord
<1>4. /\ row' \in [Withdrawals -> RowRecord]
      /\ row'[h.w].deducted = row[h.w].deducted /\ row'[h.w].known = row[h.w].known
      /\ \A v \in Withdrawals : v # h.w => row'[v] = row[v]
      /\ row'[h.w].status = "FAILED" =>
            row[h.w].status = "FAILED" \/ prov[h.w] = "failed"
  <2>1. CASE h.seen = "cannot"
    BY <2>1 DEF ApplyHook, RowsTypeOK, RowRecord
  <2>2. CASE h.seen # "cannot" /\ h.st = "APPROVED"
    <3>1. SetStatus(h.w, "APPROVED")
      BY <2>2 DEF ApplyHook
    <3> QED BY <1>2, <3>1, StatusWritten DEF Statuses
  <2>3. CASE h.seen # "cannot" /\ h.st = "FAILED"
    <3>1. SetStatus(h.w, "FAILED")
      BY <2>3 DEF ApplyHook
    <3>2. prov[h.w] = "failed"
      BY <2>3 DEF HooksTell
    <3> QED BY <1>2, <3>1, <3>2, StatusWritten DEF Statuses
  <2>4. CASE h.seen # "cannot" /\ h.st = "REFUNDED"
    <3> DEFINE rec == [[row[h.w] EXCEPT !.status = "REFUNDED"] EXCEPT !.refunded = TRUE]
    <3>1. row' = [row EXCEPT ![h.w] = rec]
      BY <1>2, <2>4 DEF ApplyHook, RowsTypeOK
    <3>2. rec \in RowRecord /\ rec.status = "REFUNDED" /\ rec.known = row[h.w].known
          /\ rec.deducted = row[h.w].deducted
      BY <1>3 DEF RowRecord, Statuses
    <3> HIDE DEF rec
    <3>3. /\ row' \in [Withdrawals -> RowRecord] /\ row'[h.w] = rec
          /\ \A v \in Withdrawals : v # h.w => row'[v] = row[v]
      BY <1>2, <3>1, <3>2, Writing
    <3> QED BY <3>2, <3>3
  <2> QED BY <1>2, <2>1, <2>2, <2>3, <2>4 DEF WebhookStatuses
<1>5. /\ ledger' \in [Withdrawals -> [Keys -> Nat]]
      /\ \A v \in Withdrawals : v # h.w => ledger'[v] = ledger[v]
      /\ ledger'[h.w][Debit] = ledger[h.w][Debit]
      /\ ledger'[h.w][RefundCredit] > 0 =>
            ledger[h.w][RefundCredit] > 0 \/ prov[h.w] = "returned"
  <2>1. CASE h.seen = "cannot" \/ h.st = "APPROVED"
    BY <2>1 DEF ApplyHook, RowsTypeOK
  <2>2. CASE h.seen # "cannot" /\ h.st = "FAILED"
    <3>1. ledger' = Post(h.w, FailCredit, Total(h.w))
      BY <2>2 DEF ApplyHook
    <3> QED BY <1>2, <3>1, Posting, PositiveAmounts DEF Keys, Debit, FailCredit, RefundCredit
  <2>3. CASE h.seen # "cannot" /\ h.st = "REFUNDED"
    <3>1. ledger' = Post(h.w, RefundCredit, Amount[h.w] + Fee[h.w])
      BY <2>3 DEF ApplyHook, Returned
    <3>2. prov[h.w] = "returned"
      BY <2>3 DEF HooksTell
    <3> QED BY <1>2, <3>1, <3>2, Posting, PositiveAmounts DEF Keys, Debit, RefundCredit
  <2> QED BY <1>2, <2>1, <2>2, <2>3 DEF WebhookStatuses
<1>6. RowsTypeOK'
  BY <1>1, <1>4, <1>5 DEF RowsTypeOK, RowRecord
<1>7. HooksTell'
  BY <1>1, <1>3, <1>4, <1>2 DEF HooksTell, RowsTypeOK
<1>8. InStep(h.w)' /\ InError(h.w)'
  BY <1>1, <1>2, <1>3, <1>4, <1>5 DEF InStep, InError, Credited, Posted, Past
<1> QED BY <1>1, <1>2, <1>3, <1>4, <1>5, <1>6, <1>7, <1>8, OneWithdrawal

(* The wallet job touches neither rows nor postings. *)
LEMMA StepJob ==
    ASSUME WithdrawalIInv, JobSum \/ JobWrite
    PROVE  WithdrawalIInv'
BY DEF JobSum, JobWrite, money, WithdrawalIInv, RowsTypeOK, LocksHold, HooksTell, InStep, InError,
    Credited, Posted

BatchRecord == [stage : Stages, ids : SUBSET Withdrawals, got : SUBSET Withdrawals,
                other : SUBSET Withdrawals, gaveUp : BOOLEAN]

LEMMA BatchWritten ==
    ASSUME RowsTypeOK, NEW b \in Batches, NEW rec \in BatchRecord, SetBatch(b, rec)
    PROVE  /\ batch' \in [Batches -> BatchRecord]
           /\ batch'[b] = rec
           /\ \A c \in Batches : c # b => batch'[c] = batch[c]
BY DEF SetBatch, RowsTypeOK, BatchRecord

LEMMA IdleRecord == Idle \in BatchRecord /\ Idle.got = {}
BY DEF Idle, BatchRecord, Stages

(* A batch that lets go of rows, or holds what it held, while no row changes. *)
LEMMA BatchLetsGo ==
    ASSUME WithdrawalIInv, NEW b \in Batches, NEW rec \in BatchRecord, SetBatch(b, rec),
           rec.got \subseteq batch[b].got,
           UNCHANGED <<env, row, ledger, call, prov, calls, hooks>>,
           tasks' \in [Withdrawals -> 0..MaxDeliveries], rejected' \subseteq Withdrawals
    PROVE  WithdrawalIInv'
<1> USE DEF WithdrawalIInv
<1>1. /\ batch' \in [Batches -> BatchRecord] /\ batch'[b] = rec
      /\ \A c \in Batches : c # b => batch'[c] = batch[c]
  BY BatchWritten
<1>2. RowsTypeOK'
  BY <1>1 DEF RowsTypeOK, BatchRecord
<1>3. \A c \in Batches : batch'[c].got \subseteq batch[c].got
  BY <1>1
<1>4. LocksHold'
  BY <1>3 DEF LocksHold
<1>5. HooksTell' /\ \A v \in Withdrawals : InStep(v)' /\ InError(v)'
  BY DEF HooksTell, InStep, InError, Credited, Posted
<1> QED BY <1>2, <1>4, <1>5

LEMMA StepDeliver ==
    ASSUME WithdrawalIInv, NEW b \in Batches, Deliver(b)
    PROVE  WithdrawalIInv'
<1> USE DEF WithdrawalIInv
<1>1. UNCHANGED <<env, row, ledger, wallet, snap, call, prov, calls, hooks, rejected>>
  BY DEF Deliver, money
<1>2. PICK S \in SUBSET {w \in Withdrawals : tasks[w] > 0} :
        /\ tasks' = [w \in Withdrawals |-> IF w \in S THEN tasks[w] - 1 ELSE tasks[w]]
        /\ \/ SetBatch(b, Idle)
           \/ SetBatch(b, [Idle EXCEPT !.stage = "read",
                                       !.ids = {w \in S : row[w].status = "PENDING"}])
  BY DEF Deliver
<1>3. tasks' \in [Withdrawals -> 0..MaxDeliveries]
  <2> SUFFICES ASSUME NEW w \in Withdrawals
               PROVE  (IF w \in S THEN tasks[w] - 1 ELSE tasks[w]) \in 0..MaxDeliveries
    BY <1>2
  <2>1. tasks[w] \in 0..MaxDeliveries /\ (w \in S => tasks[w] > 0) /\ MaxDeliveries \in Nat
    BY <1>2, PayoutBoundsAssumption DEF RowsTypeOK
  <2> QED BY <2>1
<1> DEFINE read == [Idle EXCEPT !.stage = "read", !.ids = {w \in S : row[w].status = "PENDING"}]
<1>4. {w \in S : row[w].status = "PENDING"} \in SUBSET Withdrawals
  BY <1>2
<1>5. read \in BatchRecord /\ read.got = {}
  BY <1>4, IdleRecord DEF BatchRecord, Stages
<1>6. PICK rec \in {Idle, read} : SetBatch(b, rec)
  BY <1>2
<1>7. rec \in BatchRecord /\ rec.got = {}
  BY <1>5, <1>6, IdleRecord
<1>8. rejected' \subseteq Withdrawals
  BY <1>1 DEF RowsTypeOK
<1> QED BY <1>1, <1>3, <1>6, <1>7, <1>8, BatchLetsGo

LEMMA StepTimeOut ==
    ASSUME WithdrawalIInv, NEW b \in Batches, TimeOut(b) \/ RollBack(b)
    PROVE  WithdrawalIInv'
<1> USE DEF WithdrawalIInv
<1>1. UNCHANGED <<env, row, ledger, wallet, snap, tasks, call, prov, calls, hooks, rejected>>
  BY DEF TimeOut, RollBack, money
<1>2. /\ tasks' \in [Withdrawals -> 0..MaxDeliveries] /\ rejected' \subseteq Withdrawals
      /\ batch[b] \in BatchRecord
  BY <1>1 DEF RowsTypeOK, BatchRecord
<1>3. /\ [batch[b] EXCEPT !.gaveUp = TRUE] \in BatchRecord
      /\ [batch[b] EXCEPT !.gaveUp = TRUE].got = batch[b].got
  BY <1>2 DEF BatchRecord
<1>4. SetBatch(b, Idle) \/ SetBatch(b, [batch[b] EXCEPT !.gaveUp = TRUE])
  BY DEF TimeOut, RollBack
<1>5. PICK rec \in {Idle, [batch[b] EXCEPT !.gaveUp = TRUE]} : SetBatch(b, rec)
  BY <1>4
<1>6. rec \in BatchRecord /\ rec.got \subseteq batch[b].got
  BY <1>3, <1>5, IdleRecord
<1> QED BY <1>1, <1>2, <1>5, <1>6, BatchLetsGo

(* What a batch locks was PENDING, not deducted and nobody else's. *)
LEMMA StepLockRows ==
    ASSUME WithdrawalIInv, NEW b \in Batches, LockRows(b)
    PROVE  WithdrawalIInv'
<1> USE DEF WithdrawalIInv
<1>1. UNCHANGED <<env, row, ledger, wallet, snap, tasks, call, prov, calls, hooks, rejected>>
  BY DEF LockRows, money
<1>2. batch[b] \in BatchRecord /\ tasks' \in [Withdrawals -> 0..MaxDeliveries]
      /\ rejected' \subseteq Withdrawals
  BY <1>1 DEF RowsTypeOK, BatchRecord
<1>3. CASE Obtainable(b) = {}
  BY <1>1, <1>2, <1>3, IdleRecord, BatchLetsGo DEF LockRows
<1>4. CASE Obtainable(b) # {}
  <2> DEFINE rec == [batch[b] EXCEPT !.stage = "locked", !.got = Obtainable(b), !.other = OtherPending(b)]
  <2>1. SetBatch(b, rec)
    BY <1>4 DEF LockRows
  <2>2. Obtainable(b) \subseteq Withdrawals /\ OtherPending(b) \subseteq Withdrawals
    BY <1>2 DEF Obtainable, OtherPending, BatchRecord
  <2>3. rec \in BatchRecord /\ rec.got = Obtainable(b)
    BY <1>2, <2>2 DEF BatchRecord, Stages
  <2> HIDE DEF rec
  <2>4. /\ batch' \in [Batches -> BatchRecord] /\ batch'[b] = rec
        /\ \A c \in Batches : c # b => batch'[c] = batch[c]
    BY <2>1, <2>3, BatchWritten
  <2>5. RowsTypeOK'
    BY <1>1, <2>4 DEF RowsTypeOK, BatchRecord
  <2>6. \A w \in Obtainable(b) : /\ row[w].status = "PENDING" /\ ~row[w].deducted
                                 /\ \A c \in Batches : w \notin batch[c].got
    BY DEF Obtainable, LockedRows
  <2>7. LocksHold'
    BY <1>1, <2>3, <2>4, <2>6 DEF LocksHold
  <2>8. HooksTell' /\ \A v \in Withdrawals : InStep(v)' /\ InError(v)'
    BY <1>1 DEF HooksTell, InStep, InError, Credited, Posted
  <2> QED BY <2>5, <2>7, <2>8
<1> QED BY <1>3, <1>4

(* The catch block fails rows that are neither deducted nor locked. *)
LEMMA StepMarkNegative ==
    ASSUME WithdrawalIInv, NEW b \in Batches, MarkNegative(b)
    PROVE  WithdrawalIInv'
<1> USE DEF WithdrawalIInv
<1>1. /\ UNCHANGED <<env, ledger, wallet, snap, tasks, call, prov, calls, hooks, rejected>>
      /\ SetBatch(b, Idle) /\ batch[b].ids \cap LockedRows = {}
  BY DEF MarkNegative, money
<1>2. row \in [Withdrawals -> RowRecord]
  BY DEF RowsTypeOK, RowRecord
<1>3. \A w \in Withdrawals : row'[w] =
         IF w \in batch[b].ids /\ row[w].status = "PENDING" /\ ~row[w].deducted
         THEN [row[w] EXCEPT !.status = "FAILED"] ELSE row[w]
  BY DEF MarkNegative
<1>4. \A w \in Withdrawals :
         /\ [row[w] EXCEPT !.status = "FAILED"] \in RowRecord
         /\ [row[w] EXCEPT !.status = "FAILED"].status = "FAILED"
         /\ [row[w] EXCEPT !.status = "FAILED"].deducted = row[w].deducted
         /\ [row[w] EXCEPT !.status = "FAILED"].known = row[w].known
  BY <1>2 DEF RowRecord, Statuses
<1>5. row' \in [Withdrawals -> RowRecord]
  BY <1>2, <1>3, <1>4 DEF MarkNegative
<1>6. \A w \in Withdrawals :
         /\ row'[w].deducted = row[w].deducted /\ row'[w].known = row[w].known
         /\ row'[w] # row[w] => w \notin LockedRows /\ ~row[w].deducted
  BY <1>1, <1>3, <1>4
<1>7. /\ batch' \in [Batches -> BatchRecord] /\ batch'[b] = Idle
      /\ \A c \in Batches : c # b => batch'[c] = batch[c]
  BY <1>1, BatchWritten, IdleRecord
<1>8. RowsTypeOK'
  BY <1>1, <1>5, <1>7 DEF RowsTypeOK, RowRecord, BatchRecord
<1>9. \A c \in Batches : batch'[c].got \subseteq batch[c].got
  BY <1>7, IdleRecord
<1>10. LocksHold'
  BY <1>6, <1>9 DEF LocksHold, LockedRows
<1>11. HooksTell'
  BY <1>1, <1>6 DEF HooksTell, RowsTypeOK
<1>12. ASSUME NEW w \in Withdrawals PROVE InStep(w)' /\ InError(w)'
  <2>1. InStep(w) /\ InError(w)
    OBVIOUS
  <2>2. row'[w] # row[w] => call[w] = "no" /\ ~row[w].known
    BY <1>6, <2>1 DEF InStep, Past
  <2> QED BY <1>1, <1>6, <2>1, <2>2 DEF InStep, InError, Credited, Posted
<1> QED BY <1>8, <1>10, <1>11, <1>12

(* What the deducting transaction posts. *)
LEMMA DebitPosting ==
    ASSUME RowsTypeOK, NEW V \in SUBSET Withdrawals, ledger' = Debited(V)
    PROVE  /\ ledger' \in [Withdrawals -> [Keys -> Nat]]
           /\ \A w \in V : ledger'[w][Debit] > 0
           /\ \A w \in Withdrawals : w \notin V => ledger'[w] = ledger[w]
           /\ \A w \in Withdrawals, k \in Keys : k # Debit => ledger'[w][k] = ledger[w][k]
<1>1. ledger \in [Withdrawals -> [Keys -> Nat]]
  BY DEF RowsTypeOK
<1>2. \A w \in Withdrawals : ledger'[w] =
        IF w \in V /\ ledger[w][Debit] = 0 THEN [ledger[w] EXCEPT ![Debit] = Total(w)] ELSE ledger[w]
  BY DEF Debited
<1>3. Debit \in Keys
  BY DEF Debit, Keys
<1>4. ASSUME NEW w \in Withdrawals
      PROVE  /\ [ledger[w] EXCEPT ![Debit] = Total(w)] \in [Keys -> Nat]
             /\ [ledger[w] EXCEPT ![Debit] = Total(w)][Debit] > 0
             /\ \A k \in Keys : k # Debit => [ledger[w] EXCEPT ![Debit] = Total(w)][k] = ledger[w][k]
  <2>1. Total(w) \in Nat /\ Total(w) > 0
    BY PositiveAmounts
  <2> QED BY <1>1, <1>3, <2>1
<1>5. ledger' \in [Withdrawals -> [Keys -> Nat]]
  <2>1. \A w \in Withdrawals : ledger'[w] \in [Keys -> Nat]
    BY <1>1, <1>2, <1>4
  <2> QED BY <2>1 DEF Debited
<1>6. ASSUME NEW w \in V PROVE ledger'[w][Debit] > 0
  <2>1. w \in Withdrawals /\ ledger[w][Debit] \in Nat
    BY <1>1, <1>3
  <2>2. CASE ledger[w][Debit] = 0
    <3>1. ledger'[w] = [ledger[w] EXCEPT ![Debit] = Total(w)]
      BY <1>2, <2>1, <2>2
    <3>2. [ledger[w] EXCEPT ![Debit] = Total(w)][Debit] > 0
      BY <1>4, <2>1
    <3> QED BY <3>1, <3>2
  <2>3. CASE ledger[w][Debit] # 0
    <3>1. ledger'[w] = ledger[w]
      BY <1>2, <2>1, <2>3
    <3> QED BY <2>1, <2>3, <3>1
  <2> QED BY <2>2, <2>3
<1>7. ASSUME NEW w \in Withdrawals, NEW k \in Keys, k # Debit PROVE ledger'[w][k] = ledger[w][k]
  BY <1>2, <1>4, <1>7
<1>8. \A w \in Withdrawals : w \notin V => ledger'[w] = ledger[w]
  BY <1>2
<1> QED BY <1>5, <1>6, <1>7, <1>8

(* The commit of a deduction: of the rows the batch had locked, those in V    *)
(* are debited and may be paid, the others fail; no other row is touched.     *)
LEMMA DeductionCommits ==
    ASSUME WithdrawalIInv, NEW b \in Batches, NEW V \in SUBSET batch[b].got,
           row' = [w \in Withdrawals |->
                     [row[w] EXCEPT !.deducted = @ \/ w \in V,
                                    !.status = IF w \in Refused(b, V) THEN "FAILED" ELSE @]],
           ledger' = Debited(V),
           call' = [w \in Withdrawals |->
                      IF w \notin V THEN call[w]
                      ELSE IF batch[b].gaveUp THEN "abandoned" ELSE "ready"],
           SetBatch(b, Idle),
           UNCHANGED <<env, tasks, prov, calls, hooks, rejected>>
    PROVE  WithdrawalIInv'
<1> USE DEF WithdrawalIInv
<1>1. row \in [Withdrawals -> RowRecord] /\ batch[b] \in BatchRecord
  BY DEF RowsTypeOK, RowRecord, BatchRecord
<1>2. batch[b].got \subseteq Withdrawals /\ V \subseteq Withdrawals
  BY <1>1 DEF BatchRecord
<1>3. ASSUME NEW w \in Withdrawals
      PROVE  /\ row'[w] \in RowRecord
             /\ row'[w].known = row[w].known
             /\ w \in V => row'[w].deducted /\ row'[w].status = row[w].status
             /\ w \notin V => row'[w].deducted = row[w].deducted
             /\ w \in batch[b].got \ V => row'[w].status = "FAILED"
             /\ w \notin batch[b].got => row'[w].status = row[w].status
  <2> DEFINE d == row[w].deducted \/ w \in V
             st == IF w \in Refused(b, V) THEN "FAILED" ELSE row[w].status
  <2>1. row'[w] = [[row[w] EXCEPT !.deducted = d] EXCEPT !.status = st]
    OBVIOUS
  <2>2. d \in BOOLEAN /\ st \in Statuses
    BY <1>1 DEF RowRecord, Statuses
  <2>3. /\ w \in V => d
        /\ w \notin V => d = row[w].deducted
    BY <1>1 DEF RowRecord
  <2>4. /\ w \in V => st = row[w].status
        /\ w \in batch[b].got \ V => st = "FAILED"
        /\ w \notin batch[b].got => st = row[w].status
    BY DEF Refused
  <2> HIDE DEF d, st
  <2> DEFINE flagged == [row[w] EXCEPT !.deducted = d]
  <2>5. flagged \in RowRecord /\ flagged.deducted = d /\ flagged.known = row[w].known
    BY <1>1, <2>2 DEF RowRecord
  <2> HIDE DEF flagged
  <2>6. /\ [flagged EXCEPT !.status = st] \in RowRecord
        /\ [flagged EXCEPT !.status = st].status = st
        /\ [flagged EXCEPT !.status = st].deducted = flagged.deducted
        /\ [flagged EXCEPT !.status = st].known = flagged.known
    BY <2>2, <2>5 DEF RowRecord
  <2>7. row'[w] = [flagged EXCEPT !.status = st]
    BY <2>1 DEF flagged
  <2> QED BY <2>3, <2>4, <2>5, <2>6, <2>7
<1>4. row' \in [Withdrawals -> RowRecord]
  BY <1>3
<1>5. /\ ledger' \in [Withdrawals -> [Keys -> Nat]]
      /\ \A w \in V : ledger'[w][Debit] > 0
      /\ \A w \in Withdrawals : w \notin V => ledger'[w] = ledger[w]
      /\ \A w \in Withdrawals : /\ ledger'[w][FailCredit] = ledger[w][FailCredit]
                                /\ ledger'[w][RefundCredit] = ledger[w][RefundCredit]
  BY <1>2, DebitPosting DEF Keys, Debit, FailCredit, RefundCredit
<1>6. /\ call' \in [Withdrawals -> Calls]
      /\ \A w \in Withdrawals : w \notin V => call'[w] = call[w]
      /\ \A w \in V : call'[w] \in {"abandoned", "ready"}
  BY <1>2 DEF RowsTypeOK, Calls
<1>7. /\ batch' \in [Batches -> BatchRecord] /\ batch'[b].got = {}
      /\ \A c \in Batches : c # b => batch'[c] = batch[c]
  BY BatchWritten, IdleRecord
<1>8. RowsTypeOK'
  BY <1>4, <1>5, <1>6, <1>7 DEF RowsTypeOK, RowRecord, BatchRecord
<1>9. \A w \in batch[b].got : row[w].status = "PENDING" /\ ~row[w].deducted
  BY <1>2 DEF LocksHold
<1>10. LocksHold'
  <2>1. ASSUME NEW c \in Batches, NEW w \in Withdrawals, w \in batch'[c].got
        PROVE  row'[w].status = "PENDING" /\ ~row'[w].deducted
    <3>1. c # b /\ w \in batch[c].got
      BY <1>7, <2>1
    <3>2. w \notin batch[b].got
      BY <3>1 DEF LocksHold
    <3>3. row[w].status = "PENDING" /\ ~row[w].deducted
      BY <3>1 DEF LocksHold
    <3> QED BY <1>3, <3>2, <3>3
  <2>2. \A c, d \in Batches : c # d => batch'[c].got \cap batch'[d].got = {}
    BY <1>7 DEF LocksHold
  <2> QED BY <2>1, <2>2 DEF LocksHold
<1>11. HooksTell'
  <2> SUFFICES ASSUME NEW h \in hooks
               PROVE  /\ row'[h.w].known
                      /\ h.st = "FAILED" => prov[h.w] = "failed"
                      /\ h.st = "APPROVED" => prov[h.w] \in {"paid", "returned"}
                      /\ h.st = "REFUNDED" => prov[h.w] = "returned"
    BY DEF HooksTell
  <2>1. h.w \in Withdrawals
    BY DEF RowsTypeOK
  <2>2. row'[h.w].known = row[h.w].known
    BY <1>3, <2>1
  <2> QED BY <2>2 DEF HooksTell
<1>12. ASSUME NEW w \in Withdrawals PROVE InStep(w)' /\ InError(w)'
  <2>1. InStep(w) /\ InError(w)
    OBVIOUS
  <2>2. CASE w \in V
    <3>1. call[w] = "no" /\ row[w].status = "PENDING"
      BY <1>9, <2>1, <2>2 DEF InStep
    <3>2. calls[w] = 0 /\ prov[w] = "none" /\ ~row[w].known /\ ~Credited(w)
      BY <2>1, <3>1 DEF InStep, Past
    <3> QED BY <1>3, <1>5, <1>6, <2>1, <2>2, <3>1, <3>2 DEF InStep, InError, Credited, Posted
  <2>3. CASE w \in batch[b].got \ V
    <3>1. call[w] = "no" /\ ~row[w].known
      BY <1>9, <2>1, <2>3 DEF InStep, Past
    <3> QED BY <1>3, <1>5, <1>6, <2>1, <2>3, <3>1 DEF InStep, InError, Credited, Posted
  <2>4. CASE w \notin batch[b].got
    <3>1. /\ row'[w].deducted = row[w].deducted /\ row'[w].known = row[w].known
          /\ row'[w].status = row[w].status
          /\ ledger'[w] = ledger[w] /\ call'[w] = call[w]
      BY <1>3, <1>5, <1>6, <2>4
    <3> QED BY <2>1, <3>1 DEF InStep, InError, Credited, Posted
  <2> QED BY <2>2, <2>3, <2>4
<1> QED BY <1>8, <1>10, <1>11, <1>12

LEMMA StepDeduct ==
    ASSUME WithdrawalIInv, NEW b \in Batches, Deduct(b)
    PROVE  WithdrawalIInv'
<1> USE DEF WithdrawalIInv
<1>1. PICK V \in SUBSET batch[b].got :
         \/ /\ rejected' = rejected \cup {v \in V : ~PassesEntity(v)}
            /\ SetBatch(b, Idle)
            /\ UNCHANGED <<row, ledger, call>>
         \/ /\ SetBatch(b, IF batch[b].gaveUp THEN Idle
                           ELSE [batch[b] EXCEPT !.stage = "negative", !.got = {}])
            /\ UNCHANGED <<row, ledger, call, rejected>>
         \/ /\ row' = [w \in Withdrawals |->
                         [row[w] EXCEPT !.deducted = @ \/ w \in V,
                                        !.status = IF w \in Refused(b, V) THEN "FAILED" ELSE @]]
            /\ ledger' = Debited(V)
            /\ call' = [w \in Withdrawals |->
                          IF w \notin V THEN call[w]
                          ELSE IF batch[b].gaveUp THEN "abandoned" ELSE "ready"]
            /\ SetBatch(b, Idle)
            /\ UNCHANGED rejected
  BY DEF Deduct, Affordable, money
<1>2. /\ UNCHANGED <<env, tasks, prov, calls, hooks>>
      /\ tasks' \in [Withdrawals -> 0..MaxDeliveries]
      /\ batch[b] \in BatchRecord /\ rejected \subseteq Withdrawals
  BY DEF Deduct, RowsTypeOK, BatchRecord
<1>3. CASE /\ rejected' = rejected \cup {v \in V : ~PassesEntity(v)}
           /\ SetBatch(b, Idle)
           /\ UNCHANGED <<row, ledger, call>>
  <2>1. rejected' \subseteq Withdrawals
    BY <1>2, <1>3 DEF BatchRecord
  <2> QED BY <1>2, <1>3, <2>1, IdleRecord, BatchLetsGo
<1>4. CASE /\ SetBatch(b, IF batch[b].gaveUp THEN Idle
                          ELSE [batch[b] EXCEPT !.stage = "negative", !.got = {}])
           /\ UNCHANGED <<row, ledger, call, rejected>>
  <2> DEFINE neg == [batch[b] EXCEPT !.stage = "negative", !.got = {}]
  <2>1. neg \in BatchRecord /\ neg.got = {}
    BY <1>2 DEF BatchRecord, Stages
  <2>2. PICK rec \in {Idle, neg} : SetBatch(b, rec)
    BY <1>4
  <2>3. rec \in BatchRecord /\ rec.got = {}
    BY <2>1, <2>2, IdleRecord
  <2> QED BY <1>2, <1>4, <2>2, <2>3, BatchLetsGo
<1>5. CASE /\ row' = [w \in Withdrawals |->
                        [row[w] EXCEPT !.deducted = @ \/ w \in V,
                                       !.status = IF w \in Refused(b, V) THEN "FAILED" ELSE @]]
           /\ ledger' = Debited(V)
           /\ call' = [w \in Withdrawals |->
                         IF w \notin V THEN call[w]
                         ELSE IF batch[b].gaveUp THEN "abandoned" ELSE "ready"]
           /\ SetBatch(b, Idle)
           /\ UNCHANGED rejected
  BY <1>2, <1>5, DeductionCommits
<1> QED BY <1>1, <1>3, <1>4, <1>5

(* Nothing is debited, locked, called for or announced at the start. *)
LEMMA WithdrawalInit == Init => WithdrawalIInv
<1> SUFFICES ASSUME Init PROVE WithdrawalIInv
  OBVIOUS
<1>1. RowsTypeOK
  <2>1. 0 \in 0..MaxDeliveries
    BY PayoutBoundsAssumption
  <2>2. Idle \in BatchRecord
    BY IdleRecord
  <2> QED BY <2>1, <2>2 DEF Init, RowsTypeOK, Statuses, Calls, BatchRecord
<1>2. LocksHold
  BY IdleRecord DEF Init, LocksHold
<1>3. HooksTell
  BY DEF Init, HooksTell
<1>4. ASSUME NEW w \in Withdrawals PROVE InStep(w) /\ InError(w)
  <2>1. \A k \in Keys : ledger[w][k] = 0
    BY DEF Init
  <2>2. ~Posted(w, Debit) /\ ~Posted(w, FailCredit) /\ ~Posted(w, RefundCredit)
    BY <2>1 DEF Posted, Keys, Debit, FailCredit, RefundCredit
  <2> QED BY <2>2 DEF Init, InStep, InError, Credited
<1> QED BY <1>1, <1>2, <1>3, <1>4 DEF WithdrawalIInv

LEMMA WithdrawalStep == WithdrawalIInv /\ [Next]_vars => WithdrawalIInv'
<1> SUFFICES ASSUME WithdrawalIInv, [Next]_vars PROVE WithdrawalIInv'
  OBVIOUS
<1>1. ASSUME NEW w \in Withdrawals, Check(w) \/ Insert(w) PROVE WithdrawalIInv'
  BY <1>1, StepCheck
<1>2. ASSUME NEW w \in Withdrawals, PayoutStep(w) PROVE WithdrawalIInv'
  BY <1>2, StepCallProvider, StepStoreAnswer, StepMarkFailed, StepRefundSum, StepRefundCommit
     DEF PayoutStep
<1>3. ASSUME NEW w \in Withdrawals, RefundFails(w) \/ Cut(w) PROVE WithdrawalIInv'
  BY <1>3, StepGivesUp
<1>4. ASSUME NEW w \in Withdrawals, ProviderSettles(w) PROVE WithdrawalIInv'
  BY <1>4, StepProviderSettles
<1>5. ASSUME NEW w \in Withdrawals, NEW st \in WebhookStatuses, NEW c \in 1..env.copies, Receive(w, st, c)
      PROVE  WithdrawalIInv'
  BY <1>5, StepReceive
<1>6. ASSUME NEW b \in Batches, BatchStep(b) \/ TimeOut(b) \/ RollBack(b) PROVE WithdrawalIInv'
  BY <1>6, StepDeliver, StepLockRows, StepDeduct, StepMarkNegative, StepTimeOut DEF BatchStep
<1>7. ASSUME NEW h \in hooks, ReadHook(h) \/ ApplyHook(h) \/ DropHook(h) PROVE WithdrawalIInv'
  BY <1>7, StepReadHook, StepApplyHook
<1>8. CASE JobSum \/ JobWrite
  BY <1>8, StepJob
<1>9. CASE UNCHANGED vars
  BY <1>9 DEF vars, money, WithdrawalIInv, RowsTypeOK, LocksHold, HooksTell, InStep, InError,
     Credited, Posted
<1> QED BY <1>1, <1>2, <1>3, <1>4, <1>5, <1>6, <1>7, <1>8, <1>9 DEF Next

(* Row, ledger, call, provider and webhooks of every withdrawal stay in step, *)
(* through overlapping batches, timeouts, crashes and failing statements.     *)
THEOREM WithdrawalInductive == Spec => []WithdrawalIInv
BY WithdrawalInit, WithdrawalStep, PTL DEF Spec

(* createWithdrawal is called at most once for a withdrawal, however often   *)
(* its task is delivered.                                                    *)
THEOREM CalledAtMostOnce == Spec => []CalledOnce
<1>1. WithdrawalIInv => CalledOnce
  BY DEF WithdrawalIInv, InStep, CalledOnce
<1> QED BY <1>1, WithdrawalInductive, PTL

(* balance_deducted says exactly whether the debit was posted. *)
THEOREM DeductedIsDebited == Spec => []DeductedIffDebited
<1>1. WithdrawalIInv => DeductedIffDebited
  BY DEF WithdrawalIInv, InStep, DeductedIffDebited
<1> QED BY <1>1, WithdrawalInductive, PTL

(* A step of the contract, from what it does to the ledger and the provider. *)
LEMMA NothingMoves ==
    ASSUME UNCHANGED <<env, ledger, prov>>
    PROVE  UNCHANGED Contract!vars
BY DEF Contract!vars, AccountOf, Credited, Posted

(* A credit is a step of the contract when the debit is there and the provider *)
(* does not have the payout; a second one changes nothing.                    *)
LEMMA CreditGivesBack ==
    ASSUME WithdrawalIInv, NEW w \in Withdrawals, NEW key \in {FailCredit, RefundCredit},
           NEW amount \in Nat \ {0}, ledger' = Post(w, key, amount),
           UNCHANGED <<env, prov>>, row[w].deducted,
           env.faults \cap {"lostAnswer", "database"} = {} =>
               prov[w] \in {"none", "failed", "returned"}
    PROVE  [Contract!Next]_Contract!vars
<1>0. key \in Keys /\ Keys = {Debit, FailCredit, RefundCredit} /\ Debit # key
  BY DEF Keys, Debit, FailCredit, RefundCredit
<1>1. /\ ledger'[w][key] > 0
      /\ \A v \in Withdrawals : v # w => ledger'[v] = ledger[v]
      /\ \A k \in Keys : k # key => ledger'[w][k] = ledger[w][k]
  BY <1>0, Posting DEF WithdrawalIInv
<1>2. AccountOf(w)' = "given back"
  BY <1>1 DEF AccountOf, Credited, Posted
<1>3. \A v \in Withdrawals : v # w => AccountOf(v)' = AccountOf(v)
  BY <1>1 DEF AccountOf, Credited, Posted
<1>4. AccountOf(w) \in {"taken", "given back"}
  BY DEF WithdrawalIInv, InStep, AccountOf
<1> DEFINE account == [v \in Withdrawals |-> AccountOf(v)]
<1>5. account' = [account EXCEPT ![w] = "given back"]
  BY <1>2, <1>3
<1>6. CASE AccountOf(w) = "taken"
  <2>1. Contract!GiveBack(w)
    BY <1>5, <1>6 DEF Contract!GiveBack
  <2> QED BY <2>1 DEF Contract!Next
<1>7. CASE AccountOf(w) = "given back"
  <2>1. account' = account
    BY <1>5, <1>7
  <2> QED BY <2>1 DEF Contract!vars
<1> QED BY <1>4, <1>6, <1>7

(* Every step of the payout is a step of the contract or moves no money. *)
LEMMA StepsOfThePayout ==
    ASSUME WithdrawalIInv, [Next]_vars
    PROVE  [Contract!Next]_Contract!vars
<1> USE DEF WithdrawalIInv
<1>1. ASSUME NEW w \in Withdrawals, CallProvider(w) PROVE [Contract!Next]_Contract!vars
  <2>1. call[w] = "ready" /\ prov[w] = "none" /\ UNCHANGED <<env, ledger>>
    BY <1>1 DEF CallProvider, Callable, InStep, money
  <2>2. AccountOf(w) = "taken"
    BY <2>1 DEF InStep, AccountOf, Past
  <2>3. PICK p \in {"accepted", "failed", "none"} : prov' = [prov EXCEPT ![w] = p]
    <3>1. PICK outcome \in createWithdrawal(w) : prov' = [prov EXCEPT ![w] = outcome.prov]
      BY <1>1 DEF CallProvider
    <3>2. outcome.prov \in {"accepted", "failed", "none"}
      BY <2>1 DEF createWithdrawal
    <3> QED BY <3>1, <3>2
  <2>4. CASE p = "none"
    <3>1. prov' = prov
      BY <2>1, <2>3, <2>4 DEF RowsTypeOK
    <3> QED BY <2>1, <3>1, NothingMoves
  <2>5. CASE p # "none"
    <3>1. \A v \in Withdrawals : AccountOf(v)' = AccountOf(v)
      BY <2>1 DEF AccountOf, Credited, Posted
    <3>2. \E q \in {"accepted", "failed"} : prov' = [prov EXCEPT ![w] = q]
      BY <2>3, <2>5
    <3>3. Contract!Ask(w)
      BY <2>1, <2>2, <3>1, <3>2 DEF Contract!Ask
    <3> QED BY <2>1, <3>3 DEF Contract!Next
  <2> QED BY <2>4, <2>5
<1>2. ASSUME NEW w \in Withdrawals, ProviderSettles(w) PROVE [Contract!Next]_Contract!vars
  <2>1. UNCHANGED <<env, ledger>>
    BY <1>2 DEF ProviderSettles, money
  <2>2. \A v \in Withdrawals : AccountOf(v)' = AccountOf(v)
    BY <2>1 DEF AccountOf, Credited, Posted
  <2>3. Contract!Settle(w)
    BY <1>2, <2>2 DEF ProviderSettles, Contract!Settle
  <2> QED BY <2>1, <2>3 DEF Contract!Next
<1>3. ASSUME NEW w \in Withdrawals, RefundCommit(w) PROVE [Contract!Next]_Contract!vars
  <2>1. /\ call[w] \in {"refunding", "emergency"}
        /\ ledger' = Post(w, RefundCredit, Total(w)) /\ UNCHANGED <<env, prov>>
    BY <1>3 DEF RefundCommit
  <2>2. row[w].deducted
    BY <2>1 DEF InStep
  <2>3. env.faults \cap {"lostAnswer", "database"} = {} => prov[w] \in {"none", "failed", "returned"}
    BY <2>1 DEF InError
  <2> QED BY <2>1, <2>2, <2>3, PositiveAmounts, CreditGivesBack
<1>4. ASSUME NEW h \in hooks, ApplyHook(h) PROVE [Contract!Next]_Contract!vars
  <2>1. h.w \in Withdrawals /\ h.st \in WebhookStatuses /\ row[h.w].known /\ UNCHANGED <<env, prov>>
    BY <1>4 DEF RowsTypeOK, HooksTell, ApplyHook
  <2>2. row[h.w].deducted
    BY <2>1 DEF InStep, Past
  <2>3. CASE h.seen = "cannot" \/ h.st = "APPROVED"
    <3>1. UNCHANGED ledger
      BY <1>4, <2>3 DEF ApplyHook
    <3> QED BY <2>1, <3>1, NothingMoves
  <2>4. CASE h.seen # "cannot" /\ h.st = "FAILED"
    <3>1. ledger' = Post(h.w, FailCredit, Total(h.w))
      BY <1>4, <2>4 DEF ApplyHook
    <3>2. prov[h.w] = "failed"
      BY <2>4 DEF HooksTell
    <3> QED BY <2>1, <2>2, <3>1, <3>2, PositiveAmounts, CreditGivesBack
  <2>5. CASE h.seen # "cannot" /\ h.st = "REFUNDED"
    <3>1. ledger' = Post(h.w, RefundCredit, Amount[h.w] + Fee[h.w])
      BY <1>4, <2>5 DEF ApplyHook, Returned
    <3>2. prov[h.w] = "returned"
      BY <2>5 DEF HooksTell
    <3> QED BY <2>1, <2>2, <3>1, <3>2, PositiveAmounts, CreditGivesBack
  <2> QED BY <2>1, <2>3, <2>4, <2>5 DEF WebhookStatuses
<1>5. ASSUME NEW b \in Batches, Deduct(b) PROVE [Contract!Next]_Contract!vars
  <2>1. UNCHANGED <<env, prov>> /\ batch[b].got \subseteq Withdrawals
    BY <1>5 DEF Deduct, RowsTypeOK
  <2>2. CASE UNCHANGED ledger
    BY <2>1, <2>2, NothingMoves
  <2>3. ASSUME NEW V \in SUBSET batch[b].got, ledger' = Debited(V)
        PROVE  [Contract!Next]_Contract!vars
    <3>1. \A w \in V : ~Credited(w) /\ ~Posted(w, Debit)
      BY <2>1 DEF LocksHold, InStep, Past
    <3>2. /\ \A w \in V : ledger'[w][Debit] > 0
          /\ \A w \in Withdrawals : w \notin V => ledger'[w] = ledger[w]
          /\ \A w \in Withdrawals : /\ ledger'[w][FailCredit] = ledger[w][FailCredit]
                                    /\ ledger'[w][RefundCredit] = ledger[w][RefundCredit]
      BY <2>1, <2>3, DebitPosting DEF Keys, Debit, FailCredit, RefundCredit
    <3>3. \A w \in V : AccountOf(w) = "held" /\ AccountOf(w)' = "taken"
      BY <2>1, <3>1, <3>2 DEF AccountOf, Credited, Posted
    <3>4. \A w \in Withdrawals : w \notin V => AccountOf(w)' = AccountOf(w)
      BY <3>2 DEF AccountOf, Credited, Posted
    <3>5. Contract!Take(V)
      BY <2>1, <3>3, <3>4 DEF Contract!Take
    <3>6. V \in SUBSET Withdrawals
      BY <2>1
    <3> QED BY <2>1, <3>5, <3>6 DEF Contract!Next
  <2> QED BY <1>5, <2>2, <2>3 DEF Deduct, Affordable, money
<1>6. Next => \/ UNCHANGED <<env, ledger, prov>>
              \/ \E w \in Withdrawals : CallProvider(w) \/ ProviderSettles(w) \/ RefundCommit(w)
              \/ \E b \in Batches : Deduct(b)
              \/ \E h \in hooks : ApplyHook(h)
  BY DEF Next, PayoutStep, BatchStep, Check, Insert, StoreAnswer, MarkFailed, RefundSum,
     RefundFails, Cut, Receive, Deliver, LockRows, MarkNegative, TimeOut, RollBack, ReadHook,
     DropHook, JobSum, JobWrite, money
<1>7. CASE UNCHANGED <<env, ledger, prov>>
  BY <1>7, NothingMoves
<1> QED BY <1>1, <1>2, <1>3, <1>4, <1>5, <1>6, <1>7 DEF vars, money

(* The payout implements its contract: batches that overlap, abandoned       *)
(* validations, crashes and stale webhooks take a withdrawal's money before  *)
(* the provider gets it, once and not after a refund, and give back only     *)
(* what the provider does not have, while its answers are heard.             *)
THEOREM PayoutKeepsItsContract == Spec => ImplementsPayoutContract
<1>1. Init => Contract!Init
  <2> SUFFICES ASSUME Init PROVE Contract!Init
    OBVIOUS
  <2>1. \A w \in Withdrawals : AccountOf(w) = "held"
    BY DEF Init, AccountOf, Credited, Posted, Keys, Debit, FailCredit, RefundCredit
  <2>2. prov = [w \in Withdrawals |-> "none"]
    BY DEF Init
  <2> QED BY <2>1, <2>2 DEF Contract!Init
<1>2. WithdrawalIInv /\ [Next]_vars => [Contract!Next]_Contract!vars
  BY StepsOfThePayout
<1> QED BY <1>1, <1>2, WithdrawalInductive, PTL DEF Spec, ImplementsPayoutContract, Contract!Spec

(* Who writes a status over FAILED would have to be the answer's store, which *)
(* comes before any failure, or a webhook of a payout that did not fail.      *)
LEMMA FailedStays ==
    ASSUME WithdrawalIInv, [Next]_vars, NEW w \in Withdrawals, row[w].status = "FAILED"
    PROVE  row'[w].status = "FAILED"
<1> USE DEF WithdrawalIInv
<1>1. ASSUME NEW v \in Withdrawals, NEW s \in Statuses, SetStatus(v, s), v = w => s = "FAILED"
      PROVE  row'[w].status = "FAILED"
  BY <1>1, StatusWritten
<1>2. ASSUME NEW v \in Withdrawals, Check(v) \/ Insert(v) PROVE row'[w].status = "FAILED"
  BY <1>1, <1>2 DEF Check, Insert, Statuses
<1>3. ASSUME NEW v \in Withdrawals, StoreAnswer(v) PROVE row'[w].status = "FAILED"
  <2>1. row[v].status = "PENDING"
    BY <1>3 DEF StoreAnswer, InStep
  <2>2. CASE row' = [row EXCEPT ![v].status = "PROCESSING", ![v].known = TRUE]
    <3>1. v # w
      BY <2>1
    <3>2. row \in [Withdrawals -> RowRecord]
      BY DEF RowsTypeOK, RowRecord
    <3>3. row' = [row EXCEPT ![v] = [[row[v] EXCEPT !.status = "PROCESSING"] EXCEPT !.known = TRUE]]
      BY <2>2, <3>2
    <3> QED BY <3>1, <3>2, <3>3
  <2>3. CASE UNCHANGED row
    BY <2>3
  <2> QED BY <1>3, <2>2, <2>3 DEF StoreAnswer
<1>4. ASSUME NEW v \in Withdrawals, MarkFailed(v) PROVE row'[w].status = "FAILED"
  BY <1>1, <1>4 DEF MarkFailed, Statuses
<1>5. ASSUME NEW b \in Batches, Deduct(b) PROVE row'[w].status = "FAILED"
  <2>1. CASE UNCHANGED row
    BY <2>1
  <2>2. ASSUME NEW V \in SUBSET batch[b].got,
               row' = [v \in Withdrawals |->
                         [row[v] EXCEPT !.deducted = @ \/ v \in V,
                                        !.status = IF v \in Refused(b, V) THEN "FAILED" ELSE @]]
        PROVE  row'[w].status = "FAILED"
    <3> DEFINE d == row[w].deducted \/ w \in V
               st == IF w \in Refused(b, V) THEN "FAILED" ELSE row[w].status
    <3>1. row'[w] = [[row[w] EXCEPT !.deducted = d] EXCEPT !.status = st]
      BY <2>2
    <3>2. st = "FAILED"
      OBVIOUS
    <3> HIDE DEF d, st
    <3>3. row[w] \in RowRecord
      BY DEF RowsTypeOK, RowRecord
    <3>4. [[row[w] EXCEPT !.deducted = d] EXCEPT !.status = st].status = st
      BY <3>3 DEF RowRecord
    <3> QED BY <3>1, <3>2, <3>4
  <2> QED BY <1>5, <2>1, <2>2 DEF Deduct, Affordable
<1>6. ASSUME NEW b \in Batches, MarkNegative(b) PROVE row'[w].status = "FAILED"
  <2>1. row'[w] = row[w]
    BY <1>6 DEF MarkNegative
  <2> QED BY <2>1
<1>7. ASSUME NEW h \in hooks, ApplyHook(h) PROVE row'[w].status = "FAILED"
  <2>1. h.w \in Withdrawals /\ h.st \in WebhookStatuses /\ row[h.w].known
    BY DEF RowsTypeOK, HooksTell
  <2>2. h.w = w => prov[w] = "failed"
    BY <2>1 DEF InStep
  <2>3. h.w = w => h.st = "FAILED"
    BY <2>1, <2>2 DEF HooksTell, WebhookStatuses
  <2>4. CASE h.seen = "cannot"
    BY <1>7, <2>4 DEF ApplyHook
  <2>5. CASE h.seen # "cannot" /\ h.st = "APPROVED"
    <3>1. SetStatus(h.w, "APPROVED")
      BY <1>7, <2>5 DEF ApplyHook
    <3> QED BY <1>1, <2>1, <2>3, <2>5, <3>1 DEF Statuses
  <2>6. CASE h.seen # "cannot" /\ h.st = "FAILED"
    <3>1. SetStatus(h.w, "FAILED")
      BY <1>7, <2>6 DEF ApplyHook
    <3> QED BY <1>1, <2>1, <3>1 DEF Statuses
  <2>7. CASE h.seen # "cannot" /\ h.st = "REFUNDED"
    <3>1. row' = [row EXCEPT ![h.w].status = "REFUNDED", ![h.w].refunded = TRUE]
      BY <1>7, <2>7 DEF ApplyHook
    <3>2. h.w # w
      BY <2>3, <2>7
    <3>3. row'[w] = row[w]
      BY <2>1, <3>1, <3>2 DEF RowsTypeOK
    <3> QED BY <3>3
  <2> QED BY <2>1, <2>4, <2>5, <2>6, <2>7 DEF WebhookStatuses
<1>8. CASE UNCHANGED row
  BY <1>8
<1>9. Next => \/ UNCHANGED row
              \/ \E v \in Withdrawals : Check(v) \/ Insert(v) \/ StoreAnswer(v) \/ MarkFailed(v)
              \/ \E b \in Batches : Deduct(b) \/ MarkNegative(b)
              \/ \E h \in hooks : ApplyHook(h)
  BY DEF Next, PayoutStep, BatchStep, CallProvider, RefundSum, RefundCommit, RefundFails, Cut,
     ProviderSettles, Receive, Deliver, LockRows, TimeOut, RollBack, ReadHook, DropHook, JobSum,
     JobWrite
<1> QED BY <1>2, <1>3, <1>4, <1>5, <1>6, <1>7, <1>8, <1>9 DEF vars

(* A FAILED withdrawal stays FAILED, whatever batch, error path and stale     *)
(* webhooks write, in whatever order.                                        *)
THEOREM FailedForGood == Spec => FailedIsFinal
<1>1. WithdrawalIInv /\ [Next]_vars =>
         [\A w \in Withdrawals : row[w].status = "FAILED" => row'[w].status = "FAILED"]_vars
  BY FailedStays
<1> QED BY <1>1, WithdrawalInductive, PTL DEF Spec, FailedIsFinal

(***************************************************************************)
(* The sums of the ledger.                                                 *)
(***************************************************************************)
Ledgers == [Withdrawals -> [Keys -> Nat]]
Net(l) == [w \in Withdrawals |-> l[w][FailCredit] + l[w][RefundCredit] - l[w][Debit]]

LEMMA BalanceIsSum ==
    ASSUME NEW l
    PROVE  Balance(l) = Deposits + SumFunctionOnSet(Net(l), Withdrawals)
BY DEF Balance, Net, SumFunction

LEMMA NetInt ==
    ASSUME NEW l \in Ledgers, NEW w \in Withdrawals
    PROVE  /\ l[w][FailCredit] \in Nat /\ l[w][RefundCredit] \in Nat /\ l[w][Debit] \in Nat
           /\ Net(l)[w] = l[w][FailCredit] + l[w][RefundCredit] - l[w][Debit]
           /\ Net(l)[w] \in Int
BY DEF Ledgers, Net, Keys, Debit, FailCredit, RefundCredit

LEMMA BalanceInt ==
    ASSUME NEW l \in Ledgers
    PROVE  Balance(l) \in Int
BY BalanceIsSum, NetInt, SumInt, PayoutBoundsAssumption, AmountAssumption

(* A ledger with no smaller credit and no larger debit has no smaller sum.    *)
LEMMA CreditsRaise ==
    ASSUME NEW l \in Ledgers, NEW m \in Ledgers,
           \A w \in Withdrawals : /\ l[w][FailCredit] <= m[w][FailCredit]
                                  /\ l[w][RefundCredit] <= m[w][RefundCredit]
                                  /\ m[w][Debit] = l[w][Debit]
    PROVE  Balance(l) <= Balance(m)
<1>1. \A w \in Withdrawals :
         Net(l)[w] \in Int /\ Net(m)[w] \in Int /\ Net(l)[w] <= Net(m)[w]
  BY NetInt
<1>2. SumFunctionOnSet(Net(l), Withdrawals) <= SumFunctionOnSet(Net(m), Withdrawals)
  BY <1>1, SumMonotonic, PayoutBoundsAssumption
<1>3. /\ SumFunctionOnSet(Net(l), Withdrawals) \in Int
      /\ SumFunctionOnSet(Net(m), Withdrawals) \in Int
  BY <1>1, SumInt, PayoutBoundsAssumption
<1> QED
  BY <1>2, <1>3, BalanceIsSum, AmountAssumption

(* A refund or a failure is posted under a key of its own. *)
LEMMA CreditKept ==
    ASSUME RowsTypeOK, NeverOverdrawn, NEW w \in Withdrawals, NEW key \in {FailCredit, RefundCredit},
           NEW amount \in Nat \ {0}, ledger' = Post(w, key, amount)
    PROVE  NeverOverdrawn'
<1>1. ledger \in Ledgers /\ ledger' \in Ledgers
  BY Posting DEF RowsTypeOK, Ledgers, Keys, FailCredit, RefundCredit
<1>2. \A v \in Withdrawals : v # w => ledger'[v] = ledger[v]
  BY Posting DEF Keys, FailCredit, RefundCredit
<1>3. \A k \in Keys : ledger[w][k] <= ledger'[w][k] /\ (k # key => ledger'[w][k] = ledger[w][k])
  <2>1. CASE ledger[w][key] = 0
    BY <1>1, <2>1, Posting DEF Ledgers, Keys, FailCredit, RefundCredit
  <2>2. CASE ledger[w][key] # 0
    <3>1. ledger' = ledger
      BY <2>2 DEF Post
    <3> QED BY <1>1, <3>1 DEF Ledgers
  <2> QED BY <2>1, <2>2
<1>4. Debit # key /\ Debit \in Keys /\ FailCredit \in Keys /\ RefundCredit \in Keys
  BY DEF Debit, FailCredit, RefundCredit, Keys
<1>5. \A v \in Withdrawals : /\ ledger[v][FailCredit] <= ledger'[v][FailCredit]
                             /\ ledger[v][RefundCredit] <= ledger'[v][RefundCredit]
                             /\ ledger'[v][Debit] = ledger[v][Debit]
  BY <1>1, <1>2, <1>3, <1>4, NetInt
<1>6. Balance(ledger) <= Balance(ledger')
  BY <1>1, <1>5, CreditsRaise
<1> QED
  BY <1>1, <1>6, BalanceInt DEF NeverOverdrawn

LEMMA OverdrawnStep == RowsTypeOK /\ RowsTypeOK' /\ NeverOverdrawn /\ [Next]_vars => NeverOverdrawn'
<1> SUFFICES ASSUME RowsTypeOK, RowsTypeOK', NeverOverdrawn, [Next]_vars PROVE NeverOverdrawn'
  OBVIOUS
<1>1. CASE UNCHANGED ledger
  BY <1>1 DEF NeverOverdrawn
<1>2. ASSUME NEW w \in Withdrawals, RefundCommit(w) PROVE NeverOverdrawn'
  BY <1>2, PositiveAmounts, CreditKept DEF RefundCommit
<1>3. ASSUME NEW h \in hooks, ApplyHook(h) PROVE NeverOverdrawn'
  <2>1. h.w \in Withdrawals /\ h.st \in WebhookStatuses
    BY DEF RowsTypeOK
  <2>2. CASE h.seen = "cannot" \/ h.st = "APPROVED"
    BY <1>1, <1>3, <2>1, <2>2 DEF ApplyHook
  <2>3. CASE h.seen # "cannot" /\ h.st = "FAILED"
    <3>1. ledger' = Post(h.w, FailCredit, Total(h.w))
      BY <1>3, <2>3 DEF ApplyHook
    <3> QED BY <2>1, <3>1, PositiveAmounts, CreditKept
  <2>4. CASE h.seen # "cannot" /\ h.st = "REFUNDED"
    <3>1. ledger' = Post(h.w, RefundCredit, Amount[h.w] + Fee[h.w])
      BY <1>3, <2>4 DEF ApplyHook, Returned
    <3> QED BY <2>1, <3>1, PositiveAmounts, CreditKept
  <2> QED BY <2>1, <2>2, <2>3, <2>4 DEF WebhookStatuses
\* A batch commits what it saw stay positive, or posts nothing.
<1>4. ASSUME NEW b \in Batches, Deduct(b) PROVE NeverOverdrawn'
  <2>1. ASSUME ledger' = Debited({}) PROVE UNCHANGED ledger
    <3>1. Debited({}) = [w \in Withdrawals |-> ledger[w]]
      BY DEF Debited
    <3> QED BY <2>1, <3>1 DEF RowsTypeOK
  <2>2. ASSUME NEW V, ledger' = Debited(V), StayedPositive(Debited(V)) PROVE NeverOverdrawn'
    BY <2>2 DEF StayedPositive, NeverOverdrawn
  <2> QED BY <1>1, <1>4, <2>1, <2>2 DEF Deduct, money
<1>5. Next => \/ UNCHANGED ledger
              \/ \E w \in Withdrawals : RefundCommit(w)
              \/ \E b \in Batches : Deduct(b)
              \/ \E h \in hooks : ApplyHook(h)
  BY DEF Next, PayoutStep, BatchStep, Check, Insert, CallProvider, StoreAnswer, MarkFailed, RefundSum,
     RefundFails, Cut, ProviderSettles, Receive, Deliver, LockRows, MarkNegative, TimeOut, RollBack,
     ReadHook, DropHook, JobSum, JobWrite, money
<1> QED BY <1>1, <1>2, <1>3, <1>4, <1>5 DEF vars, money

(* The account never goes below zero: whatever stale wallets a batch began    *)
(* with, the check inside the deducting transaction sees the ledger it        *)
(* commits, and every other posting is a credit.                             *)
THEOREM AccountNeverOverdrawn == Spec => []NeverOverdrawn
<1>1. Init => NeverOverdrawn
  <2> SUFFICES ASSUME Init PROVE NeverOverdrawn
    OBVIOUS
  <2>1. \A w \in Withdrawals : Net(ledger)[w] = 0
    BY DEF Init, Net, Keys, Debit, FailCredit, RefundCredit
  <2>2. SumFunctionOnSet(Net(ledger), Withdrawals) = 0
    BY <2>1, SumZero, PayoutBoundsAssumption
  <2> QED BY <2>2, BalanceIsSum, AmountAssumption DEF NeverOverdrawn
<1>2. WithdrawalIInv => RowsTypeOK
  BY DEF WithdrawalIInv
<1> QED BY <1>1, <1>2, WithdrawalInductive, OverdrawnStep, PTL DEF Spec

(* The sums that were taken and written are integers. *)
LEMMA SumsStep == RowsTypeOK /\ RowsTypeOK' /\ SumsTypeOK /\ [Next]_vars => SumsTypeOK'
<1> SUFFICES ASSUME RowsTypeOK, RowsTypeOK', SumsTypeOK, [Next]_vars PROVE SumsTypeOK'
  OBVIOUS
<1> USE DEF SumsTypeOK
<1> DEFINE Snap == [taken : BOOLEAN, sum : Int]
<1>1. Balance(ledger) \in Int /\ Balance(ledger') \in Int
  BY BalanceInt DEF RowsTypeOK, Ledgers
<1>2. NoSum \in Snap
  BY DEF NoSum
<1>3. CASE UNCHANGED <<wallet, snap>>
  BY <1>3
<1>4. ASSUME NEW x \in Withdrawals \cup {Job}, NEW l \in Ledgers, TakeSum(x, l), UNCHANGED wallet
      PROVE  SumsTypeOK'
  <2>1. [taken |-> TRUE, sum |-> Balance(l)] \in Snap
    BY BalanceInt
  <2> QED BY <1>4, <2>1 DEF TakeSum
<1>5. ASSUME NEW x \in Withdrawals \cup {Job}, WriteSum(x) PROVE SumsTypeOK'
  <2>1. snap[x] \in Snap
    OBVIOUS
  <2> QED BY <1>2, <1>5, <2>1 DEF WriteSum
<1>6. ASSUME NEW w \in Withdrawals, RefundSum(w) PROVE SumsTypeOK'
  <2>1. Post(w, RefundCredit, Total(w)) \in Ledgers
    <3>1. ledger \in Ledgers /\ Total(w) \in Nat
      BY PositiveAmounts DEF RowsTypeOK, Ledgers
    <3>2. [ledger[w] EXCEPT ![RefundCredit] = Total(w)] \in [Keys -> Nat]
      BY <3>1 DEF Ledgers
    <3>3. [ledger EXCEPT ![w] = [ledger[w] EXCEPT ![RefundCredit] = Total(w)]] \in Ledgers
      BY <3>1, <3>2 DEF Ledgers
    <3> QED BY <3>1, <3>3 DEF Post
  <2> QED BY <1>4, <1>6, <2>1 DEF RefundSum, money
<1>7. ASSUME NEW w \in Withdrawals, RefundFails(w) \/ Cut(w) PROVE SumsTypeOK'
  <2>1. UNCHANGED wallet /\ snap' = [snap EXCEPT ![w] = NoSum]
    BY <1>7 DEF RefundFails, Cut, money
  <2> QED BY <1>2, <2>1
<1>8. ASSUME NEW b \in Batches, Deduct(b) PROVE SumsTypeOK'
  <2>1. UNCHANGED snap
    BY <1>8 DEF Deduct
  <2>2. wallet' \in {wallet, Balance(ledger), Balance(ledger')}
    BY <1>8 DEF Deduct, money
  <2> QED BY <1>1, <2>1, <2>2
<1>9. CASE JobSum
  BY <1>4, <1>9 DEF JobSum, money, RowsTypeOK, Ledgers
<1>10. Next => \/ UNCHANGED <<wallet, snap>>
               \/ \E w \in Withdrawals : RefundSum(w) \/ WriteSum(w) \/ RefundFails(w) \/ Cut(w)
               \/ \E b \in Batches : Deduct(b)
               \/ JobSum \/ WriteSum(Job)
  BY DEF Next, PayoutStep, BatchStep, Check, Insert, CallProvider, StoreAnswer, MarkFailed,
     RefundCommit, ProviderSettles, Receive, Deliver, LockRows, MarkNegative, TimeOut, RollBack,
     ReadHook, ApplyHook, DropHook, JobWrite, money
<1> QED BY <1>3, <1>5, <1>6, <1>7, <1>8, <1>9, <1>10 DEF vars, money

(* Rows, ledger, wallet and the sums that wait for it keep their ranges.      *)
THEOREM PayoutTypeCorrect == Spec => []TypeOK
<1>1. Init => SumsTypeOK
  BY AmountAssumption DEF Init, SumsTypeOK, NoSum
<1>2. WithdrawalIInv => RowsTypeOK
  BY DEF WithdrawalIInv
<1> QED BY <1>1, <1>2, WithdrawalInductive, SumsStep, PTL DEF Spec, TypeOK
=============================================================================
