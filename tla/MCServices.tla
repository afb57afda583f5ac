----------------------------- MODULE MCServices -----------------------------
(* An instance of Services for TLC: sets a little larger than two, and four  *)
(* offers: one without reserve, one with a reserve held for 30 days, and two *)
(* that create must refuse, a reserve without days and items that do not sum *)
(* to the amount.                                                            *)
EXTENDS Services

OneRegistered == [h \in Hooks |-> IF h = CHOOSE g \in Hooks : TRUE THEN "PAYMENT" ELSE "none"]
PaymentEvents == [b \in Batches |-> [kind |-> "PAYMENT",
    status |-> IF b = CHOOSE c \in Batches : TRUE THEN "APPROVED" ELSE "REFUNDED"]]
OnePayment == [d \in Disputes |-> "payment"]

Plain == [amount |-> 10000, method |-> "PIX",
          taxCompany |-> 399, feeCompany |-> 150, taxProvider |-> 99, feeProvider |-> 50,
          taxReserve |-> 0, feeReserve |-> 0, reserveDays |-> 0,
          minAmount |-> 500, maxAmount |-> 50000, items |-> 10000, installments |-> 1]
Reserved == [Plain EXCEPT !.method = "CREDIT_CARD", !.taxReserve = 500, !.reserveDays = 30]
Unheld == [Reserved EXCEPT !.reserveDays = 0]
Mispriced == [Plain EXCEPT !.items = 9000]
FourOffers == {Plain, Reserved, Unheld, Mispriced}

\* Two of the three forms share a PIX key under different accounts.
BankAccount == [type |-> "BANK_ACCOUNT", account |-> 1, pix |-> 1, wallet |-> 0]
SamePix == [BankAccount EXCEPT !.account = 2]
CryptoWallet == [type |-> "CRIPTO_WALLET", account |-> 0, pix |-> 0, wallet |-> 1]
ThreeForms == {BankAccount, SamePix, CryptoWallet}
CashOutOnly == [mode |-> "CASHOUT", type |-> "FIAT"]
=============================================================================
