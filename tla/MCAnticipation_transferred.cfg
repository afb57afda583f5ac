SPECIFICATION Spec
CONSTANTS
    a1 = a1
    a2 = a2
    b1 = b1
    Requests = {r1}
    Schedules = {a1, a2, b1}
    PaymentOf <- Payments
    AmountNet <- Amounts
    Discount <- One
    Anticipatable = {a1, a2, b1}
    Minimum = 1
    MaxFaults = 0
INVARIANTS
    AnticipatedIsTransferred
CHECK_DEADLOCK FALSE
