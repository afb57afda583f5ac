\* Two requests, one crash or failed batch, schedules falling due at any time.
SPECIFICATION FairSpec
CONSTANTS
    a1 = a1
    a2 = a2
    b1 = b1
    Requests = {r1, r2}
    Schedules = {a1, a2, b1}
    PaymentOf <- Payments
    AmountNet <- Amounts
    Discount <- One
    Anticipatable = {a1, a2, b1}
    Minimum = 1
    MaxFaults = 1
INVARIANTS
    TypeOK
    OneOpen
    MarkedEarlyIsNotReleased
    ApprovedIsPaid
PROPERTIES
    OpenIsDecided
CHECK_DEADLOCK FALSE
