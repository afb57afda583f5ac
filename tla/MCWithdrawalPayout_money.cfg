SPECIFICATION Spec
CONSTANTS
    w1 = w1
    w2 = w2
    Withdrawals <- TwoWithdrawals
    Batches = {b1, b2}
    Amount <- TwoAndThree
    Fee <- NoFee
    Blocked = 1
    Deposits = 6
    MaxDeliveries = 2
    Environments <- CrashesAndTimeouts
INVARIANTS
    TypeOK
    NeverOverdrawn
PROPERTIES
    ImplementsPayoutContract
CHECK_DEADLOCK FALSE
