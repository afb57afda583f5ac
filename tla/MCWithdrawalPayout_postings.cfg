SPECIFICATION Spec
CONSTANTS
    w1 = w1
    w2 = w2
    Withdrawals = {w1}
    Batches = {b1}
    Amount <- TwoEach
    Fee <- FeeOne
    Blocked = 0
    Deposits = 4
    MaxDeliveries = 1
    Environments <- QuietOnly
INVARIANTS
    PostingsAccepted
CHECK_DEADLOCK FALSE
