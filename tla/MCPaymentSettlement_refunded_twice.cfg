SPECIFICATION Spec
CONSTANTS
    Terms <- RunsOnce
    Amount = 10
    AmountFee = 1
    Penalty = 1
INVARIANTS
    RefundedOnce
CHECK_DEADLOCK FALSE
