SPECIFICATION Spec
CONSTANTS
    Terms <- OnlyBothDelayed
    Amount = 10
    AmountFee = 1
    Penalty = 1
INVARIANTS
    CompletedIsPosted
CHECK_DEADLOCK FALSE
