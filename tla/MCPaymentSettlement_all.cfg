SPECIFICATION Spec
CONSTANTS
    Terms <- OneOfEach
    Amount = 10
    AmountFee = 1
    Penalty = 1
INVARIANTS
    TypeOK
    ApprovalConserved
    HoldsWhatIsScheduled
    CompletedIsPosted
    TakenBackInFull
CHECK_DEADLOCK FALSE
