\* Two payout processes and one general process, which may fail to report and leave
\* updates in flight when they die; no batch outlives its lease.
CONSTANTS
    t1 = t1
    t2 = t2
    t3 = t3
    Tasks = {t1, t2, t3}
    TypeOf <- OneWithdrawalTwoPayouts
    GeneralWorkers = {g1}
    PayoutWorkers = {p1, p2}
    BatchSize = 2
    MaxLoads = 2
    MaxCrashes = 2
    MaxAdrift = 2
    LeaseLapses = FALSE
    NoWorker = NoWorker
SPECIFICATION Spec
INVARIANTS TypeOK ExclusiveClaim PayoutHandledOnce InProgressIsWorked
PROPERTIES SettledStaysSettled
CHECK_DEADLOCK FALSE
