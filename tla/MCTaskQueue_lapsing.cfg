\* Two general processes that reset each other's claims, a payout process, and
\* batches that may outlive their lease; checked with fairness.
CONSTANTS
    t1 = t1
    t2 = t2
    t3 = t3
    Tasks = {t1, t2}
    TypeOf <- OneOfEach
    GeneralWorkers = {g1, g2}
    PayoutWorkers = {p1}
    BatchSize = 2
    MaxLoads = 1
    MaxCrashes = 1
    MaxAdrift = 0
    LeaseLapses = TRUE
    NoWorker = NoWorker
SPECIFICATION FairSpec
PROPERTIES PendingIsServed
CHECK_DEADLOCK FALSE
