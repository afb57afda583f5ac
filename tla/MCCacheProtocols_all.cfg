SPECIFICATION Spec
CONSTANTS
  Requests = {r1, r2}
  Loadable = {"all", "less"}
  Ttl = 2
  LockTtl = 2
  CallMax = 1
  MaxChanges = 1
  MaxGuardDeaths = 1
  Nothing = Nothing
  Attempts = {a1, a2, a3}
  MaxCacheErrors = 1
  NoAttempt = NoAttempt
  Pods = {p1, p2, p3}
  NamePrefix <- OwnNamesOnly
  Delay = 1
  MaxDeaths = 1
  Wait = 2
  ExecMax = 1
  BidLife = 9
  Interval = 9
  Nobody = Nobody
INVARIANTS
  TypeOK StaleIsBounded OneCreation
PROPERTIES
  RequestsAreAnswered  RefreshRecurs
CHECK_DEADLOCK FALSE
