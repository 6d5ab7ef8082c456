SPECIFICATION FairSpec
CONSTANTS
    t1 = t1
    t2 = t2
    t3 = t3
    a = a
    b = b
    c = c
    h1 = h1
    None = None
    Threads = {t1, t2}
    Identities = {a, b, c}
    Handles = {h1}
    MaxEntries = 2
    MaxInFlight = 2
    Limit <- MCLimit
    Cost <- MCCost
    MaxRequests = 3
    MaxWaits = 2
INVARIANTS
    ExactAccounting
    LeasesCallable
PROPERTIES
    ReclaimsIdle
    RequestCompletes
    LifecycleProgress
CHECK_DEADLOCK FALSE
