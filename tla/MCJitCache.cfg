SPECIFICATION Spec
CONSTANTS
    t1 = t1
    t2 = t2
    t3 = t3
    a = a
    b = b
    c = c
    h1 = h1
    None = None
    Threads = {t1, t2, t3}
    Identities = {a, b}
    Handles = {h1}
    MaxEntries = 1
    MaxInFlight = 2
    Limit <- MCLimit
    Cost <- MCCost
    MaxRequests = 4
    MaxWaits = 2
SYMMETRY Symmetry
INVARIANTS
    SingleMapping
    MappedIsCovered
    NoLostWakeup
    WithinLimits
PROPERTY
    ImplementsLifecycle
