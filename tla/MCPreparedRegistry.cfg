CONSTANTS
    Threads = {t1, t2}
    States = {s1, s2}
    TokenMax = 3
    Nobody = Nobody
    NoState = NoState
SPECIFICATION FairSpec
INVARIANTS
    SearchExclusive
    NoUseAfterDestroy
    DestroyOnce
    NoLeak
PROPERTIES
    InvalidIsTrue
    DestroyReturns
