CONSTANTS
    Threads = {t1, t2, t3}
    Guards = {g1, g2}
    Unowned = Unowned
    InUse = InUse
SPECIFICATION Spec
INVARIANTS
    Exclusive
    FailsClosed
PROPERTIES
    ImplementsLock
