CONSTANTS
    HaystackLen = 4
    MaxCapacity = 3
SPECIFICATION FairSpec
INVARIANTS
    Resumable
    Faithful
    Complete
PROPERTIES
    RefillReturns
