SPECIFICATION FairSpec
CONSTANTS
    Child = Child
    Descendants = {d1}
    MaxOutput = 1
    WriteBound = 2
CHECK_DEADLOCK FALSE
INVARIANTS
    OkIsComplete
    NothingLeft
PROPERTY
    Returns
