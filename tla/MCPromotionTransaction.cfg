SPECIFICATION PromotionSpec
CONSTANTS
    w1 = w1
    w2 = w2
    Writers = {w1, w2}
    NoWriter = NoWriter
SYMMETRY Symmetric
CHECK_DEADLOCK FALSE
INVARIANT
    CommitIsWhole
