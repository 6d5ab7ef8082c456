CONSTANTS
    Threads = {t1, t2}
    p1 = p1
    e1 = e1
    b1 = b1
    b2 = b2
    Workspaces <- MCWorkspaces
    NoWs = NoWs
    Tier <- MCTier
    Tiers = {0, 1, 2}
    TierCost <- MCTierCost
    PublicationWork = 1
    Requests <- MCRequests
    Unowned = Unowned
    InUse = InUse
    MaxSessions = 2
SYMMETRY Symmetry
SPECIFICATION Spec
INVARIANTS
    LaneExclusive
    ExpectsHold
PROPERTIES
    LaneIsLock
    WithinEnvelope
    NeverDowngraded
