SPECIFICATION Spec
CONSTANTS
    Expressions <- AllExpressions
    Haystacks <- AllHaystacks
    Engines <- AllEngines
    Selects <- Selection
    Accepts <- Accepted
    Compiles <- Compile
    Orders <- EpsilonOrder
    Scopes <- LoopScopes
    Values <- ProductValues
    Outcomes <- GuardedOutcomes
    WorkSlack <- Slack
    MaxNodes = 8
    MaxDepth = 6
    MaxRepeatBound = 3
    MaxStates = 30
    MaxGuards = 3
    MaxOutputMatches = 3
    MaxLen = 3
INVARIANTS
    NoInternalError
    AdmittedFinishes
    AdmissionSuffices
PROPERTIES
    ImplementsCollect
    ImplementsSequence
