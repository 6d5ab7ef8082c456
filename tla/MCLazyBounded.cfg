SPECIFICATION Spec
CONSTANTS
    Expressions <- LazyExpressions
    Haystacks <- LazyHaystacks
    Engines <- AllEngines
    Selects <- Selection
    Accepts <- Accepted
    Compiles <- Compile
    Orders <- EpsilonOrder
    WorkSlack <- Slack
    MaxNodes = 16
    MaxDepth = 5
    MaxRepeatBound = 3
    MaxStates = 30
    MaxGuards = 3
    MaxOutputMatches = 3
    MaxLen = 4
INVARIANT
    MatchesSelected
