\* two callers, one of them with two addresses; two requests per window
SPECIFICATION FairSpec
CONSTANTS
    Hosts <- SomeHosts
    Limit = 2
    Window = 2
    MaxHits = 3
INVARIANTS
    FewerThanTwiceTheLimit
    OnlyRecentRequestsCount
PROPERTIES
    ThrottledCallersRecover
