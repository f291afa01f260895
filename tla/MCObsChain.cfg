CONSTANTS
    Stores = {"settings"}
    StoreOf <- TwoKeysOf
    Watches = {"one"}
    Loads = {"models"}
    Follows <- BothFollow
    Scopes = {"catalog"}
    ScopeOf <- BothScopeOf
    MaxDepth = 1
    PerScope = 2
    PerStore = 2
    MaxCommits = 2
    MaxReports = 1
    Uses <- Closing1
SPECIFICATION Spec
CHECK_DEADLOCK FALSE
INVARIANTS
    DeliveredWhenQuiet
    DepthIsExact
    ClosedIsDetached
PROPERTIES
    SilentWhenDetached
