CONSTANTS
    Stores = {"settings"}
    StoreOf <- OneKeyOf
    Watches = {}
    Loads = {"models"}
    Follows <- LoadFollows
    Scopes = {"catalog"}
    ScopeOf <- LoadScopeOf
    MaxDepth = 1
    PerScope = 64
    PerStore = 8192
    MaxCommits = 3
    MaxReports = 1
    Uses <- Closing2
SPECIFICATION FairSpec
CHECK_DEADLOCK FALSE
INVARIANTS
    SettledWhenQuiet
PROPERTIES
    NeverOlderThanLoading
    LoadsSettle
