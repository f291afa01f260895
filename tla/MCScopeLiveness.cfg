CONSTANTS
    NScopes = 3
    NLeaves = 1
    NCalls = 2
    CompactAt = 0
    Uses = {"setup", "scoped", "fail"}
SPECIFICATION FairSpec
CHECK_DEADLOCK FALSE
INVARIANTS
    SignalsReach
PROPERTIES
    CloseSettles
