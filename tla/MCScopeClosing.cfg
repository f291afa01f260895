CONSTANTS
    NScopes = 2
    NLeaves = 2
    NCalls = 2
    CompactAt = 1
    Uses = {"setup", "use", "abandon", "fail"}
SPECIFICATION Spec
CHECK_DEADLOCK FALSE
INVARIANTS
    CleanupsWait
    ReverseOrder
    CompleteIsTrue
PROPERTIES
    ReleasedForGood
