CONSTANTS
    NScopes = 2
    NLeaves = 1
    NCalls = 3
    CompactAt = 32
    Uses = {"use", "concurrent", "peers", "fail"}
SPECIFICATION Spec
CHECK_DEADLOCK FALSE
INVARIANTS
    CompleteIsTrue
