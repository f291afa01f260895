CONSTANTS
    NScopes = 3
    NLeaves = 1
    NCalls = 2
    CompactAt = 0
    Uses = {"use", "concurrent", "escalate", "fail"}
SPECIFICATION Spec
CHECK_DEADLOCK FALSE
INVARIANTS
    EscalationReaches
    Sealed
    ReportsAreExact
