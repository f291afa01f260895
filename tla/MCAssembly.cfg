CONSTANTS
    Runs = {r1, r2}
    Signals = {s}
    Fresh = fresh
    Order <- ProgramOrder
    Needs <- ProgramNeeds
    Inputs = {"config"}
    Roots = {"app", "log"}
    Commits = {"append", "throw before", "throw after", "skip"}
SPECIFICATION MCSpec
CHECK_DEADLOCK FALSE
INVARIANTS
    CustodyIsKept
    HarnessIsTrue
    LayoutIsTrue
PROPERTIES
    OutcomeIsTrue
    AllEnd
