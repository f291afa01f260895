CONSTANTS
    NNodes = 5
    DepthLimit = 3
    EdgeSets <- AllGraphs
    RootSets <- SomeRoots
    Retained = 3
    MaximumOmitted = 2
    ModuleRank <- ReversedModules
    GapSets <- SomeGaps
SPECIFICATION ReportSpec
INVARIANTS
    VerdictIsExact
PROPERTIES
    OrderImplementsContract
