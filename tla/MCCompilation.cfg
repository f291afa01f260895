CONSTANTS
    ProviderLimit = 2
    EdgeLimit = 4
    DepthLimit = 3
    DocumentLimit = 5
    SizeLimit = 2
    BatchSizeLimit = 6
    ValueLimit = 7
    StringLimit = 7
    CapabilityLimit = 7
    SlotLimit = 6
    Batches <- OneSlip
    Amended <- NextSlip
    Misread <- MisreadOracles
    HandleLimit = 5
    AliasLimit = 2
    GroupDepth = 2
    MaximumItems = 2
    MaximumMembers = 1
    MaximumText = 40
    Isolations <- SingleModules
    RowLimit = 4
    OccurrenceLimit = 4
    Asks <- HostAsks
    Changes <- HostChanges
SPECIFICATION PrepareSpec
INVARIANTS
    TruthfulDiagnostics
    PlanIffValid
    OrderIsImmaterial
    WiringPins
    ProgramFits
