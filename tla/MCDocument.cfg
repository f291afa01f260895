SPECIFICATION Spec
CONSTANTS
    Schema <- MCSchema
    RootShape = "document"
    FieldOrder <- MCFieldOrder
    VersionField <- MCVersionField
    TagField <- MCTagField
    MinField <- MCMinField
    MaxField <- MCMaxField
    ManyTag <- MCManyTag
    SafeDigits <- MCSafeDigits
    Precision = 6
    LeastPower = 8
    GreatestPower = 12
    IdentifierLimit = 3
    IndexLimit = 1
    PathCapacity = 2
    ValueLimit = 12
    StringLimit = 14
    DepthLimit = 4
    Scripts <- MCScripts
    ObjectData <- MCObjectData
CHECK_DEADLOCK FALSE
INVARIANTS
    ScanIsExact
    FaultsAreLocated
    EntriesAgree
