SPECIFICATION Spec
CONSTANTS
    None = None
    AddrSpace = 8
    OrdinalNames <- Ordinals
    MaxImports = 2
    ApiMap <- Apis
    StringMap <- Texts
    LowerCase <- Lower
    Objects <- AllObjects
    StringLists <- SomeStrings
    Listings <- SomeListings
    MaxCapabilities = 4
INVARIANTS
    CapabilitiesBounded
    NoDuplicates
    RowsAreSignals
    SignalsReported
CHECK_DEADLOCK FALSE
