SPECIFICATION Spec
CONSTANTS
    None = None
    Blobs <- ShortBlobs
    MinLenArgs <- SomeMinLens
    DefaultMinLen = 3
    UsizeMax = 7
    MaxScanBytes = 6
    MaxStrings = 2
    MaxStringLen = 2
INVARIANTS
    TypeOK
    StringsBounded
    HitsAreRuns
    NoRunLost
    HitsInOrder
PROPERTIES
    ScanReturns
    ScanAdvances
CHECK_DEADLOCK FALSE
