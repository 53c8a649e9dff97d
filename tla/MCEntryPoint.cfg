SPECIFICATION Spec
CONSTANTS
    None = None
    AddrSpace = 8
    UsizeMax = 5
    MaxSections = 2
    MaxSectionBytes = 3
    Objects <- AllObjects
    BlobSizes <- Sizes
INVARIANTS
    ReadsTable
    BytesInBlob
    ClampIsIntersection
    EntrySectionFound
    EntryAgreesWithSweep
CHECK_DEADLOCK FALSE
