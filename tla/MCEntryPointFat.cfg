SPECIFICATION Spec
CONSTANTS
    None = None
    AddrSpace = 8
    UsizeMax = 5
    MaxSections = 2
    MaxSectionBytes = 3
    Objects <- FatsInFile
    BlobSizes <- FullSize
INVARIANTS
    FatBytesInSlice
CHECK_DEADLOCK FALSE
