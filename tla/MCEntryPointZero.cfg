SPECIFICATION Spec
CONSTANTS
    None = None
    AddrSpace = 8
    UsizeMax = 5
    MaxSections = 2
    MaxSectionBytes = 3
    Objects <- MachObjects
    BlobSizes <- Sizes
INVARIANTS
    ZeroFillHasNoBytes
CHECK_DEADLOCK FALSE
