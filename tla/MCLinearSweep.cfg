SPECIFICATION Spec
CONSTANTS
    InsnLens <- RealLens
    AddrSpace = 4
    None = None
    MaxBlob = 4
    MaxInsns = 3
INVARIANTS
    TypeOK
    RowsTile
    RowsFaithful
    BatchInPlace
PROPERTIES
    StreamSpec
CHECK_DEADLOCK FALSE
