SPECIFICATION Spec
CONSTANTS
    None = None
    AddrSpace = 8
    UsizeMax = 4
    MaxScanBytes = 2
    MaxChanges = 1
    Blobs <- FileBlobs
    SizeOf <- BlobSize
    Trimmed <- PathArgs
    Files = {"f"}
    Calls = {1, 2}
    Workloads <- Mix
    EnvNames = {None, "other"}
    RowsOf <- RowsOfCore
    RawGroups <- RawOfRow
INVARIANTS
    OneCatalogName
    GroupsNormalized
PROPERTIES
    SnapshotSpec
    CallsAnswered
    CallsAdvance
CHECK_DEADLOCK FALSE
