SPECIFICATION Spec
CONSTANTS
    None = None
    AddrSpace = 8
    Objects <- AllObjects
    ArchArgs <- AllArchArgs
    ModeArgs <- AllModeArgs
INVARIANTS
    TargetsAdvertised
    NeverFallsBack
    HeaderRoundTrips
    ByteOrderHonoured
CHECK_DEADLOCK FALSE
