SPECIFICATION Spec
CONSTANTS
    None = None
    AddrSpace = 8
    Objects <- AllObjects
    ArchArgs <- AllArchArgs
    ModeArgs <- AllModeArgs
INVARIANTS
    ModeSelectsEndianness
CHECK_DEADLOCK FALSE
