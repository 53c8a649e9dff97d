SPECIFICATION Spec
CONSTANTS
    InsnLens <- OddLens
    AddrSpace = 4
    None = None
    MaxBlob = 4
    MaxInsns = 3
INVARIANTS
    OneRowTooMany
PROPERTIES
    SweepAdvances
CHECK_DEADLOCK FALSE
