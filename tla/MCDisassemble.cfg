SPECIFICATION Spec
CONSTANTS
    None = None
    AddrSpace = 8
    UsizeMax = 7
    MaxSections = 4
    MaxSectionBytes = 3
    MaxBlob = 4
    InsnLens <- Lens
    MaxInsns = 3
    Objects <- Requests
    ArchArgs <- Archs
    ModeArgs <- Modes
    BaseArgs <- Bases
    SectionArgs <- SectionNames
INVARIANTS
    TypeOK
    
    DiagnosticAlone
    SelectedSectionsShown
    RowsKeepSectionAddresses
PROPERTIES
    RequestAnswered
    RequestAdvances
CHECK_DEADLOCK FALSE
