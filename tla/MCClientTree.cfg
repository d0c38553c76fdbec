CONSTANTS
    D = D
    E = E
    F = F
    v1 = v1
    v2 = v2
    v3 = v3
    Dirs = {D, E}
    Plain = Plain
    UnknownPath = UnknownPath
    None = None
    Unknown = Unknown
    Devices = {}
    Versions = {v1, v2, v3}
    Second <- MCSecond
    DeleteEnabled = TRUE
    Initial <- MCOneFile
    Scenarios <- MCScenarios
    ChunkSize = 2
    MaxDeletes = 1
SPECIFICATION Spec
INVARIANTS
    TypeOK
    NothingLost
    
PROPERTIES
    NasKeeps
    
CHECK_DEADLOCK FALSE
