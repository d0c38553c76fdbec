SPECIFICATION Spec
CONSTANTS
    p1 = p1
    p2 = p2
    v1 = v1
    v2 = v2
    Tomb = Tomb
    NoEntry = NoEntry
    Garbled = Garbled
    NoTx = NoTx
    Paths <- MCPaths
    Versions <- MCVersions
    EffectOf <- MCEffectOf
    Tears = {"line", "begin", "record"}
    MaxUnits = 3
INVARIANTS
    
    ReplayIdempotent
CHECK_DEADLOCK FALSE
