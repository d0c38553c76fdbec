SPECIFICATION CalmSpec
CONSTANTS
    d1 = d1
    d2 = d2
    p1 = p1
    p2 = p2
    v1 = v1
    v2 = v2
    Tomb = Tomb
    NoEntry = NoEntry
    NoFile = NoFile
    NoDevice = NoDevice
    Paths <- TwoPaths
    Versions <- TwoVersions
    Devices <- TwoDevices
    Trees <- NoTrees
    Renames <- SomeRenames
    DeleteRequests <- BothDeleted
    StageBatches <- OneBatch
    Tears = {"line"}
    Orphans = FALSE
    MaxUploads = 1
    MaxTx = 2
    MaxFaults = 3
INVARIANTS
    NoPhantom
    
SYMMETRY DeviceSymmetry
