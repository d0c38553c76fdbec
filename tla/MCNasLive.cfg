SPECIFICATION FairSpec
CONSTANTS
    d1 = d1
    d2 = d2
    p1 = p1
    p2 = p2
    v1 = v1
    v2 = v2
    Tomb = Tomb
    NoEntry = NoEntry
    NoFile = NoFile
    NoDevice = NoDevice
    Paths <- TwoPaths
    Versions <- TwoVersions
    Devices <- TwoDevices
    Trees <- SomeTrees
    Renames <- SomeRenames
    DeleteRequests <- NoDeletes
    StageBatches <- NoBatches
    Tears = {"line"}
    Orphans = FALSE
    MaxUploads = 1
    MaxTx = 1
    MaxFaults = 1
PROPERTIES
    MarkersResolve
    
    
