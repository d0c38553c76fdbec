CONSTANTS
    None = None
    r1 = r1
    m1 = m1
    Route = r1
    Mirrors = {m1}
    Chunks = 2
    MaxAge = 1
    MaxEvents = 1
SPECIFICATION FairSpec
INVARIANTS
    TypeOK
    OneAtATime
    ConnCurrent
    
PROPERTIES
    ConnStable
    Served
    Delivered
    AllStopped
CHECK_DEADLOCK FALSE
