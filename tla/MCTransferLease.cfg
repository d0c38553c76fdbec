SPECIFICATION FairSpec
CONSTANTS
    d1 = d1
    d2 = d2
    push1 = push1
    pull2 = pull2
    Daemon = Daemon
    Nobody = Nobody
    Devices <- TwoDevices
    Sessions <- TwoSessions
    DeviceOf <- DevicesOf
    Priority <- Priorities
    Orphans = TRUE
    MaxTime = 1
    MaxKills = 1
INVARIANTS
    TypeOK
    
    
PROPERTIES
    TopServed
    LeaseEnds
