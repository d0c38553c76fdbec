CONSTANTS
    d1 = d1
    d2 = d2
    v1 = v1
    v2 = v2
    None = None
    Unknown = Unknown
    Devices = {d1, d2}
    Writers = {d1}
    Versions = {v1}
    SubSecond = {v1}
    Second <- MCSame
    DeleteEnabled = TRUE
    Disturbances = {"browse", "expiry", "crash", "fault"}
    MaxDisturbances = 1
    Periodic = TRUE
SPECIFICATION FairSpec
PROPERTIES
    
    NoReturn
CHECK_DEADLOCK FALSE
