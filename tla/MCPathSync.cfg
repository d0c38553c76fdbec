CONSTANTS
    d1 = d1
    d2 = d2
    v1 = v1
    v2 = v2
    None = None
    Unknown = Unknown
    Devices = {d1, d2}
    Writers = {d1, d2}
    Versions = {v1, v2}
    SubSecond = {v2}
    Second <- MCLater
    DeleteEnabled = TRUE
    Disturbances = {"delete", "crash"}
    MaxDisturbances = 1
    Periodic = FALSE
SPECIFICATION Spec
SYMMETRY MCSymmetry
INVARIANTS
    TypeOK
    EditsSurvive
    OverwriteSeen
CHECK_DEADLOCK FALSE
