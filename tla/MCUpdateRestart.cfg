CONSTANTS
    p1 = p1
    p2 = p2
    r1 = r1
    r2 = r2
    s1 = s1
    s2 = s2
    None = None
    Free = Free
    System = System
    Procs = {p1, p2}
    Latest = 2
    Roots = {r2}
    Removable = {}
    Shares = {s1}
    Scenarios <- MCUpdate
SPECIFICATION Spec
INVARIANT
    RefusedForAnother
CHECK_DEADLOCK FALSE
