CONSTANTS
    p1 = p1
    p2 = p2
    r1 = r1
    r2 = r2
    s1 = s1
    s2 = s2
    None = None
    Free = Free
    System = System
    Procs = {p1, p2}
    Latest = 2
    Roots = {r1, r2}
    Removable = {r1}
    Shares = {s1, s2}
    Scenarios <- MCScenarios
SPECIFICATION MCSpec
INVARIANTS
    TypeOK
    
PROPERTIES
    RightPair
    Resumes
CHECK_DEADLOCK FALSE
