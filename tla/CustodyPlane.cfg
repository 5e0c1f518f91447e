SPECIFICATION Spec
CONSTANTS
    i1 = i1
    i2 = i2
    p1 = p1
    p2 = p2
    p3 = p3
    o1 = o1
    o2 = o2
    o3 = o3
    Instance = {i1}
    Plane = {i1}
    Proc = {p1, p3}
    At <- MCAt
    Owner = {o1, o3}
    NoOwner = NoOwner
    Home <- MCHome
    NoProc = NoProc
    DateLag = 0
    TTL = 2
    MaxTime = 3
    MaxRev = 3
    MaxFaults = 0
INVARIANTS RemoteBacksAdmission
CHECK_DEADLOCK FALSE
