SPECIFICATION FairSpec
CONSTANTS
    i1 = i1
    i2 = i2
    p1 = p1
    p2 = p2
    p3 = p3
    o1 = o1
    o2 = o2
    o3 = o3
    Instance = {i1, i2}
    Plane = {}
    Proc = {p1, p2}
    At <- MCAt
    Owner = {o1, o2}
    NoOwner = NoOwner
    Home <- MCHome
    NoProc = NoProc
    DateLag = 1
    TTL = 2
    MaxTime = 3
    MaxRev = 1
    MaxFaults = 1
INVARIANTS RemoteBacksAdmission
PROPERTIES ImplementsClaimLease NoTimeAfterRevocation ReleaseCompletes
CHECK_DEADLOCK FALSE
