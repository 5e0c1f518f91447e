SPECIFICATION FairSpec
CONSTANTS
    k1 = k1
    r1 = r1
    r2 = r2
    loop = loop
    plane = plane
    Item = {k1}
    Run = {r1, r2}
    NoRun = NoRun
    Sweeper = {loop, plane}
    Loop = loop
    Lease = 2
    Budget = 1
    MaxTime = 3
    MaxFaults = 1
INVARIANTS AbandonedLeaseBounded
PROPERTIES WorkingRunKeepsClaim NoResurrection EndedClaimsReturn
CHECK_DEADLOCK FALSE
