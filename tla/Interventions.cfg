SPECIFICATION FairSpec
CONSTANTS
    q1 = q1
    q2 = q2
    q3 = q3
    k1 = k1
    k2 = k2
    Request = {q1, q2, q3}
    Asked <- MCAsked
    NoOne = NoOne
    MaxSegments = 2
    MaxCrashes = 1
INVARIANTS ActsOncePerKey PlaceFollowsRun
PROPERTIES InterventionKeepsClaim SlotFreed
CHECK_DEADLOCK FALSE
