SPECIFICATION Spec
CONSTANTS
    k1 = k1
    l1 = l1
    r1 = r1
    r2 = r2
    o1 = o1
    o2 = o2
    ScopedKey = {k1}
    LegacyKey = {l1}
    LegacyOf <- MCLegacyOf
    PublicationKey = {}
    MergeLockKey = {}
    Run = {r1, r2}
    NoRun = NoRun
    Owner = {o1}
    NoOwner = NoOwner
    OwnerRun <- MCOwnerRun
    NoKey = NoKey
    Lease = 1
    HistoryTTL = 1
    ObservationTime = {1}
    MaxTime = 3
INVARIANTS AuthorityExclusive LoadableLedger VerificationOfIncarnation
PROPERTIES ImplementsClaimLease RevocationPermanent CustodyKept
CHECK_DEADLOCK FALSE
