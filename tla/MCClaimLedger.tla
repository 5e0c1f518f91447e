---------------------------- MODULE MCClaimLedger ----------------------------
EXTENDS ClaimLedger, TLC

CONSTANTS k1, l1, r1, r2, o1, o2

MCLegacyOf == [k \in ScopedKey |-> CHOOSE l \in LegacyKey : TRUE]
MCOwnerRun == [o \in Owner |-> IF o = o1 THEN r1 ELSE r2]
=============================================================================
