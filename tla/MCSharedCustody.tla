--------------------------- MODULE MCSharedCustody ---------------------------
EXTENDS SharedCustody, TLC

CONSTANTS i1, i2, p1, p2, p3, o1, o2, o3

\* p1 and p3 work for i1, p2 for i2; i1 has the incarnations o1 and o3.
MCAt == [p \in Proc |-> IF p = p2 THEN i2 ELSE i1]
MCHome == [o \in Owner |-> IF o = o2 THEN i2 ELSE i1]
=============================================================================
