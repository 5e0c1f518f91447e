--------------------------- MODULE MCRunAdmission ---------------------------
EXTENDS RunAdmission, TLC

CONSTANTS wa, wb, p1, p2, q1, c1

MCIdentity == [r \in Run |-> IF r = q1 THEN wb ELSE wa]
MCMaxConcurrentRuns == [w \in Workflow |-> 0]
=============================================================================
