--------------------------- MODULE MCClaimLifecycle ---------------------------
(* Model values for ClaimLifecycle.                                         *)
EXTENDS ClaimLifecycle

CONSTANTS k1, r1, r2, loop, plane
===============================================================================
