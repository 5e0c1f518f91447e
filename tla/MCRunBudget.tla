----------------------------- MODULE MCRunBudget -----------------------------
(* An ordinary run, a generated child and two callers for TLC. *)
EXTENDS RunBudget, TLC

CONSTANTS r1, c1, p, q

Absent == NoOverride

CallerSymmetry == Permutations(Caller)
=============================================================================
