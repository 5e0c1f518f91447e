--------------------------- MODULE MCInstanceLog ---------------------------
(* Small instances of the instance journal for TLC.                        *)
EXTENDS InstanceLog, TLC

ProcSymmetry == Permutations(Procs)
=============================================================================
