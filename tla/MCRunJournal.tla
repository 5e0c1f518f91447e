---------------------------- MODULE MCRunJournal ---------------------------
(* Small instances of the run journal for TLC.                             *)
EXTENDS RunJournal, TLC

OpenerSymmetry == Permutations(Openers)
=============================================================================
