----------------------------- MODULE MCStartQueue -----------------------------
(* Instances of StartQueue for TLC. *)
EXTENDS StartQueue
=============================================================================
