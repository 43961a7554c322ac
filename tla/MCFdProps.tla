------------------------------ MODULE MCFdProps ------------------------------
(* Instances of FdProps for TLC. *)
EXTENDS FdProps, TLC

(* File names are interchangeable. *)
Symmetric == Permutations(Name)
=============================================================================
