---------------------------- MODULE MCFileModes ----------------------------
(* Instances of FileModes for TLC; the configurations give the bounds. *)
EXTENDS FileModes
=============================================================================
