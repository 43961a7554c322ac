------------------------------ MODULE MCITimer ------------------------------
(* Small instances of ITimer for TLC. *)
EXTENDS ITimer
=============================================================================
