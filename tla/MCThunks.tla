------------------------------ MODULE MCThunks ------------------------------
(***************************************************************************)
(* Small instances of Thunks for TLC.                                      *)
(***************************************************************************)
EXTENDS Thunks, TLC

(* Handles are only compared; so are addresses.                            *)
Symmetric == Permutations(Handle) \cup Permutations(Addr)
=============================================================================
