------------------------------- MODULE MCDxe -------------------------------
(***************************************************************************)
(* Instances of Dxe for TLC: a module with two dependencies, one of them   *)
(* shared, and one that depends on itself, so that it cannot be loaded.    *)
(***************************************************************************)
EXTENDS Dxe
MCFile == {"a", "b", "c", "e"}
MCDeps == [f \in MCFile |-> CASE f = "a" -> <<"b", "c">>
                              [] f = "b" -> <<"c">>
                              [] f = "c" -> <<>>
                              [] f = "e" -> <<"b", "e">>]
MCNeeds == [f \in MCFile |-> IF f = "a" THEN {"b", "c"} ELSE {}]
MCPractice == {{}, {"local"}, {"last_fails"}}
=============================================================================
