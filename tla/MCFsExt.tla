------------------------------ MODULE MCFsExt ------------------------------
(* Programs one after another that do not dup() devices, programs that do  *)
(* while allocations fail, and programs that run programs.                 *)
EXTENDS FsExt

MCPractice == {{}, {"dup", "oom"}, {"child"}}
=============================================================================
