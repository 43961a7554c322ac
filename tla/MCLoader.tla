------------------------------ MODULE MCLoader ------------------------------
(* Libraries that are never refused, with and without nested elfexec(),    *)
(* and libraries that are.                                                 *)
EXTENDS Loader

MCPractice == {{}, {"nest"}, {"static", "version"}}
=============================================================================
