----------------------------- MODULE MCVectors -----------------------------
(* Programs that run programs, toggle and use the timer, tidily or not,    *)
(* with and without a handler for exception 2.                             *)
EXTENDS Vectors

MCPractice == {{"child", "toggle", "timer"} \cup P : P \in SUBSET {"tidy", "nmi_signal"}}
=============================================================================
