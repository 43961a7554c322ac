----------------------------- MODULE MCSignals -----------------------------
(* Plain programs with interrupts, programs that run programs and jump,    *)
(* and programs whose handlers call sigprocmask().                         *)
EXTENDS Signals

MCPractice ==
  {{"interrupt"}, {"child", "jump"}, {"child", "child_in_call"},
   {"mask_in_handler"}, {"signal_blocked"}}
=============================================================================
