------------------------------- MODULE MCExit -------------------------------
(* Functions that only write and return, functions that call exit() and    *)
(* atexit(), and the hook of atexit2().                                    *)
EXTENDS Exit

MCHabits == {{}, {"again", "late"}, {"again", "late", "hook"}}
=============================================================================
