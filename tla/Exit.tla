-------------------------------- MODULE Exit --------------------------------
(***************************************************************************)
(* How a program ends (src/libc/ansi/stdlib/exit.c, atexit.c, and the      *)
(* cleanup hook of stdio, ansi/stdio/stdiohk.c): exit() runs what atexit() *)
(* registered, lets stdio flush and close the streams, closes what the     *)
(* descriptor properties and the file system extensions still have open,   *)
(* resets the signals, and calls the hook of atexit2().                    *)
(*                                                                         *)
(* The functions and the hook are the program's own: they write to         *)
(* streams, register functions, return, or call exit() again.  As exit()   *)
(* does not return, a call from such a function takes the place of the one *)
(* it came from.  All of this is one program's state, swapped with its     *)
(* context.                                                                *)
(***************************************************************************)
EXTENDS Naturals, SequencesExt

CONSTANTS MaxReg,    \* bound: calls of atexit()
          Habits     \* the habits of programs to look at: see below

(* "again": functions call exit(); "late": functions register functions;   *)
(* "hook": atexit2() is used.                                              *)
ASSUME ExitConstantsOK ==
  /\ MaxReg \in Nat
  /\ Habits \subseteq SUBSET {"again", "late", "hook"}

Stream == {"stdout", "file"}   \* descriptor 1, and one above 2

VARIABLES
  list,     \* __atexit_ptr: the calls of atexit(), by number, last first
  nreg,     \* calls of atexit() so far
  pc,       \* where exit() is
  todo,     \* the rest of the list it goes through
  ran,      \* history: the functions that were run, in order of their first run
  twice,    \* history: a function was run again
  before,   \* history: the functions there were when exit() was called
  buffer,   \* what each stream has: "open", "dirty" (not written) or "closed"
  hook2,    \* atexit2_hook is set
  habits    \* what the program of this behaviour does; never changes

evars == <<list, nreg, pc, todo, ran, twice, before, buffer, hook2, habits>>

(* The code of the program runs in main(), in a function that atexit()     *)
(* registered, or in the hook.                                             *)
Own == {"main", "function", "hook"}
Place == Own \cup {"next", "stdio", "props", "fsext", "signals", "hook2", "ended"}

ExitInit ==
  /\ list = <<>> /\ nreg = 0 /\ pc = "main" /\ todo = <<>>
  /\ ran = <<>> /\ twice = FALSE /\ before = {}
  /\ buffer \in [Stream -> {"open", "closed"}] /\ buffer["stdout"] = "open"
  /\ hook2 = FALSE
  /\ habits \in Habits

-----------------------------------------------------------------------------
atexit ==
  /\ pc \in Own
  /\ pc # "main" => "late" \in habits
  /\ nreg < MaxReg
  /\ nreg' = nreg + 1
  /\ list' = <<nreg'>> \o list
  /\ UNCHANGED <<pc, todo, ran, twice, before, buffer, hook2>>

(* atexit2() sets the one hook, unless there is one, or removes it. *)
atexit2(set) ==
  /\ pc \in Own /\ "hook" \in habits
  /\ ~(hook2 /\ set)
  /\ hook2' = set
  /\ UNCHANGED <<list, nreg, pc, todo, ran, twice, before, buffer>>

(* fputs() to a stream. *)
Write(s) ==
  /\ pc \in Own
  /\ buffer[s] = "open"
  /\ buffer' = [buffer EXCEPT ![s] = "dirty"]
  /\ UNCHANGED <<list, nreg, pc, todo, ran, twice, before, hook2>>

exit_NoReset ==   \* mutant: __atexit_ptr is not cleared
  /\ pc \in Own
  /\ pc # "main" => "again" \in habits
  /\ before' = IF pc = "main" THEN Range(list) ELSE before
  /\ todo' = list
  /\ pc' = "next"
  /\ UNCHANGED <<list, nreg, ran, twice, buffer, hook2>>

exit ==
  /\ pc \in Own
  /\ pc # "main" => "again" \in habits
  /\ before' = IF pc = "main" THEN Range(list) ELSE before
  /\ todo' = list
  /\ list' = <<>>
  /\ pc' = "next"
  /\ UNCHANGED <<nreg, ran, twice, buffer, hook2>>

-----------------------------------------------------------------------------
Ran(f) ==
  /\ ran' = IF f \in Range(ran) THEN ran ELSE Append(ran, f)
  /\ twice' = (twice \/ f \in Range(ran))

(* The loop of exit(): the next function is called. *)
CallNext_SkipLast ==   \* mutant: the last function is skipped
  /\ pc = "next" /\ todo # <<>>
  /\ Ran(Head(todo))
  /\ todo' = IF Len(todo) = 2 THEN <<>> ELSE Tail(todo)
  /\ pc' = "function"
  /\ UNCHANGED <<list, nreg, before, buffer, hook2>>

CallNext ==
  /\ pc = "next" /\ todo # <<>>
  /\ Ran(Head(todo))
  /\ todo' = Tail(todo)
  /\ pc' = "function"
  /\ UNCHANGED <<list, nreg, before, buffer, hook2>>

FunctionReturn ==
  /\ pc = "function"
  /\ pc' = "next"
  /\ UNCHANGED <<list, nreg, todo, ran, twice, before, buffer, hook2>>

LoopEnd ==
  /\ pc = "next" /\ todo = <<>>
  /\ pc' = "stdio"
  /\ UNCHANGED <<list, nreg, todo, ran, twice, before, buffer, hook2>>

(* __stdio_cleanup_hook(): fcloseall_helper() flushes every stream, and    *)
(* closes those above descriptor 2.                                        *)
Cleanup_OnlyFiles ==   \* mutant: stdout is not flushed
  /\ pc = "stdio"
  /\ buffer' = [buffer EXCEPT !["file"] = "closed"]
  /\ pc' = "props"
  /\ UNCHANGED <<list, nreg, todo, ran, twice, before, hook2>>

Cleanup ==
  /\ pc = "stdio"
  /\ buffer' = [stdout |-> "open", file |-> "closed"]
  /\ pc' = "props"
  /\ UNCHANGED <<list, nreg, todo, ran, twice, before, hook2>>

(* __fd_properties_cleanup_hook() and __FSEXT_exit_hook(), whose work is   *)
(* in FdProps and FsExt.                                                   *)
CloseDescriptors ==
  /\ pc \in {"props", "fsext"}
  /\ pc' = IF pc = "props" THEN "fsext" ELSE "signals"
  /\ UNCHANGED <<list, nreg, todo, ran, twice, before, buffer, hook2>>

(* setmode(0, O_TEXT) and __djgpp_signal_setup() *)
Reset ==
  /\ pc = "signals"
  /\ pc' = "hook2"
  /\ UNCHANGED <<list, nreg, todo, ran, twice, before, buffer, hook2>>

CallHook ==
  /\ pc = "hook2"
  /\ pc' = IF hook2 THEN "hook" ELSE "ended"
  /\ UNCHANGED <<list, nreg, todo, ran, twice, before, buffer, hook2>>

(* The hook returns, and _exit() is called. *)
HookReturn ==
  /\ pc = "hook"
  /\ pc' = "ended"
  /\ UNCHANGED <<list, nreg, todo, ran, twice, before, buffer, hook2>>

Ended == pc = "ended" /\ UNCHANGED evars

Leave == exit \/ FunctionReturn \/ HookReturn
Library == CallNext \/ LoopEnd \/ Cleanup \/ CloseDescriptors \/ Reset \/ CallHook

ExitStep ==
  \/ atexit \/ Leave \/ Library \/ Ended
  \/ \E set \in BOOLEAN : atexit2(set)
  \/ \E s \in Stream : Write(s)

ExitNext == ExitStep /\ UNCHANGED habits

ExitSpec == ExitInit /\ [][ExitNext]_evars

(* The library goes on, and so does a function: it returns or calls        *)
(* exit(), after finitely many other calls.                                *)
FairExitSpec == /\ ExitSpec
                /\ WF_evars(Library /\ UNCHANGED habits)
                /\ WF_evars(Leave /\ UNCHANGED habits)

-----------------------------------------------------------------------------
ExitTypeOK ==
  /\ list \in Seq(1 .. nreg) /\ todo \in Seq(1 .. nreg) /\ nreg \in 0 .. MaxReg
  /\ pc \in Place /\ before \subseteq 1 .. nreg
  /\ buffer \in [Stream -> {"open", "dirty", "closed"}]
  /\ hook2 \in BOOLEAN
  /\ ran \in Seq(1 .. nreg) /\ twice \in BOOLEAN

(* No function is run twice, even when a function calls exit() again       *)
(* (exit.c:69-77).  What was registered before exit() is run in the        *)
(* reverse order, all of it, and before the streams are closed, unless a   *)
(* function calls exit() or registers another.                             *)
RunsAll ==
  /\ ExitTypeOK /\ ~twice
  /\ habits = {} =>
       /\ \A i, j \in DOMAIN ran : i < j => ran[i] > ran[j]
       /\ pc \in {"stdio", "ended"} => Range(ran) = before

(* What the program wrote is written when it has ended, functions that     *)
(* call exit() included: "Do this last so that everyone else may write to  *)
(* files during shutdown" (exit.c:84).  The hook of atexit2() comes later. *)
Flushed ==
  "hook" \notin habits /\ pc = "ended" => \A s \in Stream : buffer[s] # "dirty"

(* exit() ends the program, although its functions may call exit(): the    *)
(* list is emptied "to prevent infinite loops" (exit.c:70).  Functions     *)
(* that both register functions and call exit() are taken to register      *)
(* finitely many, which is what MaxReg bounds: one that registers itself   *)
(* and calls exit() goes on for ever.  A hook of atexit2() is not removed, *)
(* and may call exit() for ever.                                           *)
Terminates == ("hook" \notin habits /\ pc = "next") ~> (pc = "ended")
=============================================================================
