--------------------------- MODULE PrivateContext ---------------------------
(***************************************************************************)
(* What the swappable contexts of dj64 promise (include/libc/djctx.h):     *)
(* every program, known by its handle, owns a private copy of the libc     *)
(* globals.  Programs call each other through the host in any nesting, a   *)
(* call may end by returning or by being aborted, and still nobody but the *)
(* running program ever changes that program's globals, and the running    *)
(* program always sees its own.                                            *)
(***************************************************************************)
EXTENDS Naturals, Sequences

CONSTANTS Handle,     \* program handles
          Val,        \* values of the libc globals
          InitVal     \* their value in a freshly initialised context

VARIABLES alive,      \* programs that have been initialised
          calls,      \* handles of the calls in progress, innermost last
          inC,        \* TRUE when C code of the innermost call runs
          val,        \* the private globals of every program
          view        \* what the running C code sees in the globals

avars == <<alive, calls, inC, val, view>>

Running == calls[Len(calls)]

AInit ==
  /\ alive = {}
  /\ calls = <<>>
  /\ inC = FALSE
  /\ val = [h \in Handle |-> InitVal]
  /\ view = InitVal

Load(h) ==
  /\ ~inC
  /\ h \notin alive
  /\ alive' = alive \cup {h}
  /\ val' = [val EXCEPT ![h] = InitVal]
  /\ UNCHANGED <<calls, inC, view>>

Unload(h) ==
  /\ ~inC
  /\ h \in alive
  /\ alive' = alive \ {h}
  /\ UNCHANGED <<calls, inC, val, view>>

Enter(h) ==
  /\ ~inC
  /\ h \in alive
  /\ calls' = Append(calls, h)
  /\ inC' = TRUE
  /\ view' = val[h]
  /\ UNCHANGED <<alive, val>>

Assign(v) ==
  /\ inC
  /\ val' = [val EXCEPT ![Running] = v]
  /\ view' = v
  /\ UNCHANGED <<alive, calls, inC>>

Suspend ==
  /\ inC
  /\ inC' = FALSE
  /\ view' = InitVal
  /\ UNCHANGED <<alive, calls, val>>

Resume ==
  /\ ~inC
  /\ calls # <<>>
  /\ inC' = TRUE
  /\ view' = val[Running]
  /\ UNCHANGED <<alive, calls, val>>

Leave ==
  /\ calls # <<>>
  /\ calls' = SubSeq(calls, 1, Len(calls) - 1)
  /\ inC' = FALSE
  /\ view' = InitVal
  /\ UNCHANGED <<alive, val>>

ANext ==
  \/ \E h \in Handle : Load(h) \/ Unload(h) \/ Enter(h)
  \/ \E v \in Val : Assign(v)
  \/ Suspend
  \/ Resume
  \/ Leave

ASpec == AInit /\ [][ANext]_avars
=============================================================================
