------------------------------ MODULE Vectors ------------------------------
(***************************************************************************)
(* Exception and interrupt vectors (go32/dpmiexcp.c): what a program hooks *)
(* when it starts, the toggle that swaps its handlers and the saved ones,  *)
(* the timer vector that setitimer() hooks (posix/signal/itimer.c), and    *)
(* what _exit() undoes.                                                    *)
(*                                                                         *)
(* xinfo, and the variables of exceptn.S (__djgpp_old_kbd,                 *)
(* __djgpp_old_timer), are private to a program; timer_on of itimer.c is   *)
(* one static for all programs that share the libc.  A program runs while  *)
(* its parent waits, so the live programs form a stack.                    *)
(*                                                                         *)
(* The exceptions and vector 0x75 are toggled alike and stand as "exc".    *)
(* Exception 2, which is only set with that flag, is "nmi".  Vector 0x24,  *)
(* and with it 0x23 on PC98, is set when a program starts and by nothing   *)
(* else: "crit" stays with a program that has ended.                       *)
(***************************************************************************)
EXTENDS Integers, Sequences, SequencesExt

CONSTANTS MaxStarts,   \* bound: programs started
          Practice     \* the habits of programs to look at: see below

(* "child": programs run other programs; "toggle": programs call           *)
(* __djgpp_exception_toggle() themselves; "timer": programs use            *)
(* setitimer(); "tidy": a program uses the timer only while its handlers   *)
(* are installed, and disarms none but its own; "nmi_signal":              *)
(* _crt0_startup_flags has _CRT0_FLAG_NMI_SIGNAL.                          *)
Practices == {"child", "toggle", "timer", "tidy", "nmi_signal"}

ASSUME VectorConstantsOK ==
  /\ MaxStarts \in Nat
  /\ Practice \subseteq SUBSET Practices

(* A handler is known by the program it belongs to: Host for the handlers  *)
(* that were there first, Void for the address 0:0.                        *)
Host == 0
Void == -1
Prog == 1 .. MaxStarts
Target == Prog \cup {Host, Void}
Vector == {"exc", "nmi", "kbd", "timer"}

VARIABLES
  vec,        \* protected mode vectors
  cbrk,       \* the real mode vector of Ctrl-Break
  crit,       \* protected mode vector 0x24 (on PC98 also 0x23)
  callbacks,  \* real mode callbacks allocated, by owner
  itimer_on,  \* timer_on of itimer.c
  started,    \* programs started so far
  progs,      \* the live programs, innermost last
  practice    \* what the programs of this behaviour do; never changes

vvars == <<vec, cbrk, crit, callbacks, itimer_on, started, progs, practice>>

(* The private state of a program: "ori" is except_ori, kbd_ori and        *)
(* timer_ori, and "saw" a history: the vectors when the program started.   *)
Program == [id : Prog, ori : [Vector -> Target],
            old_kbd : Target, old_timer : Target,
            hooked : BOOLEAN, cbrk_ori : Target,
            saw : [Vector -> Target], sawCbrk : Target]

VectorsInit ==
  /\ vec = [v \in Vector |-> Host]
  /\ cbrk = Host
  /\ crit = Host
  /\ callbacks = {}
  /\ itimer_on = FALSE
  /\ started = 0
  /\ progs = <<>>
  /\ practice \in Practice

Me == progs[Len(progs)]
Others == SubSeq(progs, 1, Len(progs) - 1)

(* __djgpp_exception_toggle() for the program p, when the vectors are v.   *)
(* The timer vector is toggled only once the program has hooked it:        *)
(* timer_ori equals __djgpp_old_timer as long as the handler is in place.  *)
TimerOut(p) == p.old_timer # Void /\ p.ori.timer = p.old_timer
TimerIn(p) == p.old_timer # Void /\ p.ori.timer # p.old_timer

(* Mutant: the timer vector is left alone. *)
ToggledVec_NoTimer(p, v) ==
  [exc |-> p.ori.exc, nmi |-> v.nmi, kbd |-> p.ori.kbd, timer |-> v.timer]

ToggledVec(p, v) ==
  [exc   |-> p.ori.exc,
   nmi   |-> IF "nmi_signal" \in practice THEN p.ori.nmi ELSE v.nmi,
   kbd   |-> p.ori.kbd,
   timer |-> CASE TimerOut(p) -> p.old_timer
               [] TimerIn(p)  -> p.ori.timer
               [] OTHER       -> v.timer]

ToggledProg(p, v, rm) ==
  [p EXCEPT
    !.ori = [exc   |-> v.exc, nmi |-> v.nmi, kbd |-> v.kbd,
             timer |-> CASE TimerOut(p) -> v.timer
                         [] TimerIn(p)  -> p.old_timer
                         [] OTHER       -> p.ori.timer],
    !.hooked = ~p.hooked,
    !.cbrk_ori = IF p.hooked THEN @ ELSE rm]

(* Ctrl-Break: unhooking frees the real mode callback. *)
ToggledCbrk(p, rm) == IF p.hooked THEN p.cbrk_ori ELSE p.id

ToggledCallbacks(p, c) == IF p.hooked THEN c \ {p.id} ELSE c \cup {p.id}

Toggle(p) ==
  /\ vec' = ToggledVec(p, vec)
  /\ cbrk' = ToggledCbrk(p, cbrk)
  /\ callbacks' = ToggledCallbacks(p, callbacks)

(* __djgpp_exception_setup(): vector 0x24 is set and not saved, the others *)
(* are exchanged by the first toggle.                                      *)
Start ==
  LET n == started + 1
      p == [id |-> n,
            ori |-> [exc |-> n, nmi |-> n, kbd |-> n, timer |-> vec.timer],
            old_kbd |-> vec.kbd, old_timer |-> Void,
            hooked |-> FALSE, cbrk_ori |-> Void,
            saw |-> vec, sawCbrk |-> cbrk]
  IN
  /\ started < MaxStarts
  /\ progs # <<>> => "child" \in practice
  /\ started' = n
  /\ crit' = n
  /\ Toggle(p)
  /\ progs' = Append(progs, ToggledProg(p, vec, cbrk))
  /\ UNCHANGED itimer_on

(* The program calls __djgpp_exception_toggle(). *)
toggle ==
  /\ "toggle" \in practice /\ progs # <<>>
  /\ Toggle(Me)
  /\ progs' = Append(Others, ToggledProg(Me, vec, cbrk))
  /\ UNCHANGED <<crit, itimer_on, started>>

Intact(p) == p.old_kbd = p.ori.kbd

(* start_timer(), from setitimer(). *)
start_timer ==
  /\ "timer" \in practice /\ progs # <<>>
  /\ "tidy" \in practice => Intact(Me)
  /\ ~itimer_on
  /\ itimer_on' = TRUE
  /\ progs' = Append(Others, [Me EXCEPT !.old_timer = vec.timer])
  /\ vec' = [vec EXCEPT !.timer = Me.id]
  /\ UNCHANGED <<cbrk, crit, callbacks, started>>

(* stop_timer(), from setitimer() or timer_action(). *)
stop_timer ==
  /\ "timer" \in practice /\ progs # <<>>
  /\ "tidy" \in practice => Intact(Me) /\ Me.old_timer # Void
  /\ itimer_on
  /\ itimer_on' = FALSE
  /\ vec' = [vec EXCEPT !.timer = Me.old_timer]
  /\ UNCHANGED <<cbrk, crit, callbacks, started, progs>>

(* Mutant: the vectors are toggled whether they are installed or not. *)
exit_Always ==
  /\ progs # <<>>
  /\ Toggle(Me)
  /\ progs' = Others
  /\ UNCHANGED <<crit, itimer_on, started>>

(* _exit(), where every end of a program arrives: the vectors are toggled  *)
(* if the original keyboard handler is the saved one.                      *)
exit ==
  /\ progs # <<>>
  /\ IF Intact(Me) THEN Toggle(Me) ELSE UNCHANGED <<vec, cbrk, callbacks>>
  /\ progs' = Others
  /\ UNCHANGED <<crit, itimer_on, started>>

VectorsNext ==
  /\ Start \/ toggle \/ start_timer \/ stop_timer \/ exit
  /\ UNCHANGED practice

VectorsSpec == VectorsInit /\ [][VectorsNext]_vvars

-----------------------------------------------------------------------------
(* The state is what dpmiexcp.c declares, and cbrk_hooked of a program     *)
(* says whether its real mode callback is allocated.                       *)
VectorsTypeOK ==
  /\ vec \in [Vector -> Target]
  /\ cbrk \in Target
  /\ callbacks \subseteq Prog
  /\ itimer_on \in BOOLEAN
  /\ started \in 0 .. MaxStarts
  /\ progs \in Seq(Program)
  /\ \A i \in DOMAIN progs : progs[i].hooked <=> progs[i].id \in callbacks

Live == {progs[i].id : i \in DOMAIN progs} \cup {Host}

(* The vectors that are right whatever programs do.  The timer vector is   *)
(* right for tidy programs, the ones that exit with the timer hooked       *)
(* included, of whom dpmiexcp.c:450-452 speaks.  itimer_on being shared    *)
(* and __djgpp_old_timer private, it is not for programs that arm the      *)
(* timer while their handlers are toggled out, or disarm what another      *)
(* program armed: they leave it pointing into the void after all.          *)
Kept == IF "tidy" \in practice THEN Vector ELSE Vector \ {"timer"}

(* Of what the toggle exchanges - the exceptions, 0x75, the keyboard, the  *)
(* timer, Ctrl-Break - nothing points into a program that is gone, or to   *)
(* 0:0, and no real mode callback outlives its program; the state is as    *)
(* declared.  Vector 0x24 (0x23 on PC98) is not exchanged: it stays with   *)
(* the program started last, also when that has ended.                     *)
NoVoid ==
  /\ VectorsTypeOK
  /\ crit = started
  /\ \A v \in Kept : vec[v] \in Live
  /\ cbrk \in Live
  /\ callbacks \subseteq Live

(* The end of a program, however it comes and whatever was toggled, leaves *)
(* what the toggle exchanges as the program found it (vector 0x24 is not   *)
(* part of that): "we crash the machine in nested programs" otherwise.     *)
Restores ==
  [][Len(progs') < Len(progs) => /\ \A v \in Kept : vec'[v] = Me.saw[v]
                                 /\ cbrk' = Me.sawCbrk]_vvars
=============================================================================
