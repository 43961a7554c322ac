------------------------------- MODULE ITimer -------------------------------
(***************************************************************************)
(* Interval timers (posix/signal/itimer.c, posix/unistd/alarm.c): the two  *)
(* timers, the countdown of clock ticks to the next one that is due, the   *)
(* handler of the timer interrupt and timer_action(), which it reaches as  *)
(* the signal SIGTIMR through __djgpp_exception_processor.                 *)
(*                                                                         *)
(* Time is measured in units of uclock(), TickLen of them (65536 in the    *)
(* code) from one clock tick to the next.  Expiry times are kept relative  *)
(* to now, as only differences matter.  One program is modelled, which has *)
(* handlers for SIGALRM and SIGPROF; what programs that share the library  *)
(* do to each other's timer is in the module Vectors.                      *)
(***************************************************************************)
EXTENDS Integers, Sequences, FiniteSets, FiniteSetsExt

CONSTANTS TickLen,     \* uclock() units per clock tick
          Values,      \* times a program passes to setitimer()
          Intervals,   \* reload intervals a program passes to setitimer()
          None,        \* no expiry set: X_exp = 0
          MaxCalls,    \* bound: calls of setitimer()
          MaxLost,     \* bound: clock ticks the program does not see
          MaxLate,     \* bound: units a due timer waits to be noticed
          MaxNest      \* bound: timer exceptions in progress

ASSUME ITimerConstantsOK ==
  /\ TickLen \in Nat \ {0}
  /\ Values \subseteq Nat /\ Intervals \subseteq Nat
  /\ None \notin Int
  /\ MaxCalls \in Nat /\ MaxLost \in Nat /\ MaxLate \in Nat /\ MaxNest \in Nat

Which == {"REAL", "PROF"}
SignalOf == [w \in Which |-> IF w = "REAL" THEN "SIGALRM" ELSE "SIGPROF"]

VARIABLES
  exp,        \* exp[w]: time left until timer w expires, or None
  rel,        \* rel[w]: its reload value
  timer_on,   \* the timer interrupt is hooked and SIGTIMR has its handler
  countdown,  \* __djgpp_timer_countdown
  phase,      \* units left until the next clock tick
  stack,      \* exceptions in progress: the timers found due and the signals
              \* still to be raised
  inHandler,  \* a handler of the program runs for the innermost one
  dead,       \* the program has been ended by an exception
  calls,      \* calls of setitimer() so far
  lost,       \* clock ticks lost so far
  reloads     \* whether the program uses reload intervals; never changes

tvars == <<exp, rel, timer_on, countdown>>
vars == <<exp, rel, timer_on, countdown, phase, stack, inHandler, dead, calls,
          lost, reloads>>

Init ==
  /\ exp = [w \in Which |-> None]
  /\ rel = [w \in Which |-> 0]
  /\ timer_on = FALSE
  /\ countdown = 0
  /\ phase \in 1 .. TickLen
  /\ stack = <<>> /\ inHandler = FALSE
  /\ dead = FALSE
  /\ calls = 0 /\ lost = 0
  /\ reloads \in BOOLEAN

Armed(e) == {w \in Which : e[w] # None}

(* The time to the next event; 0 if there is none. *)
GetNextEvent(e) ==
  IF Armed(e) = {} THEN 0 ELSE Min({e[w] : w \in Armed(e)})

(* Mutants: the interrupt comes a tick late; a negative value is kept. *)
Countdown_NoMinusOne(next) == IF next >= TickLen THEN next \div TickLen ELSE 0

Countdown_NoClamp(next) == next \div TickLen - 1

(* The countdown is tested before it is decremented, hence next - 1.  The  *)
(* division truncates, and what is not positive counts as zero.            *)
Countdown(next) == IF next >= TickLen THEN next \div TickLen - 1 ELSE 0

StopTimer ==
  /\ timer_on' = FALSE
  /\ countdown' = IF timer_on THEN -1 ELSE countdown

(* Mutant: the interrupt is hooked only if it already is. *)
StartTimer_NoHook(e) ==
  /\ countdown' = Countdown(GetNextEvent(e))
  /\ UNCHANGED timer_on

StartTimer(e) ==
  /\ countdown' = Countdown(GetNextEvent(e))
  /\ timer_on' = TRUE

InCode == ~dead /\ (stack = <<>> \/ inHandler)

(* Values below the resolution of the clock are rounded up to it. *)
AtLeastTick(t) == IF t < TickLen THEN TickLen ELSE t
ReloadValue(t) == IF t = 0 THEN 0 ELSE AtLeastTick(t)

(* setitimer(w, v, i), from main() or from a handler. *)
setitimer(w, v, i) ==
  LET e == [exp EXCEPT ![w] = IF v = 0 THEN None ELSE AtLeastTick(v)] IN
  /\ InCode
  /\ calls < MaxCalls
  /\ i # 0 => reloads
  /\ calls' = calls + 1
  /\ exp' = e
  /\ rel' = [rel EXCEPT ![w] = ReloadValue(i)]
  /\ IF v # 0 THEN StartTimer(e)
     ELSE IF Armed(e) = {} THEN StopTimer
     ELSE UNCHANGED <<timer_on, countdown>>
  /\ UNCHANGED <<phase, stack, inHandler, dead, lost>>

(* alarm() has no reload interval. *)
alarm(v) == setitimer("REAL", v, 0)

-----------------------------------------------------------------------------
Later(e, d) == [w \in Which |-> IF e[w] = None THEN None ELSE e[w] - d]

(* The bound on how late an expiry is noticed. *)
NotTooLate == \A w \in Armed(exp) : exp[w] > -MaxLate

(* Time passes within a clock tick. *)
Elapse ==
  /\ ~dead /\ NotTooLate
  /\ phase > 1
  /\ phase' = phase - 1
  /\ exp' = Later(exp, 1)
  /\ UNCHANGED <<rel, timer_on, countdown, stack, inHandler, dead, calls, lost>>

Due(e) == {w \in Armed(e) : e[w] <= 0}

(* Expired timers are reloaded, or cleared when they have no interval. *)
Reload(e) == [w \in Which |-> IF w \notin Due(e) THEN e[w]
                              ELSE IF rel[w] > 0 THEN e[w] + rel[w]
                              ELSE None]

(* The signals for the expired timers, SIGALRM first. *)
ToRaise(e) ==
  (IF "REAL" \in Due(e) THEN <<SignalOf["REAL"]>> ELSE <<>>)
    \o (IF "PROF" \in Due(e) THEN <<SignalOf["PROF"]>> ELSE <<>>)

(* Mutant: the interrupt stays hooked when nothing is left to wait for. *)
timer_action_NoStop(e) ==
  /\ exp' = Reload(e)
  /\ countdown' = IF Due(e) = {} THEN countdown ELSE Countdown(GetNextEvent(Reload(e)))
  /\ stack' = Append(stack, [due |-> Due(e), todo |-> ToRaise(e)])
  /\ UNCHANGED timer_on

(* timer_action() up to its calls of raise(), at the time for which e      *)
(* holds.  Nothing is rescheduled when no timer has expired.               *)
timer_action(e) ==
  LET next == GetNextEvent(Reload(e)) IN
  /\ exp' = Reload(e)
  /\ IF Due(e) = {} THEN UNCHANGED <<timer_on, countdown>>
     ELSE IF next # 0
     THEN countdown' = Countdown(next) /\ UNCHANGED timer_on
     ELSE StopTimer
  /\ stack' = Append(stack, [due |-> Due(e), todo |-> ToRaise(e)])

(* A clock tick: __djgpp_timer_hdlr, if it is hooked, counts down or       *)
(* forces an exception that raises SIGTIMR.                                *)
Tick ==
  LET e == Later(exp, 1) IN
  /\ ~dead /\ NotTooLate
  /\ phase = 1
  /\ phase' = TickLen
  /\ IF timer_on /\ countdown = 0
     THEN /\ Len(stack) < MaxNest
          /\ timer_action(e)
          /\ inHandler' = FALSE
     ELSE /\ exp' = e
          /\ countdown' = IF timer_on THEN countdown - 1 ELSE countdown
          /\ UNCHANGED <<timer_on, stack, inHandler>>
  /\ UNCHANGED <<rel, dead, calls, lost>>

(* A tick that comes while interrupts are disabled or the processor is in  *)
(* 64-bit code for too long, and that the handler does not see.            *)
LostTick ==
  /\ ~dead /\ NotTooLate
  /\ phase = 1 /\ lost < MaxLost
  /\ phase' = TickLen
  /\ lost' = lost + 1
  /\ exp' = Later(exp, 1)
  /\ UNCHANGED <<rel, timer_on, countdown, stack, inHandler, dead, calls>>

Top == stack[Len(stack)]

(* timer_action() raises the next signal and its handler starts. *)
RaiseNext ==
  /\ ~dead /\ stack # <<>> /\ ~inHandler
  /\ Top.todo # <<>>
  /\ stack' = [stack EXCEPT ![Len(stack)].todo = Tail(@)]
  /\ inHandler' = TRUE
  /\ UNCHANGED <<tvars, phase, dead, calls, lost>>

HandlerReturn ==
  /\ ~dead /\ inHandler
  /\ inHandler' = FALSE
  /\ UNCHANGED <<tvars, phase, stack, dead, calls, lost>>

(* The handler leaves with longjmp() for main(). *)
HandlerJump ==
  /\ ~dead /\ inHandler
  /\ inHandler' = FALSE /\ stack' = <<>>
  /\ UNCHANGED <<tvars, phase, dead, calls, lost>>

(* SIGTIMR has been handled: "Cannot continue from exception". *)
ExceptionReturn ==
  /\ ~dead /\ stack # <<>> /\ ~inHandler
  /\ Top.todo = <<>>
  /\ dead' = TRUE
  /\ UNCHANGED <<tvars, phase, stack, inHandler, calls, lost>>

Step ==
  \/ Elapse \/ Tick \/ LostTick
  \/ RaiseNext \/ HandlerReturn \/ HandlerJump \/ ExceptionReturn
  \/ \E v \in Values : alarm(v)
  \/ \E v \in Values, wi \in (Which \X Intervals) \ {<<"REAL", 0>>} :
       setitimer(wi[1], v, wi[2])

Next == Step /\ UNCHANGED reloads

Spec == Init /\ [][Next]_vars

(* The clock runs, its ticks are not all lost, the library goes on with    *)
(* what it has begun, and handlers end.                                    *)
FairSpec == /\ Spec
            /\ WF_vars(Elapse /\ UNCHANGED reloads)
            /\ SF_vars(Tick /\ UNCHANGED reloads)
            /\ WF_vars((RaiseNext \/ ExceptionReturn) /\ UNCHANGED reloads)
            /\ WF_vars((HandlerReturn \/ HandlerJump) /\ UNCHANGED reloads)

-----------------------------------------------------------------------------
(* The variables hold what itimer.c declares; the countdown never runs     *)
(* below zero while the interrupt is hooked, where it would go on for 2^32 *)
(* ticks.                                                                  *)
TypeOK ==
  /\ \A w \in Which : exp[w] # None => exp[w] \in Int /\ exp[w] >= -MaxLate
  /\ rel \in [Which -> Nat]
  /\ timer_on \in BOOLEAN
  /\ countdown \in Int /\ (timer_on => countdown >= 0)
  /\ phase \in 1 .. TickLen
  /\ stack \in Seq([due : SUBSET Which, todo : Seq({"SIGALRM", "SIGPROF"})])
  /\ Len(stack) <= MaxNest
  /\ inHandler \in BOOLEAN /\ dead \in BOOLEAN
  /\ calls \in 0 .. MaxCalls /\ lost \in 0 .. MaxLost /\ reloads \in BOOLEAN

(* When SIGTIMR will be raised, and when the clock ticks for the first     *)
(* time at or after t.                                                     *)
WakeTime == phase + countdown * TickLen
FirstTick(t) == IF t <= phase THEN phase
                ELSE phase + ((t - phase + TickLen - 1) \div TickLen) * TickLen

(* Whatever is armed, rearmed, reloaded or disarmed while the countdown    *)
(* runs, SIGTIMR comes no later than the first tick at which a timer is    *)
(* due, if the handler sees every tick.                                    *)
NeverLate ==
  timer_on /\ lost = 0 => \A w \in Armed(exp) : WakeTime <= FirstTick(exp[w])

(* The timer interrupt is hooked exactly while a timer is armed.  It is    *)
(* released with the last one, as no tick may raise SIGTIMR in a program   *)
(* that has no timer running.  And an armed timer has it hooked ("We treat *)
(* that as if NEXT were zero, meaning that the timer will expire on the    *)
(* next tick"), as long as no reload interval is used: with one, NEXT may  *)
(* really be zero, and contrary to that comment (itimer.c:155-158)         *)
(* timer_action() takes it for "no timer" and releases the interrupt.      *)
HookedWhileArmed ==
  /\ Armed(exp) = {} => ~timer_on
  /\ ~reloads /\ Armed(exp) # {} => timer_on

(* A timer that is armed expires, unless it is set anew or its program     *)
(* ends first, also when ticks are lost.  The program ends when a handler  *)
(* returns, and at a tick that comes early and finds no timer due, which   *)
(* truncation makes likely: timer_action() returns then, and nothing comes *)
(* back from an exception (dpmiexcp.c:377-384).                            *)
OneShotExpires ==
  \A w \in Which : exp[w] # None /\ ~reloads ~> exp[w] = None \/ dead
=============================================================================
