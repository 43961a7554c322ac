------------------------------ MODULE Signals ------------------------------
(***************************************************************************)
(* Signals: signal() and raise() (go32/dpmiexcp.c), kill(), sigaction()    *)
(* and sigprocmask() (posix/signal), and the ways a program ends.          *)
(*                                                                         *)
(* Blocking a signal is done by swapping its handler for sig_suspender,    *)
(* which records the signal; unblocking puts the handler back and raises   *)
(* what was recorded.  raise() runs the handler on the caller's stack, so  *)
(* the calls in progress are a stack of frames, and a handler may run in   *)
(* the middle of the loop of sigprocmask().  Hardware interrupts enter     *)
(* through __djgpp_exception_processor between any two steps of a program. *)
(*                                                                         *)
(* All this state is static and not among the swapped contexts: programs   *)
(* that share the libc share it, in nesting and one after another.         *)
(* Signal 0 and SIGMAX, which no sigset_t can block, are left out.         *)
(***************************************************************************)
EXTENDS Naturals, FiniteSetsExt, SequencesExt

CONSTANTS NSig,       \* signals 1 .. NSig, in place of 1 .. SIGMAX - 1
          SIGKILL,    \* a member of Sig
          SIGQUIT,    \* a member of Sig
          Fn,         \* functions a program uses as handlers
          SIG_DFL, SIG_IGN, SIG_ERR, sig_suspender,
          Practice,   \* the habits of programs to look at; see below
          MaxStarts,  \* bound: programs started
          MaxFrames   \* bound: calls in progress

(* "interrupt": the user presses Ctrl-C and the like; "child": programs    *)
(* run other programs; "child_in_call": also from a handler that a call of *)
(* sigprocmask() runs; "jump": handlers leave with longjmp();              *)
(* "mask_in_handler": handlers call sigprocmask(); "signal_blocked":       *)
(* programs change the handler of a signal they have blocked.              *)
Practices ==
  {"interrupt", "child", "child_in_call", "jump", "mask_in_handler",
   "signal_blocked"}

ASSUME SignalConstantsOK ==
  /\ NSig \in Nat /\ SIGKILL \in 1 .. NSig /\ SIGQUIT \in 1 .. NSig
  /\ SIGKILL # SIGQUIT
  /\ MaxStarts \in Nat /\ MaxFrames \in Nat
  /\ Practice \subseteq SUBSET Practices

Sig == 1 .. NSig
How == {"SIG_BLOCK", "SIG_UNBLOCK", "SIG_SETMASK"}

VARIABLES
  signal_list,        \* the installed handlers
  prev_handlers,      \* handlers to restore, SIG_ERR where none is kept
  current_mask,
  pending,            \* __sigprocmask_pending_signals
  sigprocmask_count,
  bss_count,          \* __bss_count
  stack,              \* frames of the calls in progress, innermost last
  practice            \* what the programs of this behaviour do; never changes

vars == <<signal_list, prev_handlers, current_mask, pending,
          sigprocmask_count, bss_count, stack, practice>>

(* A handler belongs to the program whose code it is in; programs are      *)
(* numbered by the value of __bss_count they started with.                 *)
Prog == 2 .. MaxStarts + 1
Handler == Prog \X Fn
Installed == Handler \cup {SIG_DFL, SIG_IGN, sig_suspender}
Disposition(p) == ({p} \X Fn) \cup {SIG_DFL, SIG_IGN}

(* The values that stand for no function of a program differ. *)
ASSUME HandlersDiffer ==
  /\ SIG_DFL \notin {SIG_IGN, SIG_ERR, sig_suspender}
  /\ SIG_IGN \notin {SIG_ERR, sig_suspender} /\ SIG_ERR # sig_suspender
  /\ {SIG_DFL, SIG_IGN, SIG_ERR, sig_suspender} \cap Handler = {}

Frame ==
  [kind : {"prog"}, id : Prog]                          \* main()
    \cup [kind : {"handler"}, sig : Sig, fn : Handler]    \* a handler
    \cup [kind : {"exception"}, sig : Sig]    \* __djgpp_exception_processor
    \cup [kind : {"sigaction"}, sig : Sig \ {SIGKILL}, old : Installed, act : Installed]
    \cup [kind : {"sigprocmask"}, how : How, set : SUBSET Sig,
          new_mask : SUBSET Sig, signo : Sig \cup {NSig + 1}]

Top == stack[Len(stack)]
Push(f) == stack' = Append(stack, f)
Room == Len(stack) < MaxFrames
LastProg == Max({i \in DOMAIN stack : stack[i].kind = "prog"})
Running == stack[LastProg].id
IsCode(f) == f.kind \in {"prog", "handler"}

(* C code of a program, main() or a handler, is about to do something. *)
InCode == stack # <<>> /\ IsCode(Top)
NoCall == \A i \in DOMAIN stack : stack[i].kind # "sigprocmask"

Init ==
  /\ signal_list = [s \in Sig |-> SIG_DFL]
  /\ prev_handlers = [s \in Sig |-> SIG_DFL]
  /\ current_mask = {} /\ pending = {}
  /\ sigprocmask_count = -1
  /\ bss_count = 1
  /\ stack = <<>>
  /\ practice \in Practice

mvars == <<prev_handlers, current_mask, sigprocmask_count>>

(* __djgpp_signal_setup, at the start of a program and in exit(). *)
SignalSetup == signal_list' = [s \in Sig |-> SIG_DFL]

(* Mutant: the handlers of the program before are kept. *)
Start_NoSetup ==
  /\ stack # <<>> => InCode /\ Room /\ "child" \in practice
  /\ NoCall \/ "child_in_call" \in practice
  /\ bss_count <= MaxStarts
  /\ bss_count' = bss_count + 1
  /\ Push([kind |-> "prog", id |-> bss_count + 1])
  /\ UNCHANGED <<signal_list, mvars, pending>>

Start ==
  /\ stack # <<>> => InCode /\ Room /\ "child" \in practice
  /\ NoCall \/ "child_in_call" \in practice
  /\ bss_count <= MaxStarts
  /\ bss_count' = bss_count + 1
  /\ Push([kind |-> "prog", id |-> bss_count + 1])
  /\ SignalSetup
  /\ UNCHANGED <<mvars, pending>>

(* The program is gone with all its calls, and its parent goes on. *)
EndProgram == stack' = SubSeq(stack, 1, LastProg - 1)

exit ==
  /\ InCode
  /\ SignalSetup
  /\ EndProgram
  /\ UNCHANGED <<mvars, pending, bss_count>>

-----------------------------------------------------------------------------
(* signal(): SIGKILL is refused. *)
signal(s, h) ==
  /\ InCode
  /\ s # SIGKILL
  /\ signal_list[s] = sig_suspender => "signal_blocked" \in practice
  /\ signal_list' = [signal_list EXCEPT ![s] = h]
  /\ UNCHANGED <<mvars, pending, bss_count, stack>>

(* sigaction(sig, act, oact): to learn the handler it installs SIG_IGN. *)
sigaction(s, h) ==
  /\ InCode /\ Room
  /\ s # SIGKILL
  /\ signal_list[s] = sig_suspender => "signal_blocked" \in practice
  /\ signal_list' = [signal_list EXCEPT ![s] = SIG_IGN]
  /\ Push([kind |-> "sigaction", sig |-> s, old |-> signal_list[s], act |-> h])
  /\ UNCHANGED <<mvars, pending, bss_count>>

(* It puts the old handler back and then installs the new one. *)
SigactionReturn ==
  /\ stack # <<>> /\ Top.kind = "sigaction"
  /\ signal_list' = [signal_list EXCEPT ![Top.sig] = Top.act]
  /\ stack' = Front(stack)
  /\ UNCHANGED <<mvars, pending, bss_count>>

(* What raise(s) does with the handlers "list" on the stack "st", when     *)
(* "pend" is pending.  A fatal signal ends in _exit(), which leaves the    *)
(* handlers as they are.                                                   *)
Raised(s, list, pend, st) ==
  LET h == list[s] IN
  \/ /\ h = SIG_IGN \/ (s = SIGQUIT /\ h = SIG_DFL)
     /\ pending' = pend /\ stack' = st
  \/ /\ h = SIG_DFL /\ s # SIGQUIT
     /\ pending' = pend /\ EndProgram
  \/ /\ h = sig_suspender
     /\ pending' = pend \cup {s} /\ stack' = st
  \/ /\ h \in Handler
     /\ pending' = pend
     /\ stack' = Append(st, [kind |-> "handler", sig |-> s, fn |-> h])

(* raise(), and kill() of the program itself. *)
raise(s) ==
  /\ InCode /\ Room
  /\ Raised(s, signal_list, pending, stack)
  /\ UNCHANGED <<signal_list, mvars, bss_count>>

HandlerReturn ==
  /\ stack # <<>> /\ Top.kind = "handler"
  /\ stack' = Front(stack)
  /\ UNCHANGED <<signal_list, mvars, pending, bss_count>>

(* A handler leaves with longjmp() for code that called it. *)
HandlerJump ==
  /\ "jump" \in practice
  /\ stack # <<>> /\ Top.kind = "handler"
  /\ \E i \in LastProg .. Len(stack) - 1 :
       IsCode(stack[i]) /\ stack' = SubSeq(stack, 1, i)
  /\ UNCHANGED <<signal_list, mvars, pending, bss_count>>

(* A hardware interrupt or an exception, wherever the program is. *)
Interrupt(s) ==
  /\ "interrupt" \in practice
  /\ stack # <<>> /\ Room
  /\ s # SIGKILL
  /\ Raised(s, signal_list, pending,
            Append(stack, [kind |-> "exception", sig |-> s]))
  /\ UNCHANGED <<signal_list, mvars, bss_count>>

(* "Cannot continue from exception": the program ends in _exit(-1).  After *)
(* the key of SIGINT it ends in exit(-1) (dpmiexcp.c:227-231), which runs  *)
(* the functions of atexit() first and resets the handlers: that is left   *)
(* out, the next program resets them too.                                  *)
ExceptionReturn ==
  /\ stack # <<>> /\ Top.kind = "exception"
  /\ EndProgram
  /\ UNCHANGED <<signal_list, mvars, pending, bss_count>>

-----------------------------------------------------------------------------
(* sigprocmask(how, set, old_set), up to its loop.  The sets are emptied   *)
(* when another program was started since the last call.                   *)
sigprocmask(how, set) ==
  /\ InCode /\ Room
  /\ Top.kind = "handler" => "mask_in_handler" \in practice
  /\ stack' = Append(stack,
                     [kind |-> "sigprocmask", how |-> how, set |-> set,
                      new_mask |-> {}, signo |-> 1])
  /\ IF sigprocmask_count # bss_count
     THEN /\ sigprocmask_count' = bss_count
          /\ pending' = {} /\ current_mask' = {}
          /\ prev_handlers' = [s \in Sig |-> SIG_ERR]
     ELSE UNCHANGED <<mvars, pending>>
  /\ UNCHANGED <<signal_list, bss_count>>

InLoop == stack # <<>> /\ Top.kind = "sigprocmask" /\ Top.signo \in Sig

(* The frame after one iteration that leaves signo in or out of new_mask. *)
Iterated(blocked) ==
  [Top EXCEPT !.signo = @ + 1,
              !.new_mask = IF blocked THEN @ \cup {Top.signo} ELSE @]
Advanced(blocked) == Append(Front(stack), Iterated(blocked))

(* Mutant: SIG_SETMASK only adds to the mask. *)
Leaving_NoSetmask(f) == f.how = "SIG_UNBLOCK" /\ f.signo \in f.set

(* A signal that is in the mask leaves it. *)
Leaving(f) == \/ f.how = "SIG_UNBLOCK" /\ f.signo \in f.set
              \/ f.how = "SIG_SETMASK" /\ f.signo \notin f.set

(* One iteration of the loop for a signal that stays as it is. *)
LoopKeep ==
  /\ InLoop
  /\ IF Top.signo \in current_mask THEN ~Leaving(Top)
     ELSE Top.signo \notin Top.set \/ Top.how = "SIG_UNBLOCK"
  /\ stack' = Advanced(Top.signo \in current_mask)
  /\ UNCHANGED <<signal_list, mvars, pending, bss_count>>

(* For a signal to be blocked. *)
LoopBlock ==
  LET s == Top.signo IN
  /\ InLoop
  /\ s \notin current_mask /\ s \in Top.set /\ Top.how # "SIG_UNBLOCK"
  /\ stack' = Advanced(TRUE)
  /\ IF s # SIGKILL /\ prev_handlers[s] = SIG_ERR
     THEN /\ prev_handlers' = [prev_handlers EXCEPT ![s] = signal_list[s]]
          /\ signal_list' = [signal_list EXCEPT ![s] = sig_suspender]
     ELSE UNCHANGED <<prev_handlers, signal_list>>
  /\ UNCHANGED <<current_mask, sigprocmask_count, pending, bss_count>>

(* For a signal to be unblocked: "installed" are the handlers from now on, *)
(* "seen" those raise() finds when the signal is pending, in the middle of *)
(* the loop.                                                               *)
UnblockWith(installed, seen) ==
  LET s == Top.signo IN
  /\ s \in current_mask /\ Leaving(Top)
  /\ signal_list' = installed
  /\ prev_handlers' = [prev_handlers EXCEPT ![s] = SIG_ERR]
  /\ IF s \in pending
     THEN Raised(s, seen, pending \ {s}, Advanced(FALSE))
     ELSE stack' = Advanced(FALSE) /\ UNCHANGED pending
  /\ UNCHANGED <<current_mask, sigprocmask_count, bss_count>>

(* The handlers with the one kept for the current signal restored. *)
Restored ==
  LET s == Top.signo IN
  IF prev_handlers[s] # SIG_ERR
  THEN [signal_list EXCEPT ![s] = prev_handlers[s]] ELSE signal_list

(* Mutants: nothing is restored; raise() comes before the restoration. *)
LoopUnblock_NoRestore == InLoop /\ UnblockWith(signal_list, signal_list)
LoopUnblock_RaiseFirst == InLoop /\ UnblockWith(Restored, signal_list)

LoopUnblock == InLoop /\ UnblockWith(Restored, Restored)

(* Mutant: the mask is not stored. *)
SigprocmaskReturn_Stale ==
  /\ stack # <<>> /\ Top.kind = "sigprocmask" /\ Top.signo = NSig + 1
  /\ stack' = Front(stack)
  /\ UNCHANGED <<signal_list, mvars, pending, bss_count>>

SigprocmaskReturn ==
  /\ stack # <<>> /\ Top.kind = "sigprocmask" /\ Top.signo = NSig + 1
  /\ current_mask' = Top.new_mask
  /\ stack' = Front(stack)
  /\ UNCHANGED <<signal_list, prev_handlers, sigprocmask_count, pending, bss_count>>

-----------------------------------------------------------------------------
Loop == LoopKeep \/ LoopBlock \/ LoopUnblock \/ SigprocmaskReturn

Step ==
  \/ Start
  \/ exit
  \/ SigactionReturn
  \/ HandlerReturn
  \/ HandlerJump
  \/ ExceptionReturn
  \/ Loop
  \/ \E s \in Sig : raise(s) \/ Interrupt(s)
  \/ \E s \in Sig : InCode /\ \E h \in Disposition(Running) : signal(s, h)
  \/ \E s \in Sig : InCode /\ \E h \in Disposition(Running) \cup {signal_list[s]} :
       sigaction(s, h)
  \/ \E how \in How, set \in SUBSET Sig : sigprocmask(how, set)

Next == Step /\ UNCHANGED practice

Spec == Init /\ [][Next]_vars

-----------------------------------------------------------------------------
Initialised == sigprocmask_count = bss_count

(* The signals that are diverted to sig_suspender for the running program. *)
Blocked == IF stack # <<>> /\ Initialised
           THEN {s \in Sig : prev_handlers[s] # SIG_ERR} ELSE {}

(* Programs run one after another, handlers return and leave the mask and  *)
(* the handlers of blocked signals alone; interrupts come at any time.     *)
Plain == practice \subseteq {"interrupt"}

(* The variables hold what their declarations in dpmiexcp.c and sigprocm.c *)
(* say; a handler kept for restoring is never sig_suspender itself, which  *)
(* would divert the signal for ever.  A program that is run in the middle  *)
(* of its parent's call can make that happen: the rest of the loop diverts *)
(* signals, and the parent's next call forgets that it did.                *)
TypeOK ==
  /\ signal_list \in [Sig -> Installed]
  /\ prev_handlers \in [Sig -> Installed \cup {SIG_ERR}]
  /\ "child_in_call" \notin practice =>
       \A s \in Sig : prev_handlers[s] # sig_suspender
  /\ current_mask \in SUBSET Sig /\ pending \in SUBSET Sig
  /\ sigprocmask_count \in 2 .. MaxStarts + 1 \cup {-1}
  /\ bss_count \in 1 .. MaxStarts + 1
  /\ stack \in Seq(Frame) /\ Len(stack) <= MaxFrames + 2

(* Between calls of sigprocmask() the mask it reports names exactly the    *)
(* signals whose handler is swapped for sig_suspender (SIGKILL is listed   *)
(* but never blocked), and only those are recorded: whatever was unblocked *)
(* has been raised, also when handlers of other signals ran and raised     *)
(* signals in the middle of the loop that unblocked it.                    *)
MaskExact ==
  Plain /\ stack # <<>> /\ Initialised /\ NoCall =>
    /\ current_mask \ {SIGKILL} = Blocked
    /\ \A s \in Sig : signal_list[s] = sig_suspender <=> s \in Blocked
    /\ pending \subseteq Blocked

(* What sigprocmask(how, set) should make of the mask m. *)
Requested(f, m) ==
  CASE f.how = "SIG_BLOCK"   -> m \cup f.set
    [] f.how = "SIG_UNBLOCK" -> m \ f.set
    [] f.how = "SIG_SETMASK" -> f.set

(* The loop of sigprocmask() computes the mask that was asked for, also    *)
(* when handlers run and raise signals in the middle of it.                *)
CallComputes ==
  [][\A f \in {stack[i] : i \in DOMAIN stack} :
       /\ Plain /\ stack' = Front(stack) /\ f = Top
       /\ f.kind = "sigprocmask"
       => current_mask' = Requested(f, current_mask)]_vars

(* Signals are delivered, recorded and dropped as SignalMask says: a call  *)
(* of sigprocmask() is a series of single Block and Unblock steps, and an  *)
(* Unblock runs the handler the program has set for a recorded signal.     *)
(* The mapping looks at plain programs.                                    *)
Up == Plain /\ stack # <<>>

(* The activations of handlers among the calls in progress. *)
CallsOf(st) ==
  LET calls[i \in 0 .. Len(st)] ==
        IF i = 0 THEN <<>>
        ELSE IF st[i].kind = "handler" THEN Append(calls[i - 1], <<st[i].sig, st[i].fn>>)
        ELSE calls[i - 1]
  IN  calls[Len(st)]

Disp == [s \in Sig |-> IF ~Up THEN SIG_DFL
                       ELSE IF s \in Blocked THEN prev_handlers[s]
                       ELSE signal_list[s]]
Mask == IF Up THEN Blocked ELSE {}
Pend == IF Up /\ Initialised THEN pending ELSE {}
Active == IF Up THEN CallsOf(stack) ELSE <<>>

Abs == INSTANCE SignalMask WITH
  up <- Up, disp <- Disp, mask <- Mask, pend <- Pend, active <- Active
RefinesSignalMask == Abs!SSpec

(* A program never runs a handler of a program started before it: the      *)
(* reset in __crt1_startup and the __bss_count test in sigprocmask() keep  *)
(* a parent's functions out of its child.                                  *)
ChildIsolated ==
  stack # <<>> =>
    \A s \in Sig :
      /\ signal_list[s] \in Handler => signal_list[s][1] >= Running
      /\ Initialised /\ prev_handlers[s] \in Handler
           => prev_handlers[s][1] >= Running
=============================================================================
