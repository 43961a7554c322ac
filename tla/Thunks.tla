------------------------------- MODULE Thunks -------------------------------
(***************************************************************************)
(* The thunking engine of dj64 (src/libc/dj64/thunks.c): calls from 32-bit *)
(* assembler code into 64-bit C code (dj64_call), calls from C back into   *)
(* assembler (dj64_asm_call, dj64_asm_noret), the DOS objects that carry   *)
(* pointer arguments, and the swappable contexts of djctx.h that give every*)
(* program its own libc globals.                                           *)
(*                                                                         *)
(* The engine is single-threaded but reentrant: while C code of a program  *)
(* waits in asm_call, the host may enter any program again, the same one   *)
(* included, may load and unload programs, and may end the wait with ABORT.*)
(* The host (DPMI server and djdev64 library) is not part of the           *)
(* repository; it is the environment that chooses these steps.             *)
(***************************************************************************)
EXTENDS Naturals, Sequences, FiniteSets

CONSTANTS Handle,      \* handles, udisps[MAX_HANDLES]
          NoHandle,    \* the NULL context pointer
          MaxRecur,    \* MAX_RECUR
          Addr,        \* nonzero addresses malloc32() may return
          MaxArgs,     \* bound: pointer arguments in flight in one call
          HeapMayFail, \* whether malloc32() may return 0
          Val, InitVal \* values of the libc globals

ASSUME ConstantsOK ==
  /\ NoHandle \notin Handle
  /\ MaxRecur \in Nat \ {0}
  /\ MaxArgs \in Nat
  /\ HeapMayFail \in BOOLEAN
  /\ InitVal \in Val

VARIABLES
  inited,     \* handles between DJ64_INIT_FN and DJ64_DONE_FN
  stack,      \* activations of dj64_call, innermost last: [handle, phase]
  frames,     \* frames[h]: locals of the activations of dj64_call for h
  recur_cnt,  \* udisp.recur_cnt
  objcnt,     \* udisp.objcnt
  objs,       \* udisp.objs: objs[h][r] the nonzero entries of row r - 1
  noret_jmp,  \* udisp.noret_jmp: activation of h whose jmp_buf it is; 0 = NULL
  s_regs,     \* udisp.s_regs: activation of h whose registers it holds
  cur,        \* the "c" pointer of a swappable context
  globals,    \* the libc globals that are swapped
  contexts,   \* t##_contexts[]: the saved copies
  crashed     \* the assert at the end of dj64_call has failed

objvars == <<objcnt, objs>>
ctxvars == <<cur, globals, contexts>>
vars == <<inited, stack, frames, recur_cnt, objcnt, objs, noret_jmp, s_regs,
          cur, globals, contexts, crashed>>

(***************************************************************************)
(* Who is executing.  "C": C code of the innermost activation.  "asm" and  *)
(* "noret": that activation is suspended in asm_call / asm_noret, the host *)
(* and 32-bit code run.                                                    *)
(***************************************************************************)
Phase == {"C", "asm", "noret"}
Frame == [noret : Nat, objcnt : Nat, nulls : Nat]

Top == stack[Len(stack)]
InC == stack # <<>> /\ Top.phase = "C"
HostTurn == ~InC
Level(h) == {i \in 1 .. Len(stack) : stack[i].handle = h}
Row(h) == objs[h][recur_cnt[h]]
Local(h) == frames[h][recur_cnt[h]]

SetPhase(p) == stack' = [stack EXCEPT ![Len(stack)].phase = p]

(***************************************************************************)
(* Hooks of djctx.h, run for every registered context by the loops over    *)
(* chooks[].                                                               *)
(***************************************************************************)
RestoreWithoutPost(h) ==                  \* mutant: globals not reloaded
  /\ cur' = h
  /\ UNCHANGED <<globals, contexts>>

Restore(h) ==
  /\ cur' = h
  /\ globals' = IF cur = h THEN globals ELSE contexts[h]
  /\ UNCHANGED contexts

Save ==
  /\ contexts' = [contexts EXCEPT ![cur] = globals]
  /\ UNCHANGED <<cur, globals>>

DeinitKeep == UNCHANGED cur               \* mutant: c not set to NULL

Deinit == cur' = NoHandle

Init ==
  /\ inited = {}
  /\ stack = <<>>
  /\ frames = [h \in Handle |-> <<>>]
  /\ recur_cnt = [h \in Handle |-> 0]
  /\ objcnt = [h \in Handle |-> 0]
  /\ objs = [h \in Handle |-> [r \in 1 .. MaxRecur |-> {}]]
  /\ noret_jmp = [h \in Handle |-> 0]
  /\ s_regs = [h \in Handle |-> 0]
  /\ cur = NoHandle
  /\ globals = InitVal
  /\ contexts = [h \in Handle |-> InitVal]
  /\ crashed = FALSE

(***************************************************************************)
(* DJ64_INIT_FN and DJ64_DONE_FN: the host loads and unloads a program.    *)
(* It unloads one only when none of its calls is in progress.              *)
(***************************************************************************)
DJ64_INIT(h) ==
  /\ HostTurn
  /\ h \notin inited
  /\ inited' = inited \cup {h}
  /\ contexts' = [contexts EXCEPT ![h] = InitVal]
  /\ UNCHANGED <<stack, frames, recur_cnt, objvars, noret_jmp, s_regs, cur,
                 globals, crashed>>

DJ64_DONE(h) ==
  /\ HostTurn
  /\ h \in inited
  /\ Level(h) = {}
  /\ inited' = inited \ {h}
  /\ Deinit
  /\ UNCHANGED <<stack, frames, recur_cnt, objvars, noret_jmp, s_regs,
                 globals, contexts, crashed>>

(***************************************************************************)
(* dj64_call, up to the call of the dispatcher in _dj64_call.  A failing   *)
(* assert() ends the process, so recur_cnt < MAX_RECUR is a guard.         *)
(***************************************************************************)
RecurOffByOne(h) == recur_cnt[h] <= MaxRecur   \* mutant: bound off by one

RecurAllowed(h) == recur_cnt[h] < MaxRecur

LoadRegs(h) == s_regs' = [s_regs EXCEPT ![h] = recur_cnt[h] + 1]

dj64_call(h) ==
  /\ HostTurn
  /\ h \in inited
  /\ RecurAllowed(h)
  /\ recur_cnt' = [recur_cnt EXCEPT ![h] = @ + 1]
  /\ Restore(h)
  /\ frames' = [frames EXCEPT ![h] =
                  Append(@, [noret |-> noret_jmp[h], objcnt |-> objcnt[h],
                             nulls |-> 0])]
  /\ LoadRegs(h)
  /\ noret_jmp' = [noret_jmp EXCEPT ![h] = recur_cnt[h] + 1]
  /\ stack' = Append(stack, [handle |-> h, phase |-> "C"])
  /\ UNCHANGED <<inited, objvars, crashed>>

(* The tail of dj64_call, common to its three outcomes. *)
LeaveKeepingNoret(h) ==                   \* mutant: noret_jmp not put back
  /\ UNCHANGED noret_jmp
  /\ recur_cnt' = [recur_cnt EXCEPT ![h] = @ - 1]
  /\ frames' = [frames EXCEPT ![h] = SubSeq(@, 1, Len(@) - 1)]
  /\ stack' = SubSeq(stack, 1, Len(stack) - 1)
  /\ crashed' = (objcnt'[h] # Local(h).objcnt)

LeaveCall(h) ==
  /\ noret_jmp' = [noret_jmp EXCEPT ![h] = Local(h).noret]
  /\ recur_cnt' = [recur_cnt EXCEPT ![h] = @ - 1]
  /\ frames' = [frames EXCEPT ![h] = SubSeq(@, 1, Len(@) - 1)]
  /\ stack' = SubSeq(stack, 1, Len(stack) - 1)
  /\ crashed' = (objcnt'[h] # Local(h).objcnt)

(* The dispatcher returns: DJ64_RET_OK.  Every stub has released its       *)
(* objects by then, a stub being a straight line of dj64_obj_init, the     *)
(* call, and dj64_obj_done for the same arguments.                         *)
DispatchReturn ==
  /\ InC
  /\ LET h == Top.handle IN
       /\ Row(h) = {}
       /\ Local(h).nulls = 0
       /\ UNCHANGED objvars
       /\ LeaveCall(h)
  /\ Save
  /\ UNCHANGED <<inited, s_regs>>

(* The objects of the innermost row are freed and forgotten.               *)
CollectNothing(h) == UNCHANGED objvars    \* mutant: no garbage collection

CollectRow_KeepsRow(h) ==                 \* mutant: freed entries not zeroed
  /\ objcnt' = [objcnt EXCEPT ![h] = @ - Cardinality(Row(h))]
  /\ UNCHANGED objs

CollectRow(h) ==
  /\ objs' = [objs EXCEPT ![h][recur_cnt[h]] = {}]
  /\ objcnt' = [objcnt EXCEPT ![h] = @ - Cardinality(Row(h))]

(* longjmp() to noret_jmp and the code behind setjmp(): restore the        *)
(* context, collect the objects this activation left behind, leave without *)
(* saving.                                                                 *)
LongJmp ==
  LET h == Top.handle IN
    /\ Restore(h)
    /\ CollectRow(h)
    /\ LeaveCall(h)
    /\ UNCHANGED <<inited, s_regs>>

(***************************************************************************)
(* What C code does: assign to its globals, prepare and release the        *)
(* objects of a stub, call into assembler.                                 *)
(***************************************************************************)
AssignGlobals(v) ==
  /\ InC
  /\ globals' = v
  /\ UNCHANGED <<inited, stack, frames, recur_cnt, objvars, noret_jmp, s_regs,
                 cur, contexts, crashed>>

(* do_obj_init, for an argument that is not a DOS pointer.                 *)
dj64_obj_init(a) ==
  /\ InC
  /\ LET h == Top.handle IN
       /\ Cardinality(Row(h)) + Local(h).nulls < MaxArgs
       /\ \A r \in 1 .. MaxRecur : a \notin objs[h][r]
       /\ objcnt' = [objcnt EXCEPT ![h] = @ + 1]
       /\ objs' = [objs EXCEPT ![h][recur_cnt[h]] = @ \cup {a}]
  /\ UNCHANGED <<inited, stack, frames, recur_cnt, noret_jmp, s_regs, ctxvars,
                 crashed>>

(* do_obj_init when malloc32() returns 0: the object is counted, and the   *)
(* 0 written to a free entry leaves that entry free.                       *)
dj64_obj_init_null ==
  /\ InC
  /\ HeapMayFail
  /\ LET h == Top.handle IN
       /\ Cardinality(Row(h)) + Local(h).nulls < MaxArgs
       /\ objcnt' = [objcnt EXCEPT ![h] = @ + 1]
       /\ frames' = [frames EXCEPT ![h][recur_cnt[h]].nulls = @ + 1]
  /\ UNCHANGED <<inited, stack, recur_cnt, objs, noret_jmp, s_regs, ctxvars,
                 crashed>>

(* dj64_obj_done and dj64_rm_dosobj.                                       *)
dj64_obj_done(a) ==
  /\ InC
  /\ LET h == Top.handle IN
       /\ a \in Row(h)
       /\ objs' = [objs EXCEPT ![h][recur_cnt[h]] = @ \ {a}]
       /\ objcnt' = [objcnt EXCEPT ![h] = @ - 1]
  /\ UNCHANGED <<inited, stack, frames, recur_cnt, noret_jmp, s_regs, ctxvars,
                 crashed>>

dj64_obj_done_null ==
  /\ InC
  /\ LET h == Top.handle IN
       /\ Local(h).nulls > 0
       /\ objcnt' = [objcnt EXCEPT ![h] = @ - 1]
       /\ frames' = [frames EXCEPT ![h][recur_cnt[h]].nulls = @ - 1]
  /\ UNCHANGED <<inited, stack, recur_cnt, objs, noret_jmp, s_regs, ctxvars,
                 crashed>>

(* dj64_asm_call and dj64_asm_call_u up to the host's asm_call.            *)
dj64_asm_call ==
  /\ InC
  /\ Save
  /\ SetPhase("asm")
  /\ UNCHANGED <<inited, frames, recur_cnt, objvars, noret_jmp, s_regs,
                 crashed>>

(* asm_call returns ASM_CALL_OK, with the resulting registers in s_regs.   *)
AsmReturn ==
  /\ HostTurn
  /\ stack # <<>>
  /\ Top.phase = "asm"
  /\ s_regs' = [s_regs EXCEPT ![Top.handle] = recur_cnt[Top.handle]]
  /\ Restore(Top.handle)
  /\ SetPhase("C")
  /\ UNCHANGED <<inited, frames, recur_cnt, objvars, noret_jmp, crashed>>

(* asm_call returns ASM_CALL_ABORT: "reboot jump".                         *)
AsmAbort ==
  /\ HostTurn
  /\ stack # <<>>
  /\ Top.phase = "asm"
  /\ LongJmp

(* dj64_asm_noret and dj64_asm_noret_u: the assembler function that does   *)
(* not return to C; when the host is through with it, control goes to      *)
(* noret_jmp.                                                              *)
dj64_asm_noret ==
  /\ InC
  /\ Save
  /\ SetPhase("noret")
  /\ UNCHANGED <<inited, frames, recur_cnt, objvars, noret_jmp, s_regs,
                 crashed>>

NoretDone ==
  /\ HostTurn
  /\ stack # <<>>
  /\ Top.phase = "noret"
  /\ LongJmp

Step ==
  \/ \E h \in Handle : DJ64_INIT(h) \/ DJ64_DONE(h) \/ dj64_call(h)
  \/ DispatchReturn
  \/ \E v \in Val : AssignGlobals(v)
  \/ \E a \in Addr : dj64_obj_init(a) \/ dj64_obj_done(a)
  \/ dj64_obj_init_null
  \/ dj64_obj_done_null
  \/ dj64_asm_call
  \/ AsmReturn
  \/ AsmAbort
  \/ dj64_asm_noret
  \/ NoretDone

(* A failed assert() ends the process. *)
Next == ~crashed /\ Step

Spec == Init /\ [][Next]_vars

-----------------------------------------------------------------------------
(* Every variable stays in its type: counters never go negative, no more   *)
(* than MAX_RECUR rows of objs[] are used.                                 *)
TypeOK ==
  /\ inited \subseteq Handle
  /\ stack \in Seq([handle : Handle, phase : Phase])
  /\ frames \in [Handle -> Seq(Frame)]
  /\ recur_cnt \in [Handle -> 0 .. MaxRecur]
  /\ objcnt \in [Handle -> Nat]
  /\ objs \in [Handle -> [1 .. MaxRecur -> SUBSET Addr]]
  /\ noret_jmp \in [Handle -> 0 .. MaxRecur]
  /\ s_regs \in [Handle -> 0 .. MaxRecur]
  /\ cur \in Handle \cup {NoHandle}
  /\ globals \in Val
  /\ contexts \in [Handle -> Val]
  /\ crashed \in BOOLEAN

(* A longjmp() always lands in the innermost activation of the program     *)
(* that does it, never in a jmp_buf whose _dj64_call has returned:         *)
(* noret_jmp follows the number of live activations through every nesting  *)
(* of returns, aborts and NORET exits.                                     *)
NoretLive ==
  \A h \in Handle : /\ recur_cnt[h] = Cardinality(Level(h))
                    /\ noret_jmp[h] = recur_cnt[h]

(* While the host runs, the saved copy of the context that is still        *)
(* current is up to date, so that the next restore() of another program    *)
(* loses nothing: this is what makes it right that dj64_call restores      *)
(* without saving first, and that its abort path does not save.            *)
SavedWhileHost ==
  HostTurn /\ cur # NoHandle => contexts[cur] = globals

(* While C code of a program runs, the context pointer is that program's,  *)
(* also after the program waited in asm_call while others ran and were     *)
(* unloaded; and t##_init()'s assert(c != x) cannot fail, because the      *)
(* pointer never names a program that is not loaded.                       *)
ContextOwned ==
  /\ InC => cur = Top.handle
  /\ cur # NoHandle => cur \in inited

(* dj64_call's assert(u->objcnt == last_objcnt) fails only for an          *)
(* activation that lost an argument object whose allocation had failed:    *)
(* however else an activation ends, by return, abort or NORET, it leaves   *)
(* as many DOS objects as it found.                                        *)
NoLeak == [][crashed' /\ ~crashed => Local(Top.handle).nulls > 0]_vars

(* A program none of whose calls is in progress owns no DOS object, so     *)
(* that it can be unloaded and its handle given to another program: the    *)
(* objects of every row were released by the stub that made them or found  *)
(* by the collection of thunks.c:167-171, however deep the calls were      *)
(* nested and whoever aborted.  An entry left behind in objs[] would be    *)
(* freed again by the next program that has the handle.                    *)
IdleClean ==
  ~crashed => \A h \in Handle : Level(h) = {} =>
     objcnt[h] = 0 /\ \A r \in 1 .. MaxRecur : objs[h][r] = {}


-----------------------------------------------------------------------------
(* Refinement: the saved copies, the context pointer and the live globals  *)
(* together implement a private copy of the globals for every program.     *)
Private == INSTANCE PrivateContext WITH
  alive <- inited,
  calls <- [i \in 1 .. Len(stack) |-> stack[i].handle],
  inC   <- InC,
  val   <- [h \in Handle |-> IF cur = h THEN globals ELSE contexts[h]],
  view  <- IF InC THEN globals ELSE InitVal

(* Programs keep their libc globals to themselves (see PrivateContext).    *)
PrivateSpec == Private!ASpec
=============================================================================
