------------------------------- MODULE Loader -------------------------------
(***************************************************************************)
(* How libraries of 32-bit and 64-bit code are made known to libc          *)
(* (src/libc/dj64/thunks.c): a library that the host loads registers its   *)
(* dispatcher, its asm thunks and its plt thunks in three global           *)
(* variables; the call that follows takes them from there into the slot of *)
(* a handle: DJ64_INIT_FN for a program (slot 1), DJ64_INIT2_FN for what   *)
(* elfexec() and elfload() run inside a program (slots 2 and 3).  Then     *)
(* dj64_ctrl() resolves the symbols, and the code runs; its calls come     *)
(* back through the slot it was told.                                      *)
(*                                                                         *)
(* The host (loading, elf_ops) is external: it loads one library at a time *)
(* and gives it up when the call for it fails.  The code that runs last    *)
(* ends first, so that what runs is a stack.                               *)
(***************************************************************************)
EXTENDS Integers, FiniteSets, SequencesExt

CONSTANTS Handle,    \* the handles of the host, below MAX_HANDLES
          MaxLibs,   \* bound: libraries loaded
          Practice   \* the circumstances to look at: see below

(* "nest": what elfexec() runs uses elfexec() too; "static": programs that *)
(* have a libc of their own load libraries that use this one; "version":   *)
(* libraries of another DJ64_DYNAPI_VER are loaded.                        *)
ASSUME LoaderConstantsOK ==
  /\ MaxLibs \in Nat
  /\ Practice \subseteq SUBSET {"nest", "static", "version"}

Lib == 1 .. MaxLibs
NoLib == 0
Kind == {"disp", "at", "pt"}
Slot == 1 .. 3
None == -1

VARIABLES
  pending,   \* disp_fn, u_athunks and u_pthunks, by Kind
  ptrs,      \* the library that u_handle_p and u_libid_p lead into
  fatalerr,  \* a library of another version was met
  init,      \* udisps[].disp[0] is set
  tab,       \* udisps[].core_at.tab and core_pt.tab are allocated
  slot,      \* disp[], at[] and pt[] of each handle
  has,       \* what each library registers
  told,      \* the handle and slot that each library was told
  run,       \* what runs: sequence of [lib, h, id]
  eh,        \* elf_ops handles that are open
  aborted,   \* an assertion failed
  practice   \* what happens in this behaviour; never changes

vars == <<pending, ptrs, fatalerr, init, tab, slot, has, told, run, eh, aborted,
          practice>>

Frame == [lib : Lib \cup {NoLib}, h : Handle, id : Slot]

Init ==
  /\ pending = [k \in Kind |-> NoLib] /\ ptrs = NoLib /\ fatalerr = FALSE
  /\ init = [h \in Handle |-> FALSE] /\ tab = [h \in Handle |-> FALSE]
  /\ slot = [h \in Handle |-> [i \in Slot |-> [k \in Kind |-> NoLib]]]
  /\ has = <<>> /\ told = <<>> /\ run = <<>> /\ eh = 0 /\ aborted = FALSE
  /\ practice \in Practice

Busy(h) == \E i \in DOMAIN run : run[i].h = h
Top == Last(run)

-----------------------------------------------------------------------------
(* register_dispatch_fn(), register_athunks() and register_pthunks(), run  *)
(* by the constructors of library l for what it has: the variables after   *)
(* them, unless an assertion failed.                                       *)
Registers(l, kinds) == [k \in Kind |-> IF k \in kinds THEN l ELSE pending[k]]
Clash(kinds) == \E k \in kinds : pending[k] # NoLib
PtrsOf(l, kinds) == IF "pt" \in kinds THEN l ELSE ptrs

(* The part that DJ64_INIT_FN and DJ64_INIT2_FN share: the slot is filled, *)
(* the library is told where it is, the variables are cleared.             *)
FillSlot_NoLibid(h, id, l, kinds) ==   \* mutant: the library is told slot 1
  LET p == PtrsOf(l, kinds) IN
  /\ slot' = [slot EXCEPT ![h][id] = Registers(l, kinds)]
  /\ told' = [i \in 1 .. l |->
                IF i = p THEN [h |-> h, id |-> 1]
                ELSE IF i = l THEN [h |-> None, id |-> None] ELSE told[i]]
  /\ pending' = [k \in Kind |-> NoLib]
  /\ ptrs' = NoLib

FillSlot(h, id, l, kinds) ==
  LET p == PtrsOf(l, kinds) IN
  /\ slot' = [slot EXCEPT ![h][id] = Registers(l, kinds)]
  /\ told' = [i \in 1 .. l |->
                IF i = p THEN [h |-> h, id |-> id]
                ELSE IF i = l THEN [h |-> None, id |-> None] ELSE told[i]]
  /\ pending' = [k \in Kind |-> NoLib]
  /\ ptrs' = NoLib

(* A call that fails leaves what was registered. *)
Refused(l, kinds) ==
  /\ pending' = Registers(l, kinds)
  /\ ptrs' = PtrsOf(l, kinds)
  /\ told' = Append(told, [h |-> None, id |-> None])
  /\ UNCHANGED <<init, tab, slot, run>>

(* The next library, with the kinds of tables it registers. *)
Load(kinds) ==
  /\ ~aborted
  /\ Len(has) < MaxLibs
  /\ has' = Append(has, kinds)
  /\ aborted' = Clash(kinds)
  /\ UNCHANGED eh

-----------------------------------------------------------------------------
(* A program of another version only raises fatalerr, and is refused. *)
open_other ==
  /\ "version" \in practice
  /\ ~aborted /\ Len(has) < MaxLibs
  /\ fatalerr' = TRUE
  /\ has' = Append(has, {}) /\ told' = Append(told, [h |-> None, id |-> None])
  /\ UNCHANGED <<pending, ptrs, init, tab, slot, run, eh, aborted>>

(* A program starts on a free handle: DJ64_INIT_ONCE_FN, which looks at    *)
(* fatalerr, and DJ64_INIT_FN.                                             *)
open(h, kinds) ==
  LET l == Len(has) + 1 IN
  /\ ~Busy(h)
  /\ Load(kinds)
  /\ UNCHANGED fatalerr
  /\ IF fatalerr \/ Clash(kinds) THEN Refused(l, kinds)
     ELSE /\ FillSlot(h, 1, l, kinds)
          /\ init' = [init EXCEPT ![h] = TRUE]
          /\ tab' = [tab EXCEPT ![h] = TRUE]
          /\ run' = Append(run, [lib |-> l, h |-> h, id |-> 1])

(* A program that is linked statically runs on a handle that this libc is  *)
(* not told of.                                                            *)
open_static(h) ==
  /\ "static" \in practice /\ ~aborted
  /\ ~Busy(h) /\ run = <<>>
  /\ run' = <<[lib |-> NoLib, h |-> h, id |-> 1]>>
  /\ UNCHANGED <<pending, ptrs, fatalerr, init, tab, slot, has, told, eh, aborted>>

(* elfexec() and elfload(): DJ64_INIT2_FN, after the host loaded the       *)
(* library for slot id of the running program.  It does not look at        *)
(* fatalerr: a library of another version, which raises it and registers   *)
(* nothing, runs all the same.                                             *)
exec(id, kinds, other) ==
  LET l == Len(has) + 1
      h == Top.h
  IN  /\ run # <<>> /\ id > 1
      /\ "nest" \in practice \/ Top.id < id
      /\ Load(kinds)
      /\ other => "version" \in practice /\ kinds = {}
      /\ fatalerr' = (fatalerr \/ other)
      /\ UNCHANGED <<init, tab>>
      /\ IF ~init[h] \/ Clash(kinds) THEN Refused(l, kinds)
         ELSE /\ FillSlot(h, id, l, kinds)
              /\ run' = Append(run, [lib |-> l, h |-> h, id |-> id])

(* What ran last returns; a program calls DJ64_DONE_FN. *)
done(h) == tab' = [tab EXCEPT ![h] = FALSE]

return ==
  /\ ~aborted /\ run # <<>>
  /\ run' = Front(run)
  /\ IF Top.id = 1 /\ Top.lib # NoLib THEN done(Top.h) ELSE UNCHANGED tab
  /\ UNCHANGED <<pending, ptrs, fatalerr, init, slot, has, told, eh, aborted>>

-----------------------------------------------------------------------------
(* dj64_ctrl().  A request is a list of steps: opening an elf_ops handle,  *)
(* resolving a table with it, closing it.  One of them may fail, at        *)
(* position f: a failure to open returns, any other one closes first.      *)
Symtab(addr, have_core, split_pl) ==
  (IF addr
   THEN <<"open">> \o (IF have_core THEN <<"core">> ELSE <<>>)
                   \o (IF ~have_core \/ ~split_pl THEN <<"user">> ELSE <<>>)
                   \o <<"close">>
   ELSE <<>>)
  \o (IF have_core THEN <<>> ELSE <<"open", "core", "close">>)
ElfLoad == <<"open", "reloc", "user", "close">>

Count(steps, s, n) == Cardinality({i \in 1 .. n : steps[i] = s})

(* The handles that remain open. *)
Left_NoClose(steps, f) ==   \* mutant: a failure does not close
  Count(steps, "open", f - 1) - Count(steps, "close", f - 1)

Left(steps, f) ==
  Count(steps, "open", f - 1) - Count(steps, "close", f - 1)
    - (IF f <= Len(steps) /\ steps[f] # "open" THEN 1 ELSE 0)

Fallible(steps) == {f \in 1 .. Len(steps) : steps[f] # "close"} \cup {Len(steps) + 1}

dj64_ctrl(steps) ==
  /\ ~aborted /\ run # <<>> /\ Top.lib # NoLib
  /\ \E f \in Fallible(steps) : eh' = eh + Left(steps, f)
  /\ UNCHANGED <<pending, ptrs, fatalerr, init, tab, slot, has, told, run, aborted>>

(* An assertion that failed ends the host. *)
Abort == aborted /\ UNCHANGED vars

Step ==
  \/ \E h \in Handle : open_static(h) \/ \E kinds \in SUBSET Kind : open(h, kinds)
  \/ \E kinds \in SUBSET Kind, id \in Slot, other \in BOOLEAN : exec(id, kinds, other)
  \/ open_other
  \/ return
  \/ \E addr, have_core, split_pl \in BOOLEAN :
       (have_core => addr) /\ dj64_ctrl(Symtab(addr, have_core, split_pl))
  \/ dj64_ctrl(ElfLoad)
  \/ Abort

Next == Step /\ UNCHANGED practice

Spec == Init /\ [][Next]_vars

-----------------------------------------------------------------------------
(* The variables hold what thunks.c declares; the core tables are there    *)
(* exactly while a program runs on the handle (thunks.c:430, 472), and     *)
(* every elf_ops handle was closed (thunks.c:343, 386).                    *)
TypeOK ==
  /\ pending \in [Kind -> Lib \cup {NoLib}] /\ ptrs \in Lib \cup {NoLib}
  /\ init \in [Handle -> BOOLEAN] /\ fatalerr \in BOOLEAN
  /\ slot \in [Handle -> [Slot -> [Kind -> Lib \cup {NoLib}]]]
  /\ has \in Seq(SUBSET Kind) /\ Len(told) = Len(has)
  /\ run \in Seq(Frame) /\ eh = 0 /\ aborted \in BOOLEAN
  /\ \A h \in Handle :
       tab[h] <=> \E i \in DOMAIN run : run[i].h = h /\ run[i].lib # NoLib /\ run[i].id = 1

(* What runs finds itself: the calls of its stubs, which name the slot it  *)
(* was told, reach its own dispatcher and tables, and djthunk_get_h()      *)
(* finds its asm thunks ("assert(ret != (uint32_t)-1)", thunks.c:772),     *)
(* whatever was refused before (thunks.c:211, 417, 452).  A nested         *)
(* elfexec() takes the slot of the one it is called from; a library of     *)
(* another version has registered nothing that could be reached.           *)
ReachesItself ==
  "nest" \notin practice /\ run # <<>> /\ Top.lib # NoLib /\ ~aborted =>
    /\ \A k \in has[Top.lib] : slot[Top.h][Top.id][k] = Top.lib
    /\ "pt" \in has[Top.lib] => told[Top.lib] = [h |-> Top.h, id |-> Top.id]
=============================================================================
