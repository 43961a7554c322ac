-------------------------------- MODULE Dxe --------------------------------
(***************************************************************************)
(* Dynamic modules (src/libc/dxe/dlopen.c): dlopen() loads a module after  *)
(* the modules it depends on, resolves its symbols and puts it in front of *)
(* the chain of loaded modules; opening it again counts a use; dlclose()   *)
(* gives one use back, and with the last one those of the dependencies;    *)
(* _closeall() closes what is left when the program ends.                  *)
(*                                                                         *)
(* A module file is a constant: what it depends on and which symbols it    *)
(* needs; every file exports one symbol, named as the file.  One malloc()  *)
(* of a call, at any depth, may fail.  Files and symbol tables of the      *)
(* program are external.                                                   *)
(***************************************************************************)
EXTENDS Integers, FiniteSetsExt, SequencesExt

CONSTANTS File,       \* the module files
          Deps,       \* Deps[f]: the dependency table of file f
          Needs,      \* Needs[f]: the unresolved symbols of file f
          MaxId,      \* bound: modules in memory
          MaxHeld,    \* bound: handles that the program holds
          FailAt,     \* which malloc() of a call may fail, or 0 for none
          Practice    \* the circumstances to look at: see below

(* "local": the program opens modules RTLD_LOCAL; "last_fails": the last   *)
(* malloc() of a dlopen(), that of the chain element, may fail too.        *)

ASSUME DxeConstantsOK ==
  /\ IsFiniteSet(File)
  /\ Deps \in [File -> Seq(File)] /\ Needs \in [File -> SUBSET File]
  /\ MaxId \in Nat /\ MaxHeld \in Nat /\ FailAt \subseteq Nat
  /\ Practice \subseteq SUBSET {"local", "last_fails"}

Id == 1 .. MaxId
Null == 0

VARIABLES
  mods,     \* struct __dxe_handle by address, for those in memory
  chain,    \* dxe_chain, the module loaded last first
  stk_top,  \* the files being loaded whose dependencies are opened
  held,     \* the handles the program has, by number of times
  ended,    \* the destructors ran
  practice  \* what happens in this behaviour; never changes

vars == <<mods, chain, stk_top, held, ended, practice>>

(* "uses" are the modules its symbols were resolved to. *)
Module == [file : File, global : BOOLEAN, inuse : Int, deps : Seq(Id),
           uses : SUBSET Id]

Init == /\ mods = <<>> /\ chain = <<>> /\ stk_top = <<>> /\ held = [i \in Id |-> 0]
        /\ ended = FALSE /\ practice \in Practice

(* What the functions below pass on: memory, chain, the stack of files,    *)
(* the mallocs left until the one that fails, and what the call returns.   *)
State(k) == [mods |-> mods, chain |-> chain, stk |-> stk_top, k |-> k, ret |-> Null]
Live(w) == DOMAIN w.mods
Fresh(w) == Min(Id \ Live(w))

Malloced(w) == [w EXCEPT !.k = @ - 1]
Failing(w) == w.k = 1

-----------------------------------------------------------------------------
RECURSIVE Close(_, _)

(* dlclose().  A module that is not in the chain is freed all the same. *)
Close(w, id) ==
  IF w.mods[id].inuse > 1 THEN [w EXCEPT !.mods[id].inuse = @ - 1]
  ELSE LET u == [w EXCEPT !.chain = SelectSeq(w.chain, LAMBDA c : c # id)]
           d == FoldLeft(Close, u, w.mods[id].deps)
       IN  [d EXCEPT !.mods = [i \in Live(d) \ {id} |-> d.mods[i]]]

(* midwayerror: the dependencies that were opened are closed. *)
Failed_Leak(w, deps) == [w EXCEPT !.ret = Null]   \* mutant: the dependencies stay open
Failed(w, deps) == [FoldLeft(Close, w, deps) EXCEPT !.ret = Null]

(* dlsym(RTLD_DEFAULT): the first module of the chain that exports it. *)
Resolve(w, s) ==
  LET found == SelectSeq(w.chain, LAMBDA c : w.mods[c].global /\ w.mods[c].file = s)
  IN  IF found = <<>> THEN Null ELSE Head(found)

Loaded(w, f) == SelectSeq(w.chain, LAMBDA c : w.mods[c].file = f)

RECURSIVE Open(_, _, _)

(* The dependency d of file f, which is on the stack meanwhile.            *)
Dependency_NoPop(w, f, d) ==   \* mutant: a failure leaves f on the stack
  LET o == Open([w EXCEPT !.stk = <<f>> \o @], d, TRUE)
  IN  IF o.ret = Null THEN o ELSE [o EXCEPT !.stk = w.stk]

Dependency(w, f, d) ==
  [Open([w EXCEPT !.stk = <<f>> \o @], d, TRUE) EXCEPT !.stk = w.stk]

(* The loop over the dependencies: c is the state, those opened so far and *)
(* whether all went well.  The list element may not be allocated.          *)
OpenDep_NoRef(c, f, d) ==   \* mutant: the dependency is not kept
  LET o == Dependency(c.w, f, d)
      id == o.ret
  IN  IF ~c.ok THEN c
      ELSE IF id = Null THEN [w |-> o, deps |-> c.deps, ok |-> FALSE]
      ELSE IF Failing(o) THEN [w |-> Close(Malloced(o), id), deps |-> c.deps, ok |-> FALSE]
      ELSE [w |-> Close(Malloced(o), id), deps |-> c.deps, ok |-> TRUE]

OpenDep(c, f, d) ==
  LET o == Dependency(c.w, f, d)
      id == o.ret
  IN  IF ~c.ok THEN c
      ELSE IF id = Null THEN [w |-> o, deps |-> c.deps, ok |-> FALSE]
      ELSE IF Failing(o) THEN [w |-> Close(Malloced(o), id), deps |-> c.deps, ok |-> FALSE]
      ELSE [w |-> Malloced(o), deps |-> Append(c.deps, id), ok |-> TRUE]

OpenDeps(w, f) ==
  FoldLeft(LAMBDA c, d : OpenDep(c, f, d), [w |-> w, deps |-> <<>>, ok |-> TRUE], Deps[f])

(* From the resolution of the symbols on: the export table and, after      *)
(* _init() has run, the element of the chain are allocated.                *)
Link_LosesRest(c, f, global) ==   \* mutant: the rest of the chain is lost
  LET w == c.w
      uses == {Resolve(w, s) : s \in Needs[f]}
      m == Malloced(w)
      id == Fresh(m)
  IN  IF ~c.ok \/ Null \in uses THEN Failed(w, c.deps)
      ELSE IF Failing(w) THEN Failed(m, c.deps)
      ELSE IF Failing(m) /\ "last_fails" \in practice
      THEN Failed([Malloced(m) EXCEPT !.chain = <<>>], c.deps)
      ELSE [Malloced(m) EXCEPT
              !.mods = [i \in Live(m) \cup {id} |->
                          IF i = id THEN [file |-> f, global |-> global, inuse |-> 1,
                                          deps |-> c.deps, uses |-> uses]
                          ELSE m.mods[i]],
              !.chain = <<id>>,
              !.ret = id]

Link(c, f, global) ==
  LET w == c.w
      uses == {Resolve(w, s) : s \in Needs[f]}
      m == Malloced(w)
      id == Fresh(m)
  IN  IF ~c.ok \/ Null \in uses THEN Failed(w, c.deps)
      ELSE IF Failing(w) THEN Failed(m, c.deps)
      ELSE IF Failing(m) /\ "last_fails" \in practice
      THEN Failed([Malloced(m) EXCEPT !.chain = <<>>], c.deps)
      ELSE [Malloced(m) EXCEPT
              !.mods = [i \in Live(m) \cup {id} |->
                          IF i = id THEN [file |-> f, global |-> global, inuse |-> 1,
                                          deps |-> c.deps, uses |-> uses]
                          ELSE m.mods[i]],
              !.chain = <<id>> \o @,
              !.ret = id]

(* dlopen().  The first two allocations are those of the header and of the *)
(* tables.                                                                 *)
Open(w, f, global) ==
  LET again == Loaded(w, f)
      m == Malloced(Malloced(w))
  IN  IF f \in Range(w.stk) THEN [w EXCEPT !.ret = Null]
      ELSE IF again # <<>>
      THEN [w EXCEPT !.mods[Head(again)].inuse = @ + 1, !.ret = Head(again)]
      ELSE IF w.k \in {1, 2} THEN [m EXCEPT !.ret = Null]
      ELSE Link(OpenDeps(m, f), f, global)

-----------------------------------------------------------------------------
Held == MapThenSumSet(LAMBDA i : held[i], Id)

dlopen(f, global, k) ==
  LET o == Open(State(k), f, global) IN
  /\ ~ended /\ Held < MaxHeld
  /\ Cardinality(DOMAIN mods) + Cardinality(File) <= MaxId
  /\ mods' = o.mods /\ chain' = o.chain /\ stk_top' = o.stk
  /\ held' = IF o.ret = Null THEN held ELSE [held EXCEPT ![o.ret] = @ + 1]
  /\ UNCHANGED ended

dlclose(id) ==
  LET c == Close(State(0), id) IN
  /\ ~ended /\ held[id] > 0
  /\ mods' = c.mods /\ chain' = c.chain
  /\ held' = [held EXCEPT ![id] = @ - 1]
  /\ UNCHANGED <<stk_top, ended>>

RECURSIVE ClosedAll(_)
ClosedAll(w) == IF w.chain = <<>> THEN w ELSE ClosedAll(Close(w, Head(w.chain)))

_closeall ==
  LET c == ClosedAll(State(0)) IN
  /\ ~ended /\ ended' = TRUE
  /\ mods' = c.mods /\ chain' = c.chain
  /\ held' = [i \in Id |-> 0]
  /\ UNCHANGED stk_top

Ended == ended /\ UNCHANGED vars

Next ==
  /\ \/ \E f \in File, global \in BOOLEAN, k \in FailAt :
          (~global => "local" \in practice) /\ dlopen(f, global, k)
     \/ \E id \in Id : dlclose(id)
     \/ _closeall \/ Ended
  /\ UNCHANGED practice

Spec == Init /\ [][Next]_vars

-----------------------------------------------------------------------------
LiveNow == DOMAIN mods
Implicit(id) ==
  MapThenSumSet(LAMBDA m : Cardinality({i \in DOMAIN mods[m].deps : mods[m].deps[i] = id}),
                LiveNow)

TypeOK ==
  /\ LiveNow \subseteq Id /\ \A i \in LiveNow : mods[i] \in Module
  /\ stk_top \in Seq(File)
  /\ held \in [Id -> 0 .. MaxHeld] /\ ended \in BOOLEAN

(* What is in the chain is in memory, once: no freed module is walked      *)
(* over.  A module counts the handles the program holds and the modules    *)
(* that depend on it (dlopen.c:196, 279-296), through every failure of a   *)
(* load: nothing is freed early and nothing keeps a use that no one will   *)
(* give back.                                                              *)
UsesCounted ==
  /\ TypeOK
  /\ chain \in Seq(LiveNow) /\ IsInjective(chain)
  /\ ~ended =>
       /\ \A i \in LiveNow : mods[i].inuse = held[i] + Implicit(i)
       /\ \A i \in Id : held[i] > 0 => i \in LiveNow
       /\ \A i \in LiveNow : Range(mods[i].deps) \subseteq LiveNow

(* The last malloc() of a load does not fail: when it does, dxe_chain is   *)
(* NULL (dlopen.c:358), and the modules loaded before are not found again. *)
ChainKept == "last_fails" \notin practice

(* What the symbols of a module were resolved to stays in memory as long   *)
(* as the module, when it needs only what it depends on and no two files   *)
(* export a symbol (dlopen.c:302-318, 457-468).                            *)
SymbolsStay == ChainKept => \A i \in LiveNow : mods[i].uses \subseteq LiveNow

(* _closeall() leaves nothing, although modules are also closed by those   *)
(* that depend on them (dlopen.c:102-106).                                 *)
AllClosed == ChainKept /\ ended => LiveNow = {}

(* When the dependencies of a module are loaded, their symbols are found:  *)
(* "Allright, now we're ready to resolve all unresolved symbols"           *)
(* (dlopen.c:299).  So a file that can be loaded at first can be loaded at *)
(* any time, whatever failed before (a file left on the stack would be     *)
(* taken for a loop, dlopen.c:183-188), if no module was opened RTLD_LOCAL *)
(* before.                                                                 *)
AlwaysLoads ==
  "local" \notin practice /\ ~ended
    /\ Cardinality(LiveNow) + Cardinality(File) <= MaxId =>
    \A f \in File :
      Open([State(0) EXCEPT !.mods = <<>>, !.chain = <<>>, !.stk = <<>>], f, TRUE).ret # Null
        => Open(State(0), f, TRUE).ret # Null
=============================================================================
