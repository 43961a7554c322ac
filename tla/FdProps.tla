------------------------------- MODULE FdProps -------------------------------
(***************************************************************************)
(* File descriptor properties (src/libc/dos/io/fd_props.c): the reference- *)
(* counted objects behind __fd_properties[], the list of active objects    *)
(* and the cache of free ones, and the deletion of files opened with       *)
(* O_TEMPORARY, as driven by open, _open, llseek, dup, dup2, _close and    *)
(* exit.                                                                   *)
(*                                                                         *)
(* The statics of fd_props.c are not among the swapped contexts of         *)
(* djctx.h: with a dynamically linked libc all programs share them.  Only  *)
(* __fd_properties_cleanup_hook is private to a program (exit.c).  A       *)
(* program runs to its end while its parent waits, so the programs that    *)
(* are alive form a stack and only the innermost one moves.                *)
(*                                                                         *)
(* DOS is external: it keeps the open files of every program and lets a    *)
(* child inherit some of its parent's.                                     *)
(***************************************************************************)
EXTENDS Naturals, FiniteSets, FiniteSetsExt, SequencesExt

CONSTANTS NFd,           \* descriptors 1 .. NFd, in place of 0 .. 254
          MaxRef,        \* largest value of ref_count, an unsigned char: 255
          Name,          \* canonical file names
          NoName,        \* the NULL filename, and no file
          MaxObj,        \* bound: fd_properties objects malloc() hands out
          MaxObjOom,     \* the same where malloc() may also fail
          MaxStarts      \* bound: programs started

ASSUME FdConstantsOK ==
  /\ NFd \in Nat /\ MaxObj \in Nat /\ MaxObjOom \in 0 .. MaxObj
  /\ MaxStarts \in Nat
  /\ MaxRef \in Nat /\ NFd <= MaxRef
  /\ NoName \notin Name

Fd == 1 .. NFd
Obj == 1 .. MaxObj
Null == 0
Ptr == Obj \cup {Null}
Prog == 1 .. MaxStarts

VARIABLES
  P,          \* the statics of fd_props.c, and the files they speak about
  bss_count,  \* __bss_count
  depth,      \* number of programs alive; program "depth" is running
  hook,       \* hook[d]: program d has set __fd_properties_cleanup_hook
  jft,        \* jft[d][fd]: the file DOS has open for program d, or NoName
  tmp,        \* history: tmp[d] the files program d opened O_TEMPORARY and
              \* that were not removed since
  oom         \* whether malloc() may return NULL; never changes

vars == <<P, bss_count, depth, hook, jft, tmp, oom>>

(***************************************************************************)
(* P as a record: "table" is __fd_properties[], "mem" whether it is        *)
(* allocated, "active" and "cached" the list heads, "item" the objects,    *)
(* "brk" how many were malloc()ed, "old" old_bss_count, "files" the files  *)
(* on disk, "crashed" a NULL dereference or a search without end.          *)
(***************************************************************************)
Item == [ref : 0 .. MaxRef, name : Name \cup {NoName}, temp : BOOLEAN,
         next : Ptr, prev : Ptr]
NewItem == [ref |-> 1, name |-> NoName, temp |-> FALSE,
            next |-> Null, prev |-> Null]
State == [table : [Fd -> Ptr], mem : BOOLEAN, active : Ptr, cached : Ptr,
          item : [Obj -> Item], brk : 0 .. MaxObj, old : Nat,
          files : SUBSET Name, crashed : BOOLEAN]
NoFds == [f \in Fd |-> Null]
NoFiles == [f \in Fd |-> NoName]

(* ++ and -- on ref_count wrap around. *)
Incr(n) == (n + 1) % (MaxRef + 1)
Decr(n) == (n + MaxRef) % (MaxRef + 1)

has_fd_properties(s, fd) == s.mem /\ s.table[fd] # Null

(***************************************************************************)
(* The doubly linked lists: insert_list and remove_list, on the objects    *)
(* and one head pointer.                                                   *)
(***************************************************************************)
insert_list(l, i) ==
  LET linked == [l.item EXCEPT ![i].next = l.head, ![i].prev = Null] IN
    [item |-> IF l.head = Null THEN linked
                               ELSE [linked EXCEPT ![l.head].prev = i],
     head |-> i]

remove_list(l, i) ==
  LET before == l.item[i].prev
      fwd    == IF before = Null THEN l.item
                ELSE [l.item EXCEPT ![before].next = l.item[i].next,
                                    ![i].prev = Null]
      after  == fwd[i].next
      bwd    == IF after = Null THEN fwd
                ELSE [fwd EXCEPT ![after].prev = fwd[i].prev,
                                 ![i].next = Null]
  IN [item |-> bwd, head |-> IF l.head = i THEN bwd[i].next ELSE l.head]

OnActive(s, l) == [s EXCEPT !.item = l.item, !.active = l.head]
OnCached(s, l) == [s EXCEPT !.item = l.item, !.cached = l.head]
ActiveList(s) == [item |-> s.item, head |-> s.active]
CachedList(s) == [item |-> s.item, head |-> s.cached]

(* The k-th object of the list that starts at head, Null behind its end.   *)
Nth(s, head) ==
  LET at[k \in 0 .. MaxObj] ==
        IF k = 0 THEN head
        ELSE IF at[k - 1] = Null THEN Null ELSE s.item[at[k - 1]].next
  IN at
Listed(s, head) == {Nth(s, head)[k] : k \in 0 .. MaxObj} \ {Null}

(***************************************************************************)
(* find_eq_filename: where the search stops.  It looks at a filename that  *)
(* is NULL (stricmp() dereferences it) or goes round for ever when the     *)
(* list is not what it should be.                                          *)
(***************************************************************************)
find_eq_filename(s, o) ==
  LET at == Nth(s, s.active)
      stops == {k \in 0 .. MaxObj :
                  \/ at[k] = Null
                  \/ /\ at[k] # o
                     /\ s.item[at[k]].name \in {NoName, s.item[o].name}}
  IN IF stops = {} THEN [ok |-> FALSE, ptr |-> Null]
     ELSE LET p == at[Min(stops)] IN
            [ok |-> p = Null \/ s.item[p].name # NoName, ptr |-> p]

close_fd_forgetful(s, o) ==       \* mutant: the other descriptor is not marked
  IF s.item[o].temp /\ find_eq_filename(s, o) = [ok |-> TRUE, ptr |-> Null]
  THEN [s EXCEPT !.files = @ \ {s.item[o].name}]
  ELSE s

close_fd(s, o) ==
  LET other == find_eq_filename(s, o) IN
    IF ~s.item[o].temp THEN s
    ELSE IF ~other.ok THEN [s EXCEPT !.crashed = TRUE]
    ELSE IF other.ptr # Null THEN [s EXCEPT !.item[other.ptr].temp = TRUE]
    ELSE [s EXCEPT !.files = @ \ {s.item[o].name}]

free_fd_properties(s, o) ==
  LET t == OnActive(s, remove_list(ActiveList(s), o)) IN
    OnCached(t, insert_list(CachedList(t), o))

(* The outcomes of malloc() and of alloc_fd_properties: the state, and the *)
(* object or Null.  MaxObj bounds how often malloc() succeeds.             *)
When(cond, x) == IF cond THEN {x} ELSE {}

Malloc(s) ==
  When(s.brk < (IF oom THEN MaxObjOom ELSE MaxObj),
       [s |-> [s EXCEPT !.brk = @ + 1, !.item[s.brk + 1] = NewItem],
        o |-> s.brk + 1])
  \cup When(oom, [s |-> s, o |-> Null])

alloc_keeping_cached(s) ==        \* mutant: the object stays in the cache
  IF s.cached # Null
  THEN {[s |-> [s EXCEPT !.item[s.cached] = NewItem], o |-> s.cached]}
  ELSE Malloc(s)

alloc_fd_properties(s) ==
  IF s.cached # Null
  THEN LET t == OnCached(s, remove_list(CachedList(s), s.cached)) IN
         {[s |-> [t EXCEPT !.item[s.cached].prev = Null,
                           !.item[s.cached].next = Null,
                           !.item[s.cached].ref = 1],
           o |-> s.cached]}
  ELSE Malloc(s)

(* open_fd, for the O_TEMPORARY bit.                                       *)
open_fd(s, o, temporary) ==
  [s EXCEPT !.item[o].temp = temporary /\ s.item[o].name # NoName]

(***************************************************************************)
(* __set_fd_properties: the possible states it leaves.  The first call     *)
(* after a program was started throws everything away.                     *)
(***************************************************************************)
Reset(s) ==
  LET fresh == [s EXCEPT !.old = bss_count, !.active = Null, !.cached = Null]
  IN {[fresh EXCEPT !.mem = TRUE, !.table = NoFds]}
     \cup When(oom, [fresh EXCEPT !.mem = FALSE, !.table = NoFds])

Attach(s, fd, name) ==
  {IF a.o = Null THEN a.s
   ELSE LET t == [a.s EXCEPT !.table[fd] = a.o, !.item[a.o].name = name] IN
          OnActive(t, insert_list(ActiveList(t), a.o)) :
     a \in alloc_fd_properties(s)}

SetOnTable(s, fd, name, temporary) ==
  IF ~s.mem THEN {[s EXCEPT !.crashed = TRUE]}
  ELSE {IF t.table[fd] = Null THEN t ELSE open_fd(t, t.table[fd], temporary) :
          t \in IF s.table[fd] = Null THEN Attach(s, fd, name) ELSE {s}}

set_fd_properties(s, fd, name, temporary) ==
  IF s.old = bss_count THEN SetOnTable(s, fd, name, temporary)
  ELSE UNION {IF t.mem THEN SetOnTable(t, fd, name, temporary) ELSE {t} :
                t \in Reset(s)}

dup_without_count(s, from, to) == \* mutant: ref_count not incremented
  IF has_fd_properties(s, from)
  THEN [s EXCEPT !.table[to] = s.table[from]]
  ELSE s

dup_fd_properties(s, from, to) ==
  IF has_fd_properties(s, from)
  THEN [s EXCEPT !.table[to] = s.table[from],
                 !.item[s.table[from]].ref = Incr(@)]
  ELSE s

clear_keeping_entry(s, fd) ==     \* mutant: the descriptor keeps its object
                                  \* (and ref_count is signed)
  LET o == s.table[fd]
      t == [s EXCEPT !.item[o].ref = @ - 1]
      c == close_fd(t, o)
  IN IF ~has_fd_properties(s, fd) THEN s
     ELSE IF t.item[o].ref > 0 THEN t
     ELSE free_fd_properties([c EXCEPT !.item[o].name = NoName], o)

(* __clear_fd_properties behind its callers' __has_fd_properties().        *)
clear_fd_properties(s, fd) ==
  LET o == s.table[fd]
      t == [s EXCEPT !.item[o].ref = Decr(@)]
      c == close_fd(t, o)
      d == IF t.item[o].ref > 0 THEN t
           ELSE IF c.crashed THEN c
           ELSE free_fd_properties([c EXCEPT !.item[o].name = NoName], o)
  IN IF has_fd_properties(s, fd) THEN [d EXCEPT !.table[fd] = Null] ELSE s

(* exit_cleanup: _close() of every descriptor with properties.  A          *)
(* descriptor DOS does not have open keeps them.                           *)
exit_cleanup(s, open) ==
  LET closed[fd \in 0 .. NFd] ==
        IF fd = 0 THEN s
        ELSE IF closed[fd - 1].crashed \/ open[fd] = NoName THEN closed[fd - 1]
        ELSE clear_fd_properties(closed[fd - 1], fd)
  IN IF ~s.mem \/ s.active = Null THEN s ELSE closed[NFd]

-----------------------------------------------------------------------------
Init ==
  /\ P = [table |-> NoFds, mem |-> FALSE, active |-> Null, cached |-> Null,
          item |-> [o \in Obj |-> [NewItem EXCEPT !.ref = 0]], brk |-> 0,
          old |-> 0, files |-> {}, crashed |-> FALSE]
  /\ bss_count = 1
  /\ depth = 0
  /\ hook = [d \in Prog |-> FALSE]
  /\ jft = [d \in Prog |-> NoFiles]
  /\ tmp = [d \in Prog |-> {}]
  /\ oom \in BOOLEAN

Running == depth > 0 /\ ~P.crashed
IsOpen(fd) == jft[depth][fd] # NoName

(* The history of temporary files after a step that left P'.               *)
Forget(t) == [d \in Prog |-> t[d] \cap P'.files]

(* The hook is set where the table is allocated.                           *)
SetHook == hook' = [hook EXCEPT ![depth] = @ \/ (P'.old # P.old /\ P'.mem)]

(* _truename() of __set_fd_properties(): it allocates the name. *)
Truename(name) == {name} \cup When(oom, NoName)

(* open() of a file that exists, or with O_CREAT, on the free handle fd.   *)
Open(fd, name, temporary) ==
  /\ Running /\ ~IsOpen(fd)
  /\ jft' = [jft EXCEPT ![depth][fd] = name]
  /\ \E n \in Truename(name) :
       P' \in set_fd_properties([P EXCEPT !.files = @ \cup {name}], fd, n, temporary)
  /\ SetHook
  /\ tmp' = [tmp EXCEPT ![depth] = IF temporary THEN @ \cup {name} ELSE @]
  /\ UNCHANGED <<bss_count, depth>>

(* _open() or _creat(): DOS opens the file, no properties.                 *)
RawOpen(fd, name) ==
  /\ Running /\ ~IsOpen(fd)
  /\ jft' = [jft EXCEPT ![depth][fd] = name]
  /\ P' = [P EXCEPT !.files = @ \cup {name}]
  /\ UNCHANGED <<bss_count, depth, hook, tmp>>

(* llseek() forward on a descriptor without properties.                    *)
Llseek(fd) ==
  /\ Running /\ IsOpen(fd)
  /\ ~has_fd_properties(P, fd)
  /\ P' \in set_fd_properties(P, fd, NoName, FALSE)
  /\ SetHook
  /\ UNCHANGED <<bss_count, depth, jft, tmp>>

Close(fd) ==
  /\ Running /\ IsOpen(fd)
  /\ jft' = [jft EXCEPT ![depth][fd] = NoName]
  /\ P' = clear_fd_properties(P, fd)
  /\ tmp' = Forget(tmp)
  /\ UNCHANGED <<bss_count, depth, hook>>

Dup(from, to) ==
  /\ Running /\ IsOpen(from) /\ ~IsOpen(to)
  /\ jft' = [jft EXCEPT ![depth][to] = jft[depth][from]]
  /\ P' = dup_fd_properties(P, from, to)
  /\ UNCHANGED <<bss_count, depth, hook, tmp>>

(* dup2(): DOS closes newfd and reopens it as fd, then the properties      *)
(* follow.                                                                 *)
Dup2(fd, newfd) ==
  /\ Running /\ IsOpen(fd) /\ fd # newfd
  /\ jft' = [jft EXCEPT ![depth][newfd] = jft[depth][fd]]
  /\ LET c == clear_fd_properties(P, newfd) IN
       P' = IF c.crashed THEN c ELSE dup_fd_properties(c, fd, newfd)
  /\ tmp' = Forget(tmp)
  /\ UNCHANGED <<bss_count, depth, hook>>

(* A program starts (__crt1_startup): by the running one, or from DOS.  It *)
(* inherits the handles in S.                                              *)
Start(S) ==
  /\ ~P.crashed
  /\ bss_count <= MaxStarts
  /\ bss_count' = bss_count + 1
  /\ depth' = depth + 1
  /\ S \subseteq {fd \in Fd : depth > 0 /\ IsOpen(fd)}
  /\ jft' = [jft EXCEPT ![depth + 1] =
               [fd \in Fd |-> IF fd \in S THEN jft[depth][fd] ELSE NoName]]
  /\ hook' = [hook EXCEPT ![depth + 1] = FALSE]
  /\ UNCHANGED <<P, tmp>>

(* exit(): the cleanup hook runs, DOS closes what is left open.            *)
Exit ==
  /\ Running
  /\ P' = IF hook[depth] THEN exit_cleanup(P, jft[depth]) ELSE P
  /\ jft' = [jft EXCEPT ![depth] = NoFiles]
  /\ tmp' = [Forget(tmp) EXCEPT ![depth] = {}]
  /\ depth' = depth - 1
  /\ UNCHANGED <<bss_count, hook>>

Step ==
  \/ \E fd \in Fd, n \in Name, t \in BOOLEAN : Open(fd, n, t)
  \/ \E fd \in Fd, n \in Name : RawOpen(fd, n)
  \/ \E fd \in Fd : Llseek(fd) \/ Close(fd)
  \/ \E fd, to \in Fd : Dup(fd, to) \/ Dup2(fd, to)
  \/ \E S \in SUBSET Fd : Start(S)
  \/ Exit

Next == Step /\ UNCHANGED oom

Spec == Init /\ [][Next]_vars

-----------------------------------------------------------------------------
(* Every variable stays in its type: pointers are NULL or objects that     *)
(* malloc() returned, ref_count is in the range of its type.               *)
TypeOK ==
  /\ P \in State
  /\ bss_count \in 1 .. MaxStarts + 1
  /\ depth \in 0 .. MaxStarts
  /\ hook \in [Prog -> BOOLEAN]
  /\ jft \in [Prog -> [Fd -> Name \cup {NoName}]]
  /\ tmp \in [Prog -> SUBSET Name]
  /\ oom \in BOOLEAN

Users(o) == {fd \in Fd : P.table[fd] = o}
InUse == {o \in Obj : Users(o) # {}}

(* ref_count is the number of descriptors that share the object, through   *)
(* every order of open, dup, dup2 and close: an object is finalized by the *)
(* close of its last descriptor and by no other.                           *)
RefCountRight ==
  ~P.crashed => \A o \in InUse : P.item[o].ref = Cardinality(Users(o))

(* The properties of a descriptor are those of the file that DOS has open  *)
(* on it (or have no name, after llseek()): an object that was freed,      *)
(* cached and handed out again never serves two files.  And all variables  *)
(* stay in their types.                                                    *)
OwnName ==
  TypeOK /\ (~P.crashed => \A fd \in Fd :
     has_fd_properties(P, fd) /\ depth > 0 =>
       P.item[P.table[fd]].name \in {NoName, jft[depth][fd]})

(* As long as a file opened with O_TEMPORARY exists, a descriptor that is  *)
(* open on it carries the flag, so that a later close deletes the file,    *)
(* whatever the order in which the descriptors of that file are closed, as *)
(* long as malloc() succeeds.  Nothing is said of a file deleted early: a  *)
(* list that remove_list() damaged hides the other descriptors of a file   *)
(* from close_fd().                                                        *)
TempTracked ==
  ~oom /\ ~P.crashed => \A d \in Prog : \A n \in tmp[d] :
     \E o \in InUse : P.item[o].name = n /\ P.item[o].temp

(* The comment of cached_fds: it lists objects that are not in use.  So    *)
(* alloc_fd_properties() hands out none that a descriptor still has,       *)
(* although remove_list() damages the lists.                               *)
CacheUnused ==
  ~P.crashed => Listed(P, P.cached) \cap InUse = {}

(* The comment of exit_cleanup: when a program has exited, the files it    *)
(* opened as temporary are gone, unless a program still has them open.     *)
TempGoneAtExit ==
  [][~oom /\ depth' < depth /\ ~P'.crashed =>
       \A n \in tmp[depth] : n \in P'.files =>
         \E d \in 1 .. depth', fd \in Fd : jft'[d][fd] = n]_vars
=============================================================================
