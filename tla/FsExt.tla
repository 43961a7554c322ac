------------------------------- MODULE FsExt -------------------------------
(***************************************************************************)
(* File system extensions (src/libc/fsext): the table that gives a         *)
(* descriptor a function and data of an extension (fsext.c), and the       *)
(* extension the library brings with it, /dev/zero and /dev/full           *)
(* (fse_zero.c), driven by open, fcntl(F_DUPFD), dup, dup2, _close, the    *)
(* other calls that look a descriptor up, and exit.                        *)
(*                                                                         *)
(* The table is private to a program, but whether it is set up is told by  *)
(* init_count, and the handle to be dup()ed is kept in null_dev_fd, which  *)
(* are statics of all programs that share the libc.  A program runs while  *)
(* its parent waits, so the live programs form a stack; when the last one  *)
(* has exited the host starts another.                                     *)
(*                                                                         *)
(* DOS is external: it keeps the open handles of every program.  The NUL   *)
(* handle is opened not to be inherited, and nothing else is either.       *)
(***************************************************************************)
EXTENDS Integers, FiniteSetsExt, SequencesExt

CONSTANTS NFd,           \* descriptors 1 .. NFd, one chunk of the table
          MaxObj,        \* bound: DEV_DATA objects malloc() hands out
          MaxCount,      \* bound: dup_count of an object
          MaxStarts,     \* bound: programs started
          Practice       \* the circumstances to look at: see below

(* "child": programs run other programs; "dup": programs use dup() and     *)
(* dup2() on descriptors of an extension; "oom": malloc() and realloc()    *)
(* may return NULL.                                                        *)
ASSUME FsExtConstantsOK ==
  /\ NFd \in Nat /\ MaxObj \in Nat /\ MaxCount \in Nat
  /\ MaxStarts \in Nat \ {0}
  /\ Practice \subseteq SUBSET {"child", "dup", "oom"}

Fd == 1 .. NFd
NoFd == -1
Obj == 1 .. MaxObj
Null == 0
Prog == 2 .. MaxStarts + 1
Handle == {"closed", "nul", "file"}

VARIABLES
  W,        \* the statics, the heap and the running program
  rest,     \* the programs that wait, innermost last
  practice  \* what happens in this behaviour; never changes

vars == <<W, rest, practice>>

(* The private part of a program: "id" is its number, "table" whether      *)
(* fsext_list is allocated (num_fds is 0 otherwise), "fn" and "data" its   *)
(* entries, "hook" whether __FSEXT_exit_hook is set, "jft" what DOS has    *)
(* open, "mine" a history: the handles that alloc_fd returned and that     *)
(* were not closed since.                                                  *)
Program == [id : Prog, table : BOOLEAN, fn : [Fd -> BOOLEAN],
            data : [Fd -> Obj \cup {Null}], hook : BOOLEAN,
            jft : [Fd -> Handle], mine : SUBSET Fd]
NewProgram(n) == [id |-> n, table |-> FALSE, fn |-> [f \in Fd |-> FALSE],
                  data |-> [f \in Fd |-> Null], hook |-> FALSE,
                  jft |-> [f \in Fd |-> "closed"], mine |-> {}]

(* "count" and "owner" describe the DEV_DATA objects: dup_count, and the   *)
(* program that opened the device, or 0 once freed.                        *)
World == [bss_count : Nat, init_count : Int, null_dev_fd : Fd \cup {NoFd},
          installed : BOOLEAN, dev_bss : Int, brk : 0 .. MaxObj,
          count : [Obj -> Int], owner : [Obj -> Prog \cup {0}], p : Program]

Init ==
  /\ W = [bss_count |-> 2, init_count |-> -1, null_dev_fd |-> NoFd,
          installed |-> FALSE, dev_bss |-> -1, brk |-> 0,
          count |-> [o \in Obj |-> 0], owner |-> [o \in Obj |-> 0],
          p |-> NewProgram(2)]
  /\ rest = <<>>
  /\ practice \in Practice

MallocOk == IF "oom" \in practice THEN BOOLEAN ELSE {TRUE}

-----------------------------------------------------------------------------
(* fsext.c.  init(): the table is forgotten when a program was started     *)
(* since it ran last, in whatever program.                                 *)
Stale(w) == w.init_count # w.bss_count

init_NoHook(w) ==   \* mutant: the exit hook is not attached
  IF ~Stale(w) THEN w
  ELSE [w EXCEPT !.init_count = w.bss_count,
                 !.p.table = FALSE,
                 !.p.fn = [f \in Fd |-> FALSE],
                 !.p.data = [f \in Fd |-> Null]]

init(w) ==
  IF ~Stale(w) THEN w
  ELSE [w EXCEPT !.init_count = w.bss_count,
                 !.p.table = FALSE,
                 !.p.fn = [f \in Fd |-> FALSE],
                 !.p.data = [f \in Fd |-> Null],
                 !.p.hook = TRUE]

(* grow_table(); ok: realloc() succeeds if it is called. *)
Grown(w, ok) == LET i == init(w) IN [i EXCEPT !.p.table = @ \/ ok]

set_function(w, fd, fn, ok) ==
  LET g == Grown(w, ok) IN
  IF g.p.table THEN [g EXCEPT !.p.fn[fd] = fn] ELSE g

(* A FALSE or Null entry is also what lies beyond num_fds. *)
get_function(w, fd) == init(w).p.fn[fd]
get_data(w, fd) == init(w).p.data[fd]

FreeFds(w) == {f \in Fd : w.p.jft[f] = "closed"}

(* The NUL device is opened at the first time, and when that had failed. *)
OpenNul(w) ==
  IF ~Stale(w) /\ w.null_dev_fd # NoFd THEN w
  ELSE IF FreeFds(w) = {} THEN [init(w) EXCEPT !.null_dev_fd = NoFd]
  ELSE [init(w) EXCEPT !.null_dev_fd = Min(FreeFds(w)),
                       !.p.jft[Min(FreeFds(w))] = "nul"]

(* __FSEXT_alloc_fd(dev_fsext) dup()s that handle.  NoFd is its failure;   *)
(* the result of set_function is not looked at.                            *)
AllocFd(w) ==
  LET o == OpenNul(w) IN
  IF \/ o.null_dev_fd = NoFd
     \/ o.p.jft[o.null_dev_fd] = "closed"
     \/ FreeFds(o) = {}
  THEN NoFd ELSE Min(FreeFds(o))

alloc_fd(w, ok) ==
  LET o == OpenNul(w)
      fd == AllocFd(w)
  IN  IF fd = NoFd THEN o
      ELSE set_function([o EXCEPT !.p.jft[fd] = o.p.jft[o.null_dev_fd],
                                  !.p.mine = @ \cup {fd}], fd, TRUE, ok)

-----------------------------------------------------------------------------
(* fse_zero.c.  open("/dev/zero"): alloc and again say whether the table   *)
(* can be allocated for the function and for the data, mem whether the     *)
(* DEV_DATA can.  What fails after the descriptor was allocated leaves it  *)
(* open.                                                                   *)
OpenDev(w, alloc, mem, again) ==
  LET fd == AllocFd(w)
      a == alloc_fd(w, alloc)
      o == w.brk + 1
      g == [Grown(a, again) EXCEPT !.brk = o, !.count[o] = 1,
                                   !.owner[o] = w.p.id]
  IN  IF fd = NoFd \/ ~mem THEN a
      ELSE IF g.p.table THEN [g EXCEPT !.p.data[fd] = o] ELSE g

DosClose(w, fd) == [w EXCEPT !.p.jft[fd] = "closed",
                             !.p.mine = @ \ {fd}]

(* Its __FSEXT_close: the handle is closed only if there is data. *)
CloseDev_FreeAlways(w, fd) ==   \* mutant: dup_count is not looked at
  LET o == get_data(w, fd)
      i == init(w)
      c == [i EXCEPT !.p.data[fd] = Null, !.p.fn[fd] = FALSE]
  IN  IF o = Null THEN [i EXCEPT !.p.fn[fd] = FALSE]
      ELSE DosClose([c EXCEPT !.count[o] = @ - 1, !.owner[o] = 0], fd)

CloseDev(w, fd) ==
  LET o == get_data(w, fd)
      i == init(w)
      c == [i EXCEPT !.p.data[fd] = Null, !.p.fn[fd] = FALSE]
  IN  IF o = Null THEN [i EXCEPT !.p.fn[fd] = FALSE]
      ELSE DosClose([c EXCEPT !.count[o] = @ - 1,
                              !.owner[o] = IF c.count[o] <= 1 THEN 0 ELSE @],
                    fd)

(* _close(). *)
CloseFd(w, fd) ==
  IF get_function(w, fd) THEN CloseDev(w, fd) ELSE DosClose(init(w), fd)

(* internal_dup(), for fcntl(fd, F_DUPFD): fd has data, so that the table  *)
(* is there and needs no memory.                                           *)
DupDev_NoData(w, fd) ==   \* mutant: the copy has no data
  LET new == AllocFd(w)
      a == alloc_fd(w, TRUE)
      o == a.p.data[fd]
  IN  IF new = NoFd \/ o = Null THEN a ELSE [a EXCEPT !.count[o] = @ + 1]

DupDev(w, fd) ==
  LET new == AllocFd(w)
      a == alloc_fd(w, TRUE)
      o == a.p.data[fd]
  IN  IF new = NoFd THEN a
      ELSE IF o = Null THEN CloseFd(a, new)
      ELSE [a EXCEPT !.p.data[new] = o, !.count[o] = @ + 1]

-----------------------------------------------------------------------------
Step(w) == W' = w /\ UNCHANGED rest

(* __install_dev_zero(); a program that has not run before starts anew. *)
Install ==
  /\ ~(W.installed /\ W.dev_bss = W.bss_count)
  /\ Step([W EXCEPT !.installed = TRUE, !.dev_bss = W.bss_count])

(* open() of the device, which func_list leads to once it was installed. *)
Open ==
  /\ W.installed
  /\ W.brk < MaxObj
  /\ \E alloc, mem, again \in MallocOk : Step(OpenDev(W, alloc, mem, again))

(* open() of an ordinary file. *)
OpenFile ==
  /\ FreeFds(W) # {}
  /\ Step([W EXCEPT !.p.jft[Min(FreeFds(W))] = "file"])

(* write(), read(), lseek() and others ask for the function first. *)
Lookup ==
  /\ Stale(W)
  /\ Step(init(W))

(* The descriptors a program was given; the one of NUL is not among them. *)
Owned(fd) == W.p.jft[fd] = "file" \/ fd \in W.p.mine

close(fd) ==
  /\ Owned(fd)
  /\ Step(CloseFd(W, fd))

fcntl_dupfd(fd) ==
  /\ Owned(fd)
  /\ get_function(W, fd) /\ get_data(W, fd) # Null
  /\ W.count[W.p.data[fd]] < MaxCount
  /\ Step(DupDev(W, fd))

(* dup() and dup2(): the function of the extension goes with the handle. *)
CopyFn(w, fd, new, ok) == set_function(w, new, get_function(w, fd), ok)

dup(fd) ==
  /\ Owned(fd) /\ FreeFds(W) # {}
  /\ get_function(W, fd) => "dup" \in practice
  /\ \E ok \in MallocOk :
       LET new == Min(FreeFds(W)) IN
         Step(CopyFn([W EXCEPT !.p.jft[new] = W.p.jft[fd],
                               !.p.mine = IF fd \in @ THEN @ \cup {new} ELSE @],
                     fd, new, ok))

dup2(fd, new) ==
  /\ Owned(fd) /\ fd # new
  /\ Owned(new) \/ W.p.jft[new] = "closed"
  /\ get_function(W, fd) \/ get_function(W, new) => "dup" \in practice
  /\ \E ok \in MallocOk :
       LET cleared == set_function(W, new, FALSE, ok)
           dupped == [cleared EXCEPT !.p.jft[new] = W.p.jft[fd],
                                     !.p.mine = IF fd \in @ THEN @ \cup {new}
                                                ELSE @ \ {new}]
       IN  Step(CopyFn(dupped, fd, new, ok))

(* A program starts another one. *)
Start ==
  /\ "child" \in practice
  /\ W.bss_count <= MaxStarts
  /\ rest' = Append(rest, W.p)
  /\ W' = [W EXCEPT !.bss_count = @ + 1, !.p = NewProgram(W.bss_count + 1)]

(* __FSEXT_close_all(), which the hook of exit() calls.  The loop reads    *)
(* the table anew every time, and the table may be lost on the way.        *)
CloseIfExt(w, fd) == IF w.p.fn[fd] THEN CloseFd(w, fd) ELSE w
CloseUpTo(w) ==
  LET closed[fd \in 0 .. NFd] ==
        IF fd = 0 THEN w ELSE CloseIfExt(closed[fd - 1], fd)
  IN  closed
CloseAll(w) ==
  IF w.p.table THEN CloseUpTo([w EXCEPT !.p.hook = FALSE])[NFd] ELSE w

Exited(w) == IF w.p.hook THEN CloseAll(w) ELSE w

(* exit(): the parent goes on, or the host starts the next program. *)
ProgramExit ==
  \/ /\ rest # <<>>
     /\ W' = [Exited(W) EXCEPT !.p = Last(rest)]
     /\ rest' = Front(rest)
  \/ /\ rest = <<>>
     /\ W.bss_count <= MaxStarts
     /\ W' = [Exited(W) EXCEPT !.bss_count = @ + 1,
                               !.p = NewProgram(W.bss_count + 1)]
     /\ UNCHANGED rest

Next ==
  /\ \/ Install \/ Open \/ OpenFile \/ Lookup \/ Start \/ ProgramExit
     \/ \E fd \in Fd : close(fd) \/ fcntl_dupfd(fd) \/ dup(fd)
     \/ \E fd, new \in Fd : dup2(fd, new)
  /\ UNCHANGED practice

Spec == Init /\ [][Next]_vars

-----------------------------------------------------------------------------
(* The variables hold what fsext.c and fse_zero.c declare; what a program  *)
(* without a table has there is nothing.                                   *)
TypeOK ==
  /\ W \in World
  /\ rest \in Seq(Program)
  /\ ~W.p.table => \A f \in Fd : ~W.p.fn[f] /\ W.p.data[f] = Null

Programs == {W.p} \cup Range(rest)
RefsOf(p, o) == Cardinality({f \in Fd : p.data[f] = o})
Live(o) == W.owner[o] # 0

(* dup_count covers the descriptors that lead to the data (fse_zero.c:86,  *)
(* 405), whatever dup2() overwrote and whatever could not be allocated: no *)
(* close of one frees what another one still leads to, and none leads to   *)
(* what another program opened.  The table is as declared.                 *)
Counted ==
  /\ TypeOK
  /\ \A p \in Programs : \A o \in Obj :
       RefsOf(p, o) > 0 => W.owner[o] = p.id /\ RefsOf(p, o) <= W.count[o]

(* What a program opened and has not closed is still a device to read(),   *)
(* write() and close(), whichever program ran before (fsext.c:91,          *)
(* fse_zero.c:272).  A descriptor made by dup() is left out: it has the    *)
(* function and no data, "Support for dup()" (fse_zero.c:32) being only    *)
(* for fcntl(F_DUPFD).                                                     *)
DeviceWorks ==
  practice = {} => \A f \in W.p.mine : get_function(W, f) /\ get_data(W, f) # Null

(* The data of a program that exited is freed by __FSEXT_close_all(), and  *)
(* while it runs, a live object has exactly as many descriptors as it      *)
(* counts: nothing leaks (fsext.c:159, fse_zero.c:407).  As long as        *)
(* programs run one after another, one that has a descriptor of an         *)
(* extension has its hook attached: "Attach our hook to close all of the   *)
(* remaining open extensions" (fsext.c:51).                                *)
Tidied ==
  /\ practice = {} => \A o \in Obj : Live(o) =>
       \E p \in Programs : p.id = W.owner[o] /\ RefsOf(p, o) = W.count[o]
  /\ "child" \notin practice => \A f \in Fd : W.p.fn[f] => W.p.hook
=============================================================================
