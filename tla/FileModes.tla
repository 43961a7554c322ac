----------------------------- MODULE FileModes -----------------------------
(***************************************************************************)
(* The text and binary modes of descriptors (src/libc/dos/io/dosio.c): a   *)
(* table of 20 modes that is exchanged for one of 255 when the descriptor  *)
(* 19 is met, DOS being told then to allow more handles.  setmode(),       *)
(* open(), dup(), dup2(), and move_fd() of open(), which carries the       *)
(* descriptor of a directory above 19, read and write it.                  *)
(*                                                                         *)
(* A directory's descriptor is dup()ed off NUL, which __FSEXT_alloc_fd()   *)
(* (fsext.c) opens on the side.                                            *)
(*                                                                         *)
(* The state is private to a program except __bss_count, by which the      *)
(* table is thought to belong to an earlier run, and the statics           *)
(* init_count and null_dev_fd of fsext.c.  One program is modelled, and of *)
(* the programs it runs what they do to these.                             *)
(*                                                                         *)
(* DOS is external: it hands out the lowest free handle below the limit it *)
(* was told, and may refuse to raise the limit.  The malloc() of           *)
(* dosio.c:91 is taken to succeed: the result is not tested, a program     *)
(* without memory writes through NULL there and has no state afterwards.   *)
(***************************************************************************)
EXTENDS Integers, FiniteSetsExt

CONSTANTS Small,      \* 20: the descriptors the first table holds
          Big,        \* 255: the descriptors the second one holds
          NText,      \* 3: the standard descriptors in text mode
          NStd,       \* 5: the standard descriptors
          MaxStarts   \* bound: programs started

ASSUME FileModesConstantsOK ==
  /\ Small \in Nat /\ Big \in Nat /\ NText \in Nat /\ NStd \in Nat
  /\ NText <= NStd /\ NStd < Small /\ Small < Big
  /\ MaxStarts \in Nat

Fd == 0 .. Big - 1
NoFd == -1
Bits == {"O_BINARY", "O_TEXT"}
Mode == SUBSET Bits
Binary == {"O_BINARY"}
Text == {"O_TEXT"}
Flip(mode) == Bits \ mode

VARIABLES
  bss_count,  \* __bss_count
  p,          \* struct fh_state of the program, with its DOS handles
  more,       \* whether DOS allows more handles at the next request
  children    \* whether the program runs other programs; never changes

vars == <<bss_count, p, more, children>>

(* "init" is init_file_handle_modes, "table" the larger one once "grown"   *)
(* says that __file_handle_modes leads to it, "bss" dosio_bss_count;       *)
(* "limit" and "open" are what DOS keeps.  "nul" is null_dev_fd and        *)
(* "fresh" whether init_count differs from __bss_count: fsext.c was not    *)
(* called yet.  "want" is a history: the modes the program asked for, {}   *)
(* for what it did not open itself.                                        *)
Program == [init : [0 .. Small - 1 -> Mode], grown : BOOLEAN,
            table : [Fd -> Mode], bss : Int, count : {Small, Big},
            limit : {Small, Big}, open : SUBSET Fd, want : [Fd -> Mode],
            fresh : BOOLEAN, nul : Fd \cup {NoFd}]

InitMode(f) == IF f < NText THEN Text ELSE IF f < NStd THEN Binary ELSE {}

NewProgram(n) ==
  [init |-> [f \in 0 .. Small - 1 |-> InitMode(f)],
   grown |-> FALSE, table |-> [f \in Fd |-> {}], bss |-> -1,
   count |-> Small, limit |-> Small, open |-> 0 .. NStd - 1,
   want |-> [f \in Fd |-> InitMode(f)], fresh |-> TRUE, nul |-> n]

(* null_dev_fd is what an earlier program left. *)
Init ==
  /\ bss_count = 2
  /\ \E n \in Fd \cup {NoFd} : p = NewProgram(n)
  /\ more \in BOOLEAN
  /\ children \in BOOLEAN

(* The descriptors the program has, and those open for NUL. *)
Own(q) == {f \in q.open : q.want[f] # {}}
Nul(q) == {f \in q.open : q.want[f] = {}}

-----------------------------------------------------------------------------
(* __file_handle_modes[fd] *)
Modes(q, fd) == IF q.grown THEN q.table[fd] ELSE q.init[fd]

(* __file_handle_set() in three parts: a table of another run is not       *)
(* counted on, the table is expanded, the value is filled in.              *)
Recounted_Reset(q) ==   \* mutant: the grown table is given up
  IF q.bss = bss_count THEN q
  ELSE [q EXCEPT !.bss = bss_count, !.count = Small, !.grown = FALSE]

Recounted(q) ==
  IF q.bss = bss_count THEN q
  ELSE [q EXCEPT !.bss = bss_count, !.count = Small]

Expanded_Late(q, fd) ==   \* mutant: the table grows one descriptor late
  IF fd >= q.count /\ q.count < Big
  THEN [q EXCEPT !.count = Big, !.grown = TRUE,
                 !.limit = IF more THEN Big ELSE @,
                 !.table = [f \in Fd |-> IF f < Small THEN q.init[f] ELSE {}]]
  ELSE q

Expanded_NoCopy(q, fd) ==   \* mutant: the old modes are not copied
  IF fd >= q.count - 1 /\ q.count < Big
  THEN [q EXCEPT !.count = Big, !.grown = TRUE,
                 !.limit = IF more THEN Big ELSE @,
                 !.table = [f \in Fd |-> {}]]
  ELSE q

(* The result of int 21h/67h is not looked at. *)
Expanded(q, fd) ==
  IF fd >= q.count - 1 /\ q.count < Big
  THEN [q EXCEPT !.count = Big, !.grown = TRUE,
                 !.limit = IF more THEN Big ELSE @,
                 !.table = [f \in Fd |-> IF f < Small THEN q.init[f] ELSE {}]]
  ELSE q

FileHandleSet(q, fd, mode) ==
  LET e == Expanded(Recounted(q), fd) IN
  IF e.grown THEN [e EXCEPT !.table[fd] = mode]
             ELSE [e EXCEPT !.init[fd] = mode]

(* DOS: the lowest handle that is free. *)
Handles(q) == {f \in Fd : f < q.limit /\ f \notin q.open}
Lowest(q) == IF Handles(q) = {} THEN NoFd ELSE Min(Handles(q))
Opened(q, fd) == [q EXCEPT !.open = @ \cup {fd}]
Closed(q, fd) == [q EXCEPT !.open = @ \ {fd}]

(* setmode() keeps no other bits, as none are ever set. *)
SetMode(q, fd, mode) == FileHandleSet(q, fd, mode)

(* dup(): its argument is read before setmode() is entered. *)
Dupped(q, fd, new) == SetMode(Opened(q, new), new, Modes(q, fd))

(* init() of fsext.c, reached through every lookup of a function. *)
Looked(q) == [q EXCEPT !.fresh = FALSE]

-----------------------------------------------------------------------------
(* A program uses the descriptors it opened; it may close any, or dup2()   *)
(* over it, as a loop over all descriptors does.                           *)
setmode(fd, mode) ==
  /\ fd \in Own(p)
  /\ p' = [SetMode(p, fd, mode) EXCEPT !.want[fd] = mode]
  /\ UNCHANGED bss_count

(* open() of a file: _open() sets the binary mode, then the opposite of    *)
(* what is wanted is set so that setmode() sees a change.  With O_TRUNC or *)
(* O_APPEND it writes or seeks, and so looks a function up.                *)
open(mode, looks) ==
  LET q == IF looks THEN Looked(p) ELSE p
      fd == Lowest(q)
      o == FileHandleSet(Opened(q, fd), fd, Binary)
      f == FileHandleSet(o, fd, Flip(mode))
  IN  /\ fd # NoFd
      /\ p' = [SetMode(f, fd, mode) EXCEPT !.want[fd] = mode]
      /\ UNCHANGED bss_count

(* read(), write(), lseek() and the like change no mode. *)
lookup ==
  /\ p' = Looked(p)
  /\ UNCHANGED bss_count

close(fd) ==
  /\ fd \in p.open
  /\ p' = [Closed(Looked(p), fd) EXCEPT !.want[fd] = {}]
  /\ UNCHANGED bss_count

dup(fd) ==
  LET new == Lowest(p) IN
  /\ fd \in Own(p) /\ new # NoFd
  /\ p' = [Dupped(Looked(p), fd, new) EXCEPT !.want[new] = p.want[fd]]
  /\ UNCHANGED bss_count

(* dup2() marks newfd with the opposite of the mode of fd, which makes the *)
(* table grow when newfd needs it, asks DOS, which refuses a handle beyond *)
(* its limit, and reads the mode of fd again for setmode().                *)
Marked(q, fd, new) == FileHandleSet(q, new, Flip(Modes(q, fd)))

Dupped2(q, fd, new) == SetMode(Opened(q, new), new, Modes(q, fd))

dup2(fd, new) ==
  LET m == Marked(Looked(p), fd, new) IN
  /\ fd \in Own(p) /\ fd # new
  /\ p' = IF new < m.limit
          THEN [Dupped2(m, fd, new) EXCEPT !.want[new] = p.want[fd]]
          ELSE m
  /\ UNCHANGED bss_count

-----------------------------------------------------------------------------
(* __FSEXT_alloc_fd(): "This is our first time.  Open the NUL device, just *)
(* this once" - by DOS alone, __file_handle_set() does not hear of it -    *)
(* and dup() whatever has that number.  NUL stays open when that fails.    *)
NulOpened(q) ==
  IF ~(q.fresh \/ q.nul = NoFd) THEN q
  ELSE [q EXCEPT !.fresh = FALSE, !.nul = Lowest(q),
                 !.open = @ \cup ({Lowest(q)} \ {NoFd})]

alloc_fd(q) ==
  LET n == NulOpened(q)
      fd == Lowest(n)
  IN  IF fd # NoFd /\ n.nul \in n.open
      THEN [q |-> FileHandleSet(Opened(n, fd), fd, Binary), fd |-> fd]
      ELSE [q |-> n, fd |-> NoFd]

(* move_fd() dup()s until the descriptor is above 19, or until DOS has no  *)
(* handle left, and closes all but the last one, or all but the first.     *)
(* MoveStep is one level of its recursion: "last" is the fd of that level, *)
(* "met" all of them so far.                                               *)
MoveStep(c) ==
  LET new == Lowest(c.q) IN
  IF c.last >= Small \/ new = NoFd THEN c
  ELSE [q |-> Dupped(c.q, c.last, new), last |-> new, met |-> c.met \cup {new}]

Moved(q, fd) ==
  LET level[i \in 0 .. Small + 1] ==
        IF i = 0 THEN [q |-> q, last |-> fd, met |-> {fd}] ELSE MoveStep(level[i - 1])
  IN level[Small + 1]

CloseAll(q, fds) == [q EXCEPT !.open = @ \ fds]

move_fd_KeepOld(q, fd) ==   \* mutant: the old descriptors are not closed
  LET c == Moved(q, fd) IN
  [q |-> IF c.last >= Small THEN c.q ELSE CloseAll(c.q, c.met \ {fd}),
   fd |-> IF c.last >= Small THEN c.last ELSE NoFd]

move_fd(q, fd) ==
  LET c == Moved(q, fd) IN
  IF c.last >= Small
  THEN [q |-> CloseAll(c.q, c.met \ {c.last}), fd |-> c.last]
  ELSE [q |-> CloseAll(c.q, c.met \ {fd}), fd |-> NoFd]

(* opendir_as_fd().  The two fcntl() calls at its end cannot fail: for a   *)
(* descriptor from 18 on they return at once (fcntl.c:337-338, 377-380).   *)
opendir_as_fd ==
  LET a == alloc_fd(p)
      m == move_fd(a.q, a.fd)
  IN  /\ p' = IF a.fd = NoFd THEN a.q
              ELSE IF m.fd = NoFd THEN Closed(m.q, a.fd)
              ELSE [m.q EXCEPT !.want[m.fd] = Binary]
      /\ UNCHANGED bss_count

-----------------------------------------------------------------------------
(* The program runs another one, which increments __bss_count, works on a  *)
(* state of its own, as a program does here, and ends.  It, or what it     *)
(* runs in turn, may look a function up or open NUL for itself.  Only      *)
(* after it __file_handle_set() asks DOS for more handles again, and DOS   *)
(* may have another answer.                                                *)
spawn ==
  /\ children
  /\ bss_count <= MaxStarts
  /\ bss_count' = bss_count + 1
  /\ \E b \in BOOLEAN, n \in Fd \cup {NoFd} :
       p' = [p EXCEPT !.fresh = b, !.nul = n]
  /\ more' \in BOOLEAN

Step ==
  \/ opendir_as_fd \/ lookup
  \/ \E mode \in {Text, Binary}, looks \in BOOLEAN : open(mode, looks)
  \/ \E fd \in Fd :
       \/ close(fd) \/ dup(fd)
       \/ \E mode \in {Text, Binary} : setmode(fd, mode)
       \/ \E new \in Fd : dup2(fd, new)

Next == (spawn \/ (Step /\ UNCHANGED more)) /\ UNCHANGED children

Spec == Init /\ [][Next]_vars

-----------------------------------------------------------------------------
(* The variables hold what dosio.c declares, and a descriptor that DOS may *)
(* hand out has a place in the table: the table grows before the limit     *)
(* (dosio.c:86-98), also when a child made the program count anew.         *)
TypeOK ==
  /\ bss_count \in Nat
  /\ p \in Program
  /\ p.limit = Big => p.grown
  /\ \A f \in p.open : f < p.limit

(* Every descriptor of the program is in the mode it was given last,       *)
(* through the exchange of the tables too (dosio.c:92), whether or not DOS *)
(* allows more handles with the larger one.                                *)
ModesKept == ~children => \A f \in Own(p) : Modes(p, f) = p.want[f]

(* "when we hit the count'th request, we've already up'd it" (dosio.c:84): *)
(* DOS is not out of handles before the table has grown, whatever was      *)
(* opened before, but for the one request __file_handle_set() does not     *)
(* hear of: NUL, if it takes the last handle of the small table, leaves    *)
(* the program without a handle and nothing left to grow the table.        *)
GrowsInTime == Handles(p) = {} => p.grown \/ Small - 1 \in Nul(p)

(* open() of a directory leaves NUL open, "just this once" (fsext.c:65),   *)
(* and besides it either one new descriptor, above 19 and binary, or, as   *)
(* the comment of move_fd() promises of a failure, what was there          *)
(* (open.c:34-59), however often move_fd() duplicates.                     *)
OpendirClean ==
  [][~children /\ opendir_as_fd =>
       LET new == p'.open \ (p.open \cup Nul(p')) IN
       /\ Nul(p') \subseteq {p'.nul}
       /\ p.open \subseteq p'.open
       /\ \A f \in p.open : Modes(p', f) = Modes(p, f)
       /\ new # {} => \E f \in Fd : /\ f >= Small /\ new = {f}
                                    /\ Modes(p', f) = Binary]_vars
=============================================================================
