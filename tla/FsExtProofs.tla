---------------------------- MODULE FsExtProofs ----------------------------
(***************************************************************************)
(* Proofs about the file system extensions, for every number of            *)
(* descriptors, objects and programs and all habits of programs.  The last *)
(* part is about exit() itself, which calls the hook of the extensions     *)
(* between the functions of atexit() and the end of the program.           *)
(***************************************************************************)
EXTENDS FsExt, Exit, FiniteSetTheorems, SequenceTheorems,
        WellFoundedInduction, TLAPS

(***************************************************************************)
(* The inductive invariant.  Counted speaks of every live program, and a   *)
(* step is made by one of them: Fit is what the running one needs, Others  *)
(* what it leaves to the programs that wait.                               *)
(***************************************************************************)
(* A program without a table has no entries. *)
Empty(p) == ~p.table => \A f \in Fd : ~p.fn[f] /\ p.data[f] = Null

(* Counted for one program. *)
Covered(p, w) ==
  \A o \in Obj : RefsOf(p, o) > 0 =>
    w.owner[o] = p.id /\ RefsOf(p, o) <= w.count[o]

Fit(w) ==
  /\ w \in World
  /\ w.init_count <= w.bss_count /\ w.p.id <= w.bss_count
  /\ Empty(w.p) /\ Covered(w.p, w)
  /\ \A o \in Obj : o > w.brk => w.owner[o] = 0

(* The objects of other programs are left alone. *)
Others(w, v) ==
  /\ v.bss_count = w.bss_count /\ v.p.id = w.p.id
  /\ \A o \in Obj : w.owner[o] \notin {0, w.p.id} =>
       v.owner[o] = w.owner[o] /\ v.count[o] = w.count[o]

(* The programs that wait: each is another one, and is covered. *)
Waiting(w, r) ==
  /\ r \in Seq(Program)
  /\ \A i \in 1 .. Len(r) :
       /\ r[i].id <= w.bss_count /\ r[i].id # w.p.id
       /\ Empty(r[i]) /\ Covered(r[i], w)
       /\ \A j \in 1 .. Len(r) : r[i].id = r[j].id => i = j

(* As long as programs run one after another, one that looked its table up *)
(* has its hook attached, and has no entries before.                       *)
Hooked(w) ==
  IF Stale(w) THEN \A f \in Fd : ~w.p.fn[f] ELSE w.p.hook

(* What holds of programs that run no others and do not dup() devices, if  *)
(* memory suffices: the descriptors they were given are those with a       *)
(* function and data, and an object has as many as it counts.              *)
Plain(w) ==
  /\ \A f \in Fd : /\ w.p.fn[f] <=> f \in w.p.mine
                   /\ w.p.data[f] # Null <=> f \in w.p.mine
                   /\ f \in w.p.mine => w.p.jft[f] # "closed"
  /\ Stale(w) => w.p.mine = {}
  /\ \A o \in Obj : w.owner[o] # 0 =>
       w.owner[o] = w.p.id /\ RefsOf(w.p, o) = w.count[o] /\ w.count[o] > 0

XInv ==
  /\ Fit(W) /\ Waiting(W, rest)
  /\ practice \in Practice
  /\ "child" \notin practice => rest = <<>> /\ Hooked(W)
  /\ practice = {} => Plain(W)

-----------------------------------------------------------------------------
(* The least of a set of numbers is one of them. *)
LEMMA Least ==
  ASSUME NEW T \in SUBSET Nat, T # {}
  PROVE  Min(T) \in T
  <1>1. IsWellFoundedOn(OpToRel(<, Nat), Nat)
    BY NatLessThanWellFounded
  <1>2. PICK x \in T : \A y \in T : ~(<<y, x>> \in OpToRel(<, Nat))
    BY <1>1, WFMin
  <1>3. ASSUME NEW y \in T PROVE x <= y
    <2>1. ~(y < x)
      BY <1>2 DEF OpToRel
    <2> QED BY <2>1
  <1> QED BY <1>3 DEF Min

LEMMA MinFree ==
  ASSUME NEW w \in World, FreeFds(w) # {}
  PROVE  Min(FreeFds(w)) \in Fd /\ w.p.jft[Min(FreeFds(w))] = "closed"
  <1>1. FreeFds(w) \in SUBSET Nat
    BY FsExtConstantsOK DEF FreeFds, Fd
  <1>2. Min(FreeFds(w)) \in FreeFds(w)
    <2> HIDE DEF FreeFds
    <2> QED BY <1>1, Least
  <1> QED BY <1>2 DEF FreeFds

(* The descriptors that lead to an object are finitely many. *)
LEMMA RefsCount ==
  ASSUME NEW p \in Program, NEW o
  PROVE  /\ IsFiniteSet({f \in Fd : p.data[f] = o})
         /\ RefsOf(p, o) \in Nat
         /\ RefsOf(p, o) = 0 <=> \A f \in Fd : p.data[f] # o
  <1> DEFINE S == {f \in Fd : p.data[f] = o}
  <1>1. IsFiniteSet(Fd)
    BY FsExtConstantsOK, FS_Interval DEF Fd
  <1>2. IsFiniteSet(S)
    BY <1>1, FS_Subset
  <1>3. Cardinality(S) \in Nat /\ (Cardinality(S) = 0 <=> S = {})
    <2> HIDE DEF S
    <2> QED BY <1>2, FS_CardinalityType, FS_EmptySet
  <1> QED BY <1>2, <1>3 DEF RefsOf

(* One entry is changed. *)
OneIf(x, y) == IF x = y THEN 1 ELSE 0

LEMMA RefsChanged ==
  ASSUME NEW p \in Program, NEW q \in Program, NEW f \in Fd, NEW x,
         q.data = [p.data EXCEPT ![f] = x], NEW o
  PROVE  RefsOf(q, o) = RefsOf(p, o) + OneIf(x, o)
                                     - OneIf(p.data[f], o)
  <1> DEFINE S == {g \in Fd : p.data[g] = o}
             T == {g \in Fd : q.data[g] = o}
  <1>0. p.data \in [Fd -> Obj \cup {Null}]
    BY DEF Program
  <1>1. IsFiniteSet(S) /\ Cardinality(S) \in Nat
    BY RefsCount DEF RefsOf
  <1>2. IsFiniteSet(S \cup {f}) /\ Cardinality(S \cup {f}) = IF f \in S THEN Cardinality(S)
                                                      ELSE Cardinality(S) + 1
    <2> HIDE DEF S
    <2> QED BY <1>1, FS_AddElement
  <1>3. Cardinality(S \ {f}) = IF f \in S THEN Cardinality(S) - 1 ELSE Cardinality(S)
    <2> HIDE DEF S
    <2> QED BY <1>1, FS_RemoveElement
  <1>4. f \in S <=> p.data[f] = o
    OBVIOUS
  <1>5. CASE x = o
    <2>1. T = S \cup {f}
      BY <1>0, <1>5
    <2> HIDE DEF S, T
    <2>2. Cardinality(T) = Cardinality(S) + 1 - OneIf(p.data[f], o)
      BY <1>1, <1>2, <1>4, <2>1 DEF OneIf
    <2> QED BY <1>5, <2>2 DEF RefsOf, S, T, OneIf
  <1>6. CASE x # o
    <2>1. T = S \ {f}
      BY <1>0, <1>6
    <2> HIDE DEF S, T
    <2>2. Cardinality(T) = Cardinality(S) - OneIf(p.data[f], o)
      BY <1>1, <1>3, <1>4, <2>1 DEF OneIf
    <2>3. Cardinality(T) = Cardinality(S) + 0 - OneIf(p.data[f], o)
      BY <1>1, <2>2 DEF OneIf
    <2> QED BY <1>6, <2>3 DEF RefsOf, S, T, OneIf
  <1> QED BY <1>5, <1>6

(* The same of the running programs of two worlds. *)
LEMMA RefsOfWorld ==
  ASSUME NEW w \in World, NEW o
  PROVE  /\ RefsOf(w.p, o) \in Nat
         /\ RefsOf(w.p, o) = 0 <=> \A f \in Fd : w.p.data[f] # o
  <1>1. PICK p \in Program : p = w.p
    BY DEF World
  <1>2. RefsOf(p, o) \in Nat /\ (RefsOf(p, o) = 0 <=> \A f \in Fd : p.data[f] # o)
    BY RefsCount
  <1> QED BY <1>1, <1>2

LEMMA RefsWritten ==
  ASSUME NEW w \in World, NEW v \in World, NEW f \in Fd, NEW x,
         v.p.data = [w.p.data EXCEPT ![f] = x], NEW o
  PROVE  RefsOf(v.p, o) = RefsOf(w.p, o) + OneIf(x, o)
                                         - OneIf(w.p.data[f], o)
  <1>1. PICK p \in Program : p = w.p
    BY DEF World
  <1>2. PICK q \in Program : q = v.p
    BY DEF World
  <1>3. q.data = [p.data EXCEPT ![f] = x]
    BY <1>1, <1>2
  <1>4. RefsOf(q, o) = RefsOf(p, o) + OneIf(x, o)
                                    - OneIf(p.data[f], o)
    BY <1>3, RefsChanged
  <1> QED BY <1>1, <1>2, <1>4

-----------------------------------------------------------------------------
(***************************************************************************)
(* What the functions of fsext.c do to the world, field by field.          *)
(***************************************************************************)
(* Everything that fsext.c does not write. *)
SameHeap(v, w) ==
  /\ v.bss_count = w.bss_count /\ v.brk = w.brk
  /\ v.count = w.count /\ v.owner = w.owner /\ v.p.id = w.p.id

InitIs(v, w) ==
  /\ v \in World /\ SameHeap(v, w)
  /\ v.init_count = w.bss_count /\ v.null_dev_fd = w.null_dev_fd
  /\ v.p.jft = w.p.jft /\ v.p.mine = w.p.mine
  /\ Stale(w) => /\ ~v.p.table /\ v.p.hook
                 /\ \A f \in Fd : ~v.p.fn[f] /\ v.p.data[f] = Null
  /\ ~Stale(w) => v = w

LEMMA InitEffect ==
  ASSUME NEW w \in World
  PROVE  InitIs(init(w), w)
  <1>1. CASE Stale(w)
    <2>1. init(w) = [w EXCEPT !.init_count = w.bss_count,
                              !.p = [w.p EXCEPT !.table = FALSE,
                                                !.fn = [f \in Fd |-> FALSE],
                                                !.data = [f \in Fd |-> Null],
                                                !.hook = TRUE]]
      BY <1>1 DEF init, World, Program
    <2>2. PICK p \in Program : p = [w.p EXCEPT !.table = FALSE,
                                                !.fn = [f \in Fd |-> FALSE],
                                                !.data = [f \in Fd |-> Null],
                                                !.hook = TRUE]
      BY DEF World, Program
    <2>3. /\ p.id = w.p.id /\ ~p.table /\ p.hook /\ p.jft = w.p.jft /\ p.mine = w.p.mine
          /\ \A f \in Fd : ~p.fn[f] /\ p.data[f] = Null
      BY <2>2 DEF World, Program
    <2>4. init(w) = [w EXCEPT !.init_count = w.bss_count, !.p = p]
      BY <2>1, <2>2
    <2>5. PICK v : v = init(w)
      OBVIOUS
    <2>6. v \in World
      <3>1. PICK n \in Int : n = w.bss_count
        BY DEF World
      <3>2. [w EXCEPT !.init_count = n, !.p = p] \in World
        BY DEF World
      <3> QED BY <2>4, <2>5, <3>1, <3>2
    <2>7. /\ v.p = p /\ v.init_count = w.bss_count /\ v.null_dev_fd = w.null_dev_fd
          /\ v.bss_count = w.bss_count /\ v.brk = w.brk
          /\ v.count = w.count /\ v.owner = w.owner
      BY <2>4, <2>5 DEF World
    <2>8. InitIs(v, w)
      BY <1>1, <2>3, <2>6, <2>7 DEF InitIs, SameHeap
    <2> QED BY <2>5, <2>8
  <1>2. CASE ~Stale(w)
    BY <1>2 DEF InitIs, init, SameHeap, Stale
  <1> QED BY <1>1, <1>2

(* Writing a field of the private part changes nothing else. *)
LEMMA PrivateStep ==
  ASSUME NEW w \in World, NEW q \in Program
  PROVE  /\ [w EXCEPT !.p = q] \in World /\ [w EXCEPT !.p = q].p = q
         /\ [w EXCEPT !.p = q].bss_count = w.bss_count
         /\ [w EXCEPT !.p = q].init_count = w.init_count
         /\ [w EXCEPT !.p = q].null_dev_fd = w.null_dev_fd
         /\ [w EXCEPT !.p = q].installed = w.installed
         /\ [w EXCEPT !.p = q].brk = w.brk
         /\ [w EXCEPT !.p = q].count = w.count
         /\ [w EXCEPT !.p = q].owner = w.owner
  BY DEF World

(* The entries that init() left, with those of one descriptor set. *)
SetIs(v, w, fd, b, ok) ==
  /\ v \in World /\ SameHeap(v, w)
  /\ v.init_count = w.bss_count /\ v.null_dev_fd = w.null_dev_fd
  /\ v.p.jft = w.p.jft /\ v.p.mine = w.p.mine
  /\ v.p.hook = init(w).p.hook /\ v.p.data = init(w).p.data
  /\ v.p.table <=> (init(w).p.table \/ ok)
  /\ ~v.p.table => v.p.fn = init(w).p.fn
  /\ v.p.table => v.p.fn = [init(w).p.fn EXCEPT ![fd] = b]

GrownIs(v, w, ok) ==
  /\ v \in World /\ SameHeap(v, w)
  /\ v.init_count = w.bss_count /\ v.null_dev_fd = w.null_dev_fd
  /\ v.p.jft = w.p.jft /\ v.p.mine = w.p.mine
  /\ v.p.hook = init(w).p.hook /\ v.p.data = init(w).p.data
  /\ v.p.fn = init(w).p.fn
  /\ v.p.table <=> (init(w).p.table \/ ok)

LEMMA GrownEffect ==
  ASSUME NEW w \in World, NEW ok \in BOOLEAN
  PROVE  GrownIs(Grown(w, ok), w, ok)
  <1>1. PICK i : i = init(w) /\ i \in World /\ InitIs(i, w)
    BY InitEffect DEF InitIs
  <1>2. PICK b \in BOOLEAN : b <=> (i.p.table \/ ok)
    OBVIOUS
  <1>2a. i.p.table \in BOOLEAN
    BY <1>1 DEF World, Program
  <1>2b. (i.p.table \/ ok) = b
    BY <1>2, <1>2a
  <1>3. PICK q \in Program : q = [i.p EXCEPT !.table = b]
    BY <1>1 DEF World, Program
  <1>4. Grown(w, ok) = [i EXCEPT !.p = q]
    BY <1>1, <1>2b, <1>3 DEF Grown, World, Program
  <1>5. /\ q.id = i.p.id /\ q.jft = i.p.jft /\ q.mine = i.p.mine /\ q.hook = i.p.hook
        /\ q.data = i.p.data /\ q.fn = i.p.fn /\ (q.table <=> b)
    BY <1>1, <1>3 DEF World, Program
  <1>6. PICK v : v = [i EXCEPT !.p = q]
    OBVIOUS
  <1>7. /\ v \in World /\ v.p = q /\ v.bss_count = i.bss_count /\ v.init_count = i.init_count
        /\ v.null_dev_fd = i.null_dev_fd /\ v.brk = i.brk
        /\ v.count = i.count /\ v.owner = i.owner
    BY <1>1, <1>6, PrivateStep
  <1>8. GrownIs(v, w, ok)
    BY <1>1, <1>2, <1>5, <1>7 DEF InitIs, GrownIs, SameHeap
  <1> QED BY <1>4, <1>6, <1>8

LEMMA SetEffect ==
  ASSUME NEW w \in World, NEW fd \in Fd, NEW b \in BOOLEAN, NEW ok \in BOOLEAN
  PROVE  SetIs(set_function(w, fd, b, ok), w, fd, b, ok)
  <1>1. PICK g : g = Grown(w, ok) /\ g \in World /\ GrownIs(g, w, ok)
    BY GrownEffect DEF GrownIs
  <1>2. CASE ~g.p.table
    <2>1. set_function(w, fd, b, ok) = g
      BY <1>1, <1>2 DEF set_function
    <2>2. SetIs(g, w, fd, b, ok)
      BY <1>1, <1>2 DEF SetIs, GrownIs
    <2> QED BY <2>1, <2>2
  <1>3. CASE g.p.table
    <2>1. PICK q \in Program : q = [g.p EXCEPT !.fn = [g.p.fn EXCEPT ![fd] = b]]
      BY <1>1 DEF World, Program
    <2>2. set_function(w, fd, b, ok) = [g EXCEPT !.p = q]
      BY <1>1, <1>3, <2>1 DEF set_function, World, Program
    <2>3. /\ q.id = g.p.id /\ q.jft = g.p.jft /\ q.mine = g.p.mine /\ q.hook = g.p.hook
          /\ q.data = g.p.data /\ q.fn = [g.p.fn EXCEPT ![fd] = b] /\ (q.table <=> g.p.table)
      BY <1>1, <2>1 DEF World, Program
    <2>4. PICK v : v = [g EXCEPT !.p = q]
      OBVIOUS
    <2>5. /\ v \in World /\ v.p = q /\ v.bss_count = g.bss_count /\ v.init_count = g.init_count
          /\ v.null_dev_fd = g.null_dev_fd /\ v.brk = g.brk
          /\ v.count = g.count /\ v.owner = g.owner
      BY <1>1, <2>4, PrivateStep
    <2>6. SetIs(v, w, fd, b, ok)
      BY <1>1, <1>3, <2>3, <2>5 DEF GrownIs, SetIs, SameHeap
    <2> QED BY <2>2, <2>4, <2>6
  <1> QED BY <1>2, <1>3

(* The NUL device is opened on a free descriptor, or not. *)
NulIs(v, w) ==
  /\ v \in World /\ SameHeap(v, w) /\ v.init_count = w.bss_count
  /\ v.p.hook = init(w).p.hook /\ v.p.data = init(w).p.data
  /\ v.p.fn = init(w).p.fn /\ v.p.table = init(w).p.table
  /\ v.p.mine = w.p.mine
  /\ \A f \in Fd : w.p.jft[f] # "closed" => v.p.jft[f] = w.p.jft[f]

LEMMA NulEffect ==
  ASSUME NEW w \in World
  PROVE  NulIs(OpenNul(w), w)
  <1>1. PICK i : i = init(w) /\ i \in World /\ InitIs(i, w)
    BY InitEffect DEF InitIs
  <1>2. CASE ~Stale(w) /\ w.null_dev_fd # NoFd
    BY <1>1, <1>2 DEF OpenNul, NulIs, InitIs
  <1>3. CASE ~(~Stale(w) /\ w.null_dev_fd # NoFd) /\ FreeFds(w) = {}
    <2>1. PICK v : v = [i EXCEPT !.null_dev_fd = NoFd]
      OBVIOUS
    <2>2. OpenNul(w) = v
      BY <1>1, <1>3, <2>1 DEF OpenNul
    <2>3. /\ v \in World /\ v.p = i.p /\ v.bss_count = i.bss_count
          /\ v.init_count = i.init_count /\ v.brk = i.brk
          /\ v.count = i.count /\ v.owner = i.owner
      BY <1>1, <2>1 DEF World
    <2>4. NulIs(v, w)
      BY <1>1, <2>3 DEF NulIs, InitIs, SameHeap
    <2> QED BY <2>2, <2>4
  <1>4. CASE ~(~Stale(w) /\ w.null_dev_fd # NoFd) /\ FreeFds(w) # {}
    <2>1. PICK m \in Fd : m = Min(FreeFds(w)) /\ w.p.jft[m] = "closed"
      BY <1>4, MinFree
    <2>2. PICK q \in Program : q = [i.p EXCEPT !.jft = [i.p.jft EXCEPT ![m] = "nul"]]
      BY <1>1 DEF World, Program, Handle
    <2>3. PICK v : v = [i EXCEPT !.null_dev_fd = m, !.p = q]
      OBVIOUS
    <2>4. OpenNul(w) = v
      BY <1>1, <1>4, <2>1, <2>2, <2>3 DEF OpenNul, World, Program
    <2>5. /\ v \in World /\ v.p = q /\ v.bss_count = i.bss_count
          /\ v.init_count = i.init_count /\ v.brk = i.brk
          /\ v.count = i.count /\ v.owner = i.owner
      BY <1>1, <2>3 DEF World
    <2>6. /\ q.id = i.p.id /\ q.mine = i.p.mine /\ q.hook = i.p.hook
          /\ q.data = i.p.data /\ q.fn = i.p.fn /\ q.table = i.p.table
          /\ \A f \in Fd : f # m => q.jft[f] = i.p.jft[f]
      BY <1>1, <2>2 DEF World, Program
    <2>7. NulIs(v, w)
      BY <1>1, <2>1, <2>5, <2>6 DEF NulIs, InitIs, SameHeap
    <2> QED BY <2>4, <2>7
  <1> QED BY <1>2, <1>3, <1>4

(* __FSEXT_alloc_fd(): nothing is returned, or a descriptor that was free. *)
AllocIs(v, w, fd, ok) ==
  /\ v \in World /\ SameHeap(v, w) /\ v.init_count = w.bss_count
  /\ v.p.hook = init(w).p.hook /\ v.p.data = init(w).p.data
  /\ \A f \in Fd : w.p.jft[f] # "closed" => v.p.jft[f] = w.p.jft[f]
  /\ fd \in Fd \cup {NoFd}
  /\ fd = NoFd => /\ v.p.fn = init(w).p.fn /\ v.p.table = init(w).p.table
                  /\ v.p.mine = w.p.mine
  /\ fd \in Fd => /\ v.p.table <=> (init(w).p.table \/ ok)
                  /\ ~v.p.table => v.p.fn = init(w).p.fn
                  /\ v.p.table => v.p.fn = [init(w).p.fn EXCEPT ![fd] = TRUE]
                  /\ v.p.mine = w.p.mine \cup {fd}
                  /\ w.p.jft[fd] = "closed" /\ v.p.jft[fd] # "closed"

LEMMA NoFdNotFd == NoFd \notin Fd
  BY FsExtConstantsOK DEF NoFd, Fd

LEMMA AllocEffect ==
  ASSUME NEW w \in World, NEW ok \in BOOLEAN
  PROVE  AllocIs(alloc_fd(w, ok), w, AllocFd(w), ok)
  <1>1. PICK o : o = OpenNul(w) /\ o \in World /\ NulIs(o, w)
    BY NulEffect DEF NulIs
  <1>2. CASE AllocFd(w) = NoFd
    <2>1. alloc_fd(w, ok) = o
      BY <1>1, <1>2 DEF alloc_fd
    <2>2. AllocIs(o, w, NoFd, ok)
      BY <1>1, NoFdNotFd DEF AllocIs, NulIs
    <2> QED BY <1>2, <2>1, <2>2
  <1>3. CASE AllocFd(w) # NoFd
    <2>1. /\ o.null_dev_fd # NoFd /\ o.p.jft[o.null_dev_fd] # "closed"
          /\ FreeFds(o) # {} /\ AllocFd(w) = Min(FreeFds(o))
      BY <1>1, <1>3 DEF AllocFd
    <2>2. PICK fd \in Fd : fd = AllocFd(w) /\ o.p.jft[fd] = "closed"
      BY <1>1, <2>1, MinFree
    <2>3. PICK h \in Handle : h = o.p.jft[o.null_dev_fd] /\ h # "closed"
      BY <1>1, <2>1 DEF World, Program
    <2>4. PICK q \in Program : q = [o.p EXCEPT !.jft = [o.p.jft EXCEPT ![fd] = h],
                                               !.mine = o.p.mine \cup {fd}]
      BY <1>1 DEF World, Program
    <2>5. /\ q.id = o.p.id /\ q.mine = o.p.mine \cup {fd} /\ q.hook = o.p.hook
          /\ q.data = o.p.data /\ q.fn = o.p.fn /\ q.table = o.p.table
          /\ q.jft[fd] = h /\ \A f \in Fd : f # fd => q.jft[f] = o.p.jft[f]
      BY <1>1, <2>4 DEF World, Program
    <2>6. PICK u : u = [o EXCEPT !.p = q]
      OBVIOUS
    <2>7. alloc_fd(w, ok) = set_function(u, fd, TRUE, ok)
      <3>1. [o EXCEPT !.p.jft[fd] = h, !.p.mine = @ \cup {fd}] = u
        BY <1>1, <2>4, <2>6 DEF World, Program
      <3> QED BY <1>1, <1>3, <2>2, <2>3, <3>1 DEF alloc_fd
    <2>8. /\ u \in World /\ u.p = q /\ u.bss_count = o.bss_count /\ u.init_count = o.init_count
          /\ u.null_dev_fd = o.null_dev_fd /\ u.brk = o.brk
          /\ u.count = o.count /\ u.owner = o.owner
      BY <1>1, <2>6, PrivateStep
    <2>9. init(u) = u
      BY <1>1, <2>8 DEF NulIs, SameHeap, Stale, init
    <2>10. PICK v : v = set_function(u, fd, TRUE, ok) /\ SetIs(v, u, fd, TRUE, ok)
      BY <2>8, SetEffect
    <2>11. /\ v \in World /\ SameHeap(v, u) /\ v.init_count = u.bss_count
           /\ v.p.jft = q.jft /\ v.p.mine = q.mine
           /\ v.p.hook = q.hook /\ v.p.data = q.data
           /\ v.p.table <=> (q.table \/ ok)
           /\ ~v.p.table => v.p.fn = q.fn
           /\ v.p.table => v.p.fn = [q.fn EXCEPT ![fd] = TRUE]
      BY <2>8, <2>9, <2>10 DEF SetIs
    <2>12. w.p.jft[fd] = "closed" /\ fd # NoFd
      BY <1>1, <2>2, NoFdNotFd DEF NulIs
    <2>13. \A f \in Fd : w.p.jft[f] # "closed" => v.p.jft[f] = w.p.jft[f]
      BY <1>1, <2>5, <2>11, <2>12 DEF NulIs
    <2>14. AllocIs(v, w, fd, ok)
      BY <1>1, <2>3, <2>5, <2>8, <2>11, <2>12, <2>13 DEF NulIs, AllocIs, SameHeap
    <2> QED BY <2>2, <2>7, <2>10, <2>14
  <1> QED BY <1>2, <1>3

(* _close() of a descriptor; i is the world after init(). *)
Releases(i, fd) == i.p.fn[fd] /\ i.p.data[fd] # Null

ClosedIs(v, i, fd) ==
  /\ v \in World
  /\ v.bss_count = i.bss_count /\ v.brk = i.brk /\ v.p.id = i.p.id
  /\ v.init_count = i.init_count
  /\ v.p.hook = i.p.hook /\ v.p.table = i.p.table
  /\ \A f \in Fd : v.p.fn[f] <=> i.p.fn[f] /\ f # fd
  /\ ~Releases(i, fd) => v.p.data = i.p.data /\ v.count = i.count /\ v.owner = i.owner
  /\ Releases(i, fd) =>
       /\ v.p.data = [i.p.data EXCEPT ![fd] = Null]
       /\ v.count = [i.count EXCEPT ![i.p.data[fd]] = @ - 1]
       /\ v.owner = [i.owner EXCEPT ![i.p.data[fd]] =
                       IF i.count[i.p.data[fd]] <= 1 THEN 0 ELSE @]
  /\ v.p.jft = i.p.jft \/ v.p.jft = [i.p.jft EXCEPT ![fd] = "closed"]
  /\ IF i.p.fn[fd] /\ ~Releases(i, fd) THEN v.p.mine = i.p.mine
     ELSE v.p.mine = i.p.mine \ {fd}

LEMMA CloseEffect ==
  ASSUME NEW w \in World, NEW fd \in Fd
  PROVE  ClosedIs(CloseFd(w, fd), init(w), fd)
  <1>1. PICK i : i = init(w) /\ i \in World /\ InitIs(i, w)
    BY InitEffect DEF InitIs
  <1>2. CASE ~i.p.fn[fd]
    <2>1. PICK q \in Program : q = [i.p EXCEPT !.jft = [i.p.jft EXCEPT ![fd] = "closed"],
                                               !.mine = i.p.mine \ {fd}]
      BY <1>1 DEF World, Program, Handle
    <2>2. /\ q.id = i.p.id /\ q.mine = i.p.mine \ {fd} /\ q.hook = i.p.hook
          /\ q.data = i.p.data /\ q.fn = i.p.fn /\ q.table = i.p.table
          /\ q.jft = [i.p.jft EXCEPT ![fd] = "closed"]
      BY <1>1, <2>1 DEF World, Program
    <2>3. PICK v : v = [i EXCEPT !.p = q]
      OBVIOUS
    <2>4. CloseFd(w, fd) = v
      <3>1. CloseFd(w, fd) = DosClose(i, fd)
        BY <1>1, <1>2 DEF CloseFd, get_function
      <3>2. DosClose(i, fd) = v
        BY <1>1, <2>1, <2>3 DEF DosClose, World, Program
      <3> QED BY <3>1, <3>2
    <2>5. /\ v \in World /\ v.p = q /\ v.bss_count = i.bss_count /\ v.init_count = i.init_count
          /\ v.null_dev_fd = i.null_dev_fd /\ v.brk = i.brk
          /\ v.count = i.count /\ v.owner = i.owner
      BY <1>1, <2>3, PrivateStep
    <2>6. ClosedIs(v, i, fd)
      BY <1>2, <2>2, <2>5 DEF ClosedIs, Releases
    <2> QED BY <1>1, <2>4, <2>6
  <1>3. CASE i.p.fn[fd] /\ i.p.data[fd] = Null
    <2>1. PICK q \in Program : q = [i.p EXCEPT !.fn = [i.p.fn EXCEPT ![fd] = FALSE]]
      BY <1>1 DEF World, Program
    <2>2. /\ q.id = i.p.id /\ q.mine = i.p.mine /\ q.hook = i.p.hook
          /\ q.data = i.p.data /\ q.table = i.p.table /\ q.jft = i.p.jft
          /\ \A f \in Fd : q.fn[f] <=> i.p.fn[f] /\ f # fd
      BY <1>1, <2>1 DEF World, Program
    <2>3. PICK v : v = [i EXCEPT !.p = q]
      OBVIOUS
    <2>4. CloseFd(w, fd) = v
      BY <1>1, <1>3, <2>1, <2>3 DEF CloseFd, CloseDev, get_function, get_data, World, Program
    <2>5. /\ v \in World /\ v.p = q /\ v.bss_count = i.bss_count /\ v.init_count = i.init_count
          /\ v.null_dev_fd = i.null_dev_fd /\ v.brk = i.brk
          /\ v.count = i.count /\ v.owner = i.owner
      BY <1>1, <2>3, PrivateStep
    <2>6. ClosedIs(v, i, fd)
      BY <1>3, <2>2, <2>5 DEF ClosedIs, Releases
    <2> QED BY <1>1, <2>4, <2>6
  <1>4. CASE i.p.fn[fd] /\ i.p.data[fd] # Null
    <2>0. PICK o \in Obj : o = i.p.data[fd]
      BY <1>1, <1>4 DEF World, Program
    <2>1. PICK q \in Program :
            q = [i.p EXCEPT !.data = [i.p.data EXCEPT ![fd] = Null],
                            !.fn = [i.p.fn EXCEPT ![fd] = FALSE],
                            !.jft = [i.p.jft EXCEPT ![fd] = "closed"],
                            !.mine = i.p.mine \ {fd}]
      BY <1>1 DEF World, Program, Handle
    <2>2. /\ q.id = i.p.id /\ q.mine = i.p.mine \ {fd} /\ q.hook = i.p.hook
          /\ q.data = [i.p.data EXCEPT ![fd] = Null] /\ q.table = i.p.table
          /\ q.jft = [i.p.jft EXCEPT ![fd] = "closed"]
          /\ \A f \in Fd : q.fn[f] <=> i.p.fn[f] /\ f # fd
      BY <1>1, <2>1 DEF World, Program
    <2>3. PICK c \in [Obj -> Int] : c = [i.count EXCEPT ![o] = i.count[o] - 1]
      <3>1. i.count \in [Obj -> Int] /\ i.count[o] - 1 \in Int
        BY <1>1 DEF World
      <3> QED BY <3>1
    <2>4. PICK n \in [Obj -> Prog \cup {0}] :
            n = [i.owner EXCEPT ![o] = IF i.count[o] <= 1 THEN 0 ELSE i.owner[o]]
      BY <1>1 DEF World
    <2>5. PICK v : v = [i EXCEPT !.count = c, !.owner = n, !.p = q]
      OBVIOUS
    <2>6. CloseFd(w, fd) = v
      <3>1. PICK q1 \in Program :
              q1 = [i.p EXCEPT !.data = [i.p.data EXCEPT ![fd] = Null],
                               !.fn = [i.p.fn EXCEPT ![fd] = FALSE]]
        BY <1>1 DEF World, Program
      <3>2. PICK c1 : c1 = [i EXCEPT !.p = q1]
        OBVIOUS
      <3>3. c1 = [i EXCEPT !.p.data[fd] = Null, !.p.fn[fd] = FALSE]
        BY <1>1, <3>1, <3>2 DEF World, Program
      <3>4. c1 \in World /\ c1.count = i.count /\ c1.owner = i.owner
        BY <1>1, <3>2, PrivateStep
      <3>5. PICK c2 : c2 = [c1 EXCEPT !.count = c, !.owner = n]
        OBVIOUS
      <3>6. c2 = [c1 EXCEPT !.count[o] = @ - 1,
                            !.owner[o] = IF c1.count[o] <= 1 THEN 0 ELSE @]
        BY <2>3, <2>4, <3>4, <3>5 DEF World
      <3>7. CloseFd(w, fd) = DosClose(c2, fd)
        BY <1>1, <1>4, <2>0, <3>3, <3>6 DEF CloseFd, CloseDev, get_function, get_data
      <3>8. c2 = [i EXCEPT !.count = c, !.owner = n, !.p = q1]
        BY <1>1, <3>2, <3>5 DEF World
      <3>9. DosClose(c2, fd) = [i EXCEPT !.count = c, !.owner = n,
              !.p = [q1 EXCEPT !.jft = [q1.jft EXCEPT ![fd] = "closed"],
                               !.mine = q1.mine \ {fd}]]
        BY <1>1, <3>1, <3>8 DEF DosClose, World, Program
      <3>10. q = [q1 EXCEPT !.jft = [q1.jft EXCEPT ![fd] = "closed"],
                            !.mine = q1.mine \ {fd}]
        BY <1>1, <2>1, <3>1 DEF World, Program
      <3> QED BY <2>5, <3>7, <3>9, <3>10
    <2>7. /\ v \in World /\ v.p = q /\ v.bss_count = i.bss_count /\ v.init_count = i.init_count
          /\ v.brk = i.brk /\ v.count = c /\ v.owner = n
      BY <1>1, <2>5 DEF World
    <2>8. ClosedIs(v, i, fd)
      BY <1>4, <2>0, <2>2, <2>3, <2>4, <2>7 DEF ClosedIs, Releases
    <2> QED BY <1>1, <2>6, <2>8
  <1> QED BY <1>2, <1>3, <1>4

(* open() of the device behind the allocation of a descriptor: a new       *)
(* object, and an entry that leads to it if there is a table.              *)
OpenedIs(v, w, fd, again) ==
  /\ v \in World
  /\ v.bss_count = w.bss_count /\ v.init_count = w.init_count /\ v.p.id = w.p.id
  /\ v.brk = w.brk + 1
  /\ v.count = [w.count EXCEPT ![w.brk + 1] = 1]
  /\ v.owner = [w.owner EXCEPT ![w.brk + 1] = w.p.id]
  /\ v.p.hook = w.p.hook /\ v.p.jft = w.p.jft /\ v.p.mine = w.p.mine
  /\ v.p.fn = w.p.fn /\ (v.p.table <=> w.p.table \/ again)
  /\ ~v.p.table => v.p.data = w.p.data
  /\ v.p.table => v.p.data = [w.p.data EXCEPT ![fd] = w.brk + 1]

LEMMA OpenEffect ==
  ASSUME NEW w \in World, w.brk < MaxObj,
         NEW alloc \in BOOLEAN, NEW mem \in BOOLEAN, NEW again \in BOOLEAN
  PROVE  \/ /\ AllocFd(w) = NoFd \/ ~mem
            /\ OpenDev(w, alloc, mem, again) = alloc_fd(w, alloc)
         \/ /\ AllocFd(w) \in Fd /\ mem
            /\ OpenedIs(OpenDev(w, alloc, mem, again), alloc_fd(w, alloc),
                        AllocFd(w), again)
  <1>1. PICK a : /\ a = alloc_fd(w, alloc) /\ a \in World
                 /\ AllocIs(a, w, AllocFd(w), alloc)
    BY AllocEffect DEF AllocIs
  <1>2. CASE AllocFd(w) = NoFd \/ ~mem
    BY <1>1, <1>2 DEF OpenDev
  <1>3. CASE AllocFd(w) # NoFd /\ mem
    <2>1. PICK fd \in Fd : fd = AllocFd(w)
      BY <1>1, <1>3 DEF AllocIs
    <2>2. init(a) = a
      BY <1>1 DEF AllocIs, SameHeap, Stale, init
    <2>3. PICK g : g = Grown(a, again) /\ g \in World /\ GrownIs(g, a, again)
      BY <1>1, GrownEffect DEF GrownIs
    <2>4. /\ g.bss_count = a.bss_count /\ g.init_count = a.bss_count /\ g.p.id = a.p.id
          /\ g.brk = w.brk /\ a.brk = w.brk /\ g.count = a.count /\ g.owner = a.owner
          /\ a.p.id = w.p.id /\ a.init_count = a.bss_count
          /\ g.p.hook = a.p.hook /\ g.p.jft = a.p.jft /\ g.p.mine = a.p.mine
          /\ g.p.fn = a.p.fn /\ g.p.data = a.p.data /\ (g.p.table <=> a.p.table \/ again)
      BY <1>1, <2>2, <2>3 DEF GrownIs, AllocIs, SameHeap
    <2>5. PICK o \in Obj : o = w.brk + 1 /\ o \in 0 .. MaxObj
      BY FsExtConstantsOK DEF World, Obj
    <2>6. PICK id \in Prog : id = w.p.id
      BY DEF World, Program
    <2>7. PICK c \in [Obj -> Int] : c = [g.count EXCEPT ![o] = 1]
      <3>1. g.count \in [Obj -> Int]
        BY <2>3 DEF World
      <3>2. PICK one \in Int : one = 1
        OBVIOUS
      <3>3. [g.count EXCEPT ![o] = one] \in [Obj -> Int]
        BY <3>1
      <3> QED BY <3>2, <3>3
    <2>8. PICK n \in [Obj -> Prog \cup {0}] : n = [g.owner EXCEPT ![o] = id]
      BY <2>3 DEF World
    <2>9. PICK g1 : g1 = [g EXCEPT !.brk = o, !.count = c, !.owner = n]
      OBVIOUS
    <2>10. g1 = [g EXCEPT !.brk = o, !.count[o] = 1, !.owner[o] = id]
      BY <2>3, <2>7, <2>8, <2>9 DEF World
    <2>11. /\ g1 \in World /\ g1.p = g.p /\ g1.brk = o /\ g1.count = c /\ g1.owner = n
           /\ g1.bss_count = g.bss_count /\ g1.init_count = g.init_count
      BY <2>3, <2>5, <2>9 DEF World
    <2>12. OpenDev(w, alloc, mem, again) =
             IF g1.p.table THEN [g1 EXCEPT !.p.data[fd] = o] ELSE g1
      BY <1>1, <1>3, <2>1, <2>3, <2>5, <2>6, <2>10 DEF OpenDev
    <2>13. CASE ~g1.p.table
      <3>1. OpenedIs(g1, a, fd, again)
        BY <2>4, <2>5, <2>6, <2>7, <2>8, <2>11, <2>13 DEF OpenedIs
      <3> QED BY <1>1, <1>3, <2>1, <2>12, <2>13, <3>1
    <2>14. CASE g1.p.table
      <3>1. PICK q \in Program : q = [g1.p EXCEPT !.data = [g1.p.data EXCEPT ![fd] = o]]
        BY <2>11 DEF World, Program
      <3>2. /\ q.id = g.p.id /\ q.jft = g.p.jft /\ q.mine = g.p.mine /\ q.hook = g.p.hook
            /\ q.fn = g.p.fn /\ (q.table <=> g.p.table)
            /\ q.data = [g.p.data EXCEPT ![fd] = o]
        BY <2>3, <2>11, <3>1 DEF World, Program
      <3>3. PICK v : v = [g1 EXCEPT !.p = q]
        OBVIOUS
      <3>4. OpenDev(w, alloc, mem, again) = v
        BY <2>11, <2>12, <2>14, <3>1, <3>3 DEF World, Program
      <3>5. /\ v \in World /\ v.p = q /\ v.bss_count = g1.bss_count
            /\ v.init_count = g1.init_count /\ v.brk = g1.brk
            /\ v.count = g1.count /\ v.owner = g1.owner
        BY <2>11, <3>3, PrivateStep
      <3>6. OpenedIs(v, a, fd, again)
        BY <2>4, <2>5, <2>6, <2>7, <2>8, <2>11, <2>14, <3>2, <3>5 DEF OpenedIs
      <3> QED BY <1>1, <1>3, <2>1, <3>4, <3>6
    <2> QED BY <2>13, <2>14
  <1> QED BY <1>2, <1>3

(* fcntl(F_DUPFD) behind it: another entry for the object. *)
DuppedIs(v, w, new, o) ==
  /\ v \in World
  /\ v.bss_count = w.bss_count /\ v.init_count = w.init_count /\ v.p.id = w.p.id
  /\ v.brk = w.brk /\ v.owner = w.owner
  /\ v.count = [w.count EXCEPT ![o] = w.count[o] + 1]
  /\ v.p.hook = w.p.hook /\ v.p.jft = w.p.jft /\ v.p.mine = w.p.mine
  /\ v.p.fn = w.p.fn /\ v.p.table = w.p.table
  /\ v.p.data = [w.p.data EXCEPT ![new] = o]

LEMMA DupEffect ==
  ASSUME NEW w \in World, NEW fd \in Fd, get_data(w, fd) # Null
  PROVE  /\ ~Stale(w) /\ w.p.data[fd] \in Obj
         /\ \/ AllocFd(w) = NoFd /\ DupDev(w, fd) = alloc_fd(w, TRUE)
            \/ /\ AllocFd(w) \in Fd
               /\ DuppedIs(DupDev(w, fd), alloc_fd(w, TRUE), AllocFd(w), w.p.data[fd])
  <1>0. PICK i : i = init(w) /\ i \in World /\ InitIs(i, w)
    BY InitEffect DEF InitIs
  <1>1. ~Stale(w) /\ init(w) = w
    BY <1>0 DEF InitIs, get_data
  <1>2. PICK a : a = alloc_fd(w, TRUE) /\ a \in World /\ AllocIs(a, w, AllocFd(w), TRUE)
    BY AllocEffect DEF AllocIs
  <1>3. PICK o \in Obj : o = w.p.data[fd]
    BY <1>1 DEF get_data, World, Program
  <1>4. a.p.data[fd] = o /\ o # Null
    BY <1>1, <1>2, <1>3 DEF AllocIs, get_data
  <1>5. CASE AllocFd(w) = NoFd
    BY <1>1, <1>2, <1>3, <1>5 DEF DupDev
  <1>6. CASE AllocFd(w) # NoFd
    <2>1. PICK new \in Fd : new = AllocFd(w)
      BY <1>2, <1>6 DEF AllocIs
    <2>2. PICK q \in Program : q = [a.p EXCEPT !.data = [a.p.data EXCEPT ![new] = o]]
      BY <1>2 DEF World, Program
    <2>3. PICK c \in [Obj -> Int] : c = [a.count EXCEPT ![o] = a.count[o] + 1]
      <3>1. a.count \in [Obj -> Int]
        BY <1>2 DEF World
      <3>2. a.count[o] + 1 \in Int
        BY <3>1
      <3> QED BY <3>1, <3>2
    <2>4. PICK v : v = [a EXCEPT !.p = q, !.count = c]
      OBVIOUS
    <2>5. v = [a EXCEPT !.p.data[new] = o, !.count[o] = @ + 1]
      BY <1>2, <2>2, <2>3, <2>4 DEF World, Program
    <2>6. DupDev(w, fd) = v
      BY <1>2, <1>4, <1>6, <2>1, <2>5 DEF DupDev
    <2>7. /\ v \in World /\ v.p = q /\ v.bss_count = a.bss_count /\ v.init_count = a.init_count
          /\ v.brk = a.brk /\ v.count = c /\ v.owner = a.owner
      BY <1>2, <2>4 DEF World
    <2>8. /\ q.id = a.p.id /\ q.jft = a.p.jft /\ q.mine = a.p.mine /\ q.hook = a.p.hook
          /\ q.fn = a.p.fn /\ q.table = a.p.table
          /\ q.data = [a.p.data EXCEPT ![new] = o]
      BY <1>2, <2>2 DEF World, Program
    <2>9. DuppedIs(v, a, new, o)
      BY <2>3, <2>7, <2>8 DEF DuppedIs
    <2> QED BY <1>1, <1>2, <1>3, <2>1, <2>6, <2>9
  <1> QED BY <1>5, <1>6

-----------------------------------------------------------------------------
(***************************************************************************)
(* Fit and Others are kept.                                                *)
(***************************************************************************)
(* The heap is as before, and the entries are as before or forgotten. *)
Quiet(v, w) ==
  /\ v \in World /\ SameHeap(v, w) /\ v.init_count \in {w.init_count, w.bss_count}
  /\ Empty(v.p)
  /\ v.p.data = w.p.data \/ \A f \in Fd : v.p.data[f] = Null

LEMMA QuietFits ==
  ASSUME NEW w, Fit(w), NEW v, Quiet(v, w)
  PROVE  Fit(v) /\ Others(w, v)
  <1>1. w \in World /\ v \in World /\ w.p \in Program /\ v.p \in Program
    BY DEF Fit, Quiet, World
  <1>2. Covered(v.p, v)
    <2> SUFFICES ASSUME NEW o \in Obj, RefsOf(v.p, o) > 0
                 PROVE  v.owner[o] = v.p.id /\ RefsOf(v.p, o) <= v.count[o]
      BY DEF Covered
    <2>1. v.p.data = w.p.data
      <3>1. \E f \in Fd : v.p.data[f] = o
        BY <1>1, RefsOfWorld
      <3>2. o # Null
        BY DEF Obj, Null
      <3> QED BY <3>1, <3>2 DEF Quiet
    <2>2. RefsOf(v.p, o) = RefsOf(w.p, o)
      BY <2>1 DEF RefsOf
    <2>3. w.owner[o] = w.p.id /\ RefsOf(w.p, o) <= w.count[o]
      BY <2>2 DEF Fit, Covered
    <2> QED BY <2>2, <2>3 DEF Quiet, SameHeap
  <1>3. v.init_count <= v.bss_count
    BY <1>1 DEF Quiet, SameHeap, Fit, World
  <1> QED BY <1>1, <1>2, <1>3 DEF Fit, Quiet, SameHeap, Others

LEMMA OthersTransitive ==
  ASSUME NEW u, NEW v, NEW w, Others(u, v), Others(v, w)
  PROVE  Others(u, w)
  BY DEF Others

LEMMA InitFits ==
  ASSUME NEW w, Fit(w)
  PROVE  Fit(init(w)) /\ Others(w, init(w)) /\ Quiet(init(w), w)
  <1>1. w \in World
    BY DEF Fit
  <1>2. PICK v : v = init(w) /\ InitIs(v, w)
    BY <1>1, InitEffect
  <1>3. Quiet(v, w)
    BY <1>2 DEF InitIs, Quiet, Fit, Empty
  <1> QED BY <1>2, <1>3, QuietFits

LEMMA SetFits ==
  ASSUME NEW w, Fit(w), NEW fd \in Fd, NEW b \in BOOLEAN, NEW ok \in BOOLEAN
  PROVE  LET v == set_function(w, fd, b, ok) IN Fit(v) /\ Others(w, v)
  <1>1. PICK v : v = set_function(w, fd, b, ok) /\ SetIs(v, w, fd, b, ok)
    BY SetEffect DEF Fit
  <1>2. PICK i : i = init(w) /\ Quiet(i, w)
    BY InitFits
  <1>3. Quiet(v, w)
    BY <1>1, <1>2 DEF SetIs, Quiet, Empty
  <1> QED BY <1>1, <1>3, QuietFits

LEMMA AllocFits ==
  ASSUME NEW w, Fit(w), NEW ok \in BOOLEAN
  PROVE  Fit(alloc_fd(w, ok)) /\ Others(w, alloc_fd(w, ok))
  <1>1. PICK v : v = alloc_fd(w, ok) /\ AllocIs(v, w, AllocFd(w), ok)
    BY AllocEffect DEF Fit
  <1>2. PICK i : i = init(w) /\ Quiet(i, w)
    BY InitFits
  <1>3. Quiet(v, w)
    BY <1>1, <1>2 DEF AllocIs, Quiet, Empty
  <1> QED BY <1>1, <1>3, QuietFits

(* The last descriptor of an object frees it, and no other does. *)
LEMMA CloseFits ==
  ASSUME NEW w, Fit(w), NEW fd \in Fd
  PROVE  Fit(CloseFd(w, fd)) /\ Others(w, CloseFd(w, fd))
  <1>1. PICK i : i = init(w) /\ Fit(i) /\ Others(w, i)
    BY InitFits
  <1>2. PICK v : v = CloseFd(w, fd) /\ ClosedIs(v, i, fd)
    BY <1>1, CloseEffect DEF Fit
  <1>3. /\ i \in World /\ v \in World /\ i.p \in Program /\ v.p \in Program
    BY <1>1, <1>2 DEF Fit, ClosedIs, World
  <1>4. CASE ~Releases(i, fd)
    <2>1. v.init_count = i.init_count /\ v.bss_count = i.bss_count /\ v.p.id = i.p.id
      BY <1>2 DEF ClosedIs
    <2>2. SameHeap(v, i) /\ v.p.data = i.p.data
      BY <1>2, <1>4 DEF ClosedIs, SameHeap
    <2>3. Empty(v.p)
      BY <1>1, <1>2, <2>2 DEF ClosedIs, Fit, Empty
    <2>4. Quiet(v, i)
      BY <1>3, <2>1, <2>2, <2>3 DEF Quiet
    <2> QED BY <1>1, <1>2, <2>4, QuietFits, OthersTransitive
  <1>5. CASE Releases(i, fd)
    <2>1. PICK o \in Obj : o = i.p.data[fd]
      BY <1>3, <1>5 DEF Releases, Program
    <2>2. /\ v.p.data = [i.p.data EXCEPT ![fd] = Null]
          /\ v.count = [i.count EXCEPT ![o] = @ - 1]
          /\ v.owner = [i.owner EXCEPT ![o] = IF i.count[o] <= 1 THEN 0 ELSE @]
          /\ v.init_count = i.init_count /\ v.bss_count = i.bss_count
          /\ v.p.id = i.p.id /\ v.brk = i.brk
      BY <1>2, <1>5, <2>1 DEF ClosedIs
    <2>3. i.count \in [Obj -> Int] /\ i.owner \in [Obj -> Prog \cup {0}]
      BY <1>3 DEF World
    <2>4. o # Null
      BY DEF Obj, Null
    <2>5. RefsOf(i.p, o) \in Nat /\ RefsOf(i.p, o) > 0
      BY <1>3, <2>1, RefsOfWorld
    <2>6. i.owner[o] = i.p.id /\ RefsOf(i.p, o) <= i.count[o]
      BY <1>1, <2>5 DEF Fit, Covered
    <2>7. RefsOf(v.p, o) = RefsOf(i.p, o) + 0 - 1
      <3>1. RefsOf(v.p, o) = RefsOf(i.p, o) + OneIf(Null, o)
                                            - OneIf(i.p.data[fd], o)
        BY <1>3, <2>2, RefsWritten
      <3> QED BY <2>1, <2>4, <3>1 DEF OneIf
    <2>8. ASSUME NEW x \in Obj, x # o PROVE RefsOf(v.p, x) = RefsOf(i.p, x)
      <3>1. RefsOf(v.p, x) = RefsOf(i.p, x) + 0 - 0
        <4>1. x # Null
          BY DEF Obj, Null
        <4>2. RefsOf(v.p, x) = RefsOf(i.p, x) + OneIf(Null, x) - OneIf(i.p.data[fd], x)
          BY <1>3, <2>2, RefsWritten
        <4> QED BY <2>1, <2>8, <4>1, <4>2 DEF OneIf
      <3>2. RefsOf(i.p, x) \in Nat
        BY <1>3, RefsOfWorld
      <3> QED BY <3>1, <3>2
    <2>9. Covered(v.p, v)
      <3> SUFFICES ASSUME NEW x \in Obj, RefsOf(v.p, x) > 0
                   PROVE  v.owner[x] = v.p.id /\ RefsOf(v.p, x) <= v.count[x]
        BY DEF Covered
      <3>1. CASE x = o
        <4>1. v.count[o] = i.count[o] - 1
          BY <2>2, <2>3
        <4>2. v.owner[o] = IF i.count[o] <= 1 THEN 0 ELSE i.owner[o]
          BY <2>2, <2>3
        <4> QED BY <2>2, <2>3, <2>5, <2>6, <2>7, <3>1, <4>1, <4>2
      <3>2. CASE x # o
        <4>1. v.count[x] = i.count[x] /\ v.owner[x] = i.owner[x]
          BY <2>2, <2>3, <3>2
        <4> QED BY <1>1, <2>2, <2>8, <3>2, <4>1 DEF Fit, Covered
      <3> QED BY <3>1, <3>2
    <2>10. Empty(v.p)
      <3>1. i.p.table
        BY <1>1, <1>5 DEF Releases, Fit, Empty
      <3> QED BY <1>2, <3>1 DEF ClosedIs, Empty
    <2>11. \A x \in Obj : x > v.brk => v.owner[x] = 0
      BY <1>1, <2>2, <2>3 DEF Fit
    <2>12. Fit(v)
      BY <1>1, <1>3, <2>2, <2>9, <2>10, <2>11 DEF Fit
    <2>13. Others(i, v)
      BY <2>2, <2>3, <2>6 DEF Others
    <2> QED BY <1>1, <1>2, <2>12, <2>13, OthersTransitive
  <1> QED BY <1>4, <1>5

(* An entry is set to an object of the program: the others lose at most.   *)
LEMMA EntryCovered ==
  ASSUME NEW w, Fit(w), NEW v \in World, NEW fd \in Fd, NEW o \in Obj,
         v.p.data = [w.p.data EXCEPT ![fd] = o], v.p.id = w.p.id,
         v.owner[o] = w.p.id, RefsOf(w.p, o) + 1 <= v.count[o],
         \A x \in Obj : x # o => v.owner[x] = w.owner[x] /\ v.count[x] = w.count[x]
  PROVE  Covered(v.p, v)
  <1> SUFFICES ASSUME NEW x \in Obj, RefsOf(v.p, x) > 0
               PROVE  v.owner[x] = v.p.id /\ RefsOf(v.p, x) <= v.count[x]
    BY DEF Covered
  <1>1. w \in World
    BY DEF Fit
  <1>2. RefsOf(w.p, x) \in Nat /\ RefsOf(v.p, x) \in Nat
    BY <1>1, RefsOfWorld
  <1>3. RefsOf(v.p, x) = RefsOf(w.p, x) + OneIf(o, x) - OneIf(w.p.data[fd], x)
    BY <1>1, RefsWritten
  <1>3a. v.count[x] \in Int /\ w.count[x] \in Int
    BY <1>1 DEF World
  <1>4. CASE x = o
    BY <1>2, <1>3, <1>3a, <1>4 DEF OneIf
  <1>5. CASE x # o
    <2>1. RefsOf(v.p, x) <= RefsOf(w.p, x)
      BY <1>2, <1>3, <1>5 DEF OneIf
    <2>2. w.owner[x] = w.p.id /\ RefsOf(w.p, x) <= w.count[x]
      BY <1>2, <2>1 DEF Fit, Covered
    <2> QED BY <1>2, <1>3a, <1>5, <2>1, <2>2
  <1> QED BY <1>4, <1>5

LEMMA OpenFits ==
  ASSUME NEW w, Fit(w), w.brk < MaxObj,
         NEW alloc \in BOOLEAN, NEW mem \in BOOLEAN, NEW again \in BOOLEAN
  PROVE  LET v == OpenDev(w, alloc, mem, again) IN Fit(v) /\ Others(w, v)
  <1>0. w \in World
    BY DEF Fit
  <1>1. PICK a : a = alloc_fd(w, alloc) /\ Fit(a) /\ Others(w, a)
    BY AllocFits
  <1>2. PICK v : v = OpenDev(w, alloc, mem, again)
    OBVIOUS
  <1>3. CASE v = a
    BY <1>1, <1>2, <1>3
  <1>4. ASSUME NEW fd \in Fd, OpenedIs(v, a, fd, again), a.brk < MaxObj
        PROVE  Fit(v) /\ Others(a, v)
    <2>1. a \in World /\ v \in World
      BY <1>1, <1>4 DEF Fit, OpenedIs
    <2>2. PICK o \in Obj : o = a.brk + 1 /\ a.brk \in Nat
      BY <1>4, <2>1, FsExtConstantsOK DEF World, Obj
    <2>3. /\ a.count \in [Obj -> Int] /\ a.owner \in [Obj -> Prog \cup {0}]
          /\ a.p.id \in Prog /\ a.p.id # 0
      BY <2>1, FsExtConstantsOK DEF World, Program, Prog
    <2>4. /\ v.count[o] = 1 /\ v.owner[o] = a.p.id
          /\ \A x \in Obj : x # o => v.owner[x] = a.owner[x] /\ v.count[x] = a.count[x]
      BY <1>4, <2>2, <2>3 DEF OpenedIs
    <2>5. a.owner[o] = 0
      <3>1. o > a.brk
        BY <2>2
      <3> QED BY <1>1, <3>1 DEF Fit
    <2>6. RefsOf(a.p, o) = 0
      <3>1. RefsOf(a.p, o) \in Nat
        BY <2>1, RefsOfWorld
      <3>2. ~(RefsOf(a.p, o) > 0)
        BY <1>1, <2>3, <2>5 DEF Fit, Covered
      <3> QED BY <3>1, <3>2
    <2>7. Covered(v.p, v)
      <3>1. CASE v.p.table
        <4>1. v.p.data = [a.p.data EXCEPT ![fd] = o] /\ v.p.id = a.p.id
          BY <1>4, <2>2, <3>1 DEF OpenedIs
        <4>2. RefsOf(a.p, o) + 1 <= v.count[o]
          BY <2>4, <2>6
        <4> QED BY <1>1, <2>1, <2>4, <4>1, <4>2, EntryCovered
      <3>2. CASE ~v.p.table
        <4>1. v.p.data = a.p.data /\ v.p.id = a.p.id
          BY <1>4, <3>2 DEF OpenedIs
        <4>2. ASSUME NEW x \in Obj, RefsOf(v.p, x) > 0
              PROVE  v.owner[x] = v.p.id /\ RefsOf(v.p, x) <= v.count[x]
          <5>1. RefsOf(v.p, x) = RefsOf(a.p, x)
            BY <4>1 DEF RefsOf
          <5>2. x # o
            BY <2>6, <4>2, <5>1
          <5> QED BY <1>1, <2>4, <4>1, <4>2, <5>1, <5>2 DEF Fit, Covered
        <4> QED BY <4>2 DEF Covered
      <3> QED BY <3>1, <3>2
    <2>8. Empty(v.p)
      BY <1>1, <1>4 DEF OpenedIs, Fit, Empty
    <2>9. \A x \in Obj : x > v.brk => v.owner[x] = 0
      <3> SUFFICES ASSUME NEW x \in Obj, x > v.brk PROVE v.owner[x] = 0
        OBVIOUS
      <3>1. x \in Nat /\ x # o /\ x > a.brk
        BY <1>4, <2>2, FsExtConstantsOK DEF OpenedIs, Obj
      <3> QED BY <1>1, <2>4, <3>1 DEF Fit
    <2>10. Fit(v)
      BY <1>1, <1>4, <2>1, <2>7, <2>8, <2>9 DEF Fit, OpenedIs
    <2>11. Others(a, v)
      BY <1>4, <2>4, <2>5 DEF Others, OpenedIs
    <2> QED BY <2>10, <2>11
  <1>5. a.brk = w.brk
    <2>1. AllocIs(a, w, AllocFd(w), alloc)
      BY <1>0, <1>1, AllocEffect
    <2> QED BY <2>1 DEF AllocIs, SameHeap
  <1>6. v = a \/ (AllocFd(w) \in Fd /\ OpenedIs(v, a, AllocFd(w), again))
    BY <1>0, <1>1, <1>2, OpenEffect
  <1>7. CASE v # a
    <2>1. Fit(v) /\ Others(a, v)
      BY <1>4, <1>5, <1>6, <1>7
    <2> QED BY <1>1, <1>2, <2>1, OthersTransitive
  <1> QED BY <1>3, <1>7

LEMMA DupFits ==
  ASSUME NEW w, Fit(w), NEW fd \in Fd, get_data(w, fd) # Null
  PROVE  Fit(DupDev(w, fd)) /\ Others(w, DupDev(w, fd))
  <1>0. w \in World
    BY DEF Fit
  <1>1. PICK a : a = alloc_fd(w, TRUE) /\ Fit(a) /\ Others(w, a)
    BY AllocFits
  <1>1a. AllocIs(a, w, AllocFd(w), TRUE)
    BY <1>0, <1>1, AllocEffect
  <1>2. PICK v : v = DupDev(w, fd)
    OBVIOUS
  <1>3. PICK o : o = w.p.data[fd]
    OBVIOUS
  <1>4. /\ ~Stale(w) /\ o \in Obj
        /\ v = a \/ (AllocFd(w) \in Fd /\ DuppedIs(v, a, AllocFd(w), o))
    BY <1>0, <1>1, <1>2, <1>3, DupEffect
  <1>5. CASE v = a
    BY <1>1, <1>2, <1>5
  <1>6. CASE v # a
    <2>0. PICK new \in Fd : new = AllocFd(w) /\ DuppedIs(v, a, new, o)
      BY <1>4, <1>6
    <2>1. a \in World /\ v \in World
      BY <1>1, <2>0 DEF Fit, DuppedIs
    <2>2. a.p.data = w.p.data /\ a.p.table
      BY <1>1a, <1>4, <2>0 DEF AllocIs, init
    <2>3. RefsOf(a.p, o) \in Nat /\ RefsOf(a.p, o) > 0
      BY <1>3, <2>1, <2>2, RefsOfWorld
    <2>4. a.owner[o] = a.p.id /\ RefsOf(a.p, o) <= a.count[o]
      BY <1>1, <1>4, <2>3 DEF Fit, Covered
    <2>5. a.count \in [Obj -> Int] /\ a.owner \in [Obj -> Prog \cup {0}]
      BY <2>1 DEF World
    <2>6. /\ v.count[o] = a.count[o] + 1 /\ v.owner = a.owner /\ v.p.id = a.p.id
          /\ \A x \in Obj : x # o => v.count[x] = a.count[x]
          /\ v.p.data = [a.p.data EXCEPT ![new] = o]
      BY <1>4, <2>0, <2>5 DEF DuppedIs
    <2>6a. RefsOf(a.p, o) + 1 <= v.count[o]
      <3>1. a.count[o] \in Int
        BY <1>4, <2>5
      <3> QED BY <2>3, <2>4, <2>6, <3>1
    <2>7. Covered(v.p, v)
      <3>1. v.owner[o] = a.p.id
        BY <2>4, <2>6
      <3>2. \A x \in Obj : x # o => v.owner[x] = a.owner[x] /\ v.count[x] = a.count[x]
        BY <2>6
      <3>3. PICK x \in Obj : x = o
        BY <1>4
      <3>4. Fit(a) /\ v.p.data = [a.p.data EXCEPT ![new] = x] /\ v.p.id = a.p.id
        BY <1>1, <2>6, <3>3
      <3>5. /\ v.owner[x] = a.p.id /\ RefsOf(a.p, x) + 1 <= v.count[x]
            /\ \A y \in Obj : y # x => v.owner[y] = a.owner[y] /\ v.count[y] = a.count[y]
        BY <2>6a, <3>1, <3>2, <3>3
      <3> QED BY <2>1, <3>4, <3>5, EntryCovered
    <2>8. Empty(v.p)
      BY <2>0, <2>2 DEF DuppedIs, Empty
    <2>9. Fit(v)
      BY <1>1, <2>0, <2>1, <2>7, <2>8 DEF Fit, DuppedIs
    <2>10. Others(a, v)
      BY <1>4, <2>0, <2>4, <2>6 DEF Others, DuppedIs
    <2> QED BY <1>1, <1>2, <2>9, <2>10, OthersTransitive
  <1> QED BY <1>5, <1>6

-----------------------------------------------------------------------------
(***************************************************************************)
(* The loop of __FSEXT_close_all().                                        *)
(***************************************************************************)
(* A set with 0 and with the successors of its elements up to n. *)
LEMMA UpTo ==
  ASSUME NEW n \in Nat, NEW T, 0 \in T, \A k \in 1 .. n : k - 1 \in T => k \in T
  PROVE  \A k \in 0 .. n : k \in T
  <1> DEFINE M == (0 .. n) \ T
  <1> SUFFICES ASSUME M # {} PROVE FALSE
    OBVIOUS
  <1>1. M \in SUBSET Nat
    OBVIOUS
  <1>2. IsWellFoundedOn(OpToRel(<, Nat), Nat)
    BY NatLessThanWellFounded
  <1>3. PICK x \in M : \A y \in M : ~(<<y, x>> \in OpToRel(<, Nat))
    <2> HIDE DEF M
    <2> QED BY <1>1, <1>2, WFMin
  <1>4. x \in 1 .. n /\ x - 1 \in 0 .. n /\ x - 1 \in T
    <2>1. x \in 1 .. n /\ x - 1 \in 0 .. n
      OBVIOUS
    <2>2. <<x - 1, x>> \in OpToRel(<, Nat)
      BY <2>1 DEF OpToRel
    <2> QED BY <1>3, <2>1, <2>2
  <1> QED BY <1>4

LoopIs(g, n, w) ==
  g = [k \in 0 .. n |-> IF k = 0 THEN w ELSE CloseIfExt(g[k - 1], k)]

LEMMA LoopExists ==
  ASSUME NEW w, NEW n \in Nat
  PROVE  \E g : LoopIs(g, n, w)
  <1> DEFINE T == {k \in Nat : \E g : LoopIs(g, k, w)}
  <1>1. 0 \in T
    <2> DEFINE g == [k \in 0 .. 0 |-> w]
    <2>1. LoopIs(g, 0, w)
      BY DEF LoopIs
    <2> QED BY <2>1
  <1>2. ASSUME NEW k \in 1 .. n, k - 1 \in T PROVE k \in T
    <2>1. PICK g : LoopIs(g, k - 1, w)
      BY <1>2
    <2> DEFINE h == [j \in 0 .. k |-> IF j = k THEN CloseIfExt(g[k - 1], k) ELSE g[j]]
    <2>2. \A j \in 0 .. k - 1 : h[j] = g[j]
      OBVIOUS
    <2>3. \A j \in 0 .. k - 1 : g[j] = IF j = 0 THEN w ELSE CloseIfExt(g[j - 1], j)
      BY <2>1 DEF LoopIs
    <2>4. ASSUME NEW j \in 0 .. k
          PROVE  h[j] = IF j = 0 THEN w ELSE CloseIfExt(h[j - 1], j)
      BY <2>2, <2>3
    <2>5. LoopIs(h, k, w)
      BY <2>4 DEF LoopIs
    <2> QED BY <2>5
  <1>3. n \in T
    <2> HIDE DEF T
    <2>1. \A k \in 1 .. n : k - 1 \in T => k \in T
      BY <1>2
    <2>2. \A k \in 0 .. n : k \in T
      BY <1>1, <2>1, UpTo
    <2> QED BY <2>2
  <1> QED BY <1>3

(* What a step of the loop keeps holds at its end, for the set of worlds   *)
(* S[k] that may be there before the descriptor k + 1.                     *)
LEMMA LoopKeeps ==
  ASSUME NEW w, NEW S, w \in S[0],
         \A k \in 1 .. NFd : \A u \in S[k - 1] : CloseIfExt(u, k) \in S[k]
  PROVE  CloseUpTo(w)[NFd] \in S[NFd]
  <1>0. NFd \in Nat
    BY FsExtConstantsOK
  <1>1. PICK h : LoopIs(h, NFd, w)
    BY <1>0, LoopExists
  <1>2. PICK g : g = CloseUpTo(w) /\ LoopIs(g, NFd, w)
    BY <1>1 DEF CloseUpTo, LoopIs
  <1>3. \A k \in 0 .. NFd : g[k] = IF k = 0 THEN w ELSE CloseIfExt(g[k - 1], k)
    BY <1>2 DEF LoopIs
  <1> DEFINE T == {k \in Nat : g[k] \in S[k]}
  <1>4. 0 \in T
    BY <1>0, <1>3
  <1>5. ASSUME NEW k \in 1 .. NFd, k - 1 \in T PROVE k \in T
    <2>1. g[k] = CloseIfExt(g[k - 1], k) /\ g[k - 1] \in S[k - 1] /\ k \in Nat
      BY <1>0, <1>3, <1>5
    <2> QED BY <2>1
  <1>6. NFd \in T
    <2> HIDE DEF T
    <2>1. \A k \in 1 .. NFd : k - 1 \in T => k \in T
      BY <1>5
    <2>2. \A k \in 0 .. NFd : k \in T
      BY <1>0, <1>4, <2>1, UpTo
    <2> QED BY <1>0, <2>2
  <1> QED BY <1>2, <1>6

(* The hook is detached before the loop. *)
LEMMA HookDetached ==
  ASSUME NEW w, Fit(w)
  PROVE  LET u == [w EXCEPT !.p.hook = FALSE] IN
           /\ Fit(u) /\ Others(w, u) /\ SameHeap(u, w) /\ u.init_count = w.init_count
           /\ u.p.table = w.p.table /\ u.p.fn = w.p.fn /\ u.p.data = w.p.data
           /\ u.p.jft = w.p.jft /\ u.p.mine = w.p.mine
  <1>1. w \in World
    BY DEF Fit
  <1>2. PICK q \in Program : q = [w.p EXCEPT !.hook = FALSE]
    BY <1>1 DEF World, Program
  <1>3. PICK u : u = [w EXCEPT !.p.hook = FALSE]
    OBVIOUS
  <1>4. u = [w EXCEPT !.p = q]
    BY <1>1, <1>2, <1>3 DEF World, Program
  <1>5. /\ u \in World /\ u.p = q /\ u.bss_count = w.bss_count /\ u.init_count = w.init_count
        /\ u.brk = w.brk /\ u.count = w.count /\ u.owner = w.owner
    BY <1>1, <1>4, PrivateStep
  <1>6. /\ q.id = w.p.id /\ q.jft = w.p.jft /\ q.mine = w.p.mine
        /\ q.fn = w.p.fn /\ q.table = w.p.table /\ q.data = w.p.data
    BY <1>1, <1>2 DEF World, Program
  <1>7. SameHeap(u, w)
    BY <1>5, <1>6 DEF SameHeap
  <1>8. Quiet(u, w)
    BY <1>5, <1>6, <1>7 DEF Quiet, Fit, Empty
  <1>9. Fit(u) /\ Others(w, u)
    BY <1>8, QuietFits
  <1> QED BY <1>3, <1>5, <1>6, <1>7, <1>9

LEMMA ExitFits ==
  ASSUME NEW w, Fit(w)
  PROVE  Fit(Exited(w)) /\ Others(w, Exited(w))
  <1>1. CASE ~(w.p.hook /\ w.p.table)
    <2>1. Exited(w) = w
      BY <1>1 DEF Exited, CloseAll
    <2> QED BY <2>1 DEF Others
  <1>2. CASE w.p.hook /\ w.p.table
    <2>1. PICK u : u = [w EXCEPT !.p.hook = FALSE] /\ Fit(u) /\ Others(w, u)
      BY HookDetached
    <2> DEFINE S == [k \in 0 .. NFd |-> {v \in World : Fit(v) /\ Others(w, v)}]
    <2>2. Exited(w) = CloseUpTo(u)[NFd]
      BY <1>2, <2>1 DEF Exited, CloseAll
    <2>3. NFd \in Nat
      BY FsExtConstantsOK
    <2>4. u \in S[0]
      <3>1. u \in World
        BY <2>1 DEF Fit
      <3> QED BY <2>1, <2>3, <3>1
    <2>5. ASSUME NEW k \in 1 .. NFd, NEW v \in S[k - 1] PROVE CloseIfExt(v, k) \in S[k]
      <3>1. v \in World /\ Fit(v) /\ Others(w, v) /\ k \in Fd
        BY <2>3 DEF Fd
      <3>2. PICK x : x = CloseIfExt(v, k)
        OBVIOUS
      <3>3. Fit(x) /\ Others(w, x)
        BY <3>1, <3>2, CloseFits, OthersTransitive DEF CloseIfExt
      <3>4. x \in World
        BY <3>3 DEF Fit
      <3> QED BY <2>3, <3>2, <3>3, <3>4
    <2>6. CloseUpTo(u)[NFd] \in S[NFd]
      <3> HIDE DEF S
      <3> QED BY <2>4, <2>5, LoopKeeps
    <2> QED BY <2>2, <2>3, <2>6
  <1> QED BY <1>1, <1>2

(* What one program does leaves those that wait covered. *)
LEMMA WaitingKept ==
  ASSUME NEW w, NEW v, NEW r, Waiting(w, r), Others(w, v)
  PROVE  Waiting(v, r)
  <1> SUFFICES ASSUME NEW i \in 1 .. Len(r) PROVE Covered(r[i], v)
    BY DEF Waiting, Others
  <1> SUFFICES ASSUME NEW o \in Obj, RefsOf(r[i], o) > 0
               PROVE  v.owner[o] = r[i].id /\ RefsOf(r[i], o) <= v.count[o]
    BY DEF Covered
  <1>1. w.owner[o] = r[i].id /\ RefsOf(r[i], o) <= w.count[o] /\ r[i].id # w.p.id
    BY DEF Waiting, Covered
  <1>2. r[i].id # 0
    <2>1. r[i] \in Program
      BY ElementOfSeq DEF Waiting
    <2> QED BY <2>1, FsExtConstantsOK DEF Program, Prog
  <1>3. v.owner[o] = w.owner[o] /\ v.count[o] = w.count[o]
    BY <1>1, <1>2 DEF Others
  <1> QED BY <1>1, <1>3

-----------------------------------------------------------------------------
(***************************************************************************)
(* Hooked and Plain are kept.                                              *)
(***************************************************************************)
LEMMA HookedAfter ==
  ASSUME NEW w \in World, Hooked(w), NEW v, v.bss_count = w.bss_count,
         v.init_count = w.bss_count, v.p.hook = init(w).p.hook
  PROVE  Hooked(v)
  <1>1. ~Stale(v)
    BY DEF Stale
  <1>2. PICK i : i = init(w) /\ InitIs(i, w)
    BY InitEffect
  <1>3. i.p.hook
    BY <1>2 DEF InitIs, Hooked
  <1> QED BY <1>1, <1>2, <1>3 DEF Hooked

(* No object is live without an entry. *)
LEMMA NoneLive ==
  ASSUME NEW w \in World, Plain(w), \A f \in Fd : w.p.data[f] = Null
  PROVE  \A o \in Obj : w.owner[o] = 0
  <1> SUFFICES ASSUME NEW o \in Obj, w.owner[o] # 0 PROVE FALSE
    OBVIOUS
  <1>1. RefsOf(w.p, o) = w.count[o] /\ w.count[o] > 0
    BY DEF Plain
  <1>2. o # Null
    BY DEF Obj, Null
  <1>3. RefsOf(w.p, o) = 0
    BY <1>2, RefsOfWorld
  <1> QED BY <1>1, <1>3

LEMMA PlainInit ==
  ASSUME NEW w \in World, Plain(w)
  PROVE  Plain(init(w))
  <1>1. PICK i : i = init(w) /\ i \in World /\ InitIs(i, w)
    BY InitEffect DEF InitIs
  <1>2. CASE Stale(w)
    <2>1. \A f \in Fd : w.p.data[f] = Null /\ f \notin w.p.mine
      BY <1>2 DEF Plain
    <2>2. \A o \in Obj : i.owner[o] = 0
      BY <1>1, <2>1, NoneLive DEF InitIs, SameHeap
    <2>3. ~Stale(i)
      BY <1>1 DEF InitIs, SameHeap, Stale
    <2>4. \A f \in Fd : ~i.p.fn[f] /\ i.p.data[f] = Null /\ f \notin i.p.mine
      BY <1>1, <1>2, <2>1 DEF InitIs
    <2> QED BY <1>1, <2>2, <2>3, <2>4 DEF Plain
  <1>3. CASE ~Stale(w)
    BY <1>1, <1>3 DEF InitIs
  <1> QED BY <1>2, <1>3

(* Handles are opened, and functions cleared of descriptors without. *)
LEMMA PlainQuiet ==
  ASSUME NEW w, Plain(w), NEW v, SameHeap(v, w), v.p.data = w.p.data,
         v.p.mine = w.p.mine, ~Stale(v) \/ v.init_count = w.init_count,
         \A f \in Fd : v.p.fn[f] <=> w.p.fn[f],
         \A f \in Fd : f \in w.p.mine => v.p.jft[f] # "closed"
  PROVE  Plain(v)
  <1>1. Stale(v) => Stale(w)
    BY DEF SameHeap, Stale
  <1>2. \A o \in Obj : RefsOf(v.p, o) = RefsOf(w.p, o)
    BY DEF RefsOf
  <1> QED BY <1>1, <1>2 DEF Plain, SameHeap

LEMMA PlainSet ==
  ASSUME NEW w \in World, Plain(w), NEW fd \in Fd, fd \notin w.p.mine, NEW ok \in BOOLEAN
  PROVE  Plain(set_function(w, fd, FALSE, ok))
  <1>1. PICK i : i = init(w) /\ i \in World /\ InitIs(i, w) /\ Plain(i)
    BY InitEffect, PlainInit DEF InitIs
  <1>2. PICK v : v = set_function(w, fd, FALSE, ok) /\ SetIs(v, w, fd, FALSE, ok)
    BY SetEffect
  <1>3. ~i.p.fn[fd] /\ i.p.fn \in [Fd -> BOOLEAN]
    BY <1>1 DEF Plain, InitIs, World, Program
  <1>4. \A f \in Fd : v.p.fn[f] <=> i.p.fn[f]
    BY <1>1, <1>2, <1>3 DEF SetIs
  <1>5. SameHeap(v, i) /\ ~Stale(v) /\ v.p.data = i.p.data /\ v.p.mine = i.p.mine
        /\ v.p.jft = i.p.jft
    BY <1>1, <1>2 DEF SetIs, InitIs, SameHeap, Stale
  <1>6. \A f \in Fd : f \in i.p.mine => v.p.jft[f] # "closed"
    BY <1>1, <1>5 DEF Plain
  <1> QED BY <1>1, <1>2, <1>4, <1>5, <1>6, PlainQuiet

LEMMA PlainClose ==
  ASSUME NEW w \in World, Plain(w), NEW fd \in Fd
  PROVE  Plain(CloseFd(w, fd))
  <1>1. PICK i : i = init(w) /\ i \in World /\ InitIs(i, w) /\ Plain(i)
    BY InitEffect, PlainInit DEF InitIs
  <1>2. PICK v : v = CloseFd(w, fd) /\ v \in World /\ ClosedIs(v, i, fd)
    BY <1>1, CloseEffect DEF ClosedIs
  <1>3. ~Stale(v)
    BY <1>1, <1>2 DEF InitIs, ClosedIs, SameHeap, Stale
  <1>4. CASE fd \notin i.p.mine
    <2>1. ~i.p.fn[fd] /\ ~Releases(i, fd)
      BY <1>1, <1>4 DEF Plain, Releases
    <2>2. SameHeap(v, i) /\ v.p.data = i.p.data /\ v.p.mine = i.p.mine
      BY <1>2, <1>4, <2>1 DEF ClosedIs, SameHeap
    <2>3. \A f \in Fd : v.p.fn[f] <=> i.p.fn[f]
      BY <1>2, <2>1 DEF ClosedIs
    <2>4. \A f \in Fd : f # fd => v.p.jft[f] = i.p.jft[f]
      BY <1>1, <1>2 DEF ClosedIs, World, Program
    <2>5. \A f \in Fd : f \in i.p.mine => v.p.jft[f] # "closed"
      BY <1>1, <1>4, <2>4 DEF Plain
    <2> QED BY <1>1, <1>2, <1>3, <2>2, <2>3, <2>5, PlainQuiet
  <1>5. CASE fd \in i.p.mine
    <2>1. Releases(i, fd)
      BY <1>1, <1>5 DEF Plain, Releases
    <2>2. PICK o \in Obj : o = i.p.data[fd]
      BY <1>1, <2>1 DEF Releases, World, Program
    <2>3. /\ v.p.data = [i.p.data EXCEPT ![fd] = Null]
          /\ v.count = [i.count EXCEPT ![o] = @ - 1]
          /\ v.owner = [i.owner EXCEPT ![o] = IF i.count[o] <= 1 THEN 0 ELSE @]
          /\ v.p.id = i.p.id /\ v.p.mine = i.p.mine \ {fd}
      BY <1>2, <2>1, <2>2 DEF ClosedIs
    <2>4. /\ i.count \in [Obj -> Int] /\ i.owner \in [Obj -> Prog \cup {0}]
          /\ i.p.data \in [Fd -> Obj \cup {Null}]
      BY <1>1 DEF World, Program
    <2>5. o # Null
      BY DEF Obj, Null
    <2>6. \A f \in Fd : f # fd => v.p.jft[f] = i.p.jft[f]
      BY <1>1, <1>2 DEF ClosedIs, World, Program
    <2>7. \A f \in Fd : /\ v.p.fn[f] <=> f \in v.p.mine
                        /\ v.p.data[f] # Null <=> f \in v.p.mine
                        /\ f \in v.p.mine => v.p.jft[f] # "closed"
      <3> TAKE f \in Fd
      <3>1. /\ i.p.fn[f] <=> f \in i.p.mine
            /\ i.p.data[f] # Null <=> f \in i.p.mine
            /\ f \in i.p.mine => i.p.jft[f] # "closed"
        BY <1>1 DEF Plain
      <3>2. v.p.fn[f] <=> i.p.fn[f] /\ f # fd
        BY <1>2 DEF ClosedIs
      <3>3. v.p.data[f] = IF f = fd THEN Null ELSE i.p.data[f]
        BY <2>3, <2>4
      <3> QED BY <2>3, <2>6, <3>1, <3>2, <3>3
    <2>8. ASSUME NEW x \in Obj, v.owner[x] # 0
          PROVE  v.owner[x] = v.p.id /\ RefsOf(v.p, x) = v.count[x] /\ v.count[x] > 0
      <3>1. RefsOf(v.p, x) = RefsOf(i.p, x) + OneIf(Null, x) - OneIf(i.p.data[fd], x)
        BY <1>1, <1>2, <2>3, RefsWritten
      <3>2. OneIf(Null, x) = 0
        BY DEF OneIf, Obj, Null
      <3>3. RefsOf(i.p, x) \in Nat /\ i.count[x] \in Int
        BY <1>1, <2>4, RefsOfWorld
      <3>4. i.owner[x] # 0
        BY <2>3, <2>4, <2>8
      <3>5. i.owner[x] = i.p.id /\ RefsOf(i.p, x) = i.count[x] /\ i.count[x] > 0
        BY <1>1, <3>4 DEF Plain
      <3>6. CASE x = o
        <4>1. OneIf(i.p.data[fd], x) = 1
          BY <2>2, <3>6 DEF OneIf
        <4>2. v.count[x] = i.count[x] - 1
          BY <2>3, <2>4, <3>6
        <4>3. v.owner[x] = IF i.count[x] <= 1 THEN 0 ELSE i.owner[x]
          BY <2>3, <2>4, <3>6
        <4>4. ~(i.count[x] <= 1)
          BY <2>8, <4>3
        <4> QED BY <2>3, <3>1, <3>2, <3>3, <3>5, <4>1, <4>2, <4>3, <4>4
      <3>7. CASE x # o
        <4>1. OneIf(i.p.data[fd], x) = 0
          BY <2>2, <3>7 DEF OneIf
        <4>2. v.count[x] = i.count[x] /\ v.owner[x] = i.owner[x]
          BY <2>3, <2>4, <3>7
        <4> QED BY <2>3, <3>1, <3>2, <3>3, <3>5, <4>1, <4>2
      <3> QED BY <3>6, <3>7
    <2>9. Plain(v)
      BY <1>3, <2>7, <2>8 DEF Plain
    <2> QED BY <1>2, <2>9
  <1> QED BY <1>4, <1>5

(* A new descriptor gets an entry for o, which counts it. *)
LEMMA PlainEntry ==
  ASSUME NEW i \in World, Plain(i), NEW v \in World, NEW fd \in Fd, NEW o \in Obj,
         fd \notin i.p.mine, ~Stale(v),
         v.p.id = i.p.id, v.p.mine = i.p.mine \cup {fd},
         v.p.fn = [i.p.fn EXCEPT ![fd] = TRUE],
         v.p.data = [i.p.data EXCEPT ![fd] = o],
         \A f \in Fd : f \in v.p.mine => v.p.jft[f] # "closed",
         v.owner[o] = i.p.id, v.count[o] = RefsOf(i.p, o) + 1,
         \A x \in Obj : x # o => v.owner[x] = i.owner[x] /\ v.count[x] = i.count[x]
  PROVE  Plain(v)
  <1>1. i.p.data \in [Fd -> Obj \cup {Null}] /\ i.p.fn \in [Fd -> BOOLEAN]
    BY DEF World, Program
  <1>2. o # Null
    BY DEF Obj, Null
  <1>3. i.p.data[fd] = Null
    BY DEF Plain
  <1>4. \A f \in Fd : /\ v.p.fn[f] <=> f \in v.p.mine
                      /\ v.p.data[f] # Null <=> f \in v.p.mine
                      /\ f \in v.p.mine => v.p.jft[f] # "closed"
    <2> TAKE f \in Fd
    <2>1. /\ i.p.fn[f] <=> f \in i.p.mine
          /\ i.p.data[f] # Null <=> f \in i.p.mine
      BY DEF Plain
    <2>2. v.p.data[f] = IF f = fd THEN o ELSE i.p.data[f]
      BY <1>1
    <2>3. v.p.fn[f] <=> (f = fd \/ i.p.fn[f])
      BY <1>1
    <2> QED BY <1>2, <2>1, <2>2, <2>3
  <1>5. ASSUME NEW x \in Obj, v.owner[x] # 0
        PROVE  v.owner[x] = v.p.id /\ RefsOf(v.p, x) = v.count[x] /\ v.count[x] > 0
    <2>1. RefsOf(v.p, x) = RefsOf(i.p, x) + OneIf(o, x) - OneIf(i.p.data[fd], x)
      BY RefsWritten
    <2>2. OneIf(i.p.data[fd], x) = 0
      BY <1>3 DEF OneIf, Obj, Null
    <2>3. RefsOf(i.p, x) \in Nat
      BY RefsOfWorld
    <2>4. CASE x = o
      <3>1. OneIf(o, x) = 1
        BY <2>4 DEF OneIf
      <3> QED BY <2>1, <2>2, <2>3, <2>4, <3>1
    <2>5. CASE x # o
      <3>1. OneIf(o, x) = 0
        BY <2>5 DEF OneIf
      <3>2. i.owner[x] = i.p.id /\ RefsOf(i.p, x) = i.count[x] /\ i.count[x] > 0
        BY <1>5, <2>5 DEF Plain
      <3> QED BY <2>1, <2>2, <2>3, <2>5, <3>1, <3>2
    <2> QED BY <2>4, <2>5
  <1> QED BY <1>4, <1>5 DEF Plain

(* No descriptor was free: the world is as after init(). *)
LEMMA PlainNoFd ==
  ASSUME NEW w \in World, Plain(w), NEW a, AllocIs(a, w, NoFd, TRUE)
  PROVE  Plain(a)
  <1>1. PICK i : i = init(w) /\ InitIs(i, w) /\ Plain(i)
    BY InitEffect, PlainInit
  <1>2. /\ SameHeap(a, i) /\ a.p.data = i.p.data /\ a.p.mine = i.p.mine
        /\ ~Stale(a) /\ \A f \in Fd : a.p.fn[f] <=> i.p.fn[f]
    BY <1>1 DEF AllocIs, InitIs, SameHeap, Stale
  <1>3. \A f \in Fd : f \in i.p.mine => a.p.jft[f] # "closed"
    BY <1>1 DEF AllocIs, InitIs, Plain
  <1> QED BY <1>1, <1>2, <1>3, PlainQuiet

LEMMA PlainOpen ==
  ASSUME NEW w, Fit(w), Plain(w), w.brk < MaxObj
  PROVE  Plain(OpenDev(w, TRUE, TRUE, TRUE))
  <1>0. w \in World
    BY DEF Fit
  <1>1. PICK i : i = init(w) /\ i \in World /\ Fit(i) /\ InitIs(i, w) /\ Plain(i)
    BY <1>0, InitEffect, PlainInit, InitFits DEF InitIs
  <1>2. PICK a : a = alloc_fd(w, TRUE) /\ AllocIs(a, w, AllocFd(w), TRUE)
    BY <1>0, AllocEffect
  <1>3. PICK v : v = OpenDev(w, TRUE, TRUE, TRUE)
    OBVIOUS
  <1>4. PICK fd \in Fd \cup {NoFd} : fd = AllocFd(w)
    BY <1>2 DEF AllocIs
  <1>5. \/ fd = NoFd /\ v = a
        \/ fd \in Fd /\ OpenedIs(v, a, fd, TRUE)
    BY <1>0, <1>2, <1>3, <1>4, OpenEffect
  <1>6. CASE fd = NoFd /\ v = a
    BY <1>0, <1>2, <1>3, <1>4, <1>6, PlainNoFd
  <1>7. CASE fd \in Fd /\ OpenedIs(v, a, fd, TRUE)
    <2>1. /\ AllocIs(a, w, fd, TRUE) /\ fd \in Fd
      BY <1>2, <1>4, <1>7
    <2>2. /\ a \in World /\ SameHeap(a, i) /\ a.init_count = a.bss_count
          /\ a.p.hook = i.p.hook /\ a.p.data = i.p.data /\ a.p.table
          /\ a.p.fn = [i.p.fn EXCEPT ![fd] = TRUE]
          /\ a.p.mine = i.p.mine \cup {fd} /\ w.p.jft[fd] = "closed"
          /\ a.p.jft[fd] # "closed"
      BY <1>1, <2>1 DEF AllocIs, InitIs, SameHeap
    <2>3. PICK o \in Obj : o = i.brk + 1 /\ i.brk \in Nat
      <3>1. i.brk = w.brk
        BY <1>1 DEF InitIs, SameHeap
      <3>2. i.brk \in 0 .. MaxObj
        BY <1>1 DEF World
      <3> QED BY <3>1, <3>2, FsExtConstantsOK DEF Obj
    <2>4. /\ v \in World /\ v.bss_count = a.bss_count /\ v.init_count = a.init_count
          /\ v.p.id = i.p.id /\ v.p.fn = a.p.fn /\ v.p.mine = a.p.mine
          /\ v.p.jft = a.p.jft /\ v.p.data = [i.p.data EXCEPT ![fd] = o]
          /\ v.count = [i.count EXCEPT ![o] = 1]
          /\ v.owner = [i.owner EXCEPT ![o] = i.p.id]
      BY <1>7, <2>2, <2>3 DEF OpenedIs, SameHeap
    <2>5. fd \notin i.p.mine
      <3>1. i.p.jft[fd] = "closed"
        BY <1>1, <2>2 DEF InitIs
      <3> QED BY <1>1, <2>1, <3>1 DEF Plain
    <2>6. \A f \in Fd : f \in v.p.mine => v.p.jft[f] # "closed"
      <3> SUFFICES ASSUME NEW f \in Fd, f \in i.p.mine PROVE a.p.jft[f] # "closed"
        BY <2>2, <2>4
      <3>1. w.p.jft[f] # "closed"
        BY <1>1 DEF Plain, InitIs
      <3> QED BY <2>1, <3>1 DEF AllocIs
    <2>7. i.count \in [Obj -> Int] /\ i.owner \in [Obj -> Prog \cup {0}] /\ i.p.id # 0
      BY <1>1, FsExtConstantsOK DEF World, Program, Prog
    <2>8. RefsOf(i.p, o) = 0
      <3>1. i.owner[o] = 0
        <4>1. o > i.brk
          BY <2>3
        <4> QED BY <1>1, <4>1 DEF Fit
      <3>2. RefsOf(i.p, o) \in Nat /\ ~(RefsOf(i.p, o) > 0)
        BY <1>1, <2>7, <3>1, RefsOfWorld DEF Fit, Covered
      <3> QED BY <3>2
    <2>9. /\ v.owner[o] = i.p.id /\ v.count[o] = RefsOf(i.p, o) + 1
          /\ \A x \in Obj : x # o => v.owner[x] = i.owner[x] /\ v.count[x] = i.count[x]
      BY <2>4, <2>7, <2>8
    <2>10. ~Stale(v)
      BY <2>2, <2>4 DEF Stale
    <2>11. v.p.mine = i.p.mine \cup {fd} /\ v.p.fn = [i.p.fn EXCEPT ![fd] = TRUE]
      BY <2>2, <2>4
    <2>12. Plain(v)
      BY <1>1, <2>1, <2>4, <2>5, <2>6, <2>9, <2>10, <2>11, PlainEntry
    <2> QED BY <1>3, <2>12
  <1> QED BY <1>5, <1>6, <1>7

LEMMA PlainDup ==
  ASSUME NEW w \in World, Fit(w), Plain(w), NEW fd \in Fd, get_data(w, fd) # Null
  PROVE  Plain(DupDev(w, fd))
  <1>1. PICK a : a = alloc_fd(w, TRUE) /\ AllocIs(a, w, AllocFd(w), TRUE)
    BY AllocEffect
  <1>2. PICK v : v = DupDev(w, fd)
    OBVIOUS
  <1>3. PICK new \in Fd \cup {NoFd} : new = AllocFd(w)
    BY <1>1 DEF AllocIs
  <1>4. PICK o : o = w.p.data[fd]
    OBVIOUS
  <1>5. /\ ~Stale(w) /\ o \in Obj
        /\ \/ new = NoFd /\ v = a
           \/ new \in Fd /\ DuppedIs(v, a, new, o)
    BY <1>1, <1>2, <1>3, <1>4, DupEffect
  <1>6. CASE new = NoFd /\ v = a
    BY <1>1, <1>2, <1>3, <1>6, PlainNoFd
  <1>7. CASE new \in Fd /\ DuppedIs(v, a, new, o)
    <2>1. AllocIs(a, w, new, TRUE) /\ new \in Fd /\ init(w) = w
      BY <1>1, <1>3, <1>5, <1>7 DEF init
    <2>2. /\ a \in World /\ SameHeap(a, w) /\ a.init_count = a.bss_count
          /\ a.p.data = w.p.data /\ a.p.table
          /\ a.p.fn = [w.p.fn EXCEPT ![new] = TRUE]
          /\ a.p.mine = w.p.mine \cup {new} /\ w.p.jft[new] = "closed"
          /\ a.p.jft[new] # "closed"
      BY <2>1 DEF AllocIs, SameHeap
    <2>4. /\ v \in World /\ v.bss_count = a.bss_count /\ v.init_count = a.init_count
          /\ v.p.id = w.p.id /\ v.p.fn = a.p.fn /\ v.p.mine = a.p.mine
          /\ v.p.jft = a.p.jft /\ v.p.data = [w.p.data EXCEPT ![new] = o]
          /\ v.count = [w.count EXCEPT ![o] = w.count[o] + 1]
          /\ v.owner = w.owner
      BY <1>7, <2>2 DEF DuppedIs, SameHeap
    <2>5. new \notin w.p.mine
      BY <2>1, <2>2 DEF Plain
    <2>6. \A f \in Fd : f \in v.p.mine => v.p.jft[f] # "closed"
      <3> SUFFICES ASSUME NEW f \in Fd, f \in w.p.mine PROVE a.p.jft[f] # "closed"
        BY <2>2, <2>4
      <3>1. w.p.jft[f] # "closed"
        BY DEF Plain
      <3> QED BY <2>1, <3>1 DEF AllocIs
    <2>7. w.count \in [Obj -> Int] /\ w.owner \in [Obj -> Prog \cup {0}]
      BY DEF World
    <2>8. PICK x \in Obj : x = o
      BY <1>5
    <2>9. w.owner[x] = w.p.id /\ RefsOf(w.p, x) = w.count[x]
      <3>1. w.owner[x] # 0
        <4>1. RefsOf(w.p, x) \in Nat /\ RefsOf(w.p, x) > 0
          BY <1>4, <2>8, RefsOfWorld
        <4>2. w.owner[x] = w.p.id /\ w.p.id # 0
          BY <4>1, FsExtConstantsOK DEF Fit, Covered, World, Program, Prog
        <4> QED BY <4>2
      <3> QED BY <3>1 DEF Plain
    <2>10. /\ v.owner[x] = w.p.id /\ v.count[x] = RefsOf(w.p, x) + 1
           /\ \A y \in Obj : y # x => v.owner[y] = w.owner[y] /\ v.count[y] = w.count[y]
      BY <2>4, <2>7, <2>8, <2>9
    <2>11. ~Stale(v) /\ v.p.mine = w.p.mine \cup {new}
           /\ v.p.fn = [w.p.fn EXCEPT ![new] = TRUE]
           /\ v.p.data = [w.p.data EXCEPT ![new] = x]
      BY <2>2, <2>4, <2>8 DEF Stale
    <2>12. Plain(v)
      BY <2>1, <2>4, <2>5, <2>6, <2>10, <2>11, PlainEntry
    <2> QED BY <1>2, <2>12
  <1> QED BY <1>5, <1>6, <1>7

(* exit() frees all that the program has. *)
LEMMA PlainExit ==
  ASSUME NEW w, Fit(w), Plain(w), Hooked(w)
  PROVE  \A o \in Obj : Exited(w).owner[o] = 0
  <1>0. w \in World
    BY DEF Fit
  <1>1. CASE ~w.p.hook \/ ~w.p.table
    <2>1. Exited(w) = w
      BY <1>1 DEF Exited, CloseAll
    <2>2. \A f \in Fd : w.p.data[f] = Null
      BY <1>1 DEF Hooked, Plain, Fit, Empty
    <2> QED BY <1>0, <2>1, <2>2, NoneLive
  <1>2. CASE w.p.hook /\ w.p.table
    <2>1. PICK u : /\ u = [w EXCEPT !.p.hook = FALSE] /\ Fit(u) /\ SameHeap(u, w)
                   /\ u.init_count = w.init_count /\ u.p.fn = w.p.fn /\ u.p.data = w.p.data
                   /\ u.p.jft = w.p.jft /\ u.p.mine = w.p.mine
      BY HookDetached
    <2>2. Plain(u) /\ u \in World
      <3>1. \A f \in Fd : f \in w.p.mine => u.p.jft[f] # "closed"
        BY <2>1 DEF Plain
      <3> QED BY <2>1, <3>1, PlainQuiet DEF Fit
    <2> DEFINE S == [k \in 0 .. NFd |-> {v \in World : Plain(v) /\ \A f \in 1 .. k : ~v.p.fn[f]}]
    <2>3. Exited(w) = CloseUpTo(u)[NFd]
      BY <1>2, <2>1 DEF Exited, CloseAll
    <2>4. NFd \in Nat
      BY FsExtConstantsOK
    <2>5. u \in S[0]
      BY <2>2, <2>4
    <2>6. ASSUME NEW k \in 1 .. NFd, NEW v \in S[k - 1] PROVE CloseIfExt(v, k) \in S[k]
      <3>1. v \in World /\ Plain(v) /\ k \in Fd /\ \A f \in 1 .. k - 1 : ~v.p.fn[f]
        BY <2>4 DEF Fd
      <3>2. PICK x : x = CloseIfExt(v, k)
        OBVIOUS
      <3>3. x \in World /\ Plain(x) /\ \A f \in 1 .. k : ~x.p.fn[f]
        <4>1. CASE ~v.p.fn[k]
          <5>1. x = v
            BY <3>2, <4>1 DEF CloseIfExt
          <5>2. \A f \in 1 .. k : f \in 1 .. k - 1 \/ f = k
            BY <2>4
          <5> QED BY <3>1, <4>1, <5>1, <5>2
        <4>2. CASE v.p.fn[k]
          <5>1. x = CloseFd(v, k)
            BY <3>2, <4>2 DEF CloseIfExt
          <5>2. PICK i : i = init(v) /\ InitIs(i, v)
            BY <3>1, InitEffect
          <5>3. ClosedIs(x, i, k)
            BY <3>1, <5>1, <5>2, CloseEffect
          <5>4. ASSUME NEW f \in 1 .. k PROVE ~x.p.fn[f]
            <6>1. f \in Fd /\ (f \in 1 .. k - 1 \/ f = k)
              BY <2>4 DEF Fd
            <6>2. f # k => ~i.p.fn[f]
              BY <3>1, <5>2, <6>1 DEF InitIs
            <6> QED BY <5>3, <6>1, <6>2 DEF ClosedIs
          <5>5. Plain(x)
            BY <3>1, <5>1, PlainClose
          <5> QED BY <5>3, <5>4, <5>5 DEF ClosedIs
        <4> QED BY <4>1, <4>2
      <3> QED BY <2>4, <3>2, <3>3
    <2>7. CloseUpTo(u)[NFd] \in S[NFd]
      <3> HIDE DEF S
      <3> QED BY <2>5, <2>6, LoopKeeps
    <2>8. PICK x : x = Exited(w) /\ x \in World /\ Plain(x) /\ \A f \in Fd : ~x.p.fn[f]
      BY <2>3, <2>4, <2>7 DEF Fd
    <2>9. \A f \in Fd : x.p.data[f] = Null
      BY <2>8 DEF Plain
    <2> QED BY <2>8, <2>9, NoneLive
  <1> QED BY <1>1, <1>2

-----------------------------------------------------------------------------
(***************************************************************************)
(* Every action keeps XInv.                                                *)
(***************************************************************************)
(* A call of the running program. *)
LEMMA CallKeeps ==
  ASSUME XInv, UNCHANGED practice, NEW v, Step(v),
         Fit(v), Others(W, v),
         "child" \notin practice => Hooked(v),
         practice = {} => Plain(v)
  PROVE  XInv'
  <1>1. W' = v /\ rest' = rest /\ practice' = practice
    BY DEF Step
  <1>2. Waiting(v, rest)
    BY WaitingKept DEF XInv
  <1> QED BY <1>1, <1>2 DEF XInv

LEMMA InstallKeeps ==
  ASSUME XInv, UNCHANGED practice, Install
  PROVE  XInv'
  <1>0. W \in World /\ Fit(W) /\ practice \in Practice
    BY DEF XInv, Fit
  <1>1. PICK n \in Int : n = W.bss_count
    BY <1>0 DEF World
  <1>2. PICK v : v = [W EXCEPT !.installed = TRUE, !.dev_bss = n]
    OBVIOUS
  <1>3. Step(v)
    BY <1>1, <1>2 DEF Install
  <1>4. /\ v \in World /\ v.p = W.p /\ v.bss_count = W.bss_count
        /\ v.init_count = W.init_count /\ v.brk = W.brk
        /\ v.count = W.count /\ v.owner = W.owner
    BY <1>0, <1>2 DEF World
  <1>5. Quiet(v, W)
    BY <1>0, <1>4 DEF Quiet, SameHeap, Fit
  <1>6. Fit(v) /\ Others(W, v)
    BY <1>0, <1>5, QuietFits
  <1>7. Hooked(W) => Hooked(v)
    BY <1>4 DEF Hooked, Stale
  <1>8. Plain(W) => Plain(v)
    BY <1>4 DEF Plain, Stale
  <1> QED BY <1>3, <1>6, <1>7, <1>8, CallKeeps DEF XInv

LEMMA LookupKeeps ==
  ASSUME XInv, UNCHANGED practice, Lookup
  PROVE  XInv'
  <1>0. W \in World /\ Fit(W)
    BY DEF XInv, Fit
  <1>1. PICK v : v = init(W) /\ InitIs(v, W)
    BY <1>0, InitEffect
  <1>2. Fit(v) /\ Others(W, v)
    BY <1>0, <1>1, InitFits
  <1>3. Hooked(W) => Hooked(v)
    BY <1>0, <1>1, HookedAfter DEF InitIs, SameHeap
  <1>4. Plain(W) => Plain(v)
    BY <1>0, <1>1, PlainInit
  <1>5. Step(v)
    BY <1>1 DEF Lookup
  <1> QED BY <1>2, <1>3, <1>4, <1>5, CallKeeps DEF XInv

LEMMA OpenKeeps ==
  ASSUME XInv, UNCHANGED practice, Open
  PROVE  XInv'
  <1>0. W \in World /\ Fit(W) /\ W.brk < MaxObj
    BY DEF XInv, Fit, Open
  <1>1. PICK alloc \in BOOLEAN, mem \in BOOLEAN, again \in BOOLEAN :
          /\ Step(OpenDev(W, alloc, mem, again))
          /\ practice = {} => alloc = TRUE /\ mem = TRUE /\ again = TRUE
    <2>1. MallocOk \subseteq BOOLEAN /\ (practice = {} => MallocOk = {TRUE})
      BY DEF MallocOk
    <2> QED BY <2>1 DEF Open
  <1>2. PICK v : v = OpenDev(W, alloc, mem, again)
    OBVIOUS
  <1>3. Fit(v) /\ Others(W, v)
    BY <1>0, <1>2, OpenFits
  <1>4. Hooked(W) => Hooked(v)
    <2>1. PICK a : a = alloc_fd(W, alloc) /\ AllocIs(a, W, AllocFd(W), alloc)
      BY <1>0, AllocEffect
    <2>2. v = a \/ OpenedIs(v, a, AllocFd(W), again)
      BY <1>0, <1>2, <2>1, OpenEffect
    <2>3. /\ v.bss_count = W.bss_count /\ v.init_count = W.bss_count
          /\ v.p.hook = init(W).p.hook
      BY <2>1, <2>2 DEF AllocIs, SameHeap, OpenedIs
    <2> QED BY <1>0, <2>3, HookedAfter
  <1>5. practice = {} => Plain(v)
    <2> SUFFICES ASSUME practice = {} PROVE Plain(v)
      OBVIOUS
    <2>1. Plain(W) /\ v = OpenDev(W, TRUE, TRUE, TRUE)
      BY <1>1, <1>2 DEF XInv
    <2> QED BY <1>0, <2>1, PlainOpen
  <1>6. Step(v)
    BY <1>1, <1>2
  <1> QED BY <1>3, <1>4, <1>5, <1>6, CallKeeps DEF XInv

LEMMA CloseKeeps ==
  ASSUME XInv, UNCHANGED practice, NEW fd \in Fd, close(fd)
  PROVE  XInv'
  <1>0. W \in World /\ Fit(W)
    BY DEF XInv, Fit
  <1>1. PICK i : i = init(W) /\ InitIs(i, W)
    BY <1>0, InitEffect
  <1>2. PICK v : v = CloseFd(W, fd) /\ ClosedIs(v, i, fd)
    BY <1>0, <1>1, CloseEffect
  <1>3. Fit(v) /\ Others(W, v)
    BY <1>0, <1>2, CloseFits
  <1>4. Hooked(W) => Hooked(v)
    <2>1. /\ v.bss_count = W.bss_count /\ v.init_count = W.bss_count
          /\ v.p.hook = init(W).p.hook
      BY <1>1, <1>2 DEF InitIs, SameHeap, ClosedIs
    <2> QED BY <1>0, <2>1, HookedAfter
  <1>5. Plain(W) => Plain(v)
    BY <1>0, <1>2, PlainClose
  <1>6. Step(v)
    BY <1>2 DEF close
  <1> QED BY <1>3, <1>4, <1>5, <1>6, CallKeeps DEF XInv

LEMMA DupfdKeeps ==
  ASSUME XInv, UNCHANGED practice, NEW fd \in Fd, fcntl_dupfd(fd)
  PROVE  XInv'
  <1>0. W \in World /\ Fit(W) /\ get_data(W, fd) # Null
    BY DEF XInv, Fit, fcntl_dupfd
  <1>1. PICK a : a = alloc_fd(W, TRUE) /\ AllocIs(a, W, AllocFd(W), TRUE)
    BY <1>0, AllocEffect
  <1>2. PICK v : v = DupDev(W, fd)
    OBVIOUS
  <1>3. Fit(v) /\ Others(W, v)
    BY <1>0, <1>2, DupFits
  <1>4. Hooked(W) => Hooked(v)
    <2>1. v = a \/ DuppedIs(v, a, AllocFd(W), W.p.data[fd])
      BY <1>0, <1>1, <1>2, DupEffect
    <2>2. /\ v.bss_count = W.bss_count /\ v.init_count = W.bss_count
          /\ v.p.hook = init(W).p.hook
      BY <1>1, <2>1 DEF AllocIs, SameHeap, DuppedIs
    <2> QED BY <1>0, <2>2, HookedAfter
  <1>5. Plain(W) => Plain(v)
    BY <1>0, <1>2, PlainDup
  <1>6. Step(v)
    BY <1>2 DEF fcntl_dupfd
  <1> QED BY <1>3, <1>4, <1>5, <1>6, CallKeeps DEF XInv

(* DOS opens a handle, and the program is given it or not. *)
HandleIs(v, w, m, h, given) ==
  /\ Fit(v) /\ Others(w, v) /\ v \in World /\ SameHeap(v, w)
  /\ v.init_count = w.init_count
  /\ v.p.table = w.p.table /\ v.p.fn = w.p.fn /\ v.p.data = w.p.data
  /\ v.p.hook = w.p.hook /\ v.p.mine = given
  /\ v.p.jft = [w.p.jft EXCEPT ![m] = h]

LEMMA HandleStep ==
  ASSUME NEW w, Fit(w), NEW m \in Fd, NEW h \in Handle, NEW given \in SUBSET Fd
  PROVE  /\ HandleIs([w EXCEPT !.p.jft[m] = h, !.p.mine = given], w, m, h, given)
         /\ given = w.p.mine =>
              [w EXCEPT !.p.jft[m] = h] = [w EXCEPT !.p.jft[m] = h, !.p.mine = given]
  <1>1. w \in World
    BY DEF Fit
  <1>2. PICK q \in Program : q = [w.p EXCEPT !.jft = [w.p.jft EXCEPT ![m] = h], !.mine = given]
    BY <1>1 DEF World, Program
  <1>3. PICK v : v = [w EXCEPT !.p = q]
    OBVIOUS
  <1>4. [w EXCEPT !.p.jft[m] = h, !.p.mine = given] = v
    BY <1>1, <1>2, <1>3 DEF World, Program
  <1>5. /\ v \in World /\ v.p = q /\ v.bss_count = w.bss_count /\ v.init_count = w.init_count
        /\ v.brk = w.brk /\ v.count = w.count /\ v.owner = w.owner
    BY <1>1, <1>3, PrivateStep
  <1>6. /\ q.id = w.p.id /\ q.jft = [w.p.jft EXCEPT ![m] = h] /\ q.mine = given
        /\ q.fn = w.p.fn /\ q.table = w.p.table /\ q.data = w.p.data /\ q.hook = w.p.hook
    BY <1>1, <1>2 DEF World, Program
  <1>7. SameHeap(v, w)
    BY <1>5, <1>6 DEF SameHeap
  <1>8. Quiet(v, w)
    BY <1>5, <1>6, <1>7 DEF Quiet, Fit, Empty
  <1>9. Fit(v) /\ Others(w, v)
    BY <1>8, QuietFits
  <1>10. HandleIs(v, w, m, h, given)
    BY <1>5, <1>6, <1>7, <1>9 DEF HandleIs
  <1>11. given = w.p.mine => [w EXCEPT !.p.jft[m] = h] = v
    BY <1>1, <1>2, <1>3 DEF World, Program
  <1> QED BY <1>4, <1>10, <1>11

LEMMA HandleHooked ==
  ASSUME NEW w, Hooked(w), NEW v, NEW m, NEW h, NEW given, HandleIs(v, w, m, h, given)
  PROVE  Hooked(v)
  BY DEF Hooked, HandleIs, SameHeap, Stale

LEMMA HandlePlain ==
  ASSUME NEW w \in World, Plain(w), NEW v, NEW m \in Fd, NEW h, m \notin w.p.mine,
         HandleIs(v, w, m, h, w.p.mine)
  PROVE  Plain(v)
  <1>1. \A f \in Fd : f \in w.p.mine => v.p.jft[f] # "closed"
    <2> SUFFICES ASSUME NEW f \in Fd, f \in w.p.mine PROVE v.p.jft[f] # "closed"
      OBVIOUS
    <2>1. v.p.jft[f] = w.p.jft[f]
      BY DEF HandleIs, World, Program
    <2> QED BY <2>1 DEF Plain
  <1>2. /\ SameHeap(v, w) /\ v.p.data = w.p.data /\ v.p.mine = w.p.mine
        /\ v.init_count = w.init_count /\ \A f \in Fd : v.p.fn[f] <=> w.p.fn[f]
    BY DEF HandleIs
  <1> QED BY <1>1, <1>2, PlainQuiet

(* The function of a descriptor, and when it has one. *)
LEMMA FunctionKnown ==
  ASSUME NEW w \in World, NEW fd \in Fd
  PROVE  /\ get_function(w, fd) \in BOOLEAN
         /\ Plain(w) => (get_function(w, fd) <=> fd \in w.p.mine)
  <1>1. PICK i : i = init(w) /\ i \in World /\ InitIs(i, w)
    BY InitEffect DEF InitIs
  <1>2. get_function(w, fd) \in BOOLEAN
    BY <1>1 DEF get_function, World, Program
  <1>3. ASSUME Plain(w) PROVE get_function(w, fd) <=> fd \in w.p.mine
    <2>1. Plain(i)
      BY <1>1, <1>3, PlainInit
    <2> QED BY <1>1, <2>1 DEF Plain, InitIs, get_function
  <1> QED BY <1>2, <1>3

(* dup() and the end of dup2(): v is the world with the new handle. *)
LEMMA CopyKeeps ==
  ASSUME NEW w, Fit(w), NEW fd \in Fd, NEW new \in Fd, NEW ok \in BOOLEAN
  PROVE  /\ Fit(CopyFn(w, fd, new, ok)) /\ Others(w, CopyFn(w, fd, new, ok))
         /\ Hooked(w) => Hooked(CopyFn(w, fd, new, ok))
         /\ Plain(w) /\ fd \notin w.p.mine /\ new \notin w.p.mine =>
              Plain(CopyFn(w, fd, new, ok))
  <1>0. w \in World
    BY DEF Fit
  <1>1. PICK b \in BOOLEAN : b = get_function(w, fd)
    BY <1>0, FunctionKnown
  <1>2. PICK v : v = set_function(w, new, b, ok)
    OBVIOUS
  <1>3. CopyFn(w, fd, new, ok) = v
    BY <1>1, <1>2 DEF CopyFn
  <1>4. Fit(v) /\ Others(w, v)
    BY <1>2, SetFits
  <1>5. ASSUME Hooked(w) PROVE Hooked(v)
    <2>1. SetIs(v, w, new, b, ok)
      BY <1>0, <1>2, SetEffect
    <2> QED BY <1>0, <1>5, <2>1, HookedAfter DEF SetIs, SameHeap
  <1>6. ASSUME Plain(w), fd \notin w.p.mine, new \notin w.p.mine PROVE Plain(v)
    <2>1. b = FALSE
      BY <1>0, <1>1, <1>6, FunctionKnown
    <2> QED BY <1>0, <1>2, <1>6, <2>1, PlainSet
  <1> QED BY <1>3, <1>4, <1>5, <1>6

LEMMA OpenFileKeeps ==
  ASSUME XInv, UNCHANGED practice, OpenFile
  PROVE  XInv'
  <1>0. W \in World /\ Fit(W) /\ FreeFds(W) # {} /\ W.p.mine \in SUBSET Fd
    BY DEF XInv, Fit, OpenFile, World, Program
  <1>1. PICK m \in Fd : m = Min(FreeFds(W)) /\ W.p.jft[m] = "closed"
    BY <1>0, MinFree
  <1>2. PICK v : v = [W EXCEPT !.p.jft[m] = "file"]
    OBVIOUS
  <1>3. HandleIs(v, W, m, "file", W.p.mine)
    <2>1. PICK h \in Handle : h = "file"
      BY DEF Handle
    <2>2. PICK given \in SUBSET Fd : given = W.p.mine
      BY <1>0
    <2>3. PICK x : x = [W EXCEPT !.p.jft[m] = h, !.p.mine = given]
      OBVIOUS
    <2>4. HandleIs(x, W, m, h, given)
      BY <1>0, <2>3, HandleStep
    <2>5. v = x
      <3>1. [W EXCEPT !.p.jft[m] = h] = x
        BY <1>0, <2>2, <2>3, HandleStep
      <3> QED BY <1>2, <2>1, <3>1
    <2> QED BY <2>1, <2>2, <2>4, <2>5
  <1>4. Fit(v) /\ Others(W, v)
    BY <1>3 DEF HandleIs
  <1>5. Hooked(W) => Hooked(v)
    BY <1>3, HandleHooked
  <1>6. Plain(W) => Plain(v)
    <2>1. Plain(W) => m \notin W.p.mine
      BY <1>1 DEF Plain
    <2> QED BY <1>0, <1>3, <2>1, HandlePlain
  <1>7. Step(v)
    BY <1>1, <1>2 DEF OpenFile
  <1> QED BY <1>4, <1>5, <1>6, <1>7, CallKeeps DEF XInv

LEMMA DupKeeps ==
  ASSUME XInv, UNCHANGED practice, NEW fd \in Fd, dup(fd)
  PROVE  XInv'
  <1>0. W \in World /\ Fit(W) /\ FreeFds(W) # {} /\ W.p.mine \in SUBSET Fd
    BY DEF XInv, Fit, dup, World, Program
  <1>1. PICK new \in Fd : new = Min(FreeFds(W)) /\ W.p.jft[new] = "closed"
    BY <1>0, MinFree
  <1>2. PICK h \in Handle : h = W.p.jft[fd]
    BY <1>0 DEF World, Program
  <1>3. PICK given \in SUBSET Fd :
          given = IF fd \in W.p.mine THEN W.p.mine \cup {new} ELSE W.p.mine
    BY <1>0
  <1>4. PICK u : u = [W EXCEPT !.p.jft[new] = h, !.p.mine = given]
    OBVIOUS
  <1>5. HandleIs(u, W, new, h, given)
    BY <1>0, <1>4, HandleStep
  <1>6. PICK ok \in BOOLEAN : Step(CopyFn(u, fd, new, ok))
    <2>1. MallocOk \subseteq BOOLEAN
      BY DEF MallocOk
    <2>2. [W EXCEPT !.p.jft[new] = W.p.jft[fd],
                    !.p.mine = IF fd \in @ THEN @ \cup {new} ELSE @] = u
      BY <1>0, <1>2, <1>3, <1>4 DEF World, Program
    <2> QED BY <1>1, <2>1, <2>2 DEF dup
  <1>7. PICK v : v = CopyFn(u, fd, new, ok)
    OBVIOUS
  <1>8. Fit(u) /\ Others(W, u) /\ u \in World
    BY <1>5 DEF HandleIs
  <1>9. Fit(v) /\ Others(W, v)
    BY <1>7, <1>8, CopyKeeps, OthersTransitive
  <1>10. Hooked(W) => Hooked(v)
    BY <1>5, <1>7, <1>8, HandleHooked, CopyKeeps
  <1>11. practice = {} => Plain(v)
    <2> SUFFICES ASSUME practice = {} PROVE Plain(v)
      OBVIOUS
    <2>1. Plain(W) /\ ~get_function(W, fd)
      BY DEF XInv, dup
    <2>2. fd \notin W.p.mine /\ new \notin W.p.mine /\ given = W.p.mine
      BY <1>0, <1>1, <1>3, <2>1, FunctionKnown DEF Plain
    <2>3. Plain(u) /\ u.p.mine = W.p.mine
      BY <1>0, <1>5, <2>1, <2>2, HandlePlain DEF HandleIs
    <2> QED BY <1>7, <1>8, <2>2, <2>3, CopyKeeps
  <1>12. Step(v)
    BY <1>6, <1>7
  <1> QED BY <1>9, <1>10, <1>11, <1>12, CallKeeps DEF XInv

LEMMA Dup2Keeps ==
  ASSUME XInv, UNCHANGED practice, NEW fd \in Fd, NEW new \in Fd, dup2(fd, new)
  PROVE  XInv'
  <1>0. W \in World /\ Fit(W)
    BY DEF XInv, Fit
  <1>1. PICK h \in Handle : h = W.p.jft[fd]
    BY <1>0 DEF World, Program
  <1>2. PICK ok \in BOOLEAN :
          LET cleared == set_function(W, new, FALSE, ok)
              dupped == [cleared EXCEPT !.p.jft[new] = W.p.jft[fd],
                                        !.p.mine = IF fd \in @ THEN @ \cup {new}
                                                   ELSE @ \ {new}]
          IN  Step(CopyFn(dupped, fd, new, ok))
    <2>1. MallocOk \subseteq BOOLEAN
      BY DEF MallocOk
    <2> QED BY <2>1 DEF dup2
  <1>3. PICK c : c = set_function(W, new, FALSE, ok) /\ SetIs(c, W, new, FALSE, ok)
    BY <1>0, SetEffect
  <1>4. c \in World /\ Fit(c) /\ Others(W, c) /\ c.p.mine = W.p.mine /\ c.p.mine \in SUBSET Fd
    <2>1. Fit(c) /\ Others(W, c)
      BY <1>0, <1>3, SetFits
    <2> QED BY <1>3, <2>1 DEF SetIs, World, Program
  <1>5. PICK given \in SUBSET Fd :
          given = IF fd \in c.p.mine THEN c.p.mine \cup {new} ELSE c.p.mine \ {new}
    BY <1>4
  <1>6. PICK u : u = [c EXCEPT !.p.jft[new] = h, !.p.mine = given]
    OBVIOUS
  <1>7. HandleIs(u, c, new, h, given)
    BY <1>4, <1>6, HandleStep
  <1>8. PICK v : v = CopyFn(u, fd, new, ok)
    OBVIOUS
  <1>9. Step(v)
    <2>1. [c EXCEPT !.p.jft[new] = W.p.jft[fd],
                    !.p.mine = IF fd \in @ THEN @ \cup {new} ELSE @ \ {new}] = u
      BY <1>1, <1>4, <1>5, <1>6 DEF World, Program
    <2> QED BY <1>2, <1>3, <1>8, <2>1
  <1>10. Fit(u) /\ Others(c, u) /\ u \in World
    BY <1>7 DEF HandleIs
  <1>11. Fit(v) /\ Others(W, v)
    BY <1>4, <1>8, <1>10, CopyKeeps, OthersTransitive
  <1>12. Hooked(W) => Hooked(v)
    <2>1. Hooked(W) => Hooked(c)
      BY <1>0, <1>3, HookedAfter DEF SetIs, SameHeap
    <2> QED BY <1>7, <1>8, <1>10, <2>1, HandleHooked, CopyKeeps
  <1>13. practice = {} => Plain(v)
    <2> SUFFICES ASSUME practice = {} PROVE Plain(v)
      OBVIOUS
    <2>1. Plain(W) /\ ~get_function(W, fd) /\ ~get_function(W, new)
      BY DEF XInv, dup2
    <2>2. fd \notin c.p.mine /\ new \notin c.p.mine /\ given = c.p.mine
      BY <1>0, <1>4, <1>5, <2>1, FunctionKnown
    <2>3. Plain(c)
      BY <1>0, <1>3, <1>4, <2>1, <2>2, PlainSet
    <2>4. Plain(u) /\ u.p.mine = c.p.mine
      BY <1>4, <1>7, <2>2, <2>3, HandlePlain DEF HandleIs
    <2> QED BY <1>8, <1>10, <2>2, <2>4, CopyKeeps
  <1> QED BY <1>9, <1>11, <1>12, <1>13, CallKeeps DEF XInv

(* A program starts. *)
StartedIs(v, w, n) ==
  /\ Fit(v) /\ Hooked(v)
  /\ v.bss_count = n /\ v.p.id = n /\ v.count = w.count /\ v.owner = w.owner
  /\ (\A o \in Obj : w.owner[o] = 0) => Plain(v)

LEMMA Started ==
  ASSUME NEW w, Fit(w), w.bss_count <= MaxStarts, NEW n, n = w.bss_count + 1,
         NEW v, v = [w EXCEPT !.bss_count = n, !.p = NewProgram(n)]
  PROVE  StartedIs(v, w, n)
  <1>1. w \in World /\ w.bss_count \in Nat
    BY DEF Fit, World
  <1>2. n \in Prog /\ n \in Nat
    <2>1. w.p.id \in Prog /\ w.p.id <= w.bss_count
      BY <1>1 DEF Fit, World, Program
    <2> QED BY <1>1, <2>1, FsExtConstantsOK DEF Prog
  <1>3. PICK q : q = NewProgram(n)
    OBVIOUS
  <1>4. /\ q \in Program /\ q.id = n /\ ~q.table /\ q.mine = {}
        /\ \A f \in Fd : ~q.fn[f] /\ q.data[f] = Null
    BY <1>2, <1>3 DEF NewProgram, Program, Handle
  <1>5. v = [w EXCEPT !.bss_count = n, !.p = q]
    BY <1>3
  <1>6. /\ v \in World /\ v.p = q /\ v.bss_count = n /\ v.init_count = w.init_count
        /\ v.brk = w.brk /\ v.count = w.count /\ v.owner = w.owner
    BY <1>1, <1>2, <1>4, <1>5 DEF World
  <1>7. ASSUME NEW o \in Obj PROVE RefsOf(v.p, o) = 0
    <2>1. o # Null
      BY DEF Obj, Null
    <2> QED BY <1>4, <1>6, <2>1, RefsOfWorld
  <1>8. w.init_count <= w.bss_count /\ w.init_count \in Int
    BY <1>1 DEF Fit, World
  <1>9. Stale(v) /\ v.init_count <= v.bss_count /\ v.p.id <= v.bss_count
    BY <1>1, <1>2, <1>4, <1>6, <1>8 DEF Stale
  <1>10. Covered(v.p, v)
    BY <1>7 DEF Covered
  <1>11. Fit(v)
    BY <1>4, <1>6, <1>9, <1>10 DEF Fit, Empty
  <1>12. Hooked(v)
    BY <1>4, <1>6, <1>9 DEF Hooked
  <1>13. (\A o \in Obj : w.owner[o] = 0) => Plain(v)
    BY <1>4, <1>6, <1>9 DEF Plain
  <1> QED BY <1>4, <1>6, <1>11, <1>12, <1>13 DEF StartedIs

LEMMA StartKeeps ==
  ASSUME XInv, UNCHANGED practice, Start
  PROVE  XInv'
  <1>0. W \in World /\ Fit(W) /\ Waiting(W, rest) /\ W.bss_count <= MaxStarts
    BY DEF XInv, Fit, Start
  <1>1. PICK n : n = W.bss_count + 1
    OBVIOUS
  <1>2. PICK v : v = [W EXCEPT !.bss_count = n, !.p = NewProgram(n)]
    OBVIOUS
  <1>3. Fit(v) /\ v.bss_count = n /\ v.p.id = n /\ v.count = W.count /\ v.owner = W.owner
    <2>1. StartedIs(v, W, n)
      BY <1>0, <1>1, <1>2, Started, Zenon
    <2> QED BY <2>1 DEF StartedIs
  <1>4. W' = v /\ rest' = Append(rest, W.p) /\ "child" \in practice
    <2>1. W' = [W EXCEPT !.bss_count = @ + 1, !.p = NewProgram(W.bss_count + 1)]
      BY DEF Start
    <2>2. [W EXCEPT !.bss_count = @ + 1, !.p = NewProgram(W.bss_count + 1)] = v
      BY <1>1, <1>2
    <2> QED BY <2>1, <2>2 DEF Start
  <1>5. PICK q \in Program : q = W.p
    BY <1>0 DEF World
  <1>6. PICK r : r = Append(rest, q)
    OBVIOUS
  <1>7. rest \in Seq(Program) /\ Len(rest) \in Nat
    BY <1>0, LenProperties DEF Waiting
  <1>8. /\ r \in Seq(Program) /\ Len(r) = Len(rest) + 1
        /\ \A i \in 1 .. Len(rest) : r[i] = rest[i]
        /\ r[Len(rest) + 1] = q
    BY <1>6, <1>7, AppendProperties
  <1>9. \A i \in 1 .. Len(r) : i \in 1 .. Len(rest) \/ i = Len(rest) + 1
    BY <1>7, <1>8
  <1>10. n \in Nat /\ W.bss_count \in Nat /\ n > W.bss_count
    BY <1>0, <1>1 DEF World
  <1>11. ASSUME NEW i \in 1 .. Len(rest)
         PROVE  /\ rest[i].id \in Nat /\ rest[i].id <= W.bss_count /\ rest[i].id # q.id
                /\ Empty(rest[i]) /\ Covered(rest[i], W)
    <2>1. rest[i] \in Program
      BY <1>7, ElementOfSeq
    <2>2. rest[i].id \in Nat
      BY <2>1, FsExtConstantsOK DEF Program, Prog
    <2> QED BY <1>0, <1>5, <2>2 DEF Waiting
  <1>12. q.id \in Nat /\ q.id <= W.bss_count /\ Empty(q) /\ Covered(q, W)
    <2>1. q.id \in Nat
      BY FsExtConstantsOK DEF Program, Prog
    <2> QED BY <1>0, <1>5, <2>1 DEF Fit
  <1>13. ASSUME NEW i \in 1 .. Len(r)
         PROVE  /\ r[i].id <= v.bss_count /\ r[i].id # v.p.id
                /\ Empty(r[i]) /\ Covered(r[i], v)
                /\ \A j \in 1 .. Len(r) : r[i].id = r[j].id => i = j
    <2>1. r[i].id \in Nat /\ r[i].id <= W.bss_count /\ Empty(r[i]) /\ Covered(r[i], W)
      BY <1>8, <1>9, <1>11, <1>12
    <2>2. r[i].id <= v.bss_count /\ r[i].id # v.p.id
      BY <1>3, <1>10, <2>1
    <2>3. Covered(r[i], v)
      BY <1>3, <2>1 DEF Covered
    <2>4. ASSUME NEW j \in 1 .. Len(r), r[i].id = r[j].id PROVE i = j
      <3>1. CASE i \in 1 .. Len(rest) /\ j \in 1 .. Len(rest)
        BY <1>0, <1>8, <2>4, <3>1 DEF Waiting
      <3>2. CASE i = Len(rest) + 1 /\ j \in 1 .. Len(rest)
        BY <1>8, <1>11, <2>4, <3>2
      <3>3. CASE i \in 1 .. Len(rest) /\ j = Len(rest) + 1
        BY <1>8, <1>11, <2>4, <3>3
      <3> QED BY <1>9, <3>1, <3>2, <3>3
    <2> QED BY <2>1, <2>2, <2>3, <2>4
  <1>14. Waiting(v, r)
    BY <1>8, <1>13 DEF Waiting
  <1>15. W' = v /\ rest' = r /\ practice' = practice /\ practice # {}
    BY <1>4, <1>5, <1>6
  <1> QED BY <1>3, <1>4, <1>14, <1>15 DEF XInv

LEMMA ExitKeeps ==
  ASSUME XInv, UNCHANGED practice, ProgramExit
  PROVE  XInv'
  <1>0. W \in World /\ Fit(W) /\ Waiting(W, rest) /\ practice' = practice
    BY DEF XInv, Fit
  <1>1. PICK e : e = Exited(W) /\ Fit(e) /\ Others(W, e)
    BY <1>0, ExitFits
  <1>2. Waiting(e, rest) /\ e.bss_count = W.bss_count /\ e \in World
    BY <1>0, <1>1, WaitingKept DEF Others, Fit
  <1>3. CASE rest = <<>> /\ W.bss_count <= MaxStarts
             /\ W' = [Exited(W) EXCEPT !.bss_count = @ + 1, !.p = NewProgram(W.bss_count + 1)]
             /\ UNCHANGED rest
    <2>1. PICK n : n = e.bss_count + 1
      OBVIOUS
    <2>2. PICK v : v = [e EXCEPT !.bss_count = n, !.p = NewProgram(n)]
      OBVIOUS
    <2>3. W' = v
      BY <1>1, <1>2, <1>3, <2>1, <2>2
    <2>4. Fit(v) /\ Hooked(v) /\ ((\A o \in Obj : e.owner[o] = 0) => Plain(v))
      <3>1. Fit(e) /\ e.bss_count <= MaxStarts
        BY <1>1, <1>2, <1>3
      <3>2. StartedIs(v, e, n)
        BY <2>1, <2>2, <3>1, Started, Zenon
      <3> QED BY <3>2 DEF StartedIs
    <2>5. practice = {} => Plain(v)
      <3> SUFFICES ASSUME practice = {} PROVE Plain(v)
        OBVIOUS
      <3>1. Plain(W) /\ Hooked(W)
        BY DEF XInv
      <3>2. \A o \in Obj : e.owner[o] = 0
        BY <1>0, <1>1, <3>1, PlainExit
      <3> QED BY <2>4, <3>2
    <2>6. Waiting(v, <<>>)
      <3>1. Len(<<>>) = 0 /\ <<>> \in Seq(Program)
        OBVIOUS
      <3> QED BY <3>1 DEF Waiting
    <2> QED BY <1>0, <1>3, <2>3, <2>4, <2>5, <2>6 DEF XInv
  <1>4. CASE rest # <<>> /\ W' = [Exited(W) EXCEPT !.p = Last(rest)] /\ rest' = Front(rest)
    <2>1. rest \in Seq(Program) /\ Len(rest) \in Nat \ {0}
      BY <1>2, <1>4, LenProperties, EmptySeq DEF Waiting
    <2>2. PICK n \in Nat : n = Len(rest) /\ n \in 1 .. Len(rest)
      BY <2>1
    <2>3. PICK q \in Program : q = rest[n] /\ q = Last(rest)
      BY <2>1, <2>2, ElementOfSeq DEF Last
    <2>4. PICK r : r = Front(rest)
      OBVIOUS
    <2>5. /\ r \in Seq(Program) /\ Len(r) = n - 1
          /\ \A i \in 1 .. n - 1 : r[i] = rest[i]
      BY <2>1, <2>2, <2>4, SubSeqProperties DEF Front
    <2>6. PICK v : v = [e EXCEPT !.p = q]
      OBVIOUS
    <2>7. /\ v \in World /\ v.p = q /\ v.bss_count = e.bss_count /\ v.init_count = e.init_count
          /\ v.brk = e.brk /\ v.count = e.count /\ v.owner = e.owner
      BY <1>2, <2>6, PrivateStep
    <2>8. W' = v /\ rest' = r
      BY <1>1, <1>4, <2>3, <2>4, <2>6
    <2>9. q.id <= e.bss_count /\ Empty(q) /\ Covered(q, e)
      BY <1>2, <2>2, <2>3 DEF Waiting
    <2>10. Covered(v.p, v)
      BY <2>7, <2>9 DEF Covered
    <2>11. Fit(v)
      BY <1>1, <2>7, <2>9, <2>10 DEF Fit
    <2>12. ASSUME NEW i \in 1 .. Len(r)
           PROVE  /\ r[i].id <= v.bss_count /\ r[i].id # v.p.id
                  /\ Empty(r[i]) /\ Covered(r[i], v)
                  /\ \A j \in 1 .. Len(r) : r[i].id = r[j].id => i = j
      <3>1. i \in 1 .. Len(rest) /\ r[i] = rest[i] /\ i # n
        BY <2>2, <2>5
      <3>2. \A j \in 1 .. Len(r) : j \in 1 .. Len(rest) /\ r[j] = rest[j]
        BY <2>2, <2>5
      <3>3. /\ rest[i].id <= e.bss_count /\ Empty(rest[i]) /\ Covered(rest[i], e)
            /\ \A j \in 1 .. Len(rest) : rest[i].id = rest[j].id => i = j
        BY <1>2, <3>1 DEF Waiting
      <3>4. rest[i].id # q.id
        BY <2>2, <2>3, <3>1, <3>3
      <3>5. Covered(rest[i], v)
        BY <2>7, <3>3 DEF Covered
      <3> QED BY <2>7, <3>1, <3>2, <3>3, <3>4, <3>5
    <2>13. Waiting(v, r)
      BY <2>5, <2>12 DEF Waiting
    <2>14. "child" \in practice
      BY <1>4 DEF XInv
    <2>15. practice # {}
      BY <2>14
    <2> QED BY <1>0, <2>8, <2>11, <2>13, <2>14, <2>15 DEF XInv
  <1> QED BY <1>3, <1>4 DEF ProgramExit

-----------------------------------------------------------------------------
(* XInv is inductive. *)
LEMMA XInvInit == Init => XInv
  <1> SUFFICES ASSUME Init PROVE XInv
    OBVIOUS
  <1>1. PICK q : q = NewProgram(2)
    OBVIOUS
  <1>2. W = [bss_count |-> 2, init_count |-> -1, null_dev_fd |-> NoFd,
             installed |-> FALSE, dev_bss |-> -1, brk |-> 0,
             count |-> [o \in Obj |-> 0], owner |-> [o \in Obj |-> 0], p |-> q]
    BY <1>1 DEF Init
  <1>3. /\ q \in Program /\ q.id = 2 /\ ~q.table /\ q.mine = {}
        /\ \A f \in Fd : ~q.fn[f] /\ q.data[f] = Null
    <2>1. 2 \in Prog
      BY FsExtConstantsOK DEF Prog
    <2> QED BY <1>1, <2>1 DEF NewProgram, Program, Handle
  <1>4. W \in World
    <2>1. /\ 0 \in 0 .. MaxObj /\ -1 \in Int /\ 2 \in Nat /\ FALSE \in BOOLEAN
          /\ [o \in Obj |-> 0] \in [Obj -> Int]
          /\ [o \in Obj |-> 0] \in [Obj -> Prog \cup {0}]
      BY FsExtConstantsOK
    <2> QED BY <1>2, <1>3, <2>1 DEF World
  <1>5. /\ W.p = q /\ W.bss_count = 2 /\ W.init_count = -1
        /\ \A o \in Obj : W.owner[o] = 0
    BY <1>2
  <1>6. ASSUME NEW o \in Obj PROVE RefsOf(W.p, o) = 0
    <2>1. o # Null
      BY DEF Obj, Null
    <2> QED BY <1>3, <1>4, <1>5, <2>1, RefsOfWorld
  <1>7. Fit(W)
    <2>1. Covered(W.p, W)
      BY <1>6 DEF Covered
    <2>2. Empty(W.p) /\ W.p.id <= W.bss_count /\ W.init_count <= W.bss_count
      BY <1>3, <1>5 DEF Empty
    <2> QED BY <1>4, <1>5, <2>1, <2>2 DEF Fit
  <1>8. Stale(W)
    BY <1>5 DEF Stale
  <1>9. Hooked(W) /\ Plain(W)
    BY <1>3, <1>5, <1>8 DEF Hooked, Plain
  <1>10. rest = <<>> /\ practice \in Practice
    BY DEF Init
  <1>11. Waiting(W, rest)
    <2>1. Len(<<>>) = 0 /\ <<>> \in Seq(Program)
      OBVIOUS
    <2> QED BY <1>10, <2>1 DEF Waiting
  <1> QED BY <1>7, <1>9, <1>10, <1>11 DEF XInv

LEMMA XInvStep == XInv /\ [Next]_vars => XInv'
  <1> SUFFICES ASSUME XInv, [Next]_vars PROVE XInv'
    OBVIOUS
  <1>0. CASE UNCHANGED vars
    <2>1. W' = W /\ rest' = rest /\ practice' = practice
      BY <1>0 DEF vars
    <2> QED BY <2>1 DEF XInv
  <1>1. CASE Next
    <2>0. UNCHANGED practice
      BY <1>1 DEF Next
    <2>1. CASE Install
      BY <2>0, <2>1, InstallKeeps
    <2>2. CASE Open
      BY <2>0, <2>2, OpenKeeps
    <2>3. CASE OpenFile
      BY <2>0, <2>3, OpenFileKeeps
    <2>4. CASE Lookup
      BY <2>0, <2>4, LookupKeeps
    <2>5. CASE Start
      BY <2>0, <2>5, StartKeeps
    <2>6. CASE ProgramExit
      BY <2>0, <2>6, ExitKeeps
    <2>7. ASSUME NEW fd \in Fd, close(fd) PROVE XInv'
      BY <2>0, <2>7, CloseKeeps
    <2>8. ASSUME NEW fd \in Fd, fcntl_dupfd(fd) PROVE XInv'
      BY <2>0, <2>8, DupfdKeeps
    <2>9. ASSUME NEW fd \in Fd, dup(fd) PROVE XInv'
      BY <2>0, <2>9, DupKeeps
    <2>10. ASSUME NEW fd \in Fd, NEW new \in Fd, dup2(fd, new) PROVE XInv'
      BY <2>0, <2>10, Dup2Keeps
    <2> QED
      BY <1>1, <2>1, <2>2, <2>3, <2>4, <2>5, <2>6, <2>7, <2>8, <2>9, <2>10 DEF Next
  <1> QED BY <1>0, <1>1

(* The running program and those that wait lead only to objects of their   *)
(* own, which count them; without children the hook is attached as soon as *)
(* the table is looked up, and a plain program has exactly the entries of  *)
(* the descriptors it was given (fsext.c:35-98, fse_zero.c:86, 405).       *)
THEOREM ExtState == Spec => []XInv
  BY XInvInit, XInvStep, PTL DEF Spec

(* dup_count covers the descriptors that lead to the data, in every        *)
(* program that is alive, although dup2() overwrites entries, allocations  *)
(* fail and a child's first lookup makes its parent forget the table       *)
(* (fse_zero.c:86, 405).                                                   *)
THEOREM DataCounted == Spec => []Counted
  <1>1. XInv => Counted
    <2> SUFFICES ASSUME XInv PROVE Counted
      OBVIOUS
    <2>1. TypeOK
      BY DEF XInv, Fit, Empty, Waiting, TypeOK
    <2>2. ASSUME NEW p \in Programs, NEW o \in Obj, RefsOf(p, o) > 0
          PROVE  W.owner[o] = p.id /\ RefsOf(p, o) <= W.count[o]
      <3>1. CASE p = W.p
        BY <2>2, <3>1 DEF XInv, Fit, Covered
      <3>2. CASE p \in Range(rest)
        <4>1. rest \in Seq(Program) /\ DOMAIN rest = 1 .. Len(rest)
          BY LenProperties DEF XInv, Waiting
        <4>2. PICK i \in 1 .. Len(rest) : p = rest[i]
          BY <3>2, <4>1 DEF Range
        <4> QED BY <2>2, <4>2 DEF XInv, Waiting, Covered
      <3> QED BY <3>1, <3>2 DEF Programs
    <2> QED BY <2>1, <2>2 DEF Counted
  <1> QED BY <1>1, ExtState, PTL

(* A device that a program opened is a device until it is closed, however  *)
(* many programs ran before and opened devices on the same descriptors     *)
(* (fsext.c:91, fse_zero.c:272).                                           *)
THEOREM DevicesWork == Spec => []DeviceWorks
  <1>1. XInv => DeviceWorks
    <2> SUFFICES ASSUME XInv, practice = {}, NEW f \in W.p.mine
                 PROVE  get_function(W, f) /\ get_data(W, f) # Null
      BY DEF DeviceWorks
    <2>1. W \in World /\ Plain(W) /\ f \in Fd
      BY DEF XInv, Fit, World, Program
    <2>2. ~Stale(W) /\ init(W) = W
      BY <2>1 DEF Plain, init
    <2> QED BY <2>1, <2>2 DEF Plain, get_function, get_data
  <1> QED BY <1>1, ExtState, PTL

(* No object stays behind when its program has exited, none counts         *)
(* descriptors it does not have, and a program that has a descriptor of an *)
(* extension has the hook that closes it (fsext.c:51, 159, fse_zero.c:407).*)
THEOREM ObjectsTidied == Spec => []Tidied
  <1>1. XInv => Tidied
    <2> SUFFICES ASSUME XInv PROVE Tidied
      OBVIOUS
    <2>1. ASSUME practice = {}, NEW o \in Obj, Live(o)
          PROVE  \E p \in Programs : p.id = W.owner[o] /\ RefsOf(p, o) = W.count[o]
      <3>1. W.owner[o] = W.p.id /\ RefsOf(W.p, o) = W.count[o]
        BY <2>1 DEF XInv, Plain, Live
      <3> QED BY <3>1 DEF Programs
    <2>2. ASSUME "child" \notin practice, NEW f \in Fd, W.p.fn[f] PROVE W.p.hook
      BY <2>2 DEF XInv, Hooked
    <2> QED BY <2>1, <2>2 DEF Tidied
  <1> QED BY <1>1, ExtState, PTL

-----------------------------------------------------------------------------
(***************************************************************************)
(* exit() itself, in whose middle the hook is called: the specification    *)
(* Exit, for every number of functions that atexit() registers and all     *)
(* habits of programs.                                                     *)
(***************************************************************************)
(* The functions of s were registered one before the other. *)
Falling(s) == \A i, j \in 1 .. Len(s) : i < j => s[i] > s[j]

(* No function is in both. *)
Apart(s, t) == \A i \in 1 .. Len(s), j \in 1 .. Len(t) : s[i] # t[j]

(* The functions of s were registered after those of t. *)
Later(s, t) == \A i \in 1 .. Len(s), j \in 1 .. Len(t) : s[i] > t[j]

(***************************************************************************)
(* The inductive invariant.  A function is in the list, or in the rest     *)
(* that exit() goes through, or was run, and is there once: RunsAll only   *)
(* speaks of the last of the three.                                        *)
(***************************************************************************)
Once ==
  /\ ~twice
  /\ Falling(list) /\ Falling(todo)
  /\ Apart(list, todo) /\ Apart(ran, list) /\ Apart(ran, todo)

(* What holds of a program whose functions only write and return. *)
Orderly ==
  habits = {} =>
    /\ Falling(ran) /\ Later(ran, todo)
    /\ pc = "main" => ran = <<>> /\ todo = <<>>
    /\ pc # "main" => Range(ran) \cup Range(todo) = before
    /\ pc \notin {"main", "next", "function"} => todo = <<>>

(* From the cleanup of stdio on nothing is written, without a hook. *)
Written ==
  "hook" \notin habits =>
    /\ ~hook2 /\ pc # "hook"
    /\ pc \in {"props", "fsext", "signals", "hook2", "ended"} =>
         \A s \in Stream : buffer[s] # "dirty"

EInv == ExitTypeOK /\ Once /\ Orderly /\ Written

-----------------------------------------------------------------------------
(* What Range says of a sequence. *)
LEMMA RangeAsSet ==
  ASSUME NEW S, NEW s \in Seq(S)
  PROVE  /\ Range(s) \subseteq S
         /\ Range(s) = {s[i] : i \in 1 .. Len(s)}
  <1>1. DOMAIN s = 1 .. Len(s)
    BY LenProperties
  <1>2. \A i \in 1 .. Len(s) : s[i] \in S
    BY ElementOfSeq
  <1>3. Range(s) = {s[i] : i \in DOMAIN s}
    BY DEF Range
  <1>4. Range(s) = {s[i] : i \in 1 .. Len(s)}
    BY <1>1, <1>3, Zenon
  <1>5. {s[i] : i \in 1 .. Len(s)} \subseteq S
    BY <1>2
  <1> QED BY <1>4, <1>5, Zenon

(* A sequence and its head in front of the rest. *)
LEMMA RangeWithHead ==
  ASSUME NEW S, NEW s \in Seq(S), s # <<>>
  PROVE  Range(s) = {Head(s)} \cup Range(Tail(s))
  <1>0. PICK t \in Seq(S) : t = Tail(s)
    BY HeadTailProperties
  <1>1. /\ Head(s) = s[1]
        /\ Len(s) \in Nat \ {0} /\ Len(t) = Len(s) - 1
        /\ \A i \in 1 .. Len(t) : t[i] = s[i + 1]
    BY <1>0, HeadTailProperties, EmptySeq
  <1>2. Range(s) = {s[i] : i \in 1 .. Len(s)}
    BY RangeAsSet, Zenon
  <1>2a. Range(t) = {t[i] : i \in 1 .. Len(t)}
    <2>1. PICK u \in Seq(S) : u = t
      OBVIOUS
    <2>2. Range(u) = {u[i] : i \in 1 .. Len(u)}
      BY RangeAsSet, Zenon
    <2> QED BY <2>1, <2>2
  <1>3. ASSUME NEW i \in 1 .. Len(s) PROVE s[i] \in {s[1]} \cup {t[j] : j \in 1 .. Len(t)}
    <2>1. CASE i = 1
      BY <2>1
    <2>2. CASE i # 1
      <3>1. i - 1 \in 1 .. Len(t) /\ t[i - 1] = s[i]
        BY <1>1, <2>2
      <3> QED BY <3>1
    <2> QED BY <2>1, <2>2
  <1>4. ASSUME NEW j \in 1 .. Len(t) PROVE t[j] \in {s[i] : i \in 1 .. Len(s)}
    <2>1. j + 1 \in 1 .. Len(s) /\ t[j] = s[j + 1]
      BY <1>1
    <2> QED BY <2>1
  <1>5. s[1] \in {s[i] : i \in 1 .. Len(s)}
    BY <1>1
  <1> QED BY <1>0, <1>1, <1>2, <1>2a, <1>3, <1>4, <1>5

LEMMA RangeAppended ==
  ASSUME NEW S, NEW s \in Seq(S), NEW e \in S
  PROVE  Range(Append(s, e)) = Range(s) \cup {e}
  <1>0. PICK t \in Seq(S) : t = Append(s, e)
    BY AppendProperties
  <1>1. /\ Len(t) = Len(s) + 1 /\ t[Len(s) + 1] = e
        /\ \A i \in 1 .. Len(s) : t[i] = s[i]
        /\ Len(s) \in Nat
    BY <1>0, LenProperties, AppendProperties
  <1>2. Range(s) = {s[i] : i \in 1 .. Len(s)}
    BY RangeAsSet, Zenon
  <1>2a. Range(t) = {t[i] : i \in 1 .. Len(t)}
    <2>1. PICK u \in Seq(S) : u = t
      OBVIOUS
    <2>2. Range(u) = {u[i] : i \in 1 .. Len(u)}
      BY RangeAsSet, Zenon
    <2> QED BY <2>1, <2>2
  <1>3. ASSUME NEW i \in 1 .. Len(t) PROVE t[i] \in {s[j] : j \in 1 .. Len(s)} \cup {e}
    <2>1. i \in 1 .. Len(s) \/ i = Len(s) + 1
      BY <1>1
    <2> QED BY <1>1, <2>1
  <1>4. ASSUME NEW j \in 1 .. Len(s) PROVE s[j] \in {t[i] : i \in 1 .. Len(t)}
    <2>1. j \in 1 .. Len(t) /\ t[j] = s[j]
      BY <1>1
    <2> QED BY <2>1
  <1>5. e \in {t[i] : i \in 1 .. Len(t)}
    <2>1. Len(s) + 1 \in 1 .. Len(t) /\ t[Len(s) + 1] = e
      BY <1>1
    <2> QED BY <2>1
  <1> QED BY <1>0, <1>2, <1>2a, <1>3, <1>4, <1>5

-----------------------------------------------------------------------------
(* atexit() puts a function in front of the list that no one had before. *)
LEMMA AtexitKeeps ==
  ASSUME EInv, atexit, UNCHANGED habits
  PROVE  EInv'
  <1> DEFINE T == 1 .. nreg + 1
  <1> USE DEF EInv
  <1>1. /\ nreg \in Nat /\ nreg' = nreg + 1 /\ nreg' \in 0 .. MaxReg
        /\ 1 .. nreg \subseteq T /\ nreg' \in T
    BY ExitConstantsOK DEF ExitTypeOK, atexit
  <1>2. /\ list \in Seq(T) /\ todo \in Seq(T) /\ ran \in Seq(T)
    BY <1>1, SeqMonotonic DEF ExitTypeOK
  <1>3. /\ <<nreg'>> \in Seq(T) /\ Len(<<nreg'>>) = 1 /\ <<nreg'>>[1] = nreg'
    BY <1>1
  <1>4. /\ list' \in Seq(T) /\ Len(list') = Len(list) + 1
        /\ \A i \in 1 .. Len(list') : list'[i] = IF i = 1 THEN nreg' ELSE list[i - 1]
    BY <1>1, <1>2, <1>3, ConcatProperties, LenProperties DEF atexit
  <1>5. /\ Len(list) \in Nat /\ Len(todo) \in Nat /\ Len(ran) \in Nat
        /\ \A i \in 1 .. Len(list) : list[i] \in 1 .. nreg
        /\ \A i \in 1 .. Len(todo) : todo[i] \in 1 .. nreg
        /\ \A i \in 1 .. Len(ran) : ran[i] \in 1 .. nreg
    BY ElementOfSeq, LenProperties DEF ExitTypeOK
  <1>6. ExitTypeOK'
    BY <1>1, <1>2, <1>4 DEF ExitTypeOK, atexit
  <1>7. \A i \in 1 .. Len(list') : i # 1 => i - 1 \in 1 .. Len(list) /\ list'[i] = list[i - 1]
    BY <1>4, <1>5
  <1>7a. Len(list') \in Nat /\ \A i \in 1 .. Len(list') : i = 1 => list'[i] = nreg'
    BY <1>4, <1>5
  <1>7b. Falling(list')
    <2> SUFFICES ASSUME NEW i \in 1 .. Len(list'), NEW j \in 1 .. Len(list'), i < j
                 PROVE  list'[i] > list'[j]
      BY DEF Falling
    <2>1. /\ j # 1 /\ j - 1 \in 1 .. Len(list) /\ list'[j] = list[j - 1]
          /\ list[j - 1] \in 1 .. nreg
      BY <1>5, <1>7, <1>7a
    <2>2. CASE i = 1
      BY <1>1, <1>7a, <2>1, <2>2
    <2>3. CASE i # 1
      <3>1. /\ i - 1 \in 1 .. Len(list) /\ list'[i] = list[i - 1] /\ i - 1 < j - 1
        BY <1>5, <1>7, <2>3
      <3>2. list[i - 1] > list[j - 1]
        BY <2>1, <3>1 DEF Once, Falling
      <3> QED BY <2>1, <3>1, <3>2
    <2> QED BY <2>2, <2>3
  <1>8. Apart(list', todo) /\ Apart(ran, list')
    <2>1. ASSUME NEW i \in 1 .. Len(list'), NEW j \in 1 .. Len(todo) PROVE list'[i] # todo[j]
      <3>1. CASE i = 1
        BY <1>1, <1>5, <1>7a, <3>1
      <3>2. CASE i # 1
        BY <1>7, <3>2 DEF Once, Apart
      <3> QED BY <3>1, <3>2
    <2>2. ASSUME NEW i \in 1 .. Len(ran), NEW j \in 1 .. Len(list') PROVE ran[i] # list'[j]
      <3>1. CASE j = 1
        BY <1>1, <1>5, <1>7a, <3>1
      <3>2. CASE j # 1
        BY <1>7, <3>2 DEF Once, Apart
      <3> QED BY <3>1, <3>2
    <2> QED BY <2>1, <2>2 DEF Apart
  <1>9. Once'
    BY <1>7b, <1>8 DEF Once, atexit
  <1>10. Orderly' /\ Written'
    BY DEF Orderly, Written, atexit
  <1> QED BY <1>6, <1>9, <1>10

(* exit() takes the list as the rest to go through. *)
LEMMA ExitCallKeeps ==
  ASSUME EInv, exit, UNCHANGED habits
  PROVE  EInv'
  <1> USE DEF EInv
  <1>1. /\ todo' = list /\ list' = <<>> /\ Len(list') = 0
        /\ ran' = ran /\ twice' = twice /\ nreg' = nreg /\ pc' = "next"
        /\ list' \in Seq(1 .. nreg)
    BY DEF exit
  <1>2. Range(list) \subseteq 1 .. nreg
    BY RangeAsSet DEF ExitTypeOK
  <1>3. ExitTypeOK'
    BY <1>1, <1>2 DEF ExitTypeOK, exit, Place
  <1>4. Once'
    BY <1>1 DEF Once, Falling, Apart
  <1>5. Orderly'
    <2> SUFFICES ASSUME habits = {} PROVE Orderly'
      BY DEF Orderly
    <2>1. pc = "main" /\ ran = <<>> /\ Len(ran) = 0
      BY DEF exit, Orderly
    <2>2. before' = Range(todo') /\ Range(ran') = {}
      BY <1>1, <2>1 DEF exit, Range
    <2>3. Falling(ran') /\ Later(ran', todo')
      BY <1>1, <2>1 DEF Falling, Later
    <2> QED BY <1>1, <2>2, <2>3 DEF Orderly
  <1>6. Written'
    BY <1>1 DEF Written, exit
  <1> QED BY <1>3, <1>4, <1>5, <1>6

(* The function that is called was not run before, so it is appended. *)
LEMMA CallNextKeeps ==
  ASSUME EInv, CallNext, UNCHANGED habits
  PROVE  EInv'
  <1> DEFINE T == 1 .. nreg
  <1> USE DEF EInv
  <1>1. /\ nreg' = nreg /\ list' = list /\ todo' = Tail(todo) /\ pc' = "function"
        /\ before' = before /\ todo # <<>> /\ nreg \in Nat
        /\ todo \in Seq(T) /\ ran \in Seq(T) /\ list \in Seq(T)
    BY DEF CallNext, ExitTypeOK
  <1>2. /\ Head(todo) \in T /\ Head(todo) = todo[1] /\ todo' \in Seq(T)
        /\ Len(todo') = Len(todo) - 1
        /\ \A i \in 1 .. Len(todo') : todo'[i] = todo[i + 1]
    BY <1>1, HeadTailProperties
  <1>3. /\ Len(todo) \in Nat \ {0} /\ Len(ran) \in Nat /\ Len(list) \in Nat
    BY <1>1, EmptySeq, LenProperties
  <1>4. Head(todo) \notin Range(ran)
    <2>1. Range(ran) = {ran[i] : i \in 1 .. Len(ran)}
      BY <1>1, RangeAsSet, Zenon
    <2>2. 1 \in 1 .. Len(todo) /\ \A i \in 1 .. Len(ran) : ran[i] # todo[1]
      BY <1>3 DEF Once, Apart
    <2> QED BY <1>2, <2>1, <2>2
  <1>5. ran' = Append(ran, Head(todo)) /\ twice' = twice
    BY <1>4 DEF CallNext, Ran, ExitTypeOK
  <1>6. /\ ran' \in Seq(T) /\ Len(ran') = Len(ran) + 1
        /\ \A i \in 1 .. Len(ran') : ran'[i] = IF i <= Len(ran) THEN ran[i] ELSE todo[1]
    <2>1. PICK x \in T : x = Head(todo) /\ x = todo[1]
      BY <1>2
    <2>2. ran' = Append(ran, x)
      BY <1>5, <2>1
    <2> HIDE DEF T
    <2>3. /\ Append(ran, x) \in Seq(T) /\ Len(Append(ran, x)) = Len(ran) + 1
          /\ \A i \in 1 .. Len(ran) + 1 :
               Append(ran, x)[i] = IF i <= Len(ran) THEN ran[i] ELSE x
      BY <1>1, AppendProperties
    <2> QED BY <2>1, <2>2, <2>3
  <1>6a. /\ \A i \in 1 .. Len(ran) : ran'[i] = ran[i]
         /\ Len(ran) + 1 \in 1 .. Len(ran') /\ ran'[Len(ran) + 1] = todo[1]
         /\ \A i \in 1 .. Len(ran') : i \in 1 .. Len(ran) \/ i = Len(ran) + 1
    BY <1>3, <1>6
  <1>7. ExitTypeOK'
    <2>1. pc' \in Place /\ twice' \in BOOLEAN
      BY <1>1, <1>5 DEF ExitTypeOK, Place, Own
    <2> QED BY <1>1, <1>2, <1>6, <2>1 DEF ExitTypeOK, CallNext
  <1>8. \A i \in 1 .. Len(todo') : i + 1 \in 1 .. Len(todo) /\ 1 < i + 1
    BY <1>2, <1>3
  <1>8a. 1 \in 1 .. Len(todo)
    BY <1>3
  <1>9. Falling(todo') /\ Apart(list', todo')
    <2>1. Falling(todo) /\ Apart(list, todo)
      BY DEF Once
    <2>2. ASSUME NEW i \in 1 .. Len(todo'), NEW j \in 1 .. Len(todo'), i < j
          PROVE  todo'[i] > todo'[j]
      <3>1. /\ i + 1 \in 1 .. Len(todo) /\ j + 1 \in 1 .. Len(todo) /\ i + 1 < j + 1
            /\ todo'[i] = todo[i + 1] /\ todo'[j] = todo[j + 1]
        BY <1>2, <1>8, <2>2
      <3> QED BY <2>1, <3>1 DEF Falling
    <2>3. ASSUME NEW i \in 1 .. Len(list), NEW j \in 1 .. Len(todo') PROVE list[i] # todo'[j]
      BY <1>2, <1>8, <2>1 DEF Apart
    <2> QED BY <1>1, <2>2, <2>3 DEF Falling, Apart
  <1>10. Apart(ran', list') /\ Apart(ran', todo')
    <2>0. /\ \A i \in 1 .. Len(todo) : todo[i] \in Nat
          /\ \A i \in 1 .. Len(todo') : todo[1] > todo'[i]
      BY <1>1, <1>2, <1>8, <1>8a, ElementOfSeq DEF Once, Falling
    <2>1. ASSUME NEW i \in 1 .. Len(ran'), NEW j \in 1 .. Len(todo') PROVE ran'[i] # todo'[j]
      <3>1. todo'[j] = todo[j + 1] /\ j + 1 \in 1 .. Len(todo) /\ todo[1] # todo[j + 1]
        BY <1>2, <1>8, <1>8a, <2>0
      <3>2. CASE i \in 1 .. Len(ran)
        BY <1>6a, <3>1, <3>2 DEF Once, Apart
      <3>3. CASE i = Len(ran) + 1
        BY <1>6a, <3>1, <3>3
      <3> QED BY <1>6a, <3>2, <3>3
    <2>2. ASSUME NEW i \in 1 .. Len(ran'), NEW j \in 1 .. Len(list') PROVE ran'[i] # list'[j]
      <3>1. CASE i \in 1 .. Len(ran)
        BY <1>1, <1>6a, <3>1 DEF Once, Apart
      <3>2. CASE i = Len(ran) + 1
        BY <1>1, <1>6a, <1>8a, <3>2 DEF Once, Apart
      <3> QED BY <1>6a, <3>1, <3>2
    <2> QED BY <2>1, <2>2 DEF Apart
  <1>11. Once'
    BY <1>1, <1>5, <1>9, <1>10 DEF Once
  <1>12. Orderly'
    <2> SUFFICES ASSUME habits = {} PROVE Orderly'
      BY DEF Orderly
    <2>1. Falling(ran) /\ Later(ran, todo) /\ Range(ran) \cup Range(todo) = before
      BY DEF Orderly, CallNext
    <2>2. Range(ran') \cup Range(todo') = before'
      <3>1. Range(todo) = {Head(todo)} \cup Range(todo')
        <4>1. todo \in Seq(T) /\ todo # <<>> /\ todo' \in Seq(T) /\ todo' = Tail(todo)
          BY <1>1, <1>2
        <4> HIDE DEF T, EInv
        <4> QED BY <4>1, RangeWithHead, Zenon
      <3>2. Range(ran') = Range(ran) \cup {Head(todo)}
        <4>1. /\ ran \in Seq(T) /\ Head(todo) \in T /\ ran' \in Seq(T)
              /\ ran' = Append(ran, Head(todo))
          BY <1>1, <1>2, <1>5, <1>6
        <4> HIDE DEF T, EInv
        <4>2. PICK h \in T : h = Head(todo)
          BY <4>1
        <4>3. Range(Append(ran, h)) = Range(ran) \cup {h}
          <5>1. ran \in Seq(T)
            BY <4>1
          <5> QED BY <5>1, <4>2, RangeAppended
        <4> QED BY <4>1, <4>2, <4>3
      <3> QED BY <1>1, <2>1, <3>1, <3>2
    <2>3. Falling(ran')
      BY <1>3, <1>6, <1>8a, <2>1 DEF Falling, Later
    <2>4. Later(ran', todo')
      <3> SUFFICES ASSUME NEW i \in 1 .. Len(ran'), NEW j \in 1 .. Len(todo')
                   PROVE  ran'[i] > todo'[j]
        BY DEF Later
      <3>1. todo'[j] = todo[j + 1] /\ j + 1 \in 1 .. Len(todo) /\ todo[1] > todo[j + 1]
        BY <1>2, <1>8, <1>8a DEF Once, Falling
      <3>2. CASE i \in 1 .. Len(ran)
        BY <1>6a, <2>1, <3>1, <3>2 DEF Later
      <3>3. CASE i = Len(ran) + 1
        BY <1>6a, <3>1, <3>3
      <3> QED BY <1>6a, <3>2, <3>3
    <2> QED BY <1>1, <2>2, <2>3, <2>4 DEF Orderly
  <1>13. Written'
    BY <1>1 DEF Written, CallNext
  <1> QED BY <1>7, <1>11, <1>12, <1>13

-----------------------------------------------------------------------------
(* EInv is inductive. *)
LEMMA EInvInit == ExitInit => EInv
  <1> SUFFICES ASSUME ExitInit PROVE EInv
    OBVIOUS
  <1>1. list = <<>> /\ todo = <<>> /\ ran = <<>> /\ nreg = 0 /\ pc = "main"
    BY DEF ExitInit
  <1>2. /\ <<>> \in Seq(1 .. 0) /\ Len(<<>>) = 0
    OBVIOUS
  <1>3. ExitTypeOK
    <2>1. buffer \in [Stream -> {"open", "dirty", "closed"}]
      BY DEF ExitInit
    <2>2. nreg \in 0 .. MaxReg
      BY <1>1, ExitConstantsOK
    <2>2a. twice \in BOOLEAN /\ hook2 \in BOOLEAN
      BY Zenon DEF ExitInit
    <2>3. list \in Seq(1 .. nreg) /\ todo \in Seq(1 .. nreg) /\ ran \in Seq(1 .. nreg)
      BY <1>1, <1>2
    <2>4. pc \in Place /\ before \subseteq 1 .. nreg
      BY <1>1 DEF ExitInit, Place, Own
    <2> QED BY <2>1, <2>2, <2>2a, <2>3, <2>4 DEF ExitTypeOK
  <1>4. Once /\ Orderly /\ Written
    BY <1>1, <1>2 DEF ExitInit, Once, Orderly, Written, Falling, Apart, Later
  <1> QED BY <1>3, <1>4 DEF EInv

LEMMA EInvStep == EInv /\ [ExitNext]_evars => EInv'
  <1> SUFFICES ASSUME EInv, [ExitNext]_evars PROVE EInv'
    OBVIOUS
  <1> DEFINE Lists == UNCHANGED <<list, nreg, todo, ran, twice, before>>
  <1>0. CASE UNCHANGED evars
    BY <1>0 DEF evars, EInv, ExitTypeOK, Once, Orderly, Written
  <1>1. CASE ExitNext /\ atexit
    BY <1>1, AtexitKeeps DEF ExitNext
  <1>2. CASE ExitNext /\ exit
    BY <1>2, ExitCallKeeps DEF ExitNext
  <1>3. CASE ExitNext /\ CallNext
    BY <1>3, CallNextKeeps DEF ExitNext
  <1>4. ASSUME Lists, UNCHANGED habits, pc' \in Place,
               pc = "main" <=> pc' = "main",
               pc' \notin {"main", "next", "function"} =>
                 pc \notin {"main", "next", "function"} \/ todo = <<>>,
               buffer' \in [Stream -> {"open", "dirty", "closed"}],
               hook2' \in BOOLEAN, Written'
        PROVE  EInv'
    BY <1>4 DEF EInv, ExitTypeOK, Once, Orderly
  <1>5. CASE ExitNext /\ (FunctionReturn \/ LoopEnd \/ HookReturn)
    BY <1>4, <1>5 DEF ExitNext, FunctionReturn, LoopEnd, HookReturn, EInv,
           ExitTypeOK, Written, Place
  <1>6. CASE ExitNext /\ Cleanup
    <2>1. [stdout |-> "open", file |-> "closed"] \in [Stream -> {"open", "dirty", "closed"}]
      BY DEF Stream
    <2>2. Written'
      BY <1>6 DEF ExitNext, Cleanup, EInv, Written, Stream
    <2> QED BY <1>4, <1>6, <2>1, <2>2 DEF ExitNext, Cleanup, EInv,
           ExitTypeOK, Place, Orderly
  <1>7. CASE ExitNext /\ (CloseDescriptors \/ Reset \/ CallHook)
    BY <1>4, <1>7 DEF ExitNext, CloseDescriptors, Reset, CallHook, EInv,
           ExitTypeOK, Written, Place, Own
  <1>8. ASSUME NEW set \in BOOLEAN, ExitNext, atexit2(set) PROVE EInv'
    BY <1>4, <1>8 DEF ExitNext, atexit2, EInv, ExitTypeOK, Written
  <1>9. ASSUME NEW s \in Stream, ExitNext, Write(s) PROVE EInv'
    <2>1. buffer' \in [Stream -> {"open", "dirty", "closed"}]
      BY <1>9 DEF Write, EInv, ExitTypeOK
    <2>2. Written'
      BY <1>9 DEF ExitNext, Write, EInv, Written, Own
    <2> QED BY <1>4, <1>9, <2>1, <2>2 DEF ExitNext, Write, EInv, ExitTypeOK
  <1>10. CASE ExitNext /\ Ended
    BY <1>0, <1>10 DEF Ended
  <1> QED
    BY <1>0, <1>1, <1>2, <1>3, <1>5, <1>6, <1>7, <1>8, <1>9, <1>10
       DEF ExitNext, ExitStep, Leave, Library

(* Each function is in the list of atexit(), in the rest exit() still      *)
(* goes through, or was run, and in one of them once; nothing is left      *)
(* unwritten behind the cleanup of stdio (exit.c:69-87).                   *)
THEOREM ExitState == ExitSpec => []EInv
  <1>1. ExitInit => EInv
    BY EInvInit
  <1> QED BY <1>1, EInvStep, PTL DEF ExitSpec

(* No function of atexit() is run twice, however often exit() is called    *)
(* from functions that register others; functions that only write and      *)
(* return are all run, last one first (exit.c:69-77).                      *)
THEOREM FunctionsRunOnce == ExitSpec => []RunsAll
  <1>1. EInv => RunsAll
    <2> SUFFICES ASSUME EInv PROVE RunsAll
      OBVIOUS
    <2>1. ExitTypeOK /\ ~twice
      BY DEF EInv, Once
    <2>2. ASSUME habits = {}
          PROVE  \A i, j \in DOMAIN ran : i < j => ran[i] > ran[j]
      BY <2>1, <2>2, LenProperties DEF ExitTypeOK, EInv, Orderly, Falling
    <2>3. ASSUME habits = {}, pc \in {"stdio", "ended"}
          PROVE  Range(ran) = before
      <3>1. todo = <<>> /\ Range(ran) \cup Range(todo) = before
        BY <2>3 DEF EInv, Orderly
      <3>2. Range(todo) = {}
        BY <3>1 DEF Range
      <3> QED BY <3>1, <3>2
    <2> QED BY <2>1, <2>2, <2>3 DEF RunsAll
  <1> QED BY <1>1, ExitState, PTL

(* What the program wrote is written when it has ended, also what was      *)
(* written by functions in the middle of exit() (exit.c:84).               *)
THEOREM OutputWritten == ExitSpec => []Flushed
  <1>1. EInv => Flushed
    BY DEF EInv, Written, Flushed
  <1> QED BY <1>1, ExitState, PTL
=============================================================================
