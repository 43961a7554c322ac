--------------------------- MODULE FdPropsProofs ---------------------------
(***************************************************************************)
(* Proofs about the properties of descriptors, of one program: for every   *)
(* number of descriptors and objects, all names, and a malloc() that may   *)
(* fail.  Programs that share the statics of fd_props.c overwrite each     *)
(* other's table, and nothing below holds of them.                         *)
(***************************************************************************)
EXTENDS FdProps, FiniteSetTheorems, WellFoundedInduction, TLAPS

(* The objects that the descriptors lead to; InUse is Used(P). *)
Used(s) == {o \in Obj : \E fd \in Fd : s.table[fd] = o}

(***************************************************************************)
(* What is left of the two lists although remove_list() loses links: the   *)
(* list heads are right, a link back is answered by a link forth, and no   *)
(* link of an unused object leads to an object in use.  Links forth of     *)
(* objects in use may lead anywhere.                                       *)
(***************************************************************************)
Linked(s, o) ==
  LET x == s.item[o].prev IN
    x # Null => x \in Used(s) /\ x # o /\ s.item[x].next = o

Unlinked(s, o) ==
  LET x == s.item[o].next IN
    x # Null => x \notin Used(s) /\ x <= s.brk /\ x # s.cached

Heads(s) ==
  /\ s.active \in Used(s) \cup {Null}
  /\ s.cached \notin Used(s)
  /\ s.cached # Null => s.cached <= s.brk /\ s.item[s.cached].prev = Null

Lists(s) ==
  /\ Heads(s)
  /\ \A o \in Used(s) : o <= s.brk /\ Linked(s, o)
  /\ \A o \in Obj \ Used(s) : Unlinked(s, o) /\ s.item[o].name = NoName

Sharing(s, o) == {fd \in Fd : s.table[fd] = o}
Counts(s) == \A o \in Used(s) : s.item[o].ref = Cardinality(Sharing(s, o))

(* Descriptors with properties are open, on the file the properties name. *)
Named(s, open) ==
  \A fd \in Fd : s.table[fd] # Null =>
    open[fd] # NoName /\ s.item[s.table[fd]].name \in {NoName, open[fd]}

Tracked(s, files) ==
  \A n \in files : \E o \in Used(s) : s.item[o].name = n /\ s.item[o].temp

Good(s) == Lists(s) /\ Counts(s)

(* The statics s when a program runs, with "open" its files, or has run:   *)
(* "count" is __bss_count, "files" the temporary files, "full" says        *)
(* whether malloc() may fail.                                              *)
Fine(s, count, runs, open, files, full) ==
  ~s.crashed =>
    /\ Good(s)
    /\ s.mem \/ s.table = NoFds
    /\ s.old # count => s.table = NoFds
    /\ runs => Named(s, open)
    /\ ~full => Tracked(s, files)

(* The inductive invariant. *)
FInv ==
  /\ TypeOK
  /\ bss_count = 1 => depth = 0 /\ P.old = 0
  /\ Fine(P, bss_count, depth = 1, jft[1], tmp[1], oom)

-----------------------------------------------------------------------------
(* Induction without an operator as a parameter: a set of naturals that is *)
(* not empty has a least element.                                          *)
LEMMA Least ==
  ASSUME NEW T \in SUBSET Nat, T # {}
  PROVE  \E x \in T : \A y \in T : x <= y
  <1> DEFINE R == OpToRel(<, Nat)
  <1>1. IsWellFoundedOn(R, Nat)
    BY NatLessThanWellFounded
  <1>2. \A x, y \in Nat : <<y, x>> \in R <=> y < x
    BY DEF OpToRel
  <1> HIDE DEF R
  <1>3. PICK x \in T : \A y \in T : ~ (<<y, x>> \in R)
    BY <1>1, WFMin
  <1>4. ASSUME NEW y \in T PROVE x <= y
    <2>1. y \in Nat /\ x \in Nat
      OBVIOUS
    <2>2. ~(y < x)
      BY <1>2, <1>3, <2>1, Zenon
    <2> QED BY <2>1, <2>2
  <1> QED BY <1>4

(* A set with 0 and with the successors of its elements up to n. *)
LEMMA UpTo ==
  ASSUME NEW n \in Nat, NEW T, 0 \in T, \A k \in 1 .. n : k - 1 \in T => k \in T
  PROVE  \A k \in 0 .. n : k \in T
  <1> SUFFICES ASSUME (0 .. n) \ T # {} PROVE FALSE
    OBVIOUS
  <1>0. (0 .. n) \ T \in SUBSET Nat
    OBVIOUS
  <1>1. PICK x \in (0 .. n) \ T : \A y \in (0 .. n) \ T : x <= y
    BY <1>0, Least
  <1>2. x \in 1 .. n /\ x - 1 \in 0 .. n /\ ~(x <= x - 1)
    BY <1>1
  <1> QED BY <1>1, <1>2

-----------------------------------------------------------------------------
(* The fields that the lists do not use. *)
Same(x, y) == x.ref = y.ref /\ x.name = y.name /\ x.temp = y.temp

(* remove_list(): which links it cuts, and that nothing but NULL is left   *)
(* in the object and in the head that led to it.                           *)
RemovedIs(r, it, h, i) ==
  /\ r = [item |-> r.item, head |-> r.head]
  /\ r.item \in [Obj -> Item]
  /\ r.head = IF h = i THEN Null ELSE h
  /\ r.item[i].prev = Null /\ r.item[i].next = Null
  /\ \A x \in Obj : Same(r.item[x], it[x])
  /\ \A x \in Obj \ {i} :
       /\ r.item[x].next = IF x = it[i].prev THEN it[i].next ELSE it[x].next
       /\ r.item[x].prev = IF x = it[i].next THEN Null ELSE it[x].prev

LEMMA Removed ==
  ASSUME NEW it \in [Obj -> Item], NEW h \in Ptr, NEW i \in Obj, it[i].prev # i
  PROVE  RemovedIs(remove_list([item |-> it, head |-> h], i), it, h, i)
  <1> DEFINE before == it[i].prev
             fwd == IF before = Null THEN it
                    ELSE [it EXCEPT ![before].next = it[i].next, ![i].prev = Null]
             after == fwd[i].next
             bwd == IF after = Null THEN fwd
                    ELSE [fwd EXCEPT ![after].prev = fwd[i].prev, ![i].next = Null]
             r == [item |-> bwd, head |-> IF h = i THEN bwd[i].next ELSE h]
  <1>1. remove_list([item |-> it, head |-> h], i) = r
    BY DEF remove_list
  <1>2. /\ fwd \in [Obj -> Item] /\ fwd[i].prev = Null /\ after = it[i].next
        /\ \A x \in Obj : Same(fwd[x], it[x])
        /\ \A x \in Obj \ {i} :
             /\ fwd[x].next = IF x = before THEN it[i].next ELSE it[x].next
             /\ fwd[x].prev = it[x].prev
    BY DEF Item, Ptr, Null, Obj, Same
  <1> HIDE DEF fwd
  <1>3. /\ bwd \in [Obj -> Item] /\ bwd[i].prev = Null /\ bwd[i].next = Null
        /\ \A x \in Obj : Same(bwd[x], fwd[x])
        /\ \A x \in Obj \ {i} :
             /\ bwd[x].next = fwd[x].next
             /\ bwd[x].prev = IF x = after THEN Null ELSE fwd[x].prev
    BY <1>2 DEF Item, Ptr, Null, Obj, Same
  <1> HIDE DEF bwd
  <1>4. \A x \in Obj : Same(bwd[x], it[x])
    BY <1>2, <1>3 DEF Same
  <1> QED BY <1>1, <1>2, <1>3, <1>4 DEF RemovedIs

(* insert_list(), for an object that is not the head. *)
InsertedIs(r, it, h, i) ==
  /\ r = [item |-> r.item, head |-> r.head]
  /\ r.item \in [Obj -> Item] /\ r.head = i
  /\ r.item[i].prev = Null /\ r.item[i].next = h
  /\ \A x \in Obj : Same(r.item[x], it[x])
  /\ \A x \in Obj \ {i} : /\ r.item[x].next = it[x].next
                           /\ r.item[x].prev = IF x = h THEN i ELSE it[x].prev

LEMMA Inserted ==
  ASSUME NEW it \in [Obj -> Item], NEW h \in Ptr, NEW i \in Obj, h # i
  PROVE  InsertedIs(insert_list([item |-> it, head |-> h], i), it, h, i)
  <1> DEFINE linked == [it EXCEPT ![i].next = h, ![i].prev = Null]
             r == IF h = Null THEN linked ELSE [linked EXCEPT ![h].prev = i]
  <1>1. insert_list([item |-> it, head |-> h], i) = [item |-> r, head |-> i]
    BY DEF insert_list
  <1>2. /\ linked \in [Obj -> Item] /\ linked[i].prev = Null /\ linked[i].next = h
        /\ \A x \in Obj : Same(linked[x], it[x])
        /\ \A x \in Obj \ {i} : linked[x] = it[x]
    BY DEF Item, Ptr, Null, Obj, Same
  <1> HIDE DEF linked
  <1>3. /\ r \in [Obj -> Item] /\ r[i].prev = Null /\ r[i].next = h
        /\ \A x \in Obj : Same(r[x], linked[x])
        /\ \A x \in Obj \ {i} : /\ r[x].next = linked[x].next
                                 /\ r[x].prev = IF x = h THEN i ELSE linked[x].prev
    BY <1>2 DEF Item, Ptr, Null, Obj, Same
  <1> HIDE DEF r
  <1> QED BY <1>1, <1>2, <1>3 DEF Same, InsertedIs

-----------------------------------------------------------------------------
(* What the operations on the lists leave alone. *)
Kept(s, t) ==
  /\ t.table = s.table /\ t.mem = s.mem /\ t.brk = s.brk /\ t.old = s.old
  /\ t.files = s.files /\ t.crashed = s.crashed

HeadedIs(t, s, it, active, cached) ==
  t \in State /\ Kept(s, t) /\ t.item = it /\ t.active = active /\ t.cached = cached

LEMMA Headed ==
  ASSUME NEW s \in State, NEW it \in [Obj -> Item], NEW h \in Ptr
  PROVE  /\ HeadedIs(OnActive(s, [item |-> it, head |-> h]), s, it, h, s.cached)
         /\ HeadedIs(OnCached(s, [item |-> it, head |-> h]), s, it, s.active, h)
  BY DEF OnActive, OnCached, State, Kept, HeadedIs

(* The same of the list of active objects and of the cache. *)
LEMMA ListsOf ==
  ASSUME NEW s \in State, NEW i \in Obj
  PROVE  /\ s.item \in [Obj -> Item] /\ s.active \in Ptr /\ s.cached \in Ptr
         /\ s.item[i].prev # i =>
              /\ RemovedIs(remove_list(ActiveList(s), i), s.item, s.active, i)
              /\ RemovedIs(remove_list(CachedList(s), i), s.item, s.cached, i)
         /\ s.active # i => InsertedIs(insert_list(ActiveList(s), i), s.item, s.active, i)
         /\ s.cached # i => InsertedIs(insert_list(CachedList(s), i), s.item, s.cached, i)
  <1>1. s.item \in [Obj -> Item] /\ s.active \in Ptr /\ s.cached \in Ptr
    BY DEF State
  <1>2. /\ ActiveList(s) = [item |-> s.item, head |-> s.active]
        /\ CachedList(s) = [item |-> s.item, head |-> s.cached]
    BY DEF ActiveList, CachedList
  <1> QED BY <1>1, <1>2, Removed, Inserted

(* free_fd_properties(): the object goes from one list to the other. *)
FreedIs(t, s, o) ==
  /\ t \in State /\ Kept(s, t)
  /\ t.active = (IF s.active = o THEN Null ELSE s.active) /\ t.cached = o
  /\ t.item[o].prev = Null /\ t.item[o].next = s.cached
  /\ \A x \in Obj : Same(t.item[x], s.item[x])
  /\ \A x \in Obj \ {o} :
       /\ t.item[x].next = IF x = s.item[o].prev THEN s.item[o].next
                            ELSE s.item[x].next
       /\ t.item[x].prev = IF x = s.cached THEN o
                            ELSE IF x = s.item[o].next THEN Null
                            ELSE s.item[x].prev

LEMMA Freed ==
  ASSUME NEW s \in State, NEW o \in Obj, s.item[o].prev # o, s.cached # o
  PROVE  FreedIs(free_fd_properties(s, o), s, o)
  <1> DEFINE r == remove_list(ActiveList(s), o)
             u == OnActive(s, r)
             q == insert_list(CachedList(u), o)
             t == OnCached(u, q)
  <1>0. s.item \in [Obj -> Item] /\ s.active \in Ptr /\ s.cached \in Ptr
    BY ListsOf
  <1>1. RemovedIs(r, s.item, s.active, o)
    BY ListsOf
  <1> HIDE DEF r
  <1>2. /\ r.head \in Ptr /\ r.item \in [Obj -> Item]
        /\ r = [item |-> r.item, head |-> r.head]
    BY <1>0, <1>1 DEF Ptr, RemovedIs
  <1>3. HeadedIs(u, s, r.item, r.head, s.cached)
    BY <1>2, Headed, Zenon
  <1> HIDE DEF u
  <1>4. InsertedIs(q, r.item, s.cached, o)
    BY <1>3, ListsOf DEF HeadedIs
  <1> HIDE DEF q
  <1>5. HeadedIs(t, u, q.item, u.active, o)
    BY <1>3, <1>4, Headed DEF HeadedIs, InsertedIs, Ptr
  <1> HIDE DEF t
  <1>6. Kept(s, t) /\ t.active = r.head /\ t.item = q.item /\ t.cached = o /\ t \in State
    BY <1>3, <1>5 DEF Kept, HeadedIs
  <1>7. \A x \in Obj : Same(t.item[x], s.item[x])
    BY <1>1, <1>4, <1>6 DEF Same, RemovedIs, InsertedIs
  <1>8. FreedIs(t, s, o)
    BY <1>1, <1>4, <1>6, <1>7 DEF FreedIs, RemovedIs, InsertedIs
  <1> QED BY <1>8 DEF free_fd_properties, t, q, u, r

-----------------------------------------------------------------------------
(* alloc_fd_properties(): an object nobody uses and no unused object links *)
(* to, from the cache or from malloc(), and an empty cache; or none.       *)
Linkless(a, s) ==
  \A x \in Obj \ {a.o} : /\ Same(a.s.item[x], s.item[x])
                         /\ a.s.item[x].next = s.item[x].next
                         /\ a.s.item[x].prev \in {Null, s.item[x].prev}

NewIs(a, s) ==
  /\ a.o \in Obj \ Used(s) /\ a.o <= a.s.brk /\ s.brk <= a.s.brk
  /\ \A x \in Obj \ Used(s) : s.item[x].next # a.o
  /\ a.s \in State
  /\ a.s.table = s.table /\ a.s.mem = s.mem /\ a.s.old = s.old
  /\ a.s.files = s.files /\ a.s.crashed = s.crashed
  /\ a.s.active = s.active /\ a.s.cached = Null
  /\ a.s.item[a.o].ref = 1
  /\ Linkless(a, s)

AllocIs(a, s) == (oom /\ a.o = Null /\ a.s = s) \/ NewIs(a, s)

LEMMA Allocated ==
  ASSUME NEW s \in State, Lists(s), oom \in BOOLEAN, NEW a \in alloc_fd_properties(s),
         1 \in 0 .. MaxRef
  PROVE  AllocIs(a, s)
  <1>0. /\ s.item \in [Obj -> Item] /\ s.active \in Ptr /\ s.cached \in Ptr
        /\ s.brk \in 0 .. MaxObj /\ MaxObj \in Nat /\ MaxObjOom \in 0 .. MaxObj
    BY FdConstantsOK DEF State
  <1>1. CASE s.cached # Null
    <2>1. PICK c \in Obj : c = s.cached
      BY <1>0, <1>1 DEF Ptr
    <2>2. /\ c \notin Used(s) /\ c <= s.brk /\ s.item[c].prev = Null
          /\ \A x \in Obj \ Used(s) : s.item[x].next # c
      BY <1>1, <2>1 DEF Lists, Heads, Unlinked, Obj, Null
    <2> DEFINE r == remove_list(CachedList(s), c)
               t == OnCached(s, r)
               u == [t EXCEPT !.item[c].prev = Null, !.item[c].next = Null,
                              !.item[c].ref = 1]
    <2>3. RemovedIs(r, s.item, s.cached, c)
      BY <2>2, ListsOf DEF Obj, Null
    <2> HIDE DEF r
    <2>4. r = [item |-> r.item, head |-> r.head] /\ r.item \in [Obj -> Item] /\ r.head = Null
      BY <2>1, <2>3 DEF RemovedIs
    <2>5. HeadedIs(t, s, r.item, s.active, Null)
      BY <2>4, Headed DEF Ptr
    <2> HIDE DEF t
    <2>6. t \in State /\ t.item = r.item /\ t.active = s.active /\ t.cached = Null /\ Kept(s, t)
      BY <2>5 DEF HeadedIs
    <2>7. /\ u \in State /\ Kept(s, u) /\ u.active = s.active /\ u.cached = Null
          /\ u.item[c].ref = 1
          /\ \A x \in Obj \ {c} : u.item[x] = r.item[x]
      <3> DEFINE w == [t.item EXCEPT ![c].prev = Null, ![c].next = Null, ![c].ref = 1]
      <3>1. t.item \in [Obj -> Item]
        BY <2>4, <2>6
      <3>2. w \in [Obj -> Item] /\ w[c].ref = 1 /\ \A x \in Obj \ {c} : w[x] = t.item[x]
        BY <3>1 DEF Item, Ptr
      <3>3. u = [t EXCEPT !.item = w]
        BY <2>6 DEF State
      <3> HIDE DEF w, u
      <3> QED BY <2>6, <3>2, <3>3 DEF State, Kept
    <2> HIDE DEF u
    <2>8. a = [s |-> u, o |-> c]
      BY <1>1, <2>1 DEF alloc_fd_properties, u, t, r
    <2>9. Linkless(a, s)
      BY <2>2, <2>3, <2>7, <2>8 DEF Linkless, RemovedIs, Obj, Null
    <2> QED BY <2>2, <2>7, <2>8, <2>9, <1>0 DEF AllocIs, NewIs, Kept
  <1>2. CASE s.cached = Null
    <2> DEFINE c == s.brk + 1
               u == [s EXCEPT !.brk = @ + 1, !.item[c] = NewItem]
    <2>1. \/ oom /\ a = [s |-> s, o |-> Null]
          \/ c \in Obj /\ a = [s |-> u, o |-> c]
      <3>1. a \in Malloc(s)
        BY <1>2 DEF alloc_fd_properties
      <3>2. CASE oom
        BY <1>0, <3>1, <3>2 DEF Malloc, When, Obj
      <3>3. CASE ~oom
        BY <1>0, <3>1, <3>3 DEF Malloc, When, Obj
      <3> QED BY <3>2, <3>3
    <2>2. CASE oom /\ a = [s |-> s, o |-> Null]
      BY <2>2 DEF AllocIs
    <2>3. CASE c \in Obj /\ a = [s |-> u, o |-> c]
      <3>0. s.brk + 1 \in 0 .. MaxObj
        BY <1>0, <2>3 DEF Obj
      <3>1. NewItem \in Item
        BY DEF NewItem, Item, Ptr
      <3>2. /\ u \in State /\ u.table = s.table /\ u.mem = s.mem /\ u.old = s.old
            /\ u.files = s.files /\ u.crashed = s.crashed /\ u.brk = s.brk + 1
            /\ u.active = s.active /\ u.cached = Null /\ u.item[c] = NewItem
            /\ \A x \in Obj \ {c} : u.item[x] = s.item[x]
        BY <1>0, <1>2, <2>3, <3>0, <3>1 DEF State
      <3> HIDE DEF u
      <3>3. c \notin Used(s) /\ \A x \in Obj \ Used(s) : s.item[x].next # c
        BY <1>0 DEF Lists, Unlinked, Null
      <3>4. Linkless(a, s)
        BY <2>3, <3>2 DEF Linkless, Same
      <3>5. c <= u.brk /\ s.brk <= u.brk /\ u.item[c].ref = 1
        BY <1>0, <3>2 DEF NewItem
      <3>6. a.o = c /\ a.s = u /\ c \in Obj \ Used(s)
        BY <2>3, <3>3
      <3> HIDE DEF c
      <3> QED BY <3>2, <3>3, <3>4, <3>5, <3>6 DEF AllocIs, NewIs
    <2> QED BY <2>1, <2>2, <2>3
  <1> QED BY <1>1, <1>2

(* A descriptor fd without properties is given the object o. *)
AttachedIs(t, s, fd, name, o) ==
  /\ t \in State /\ o \in Obj \ Used(s) /\ o <= t.brk /\ s.brk <= t.brk
  /\ \A x \in Obj \ Used(s) : s.item[x].next # o
  /\ t.table = [s.table EXCEPT ![fd] = o]
  /\ t.mem = s.mem /\ t.old = s.old /\ t.files = s.files /\ t.crashed = s.crashed
  /\ t.active = o /\ t.cached = Null
  /\ t.item[o].ref = 1 /\ t.item[o].name = name
  /\ t.item[o].prev = Null /\ t.item[o].next = s.active
  /\ \A x \in Obj \ {o} :
       /\ Same(t.item[x], s.item[x]) /\ t.item[x].next = s.item[x].next
       /\ IF x = s.active THEN t.item[x].prev = o
          ELSE t.item[x].prev \in {Null, s.item[x].prev}

LEMMA Attached ==
  ASSUME NEW s \in State, Lists(s), oom \in BOOLEAN, NEW fd \in Fd,
         NEW name \in Name \cup {NoName}, NEW t \in Attach(s, fd, name)
  PROVE  (oom /\ t = s) \/ \E o \in Obj : AttachedIs(t, s, fd, name, o)
  <1>0. 1 \in 0 .. MaxRef
    BY FdConstantsOK DEF Fd
  <1>1. PICK a \in alloc_fd_properties(s) :
          t = IF a.o = Null THEN a.s
              ELSE LET v == [a.s EXCEPT !.table[fd] = a.o, !.item[a.o].name = name] IN
                     OnActive(v, insert_list(ActiveList(v), a.o))
    BY DEF Attach
  <1>2. AllocIs(a, s)
    BY <1>0, Allocated
  <1>3. CASE oom /\ a.o = Null /\ a.s = s
    BY <1>1, <1>3
  <1>4. CASE NewIs(a, s)
    <2>1. PICK o \in Obj, b \in State : o = a.o /\ b = a.s
      BY <1>4 DEF NewIs
    <2>2. /\ o \notin Used(s) /\ o <= b.brk /\ s.brk <= b.brk
          /\ \A x \in Obj \ Used(s) : s.item[x].next # o
          /\ b.table = s.table /\ b.mem = s.mem /\ b.old = s.old
          /\ b.files = s.files /\ b.crashed = s.crashed
          /\ b.active = s.active /\ b.cached = Null /\ b.item[o].ref = 1
      BY <1>4, <2>1 DEF NewIs
    <2>3. \A x \in Obj \ {o} : /\ Same(b.item[x], s.item[x])
                               /\ b.item[x].next = s.item[x].next
                               /\ b.item[x].prev \in {Null, s.item[x].prev}
      BY <1>4, <2>1 DEF NewIs, Linkless
    <2> DEFINE tab == [b.table EXCEPT ![fd] = o]
               it == [b.item EXCEPT ![o].name = name]
               v == [b EXCEPT !.table = tab, !.item = it]
               r == insert_list(ActiveList(v), o)
    <2>4. it \in [Obj -> Item] /\ tab \in [Fd -> Ptr]
      BY DEF State, Item, Ptr
    <2>5. it[o].name = name /\ it[o].ref = 1 /\ \A x \in Obj \ {o} : it[x] = b.item[x]
      BY <2>2 DEF State, Item
    <2>6. v = [b EXCEPT !.table[fd] = o, !.item[o].name = name]
      BY DEF State
    <2> HIDE DEF it, tab
    <2>7. /\ v \in State /\ v.table = tab /\ v.item = it /\ v.mem = b.mem /\ v.brk = b.brk
          /\ v.old = b.old /\ v.files = b.files /\ v.crashed = b.crashed
          /\ v.active = b.active /\ v.cached = b.cached
      BY <2>4 DEF State
    <2> HIDE DEF v
    <2>8. s.active # o
      BY <2>2 DEF Lists, Heads, Null, Obj
    <2>9. InsertedIs(r, it, s.active, o)
      BY <2>2, <2>7, <2>8, ListsOf
    <2>10. r = [item |-> r.item, head |-> r.head] /\ r.item \in [Obj -> Item] /\ r.head = o
      BY <2>9 DEF InsertedIs
    <2> HIDE DEF r
    <2>11. t = OnActive(v, r)
      BY <1>1, <2>1, <2>6 DEF r, Obj, Null
    <2>12. HeadedIs(t, v, r.item, o, v.cached)
      BY <2>7, <2>10, <2>11, Headed DEF Ptr
    <2>13. /\ t \in State /\ t.item = r.item /\ t.active = o /\ t.cached = Null
           /\ t.table = [s.table EXCEPT ![fd] = o] /\ t.brk = b.brk
           /\ t.mem = s.mem /\ t.old = s.old /\ t.files = s.files /\ t.crashed = s.crashed
      BY <2>2, <2>7, <2>12 DEF HeadedIs, Kept, tab
    <2>14. /\ t.item[o].ref = 1 /\ t.item[o].name = name
           /\ t.item[o].prev = Null /\ t.item[o].next = s.active
      BY <2>5, <2>9, <2>13 DEF InsertedIs, Same
    <2>15. \A x \in Obj \ {o} :
             /\ Same(t.item[x], s.item[x]) /\ t.item[x].next = s.item[x].next
             /\ IF x = s.active THEN t.item[x].prev = o
                ELSE t.item[x].prev \in {Null, s.item[x].prev}
      BY <2>3, <2>5, <2>9, <2>13 DEF InsertedIs, Same
    <2> QED BY <2>2, <2>13, <2>14, <2>15 DEF AttachedIs
  <1> QED BY <1>2, <1>3, <1>4 DEF AllocIs

(* An object that is attached takes part in what Good says. *)
LEMMA AttachedGood ==
  ASSUME NEW s \in State, Good(s), NEW fd \in Fd, s.table[fd] = Null,
         NEW name, NEW t, NEW o \in Obj, AttachedIs(t, s, fd, name, o)
  PROVE  Good(t) /\ Used(t) = Used(s) \cup {o}
  <1>0. /\ s.table \in [Fd -> Ptr] /\ t.table \in [Fd -> Ptr] /\ t.table[fd] = o
        /\ \A f \in Fd \ {fd} : t.table[f] = s.table[f]
        /\ s.brk \in Nat /\ t.brk \in Nat /\ MaxObj \in Nat
        /\ s.item \in [Obj -> Item] /\ t.item \in [Obj -> Item]
    BY FdConstantsOK DEF AttachedIs, State
  <1>1. Used(t) = Used(s) \cup {o}
    BY <1>0 DEF Used, Obj, Null
  <1>2. Heads(t)
    BY <1>1 DEF Heads, AttachedIs, Used, Obj, Null
  <1>3. ASSUME NEW x \in Used(t) PROVE x <= t.brk /\ Linked(t, x)
    <2>1. CASE x = o
      BY <2>1 DEF AttachedIs, Linked
    <2>2. CASE x # o
      <3>1. x \in Used(s) /\ x \in Obj /\ x <= s.brk /\ Linked(s, x)
        BY <1>1, <2>2 DEF Good, Lists, Used
      <3>2. x <= t.brk
        BY <1>0, <3>1 DEF AttachedIs, Obj
      <3>3. Linked(t, x)
        <4>1. CASE x = s.active
          BY <1>1, <2>2, <3>1, <4>1 DEF Linked, AttachedIs
        <4>2. CASE x # s.active
          BY <1>1, <2>2, <3>1, <4>2 DEF Linked, AttachedIs, Used
        <4> QED BY <4>1, <4>2
      <3> QED BY <3>2, <3>3
    <2> QED BY <2>1, <2>2
  <1>4. ASSUME NEW x \in Obj \ Used(t) PROVE Unlinked(t, x) /\ t.item[x].name = NoName
    <2>1. x \in Obj \ Used(s) /\ x # o
      BY <1>1
    <2>2. Unlinked(s, x) /\ s.item[x].name = NoName
      BY <2>1 DEF Good, Lists
    <2>3. t.item[x].next = s.item[x].next /\ t.item[x].name = s.item[x].name
      BY <2>1 DEF AttachedIs, Same
    <2>4. s.item[x].next \in Ptr
      BY <1>0, <2>1 DEF Item
    <2>5. Unlinked(t, x)
      BY <1>0, <1>1, <2>1, <2>2, <2>3, <2>4 DEF Unlinked, AttachedIs, Ptr, Obj
    <2> QED BY <2>2, <2>3, <2>5
  <1>5. Counts(t)
    <2>1. ASSUME NEW x \in Used(t) PROVE t.item[x].ref = Cardinality(Sharing(t, x))
      <3>1. CASE x = o
        <4>1. Sharing(t, x) = {fd}
          BY <1>0, <3>1 DEF Sharing, AttachedIs, Used
        <4>2. Cardinality({fd}) = 1
          BY FS_Singleton, Zenon
        <4>3. t.item[x].ref = 1
          BY <3>1 DEF AttachedIs
        <4> QED BY <4>1, <4>2, <4>3
      <3>2. CASE x # o
        <4>1. x \in Used(s) /\ x \in Obj
          BY <1>1, <3>2 DEF Used
        <4>2. Sharing(t, x) = Sharing(s, x)
          BY <1>0, <3>2, <4>1 DEF Sharing, Obj, Null
        <4> QED BY <3>2, <4>1, <4>2 DEF Good, Counts, AttachedIs, Same
      <3> QED BY <3>1, <3>2
    <2> QED BY <2>1 DEF Counts
  <1>6. Lists(t)
    BY <1>2, <1>3, <1>4 DEF Lists
  <1> QED BY <1>1, <1>5, <1>6 DEF Good

-----------------------------------------------------------------------------
(* Good does not depend on the fields temp, files and mem, nor on the name *)
(* of an object in use.                                                    *)
Alike(s, t) ==
  /\ t.table = s.table /\ t.brk = s.brk /\ t.active = s.active /\ t.cached = s.cached
  /\ \A x \in Obj : /\ t.item[x].next = s.item[x].next /\ t.item[x].prev = s.item[x].prev
                    /\ t.item[x].ref = s.item[x].ref
                    /\ x \notin Used(s) => t.item[x].name = s.item[x].name

LEMMA AlikeGood ==
  ASSUME NEW s \in State, NEW t \in State, Good(s), Alike(s, t)
  PROVE  Good(t) /\ Used(t) = Used(s)
  <1>1. Used(t) = Used(s) /\ \A x \in Obj : Sharing(t, x) = Sharing(s, x)
    BY DEF Alike, Used, Sharing
  <1>2. s.cached \in Ptr /\ \A x \in Obj : s.item[x].prev \in Ptr
    BY DEF State, Item
  <1>3. Heads(t)
    BY <1>1, <1>2 DEF Good, Lists, Heads, Alike, Ptr
  <1>4. ASSUME NEW x \in Used(s) PROVE x <= t.brk /\ Linked(t, x)
    BY <1>1 DEF Good, Lists, Linked, Alike, Used
  <1>5. ASSUME NEW x \in Obj \ Used(s) PROVE Unlinked(t, x) /\ t.item[x].name = NoName
    BY <1>1 DEF Good, Lists, Unlinked, Alike
  <1>6. Counts(t)
    <2>1. ASSUME NEW x \in Used(s) PROVE t.item[x].ref = Cardinality(Sharing(t, x))
      <3>1. x \in Obj
        BY DEF Used
      <3> QED BY <1>1, <3>1 DEF Good, Counts, Alike
    <2> QED BY <1>1, <2>1 DEF Counts
  <1> QED BY <1>1, <1>3, <1>4, <1>5, <1>6 DEF Good, Lists

(* Nothing is in use after the table was made anew. *)
LEMMA EmptyGood ==
  ASSUME NEW s \in State, Good(s), NEW t \in State, t.item = s.item, t.brk = s.brk,
         s.table = NoFds, t.table = NoFds, t.active = Null, t.cached = Null
  PROVE  Good(t) /\ Used(t) = {} /\ Used(s) = {}
  <1>1. Used(t) = {} /\ Used(s) = {}
    BY DEF Used, NoFds, Obj, Null
  <1>2. Heads(t) /\ Counts(t)
    BY <1>1 DEF Heads, Counts
  <1>3. ASSUME NEW x \in Obj PROVE Unlinked(t, x) /\ t.item[x].name = NoName
    BY <1>1 DEF Good, Lists, Unlinked
  <1> QED BY <1>1, <1>2, <1>3 DEF Good, Lists

(* What __set_fd_properties() does to a descriptor without properties. *)
SetIs(t, s, fd, name, temporary) ==
  \/ oom /\ t.table = s.table /\ \A x \in Obj : Same(t.item[x], s.item[x])
  \/ \E o \in Obj \ Used(s) :
       /\ t.table = [s.table EXCEPT ![fd] = o]
       /\ t.item[o].name = name
       /\ t.item[o].temp <=> temporary /\ name # NoName
       /\ \A x \in Obj \ {o} : Same(t.item[x], s.item[x])

SetDone(t, s, fd, name, temporary) ==
  /\ t \in State /\ Good(t) /\ SetIs(t, s, fd, name, temporary)
  /\ t.old = s.old /\ t.files = s.files /\ t.crashed = s.crashed /\ t.mem = s.mem

LEMMA SetTable ==
  ASSUME NEW s \in State, Good(s), oom \in BOOLEAN, NEW fd \in Fd, s.table[fd] = Null,
         NEW name \in Name \cup {NoName}, NEW temporary \in BOOLEAN, s.mem,
         NEW t \in SetOnTable(s, fd, name, temporary)
  PROVE  SetDone(t, s, fd, name, temporary)
  <1>0. Lists(s)
    BY DEF Good
  <1>1. PICK u \in Attach(s, fd, name) :
          t = IF u.table[fd] = Null THEN u ELSE open_fd(u, u.table[fd], temporary)
    BY DEF SetOnTable
  <1>2. CASE oom /\ u = s
    BY <1>1, <1>2 DEF SetDone, SetIs, Same
  <1>3. ASSUME NEW o \in Obj, AttachedIs(u, s, fd, name, o)
        PROVE  SetDone(t, s, fd, name, temporary)
    <2>1. u \in State /\ Good(u) /\ Used(u) = Used(s) \cup {o}
      <3>1. u \in State
        BY <1>3 DEF AttachedIs
      <3> QED BY <1>3, <3>1, AttachedGood
    <2>2. /\ s.table \in [Fd -> Ptr] /\ u.table = [s.table EXCEPT ![fd] = o]
          /\ u.item \in [Obj -> Item] /\ u.item[o].name = name /\ o \in Obj \ Used(s)
          /\ u.old = s.old /\ u.files = s.files /\ u.crashed = s.crashed /\ u.mem = s.mem
          /\ \A x \in Obj \ {o} : Same(u.item[x], s.item[x])
      BY <1>3, <2>1 DEF AttachedIs, State
    <2>3. u.table[fd] = o /\ o # Null
      BY <2>2 DEF Obj, Null
    <2>4. PICK b \in BOOLEAN : b <=> temporary /\ name # NoName
      OBVIOUS
    <2>5. PICK it \in [Obj -> Item] : it = [u.item EXCEPT ![o].temp = b]
      <3>1. [u.item[o] EXCEPT !.temp = b] \in Item
        BY <2>2 DEF Item
      <3> QED BY <2>2, <3>1
    <2>6. t = [u EXCEPT !.item = it]
      BY <1>1, <2>1, <2>2, <2>3, <2>4, <2>5 DEF open_fd, State
    <2>7. /\ t \in State /\ t.item = it /\ t.table = u.table /\ t.brk = u.brk
          /\ t.active = u.active /\ t.cached = u.cached
          /\ t.old = u.old /\ t.files = u.files /\ t.crashed = u.crashed /\ t.mem = u.mem
      BY <2>1, <2>6 DEF State
    <2>8. /\ \A x \in Obj \ {o} : it[x] = u.item[x]
          /\ it[o].next = u.item[o].next /\ it[o].prev = u.item[o].prev
          /\ it[o].ref = u.item[o].ref /\ it[o].name = u.item[o].name
      BY <2>2, <2>5 DEF Item
    <2>9. it[o].temp <=> b
      BY <2>2, <2>5 DEF Item
    <2>10. Good(t)
      <3>1. Alike(u, t)
        BY <2>7, <2>8 DEF Alike
      <3> QED BY <2>1, <2>7, <3>1, AlikeGood
    <2>11. SetIs(t, s, fd, name, temporary)
      <3>1. \A x \in Obj \ {o} : Same(t.item[x], s.item[x])
        BY <2>2, <2>7, <2>8
      <3>2. t.item[o].temp <=> temporary /\ name # NoName
        BY <2>4, <2>7, <2>9
      <3>3. t.table = [s.table EXCEPT ![fd] = o] /\ t.item[o].name = name
        BY <2>2, <2>7, <2>8
      <3> QED BY <2>2, <3>1, <3>2, <3>3 DEF SetIs
    <2> QED BY <2>2, <2>7, <2>10, <2>11 DEF SetDone
  <1> QED BY <1>0, <1>2, <1>3, Attached

(* __set_fd_properties(), with the table made anew at the first call. *)
SetAll(t, s, fd, name, temporary) ==
  /\ t \in State /\ t.files = s.files
  /\ ~t.crashed => /\ Good(t) /\ t.old = bss_count
                   /\ SetIs(t, s, fd, name, temporary)
                   /\ t.mem \/ t.table = NoFds

LEMMA SetProperties ==
  ASSUME NEW s \in State, Good(s), oom \in BOOLEAN, NEW fd \in Fd, s.table[fd] = Null,
         NEW name \in Name \cup {NoName}, NEW temporary \in BOOLEAN,
         bss_count \in Nat, s.old # bss_count => s.table = NoFds,
         NEW t \in set_fd_properties(s, fd, name, temporary)
  PROVE  SetAll(t, s, fd, name, temporary)
  <1>1. CASE s.old = bss_count /\ ~s.mem
    <2>1. t = [s EXCEPT !.crashed = TRUE]
      BY <1>1 DEF set_fd_properties, SetOnTable
    <2> QED BY <2>1 DEF State, SetAll
  <1>2. CASE s.old = bss_count /\ s.mem
    <2>1. t \in SetOnTable(s, fd, name, temporary)
      BY <1>2 DEF set_fd_properties
    <2>2. SetDone(t, s, fd, name, temporary)
      BY <1>2, <2>1, SetTable
    <2> QED BY <1>2, <2>2 DEF SetDone, SetAll
  <1>3. CASE s.old # bss_count
    <2>1. PICK u \in Reset(s) : t \in IF u.mem THEN SetOnTable(u, fd, name, temporary) ELSE {u}
      BY <1>3 DEF set_fd_properties
    <2>2. NoFds \in [Fd -> Ptr]
      BY DEF NoFds, Ptr
    <2>3. PICK m \in BOOLEAN :
            /\ m \/ oom
            /\ u = [s EXCEPT !.old = bss_count, !.active = Null, !.cached = Null,
                             !.mem = m, !.table = NoFds]
      BY DEF Reset, When
    <2>4. /\ u \in State /\ u.item = s.item /\ u.brk = s.brk /\ u.table = NoFds
          /\ u.active = Null /\ u.cached = Null /\ u.old = bss_count
          /\ u.files = s.files
      BY <2>2, <2>3 DEF State, Ptr
    <2>5. u.mem <=> m
      BY <2>3 DEF State
    <2>6. s.table = NoFds
      BY <1>3
    <2>7. Good(u) /\ Used(u) = {} /\ Used(s) = {}
      BY <2>4, <2>6, EmptyGood
    <2>8. CASE ~u.mem
      <3>1. t = u /\ oom
        BY <2>1, <2>3, <2>5, <2>8
      <3> QED BY <2>4, <2>6, <2>7, <3>1 DEF SetAll, SetIs, Same
    <2>9. CASE u.mem
      <3>1. t \in SetOnTable(u, fd, name, temporary)
        BY <2>1, <2>9
      <3>2. u.table[fd] = Null
        BY <2>4, <2>6
      <3>3. SetDone(t, u, fd, name, temporary)
        BY <2>4, <2>7, <2>9, <3>1, <3>2, SetTable
      <3>4. SetIs(t, s, fd, name, temporary)
        <4>1. u.table = s.table /\ u.item = s.item /\ Used(u) = Used(s)
          BY <2>4, <2>6, <2>7
        <4>2. SetIs(t, u, fd, name, temporary)
          BY <3>3 DEF SetDone
        <4> QED BY <4>1, <4>2, Zenon DEF SetIs
      <3> QED BY <2>4, <2>9, <3>3, <3>4 DEF SetDone, SetAll
    <2> QED BY <2>8, <2>9
  <1> QED BY <1>1, <1>2, <1>3

-----------------------------------------------------------------------------
(* The recursive functions of the model have the values that their         *)
(* definitions say: by induction a function with these values up to n      *)
(* exists.                                                                 *)
NthIs(g, n, s, head) ==
  g = [k \in 0 .. n |-> IF k = 0 THEN head
                         ELSE IF g[k - 1] = Null THEN Null ELSE s.item[g[k - 1]].next]

LEMMA NthExists ==
  ASSUME NEW s, NEW head, NEW n \in Nat
  PROVE  \E g : NthIs(g, n, s, head)
  <1> DEFINE T == {k \in Nat : \E g : NthIs(g, k, s, head)}
  <1>1. 0 \in T
    <2> DEFINE g == [k \in 0 .. 0 |-> head]
    <2>1. NthIs(g, 0, s, head)
      BY DEF NthIs
    <2> QED BY <2>1
  <1>2. ASSUME NEW k \in 1 .. n, k - 1 \in T PROVE k \in T
    <2>1. PICK g : NthIs(g, k - 1, s, head)
      BY <1>2
    <2> DEFINE h == [j \in 0 .. k |-> IF j = k THEN IF g[k - 1] = Null THEN Null
                                                     ELSE s.item[g[k - 1]].next
                                       ELSE g[j]]
    <2>2. \A j \in 0 .. k - 1 : h[j] = g[j]
      OBVIOUS
    <2>3. \A j \in 0 .. k - 1 :
            g[j] = IF j = 0 THEN head ELSE IF g[j - 1] = Null THEN Null ELSE s.item[g[j - 1]].next
      BY <2>1 DEF NthIs
    <2>4. ASSUME NEW j \in 0 .. k
          PROVE  h[j] = IF j = 0 THEN head
                        ELSE IF h[j - 1] = Null THEN Null ELSE s.item[h[j - 1]].next
      BY <2>2, <2>3
    <2>5. NthIs(h, k, s, head)
      BY <2>4 DEF NthIs
    <2> QED BY <2>5
  <1>3. n \in T
    <2> HIDE DEF T
    <2>1. \A k \in 1 .. n : k - 1 \in T => k \in T
      BY <1>2
    <2>2. \A k \in 0 .. n : k \in T
      BY <1>1, <2>1, UpTo
    <2> QED BY <2>2
  <1> QED BY <1>3

LEMMA NthValue ==
  ASSUME NEW s, NEW head
  PROVE  NthIs(Nth(s, head), MaxObj, s, head)
  <1>1. PICK g : NthIs(g, MaxObj, s, head)
    BY NthExists, FdConstantsOK
  <1> QED BY <1>1 DEF Nth, NthIs

(* A list stays in a set that is closed under its links. *)
LEMMA NthStays ==
  ASSUME NEW s, NEW head, NEW S, head \in S, Null \in S,
         \A x \in S \ {Null} : s.item[x].next \in S
  PROVE  \A k \in 0 .. MaxObj : Nth(s, head)[k] \in S
  <1> DEFINE at == Nth(s, head)
             T == {k \in Nat : at[k] \in S}
  <1>0. NthIs(at, MaxObj, s, head)
    BY NthValue
  <1> HIDE DEF at
  <1>1. \A k \in 0 .. MaxObj :
          at[k] = IF k = 0 THEN head
                  ELSE IF at[k - 1] = Null THEN Null ELSE s.item[at[k - 1]].next
    BY <1>0 DEF NthIs
  <1>2. MaxObj \in Nat
    BY FdConstantsOK
  <1>3. 0 \in T
    BY <1>1, <1>2
  <1>4. ASSUME NEW k \in 1 .. MaxObj, k - 1 \in T PROVE k \in T
    BY <1>1, <1>2, <1>4
  <1>5. \A k \in 0 .. MaxObj : k \in T
    <2> HIDE DEF T
    <2>1. \A k \in 1 .. MaxObj : k - 1 \in T => k \in T
      BY <1>4
    <2> QED BY <1>2, <1>3, <2>1, UpTo
  <1> QED BY <1>5 DEF at

(* find_eq_filename() returns another object of that name. *)
FoundIs(r, s, o) ==
  r.ok /\ r.ptr # Null =>
    /\ r.ptr \in Obj /\ r.ptr # o
    /\ s.item[r.ptr].name = s.item[o].name /\ s.item[o].name # NoName

LEMMA Found ==
  ASSUME NEW s \in State, NEW o \in Obj
  PROVE  FoundIs(find_eq_filename(s, o), s, o)
  <1> DEFINE at == Nth(s, s.active)
             stops == {k \in 0 .. MaxObj :
                         \/ at[k] = Null
                         \/ /\ at[k] # o
                            /\ s.item[at[k]].name \in {NoName, s.item[o].name}}
             p == at[Min(stops)]
  <1>1. \A k \in 0 .. MaxObj : at[k] \in Ptr
    <2>1. s.active \in Ptr /\ Null \in Ptr /\ \A x \in Ptr \ {Null} : s.item[x].next \in Ptr
      BY DEF State, Item, Ptr
    <2> QED BY <2>1, NthStays
  <1> HIDE DEF at
  <1>2. CASE stops = {}
    BY <1>2 DEF FoundIs, find_eq_filename, at
  <1>3. CASE stops # {}
    <2>1. Min(stops) \in stops
      <3>1. stops \in SUBSET Nat
        BY FdConstantsOK
      <3> HIDE DEF stops
      <3>2. \E x \in stops : \A y \in stops : x <= y
        BY <1>3, <3>1, Least
      <3> QED BY <3>2 DEF Min
    <2>2. p \in Ptr /\ (p = Null \/ (p # o /\ s.item[p].name \in {NoName, s.item[o].name}))
      BY <1>1, <2>1
    <2>3. find_eq_filename(s, o) = [ok |-> p = Null \/ s.item[p].name # NoName, ptr |-> p]
      BY <1>3 DEF find_eq_filename, at
    <2> HIDE DEF p
    <2>4. PICK b \in BOOLEAN : b <=> (p = Null \/ s.item[p].name # NoName)
      OBVIOUS
    <2>5. find_eq_filename(s, o).ptr = p /\ (find_eq_filename(s, o).ok <=> b)
      BY <2>3, <2>4
    <2> QED BY <2>2, <2>4, <2>5 DEF FoundIs, Ptr
  <1> QED BY <1>2, <1>3

(* close_fd(): the flag goes to another object of that name, or the file   *)
(* is removed.                                                             *)
ClosedIs(c, s, o) ==
  /\ c \in State /\ c.mem = s.mem /\ c.old = s.old /\ c.files \subseteq s.files
  /\ Alike(s, c)
  /\ \A x \in Obj : /\ c.item[x].name = s.item[x].name
                    /\ s.item[x].temp => c.item[x].temp
  /\ ~c.crashed /\ s.item[o].temp /\ s.item[o].name \in c.files =>
       \E p \in Obj \ {o} : /\ s.item[p].name = s.item[o].name
                            /\ s.item[o].name # NoName /\ c.item[p].temp

LEMMA Closed ==
  ASSUME NEW s \in State, NEW o \in Obj
  PROVE  ClosedIs(close_fd(s, o), s, o)
  <1> DEFINE r == find_eq_filename(s, o)
  <1>0. FoundIs(r, s, o)
    BY Found
  <1> HIDE DEF r
  <1>1. CASE ~s.item[o].temp
    <2>1. close_fd(s, o) = s
      BY <1>1 DEF close_fd
    <2> QED BY <1>1, <2>1 DEF ClosedIs, Alike
  <1>2. CASE s.item[o].temp /\ ~r.ok
    <2>1. close_fd(s, o) = [s EXCEPT !.crashed = TRUE]
      BY <1>2 DEF close_fd, r
    <2>2. PICK c \in State : c = [s EXCEPT !.crashed = TRUE]
      BY DEF State
    <2>3. /\ c.mem = s.mem /\ c.old = s.old /\ c.files = s.files /\ c.item = s.item
          /\ c.table = s.table /\ c.brk = s.brk /\ c.active = s.active
          /\ c.cached = s.cached /\ c.crashed
      BY <2>2 DEF State
    <2> QED BY <2>1, <2>2, <2>3 DEF ClosedIs, Alike
  <1>3. CASE s.item[o].temp /\ r.ok /\ r.ptr # Null
    <2>1. PICK p \in Obj : p = r.ptr /\ p # o /\ s.item[p].name = s.item[o].name
                           /\ s.item[o].name # NoName
      BY <1>0, <1>3 DEF FoundIs
    <2>2. close_fd(s, o) = [s EXCEPT !.item[p].temp = TRUE]
      BY <1>3, <2>1 DEF close_fd, r
    <2>3. PICK it \in [Obj -> Item] : it = [s.item EXCEPT ![p].temp = TRUE]
      <3>1. s.item \in [Obj -> Item] /\ [s.item[p] EXCEPT !.temp = TRUE] \in Item
        BY DEF State, Item
      <3> QED BY <3>1
    <2>4. PICK c \in State : c = [s EXCEPT !.item = it]
      BY DEF State
    <2>5. close_fd(s, o) = c
      BY <2>2, <2>3, <2>4 DEF State
    <2>6. /\ c.mem = s.mem /\ c.old = s.old /\ c.files = s.files /\ c.item = it
          /\ c.table = s.table /\ c.brk = s.brk /\ c.active = s.active
          /\ c.cached = s.cached
      BY <2>4 DEF State
    <2>7. /\ \A x \in Obj \ {p} : it[x] = s.item[x]
          /\ it[p].next = s.item[p].next /\ it[p].prev = s.item[p].prev
          /\ it[p].ref = s.item[p].ref /\ it[p].name = s.item[p].name /\ it[p].temp
      BY <2>3 DEF State, Item
    <2>8. Alike(s, c)
      BY <2>6, <2>7 DEF Alike
    <2>9. \A x \in Obj : c.item[x].name = s.item[x].name /\ (s.item[x].temp => c.item[x].temp)
      BY <2>6, <2>7
    <2> QED BY <2>1, <2>5, <2>6, <2>7, <2>8, <2>9 DEF ClosedIs
  <1>4. CASE s.item[o].temp /\ r.ok /\ r.ptr = Null
    <2>1. close_fd(s, o) = [s EXCEPT !.files = @ \ {s.item[o].name}]
      BY <1>4 DEF close_fd, r
    <2>2. PICK c \in State : c = [s EXCEPT !.files = @ \ {s.item[o].name}]
      BY DEF State
    <2>3. /\ c.mem = s.mem /\ c.old = s.old /\ c.files = s.files \ {s.item[o].name}
          /\ c.item = s.item /\ c.table = s.table /\ c.brk = s.brk /\ c.active = s.active
          /\ c.cached = s.cached
      BY <2>2 DEF State
    <2> QED BY <2>1, <2>2, <2>3 DEF ClosedIs, Alike
  <1> QED BY <1>1, <1>2, <1>3, <1>4

-----------------------------------------------------------------------------
(* ref_count stays within its type. *)
LEMMA Wrapping ==
  ASSUME NEW n \in 0 .. MaxRef
  PROVE  /\ Incr(n) \in 0 .. MaxRef /\ Decr(n) \in 0 .. MaxRef
         /\ n < MaxRef => Incr(n) = n + 1
         /\ n > 0 => Decr(n) = n - 1
  <1>1. MaxRef \in Nat
    BY FdConstantsOK
  <1>2. \A m \in Nat : m < MaxRef + 1 => m % (MaxRef + 1) = m
    BY <1>1
  <1>3. (MaxRef + 1) % (MaxRef + 1) = 0
    BY <1>1
  <1>4. Incr(n) = IF n = MaxRef THEN 0 ELSE n + 1
    BY <1>1, <1>2, <1>3 DEF Incr
  <1>5. n > 0 => (n + MaxRef) % (MaxRef + 1) = n - 1
    BY <1>1
  <1>6. Decr(n) = IF n = 0 THEN MaxRef ELSE n - 1
    BY <1>1, <1>2, <1>5 DEF Decr
  <1> QED BY <1>1, <1>4, <1>6

LEMMA SharingFinite ==
  ASSUME NEW s, NEW o
  PROVE  /\ IsFiniteSet(Sharing(s, o)) /\ Cardinality(Sharing(s, o)) \in 0 .. NFd
         /\ \A fd \in Fd : fd \notin Sharing(s, o) => Cardinality(Sharing(s, o)) < NFd
  <1>1. NFd \in Nat /\ IsFiniteSet(Fd) /\ Cardinality(Fd) = NFd
    BY FdConstantsOK, FS_Interval DEF Fd
  <1>2. Sharing(s, o) \in SUBSET Fd
    BY DEF Sharing
  <1>3. IsFiniteSet(Sharing(s, o)) /\ Cardinality(Sharing(s, o)) <= NFd
        /\ (Cardinality(Sharing(s, o)) = NFd => Sharing(s, o) = Fd)
    BY <1>1, <1>2, FS_Subset
  <1>4. Cardinality(Sharing(s, o)) \in Nat
    BY <1>3, FS_CardinalityType
  <1> QED BY <1>1, <1>3, <1>4

(* The last descriptor of an object is closed: the object goes to the      *)
(* cache, and what was linked to it in use is not any more.                *)
LEMMA LastGood ==
  ASSUME NEW s \in State, Good(s), NEW fd \in Fd, NEW o \in Obj, Sharing(s, o) = {fd},
         NEW u \in State, u.table = s.table, u.brk = s.brk,
         u.active = s.active, u.cached = s.cached,
         \A x \in Obj : u.item[x].next = s.item[x].next /\ u.item[x].prev = s.item[x].prev,
         \A x \in Obj \ {o} : u.item[x].ref = s.item[x].ref /\ u.item[x].name = s.item[x].name,
         u.item[o].name = NoName,
         NEW d, FreedIs(d, u, o),
         NEW t \in State, t.table = [s.table EXCEPT ![fd] = Null], t.brk = d.brk,
         t.item = d.item, t.active = d.active, t.cached = d.cached
  PROVE  Good(t) /\ Used(t) = Used(s) \ {o}
  <1>0. /\ s.table \in [Fd -> Ptr] /\ t.table[fd] = Null /\ s.table[fd] = o
        /\ \A f \in Fd \ {fd} : t.table[f] = s.table[f] /\ s.table[f] # o
        /\ s.brk \in Nat /\ t.brk = s.brk /\ s.cached \in Ptr
        /\ s.item \in [Obj -> Item] /\ t.item \in [Obj -> Item]
    BY DEF State, Sharing, FreedIs, Kept
  <1>1. Used(t) = Used(s) \ {o} /\ o \in Used(s)
    BY <1>0 DEF Used, Obj, Null
  <1>2. /\ s.cached \notin Used(s) /\ s.cached # o /\ o <= s.brk /\ Linked(s, o)
        /\ s.active \in Used(s) \cup {Null}
    BY <1>1 DEF Good, Lists, Heads
  <1>3. /\ t.active = (IF s.active = o THEN Null ELSE s.active) /\ t.cached = o
        /\ t.item[o].prev = Null /\ t.item[o].next = s.cached
        /\ t.item[o].name = NoName
        /\ \A x \in Obj \ {o} :
             /\ t.item[x].ref = s.item[x].ref /\ t.item[x].name = s.item[x].name
             /\ t.item[x].next = IF x = s.item[o].prev THEN s.item[o].next
                                  ELSE s.item[x].next
             /\ t.item[x].prev = IF x = s.cached THEN o
                                  ELSE IF x = s.item[o].next THEN Null
                                  ELSE s.item[x].prev
    BY DEF FreedIs, Same
  <1>4. Heads(t)
    BY <1>0, <1>1, <1>2, <1>3 DEF Heads
  <1>5. ASSUME NEW x \in Used(t) PROVE x <= t.brk /\ Linked(t, x)
    <2>1. x \in Used(s) /\ x # o /\ x \in Obj /\ x <= s.brk /\ Linked(s, x) /\ x # s.cached
      BY <1>1, <1>2 DEF Good, Lists, Used
    <2>2. CASE x = s.item[o].next
      BY <1>0, <1>3, <2>1, <2>2 DEF Linked
    <2>3. CASE x # s.item[o].next
      <3>1. t.item[x].prev = s.item[x].prev
        BY <1>3, <2>1, <2>3
      <3>2. ASSUME NEW y, y = s.item[x].prev, y # Null
            PROVE  y \in Used(t) /\ y # x /\ t.item[y].next = x
        <4>1. y \in Used(s) /\ y # x /\ s.item[y].next = x /\ y \in Obj
          BY <2>1, <3>2 DEF Linked, Used
        <4>2. y # o
          BY <2>3, <4>1
        <4>3. y # s.item[o].prev
          BY <1>2, <2>1, <3>2, <4>1 DEF Linked
        <4> QED BY <1>1, <1>3, <4>1, <4>2, <4>3
      <3> QED BY <1>0, <2>1, <3>1, <3>2 DEF Linked
    <2> QED BY <2>2, <2>3
  <1>6. ASSUME NEW x \in Obj \ Used(t) PROVE Unlinked(t, x) /\ t.item[x].name = NoName
    <2>1. CASE x = o
      <3>1. s.cached # Null => s.cached <= s.brk
        BY DEF Good, Lists, Heads
      <3> QED BY <1>0, <1>1, <1>2, <1>3, <2>1, <3>1 DEF Unlinked
    <2>2. CASE x # o
      <3>1. x \in Obj \ Used(s)
        BY <1>1, <2>2
      <3>2. Unlinked(s, x) /\ s.item[x].name = NoName
        BY <3>1 DEF Good, Lists
      <3>3. x # s.item[o].prev
        BY <1>2, <3>1 DEF Linked, Obj, Null
      <3>4. t.item[x].next = s.item[x].next /\ t.item[x].name = s.item[x].name
        BY <1>3, <2>2, <3>3
      <3>5. Unlinked(t, x)
        BY <1>0, <1>1, <1>3, <3>2, <3>4 DEF Unlinked
      <3> QED BY <3>2, <3>4, <3>5
    <2> QED BY <2>1, <2>2
  <1>7. Counts(t)
    <2>1. ASSUME NEW x \in Used(t) PROVE t.item[x].ref = Cardinality(Sharing(t, x))
      <3>1. x \in Used(s) /\ x # o /\ x \in Obj
        BY <1>1 DEF Used
      <3>2. Sharing(t, x) = Sharing(s, x)
        BY <1>0, <3>1 DEF Sharing, Obj, Null
      <3> QED BY <1>3, <3>1, <3>2 DEF Good, Counts
    <2> QED BY <2>1 DEF Counts
  <1> QED BY <1>1, <1>4, <1>5, <1>6, <1>7 DEF Good, Lists

(* Another descriptor of an object that stays in use is closed, or one     *)
(* more is opened on it.                                                   *)
LEMMA ShareGood ==
  ASSUME NEW s \in State, Good(s), NEW o \in Obj, NEW t \in State, Used(t) = Used(s),
         \A x \in Obj \ {o} : Sharing(t, x) = Sharing(s, x),
         t.item[o].ref = Cardinality(Sharing(t, o)),
         t.brk = s.brk, t.active = s.active, t.cached = s.cached,
         \A x \in Obj : t.item[x].next = s.item[x].next /\ t.item[x].prev = s.item[x].prev,
         \A x \in Obj : t.item[x].name = s.item[x].name,
         \A x \in Obj \ {o} : t.item[x].ref = s.item[x].ref
  PROVE  Good(t)
  <1>0. s.cached \in Ptr /\ \A x \in Used(s) : x \in Obj
    BY DEF State, Used
  <1>1. Heads(t)
    BY <1>0 DEF Good, Lists, Heads, Ptr
  <1>2. ASSUME NEW x \in Used(s) PROVE x <= t.brk /\ Linked(t, x)
    <2>1. x <= s.brk /\ Linked(s, x) /\ x \in Obj
      BY <1>0 DEF Good, Lists
    <2> QED BY <1>0, <2>1 DEF Linked
  <1>3. ASSUME NEW x \in Obj \ Used(s) PROVE Unlinked(t, x) /\ t.item[x].name = NoName
    <2>1. Unlinked(s, x) /\ s.item[x].name = NoName
      BY DEF Good, Lists
    <2> QED BY <2>1 DEF Unlinked
  <1>4. ASSUME NEW x \in Used(s) PROVE t.item[x].ref = Cardinality(Sharing(t, x))
    <2>1. x \in Obj /\ s.item[x].ref = Cardinality(Sharing(s, x))
      BY <1>0 DEF Good, Counts
    <2>2. CASE x = o
      BY <2>2
    <2>3. CASE x # o
      BY <2>1, <2>3
    <2> QED BY <2>2, <2>3
  <1> QED BY <1>1, <1>2, <1>3, <1>4 DEF Good, Lists, Counts

-----------------------------------------------------------------------------
(* What __clear_fd_properties() does: files that stay and were to be       *)
(* removed later still are.                                                *)
Remembers(s, t) ==
  \A x \in Used(s) : s.item[x].temp /\ s.item[x].name \in t.files =>
    \E y \in Used(t) : t.item[y].name = s.item[x].name /\ t.item[y].temp

ClearedIs(t, s, fd) ==
  /\ t \in State /\ t.files \subseteq s.files
  /\ ~t.crashed =>
       /\ Good(t) /\ t.old = s.old /\ t.mem = s.mem
       /\ t.table = [s.table EXCEPT ![fd] = Null]
       /\ \A x \in Used(t) : t.item[x].name = s.item[x].name
       /\ Remembers(s, t)

LEMMA Cleared ==
  ASSUME NEW s \in State, Good(s), NEW fd \in Fd, s.table[fd] # Null => s.mem
  PROVE  ClearedIs(clear_fd_properties(s, fd), s, fd)
  <1>0. /\ s.table \in [Fd -> Ptr] /\ s.item \in [Obj -> Item] /\ s.files \subseteq Name
        /\ s.mem \in BOOLEAN
    BY DEF State
  <1>1. CASE s.table[fd] = Null
    <2>1. clear_fd_properties(s, fd) = s
      BY <1>1 DEF clear_fd_properties, has_fd_properties
    <2>2. s.table = [s.table EXCEPT ![fd] = Null]
      BY <1>0, <1>1
    <2> QED BY <2>1, <2>2 DEF ClearedIs, Remembers
  <1>2. CASE s.table[fd] # Null
    <2>1. PICK o \in Obj : o = s.table[fd]
      BY <1>0, <1>2 DEF Ptr
    <2>2. /\ o \in Used(s) /\ fd \in Sharing(s, o) /\ s.item[o].ref = Cardinality(Sharing(s, o))
          /\ s.item[o].ref \in 0 .. MaxRef
      BY <1>0, <2>1 DEF Used, Sharing, Good, Counts, Item
    <2>3. IsFiniteSet(Sharing(s, o)) /\ Cardinality(Sharing(s, o)) \in 0 .. NFd
      BY SharingFinite
    <2>4. /\ IsFiniteSet(Sharing(s, o) \ {fd})
          /\ Cardinality(Sharing(s, o) \ {fd}) = Cardinality(Sharing(s, o)) - 1
          /\ Cardinality(Sharing(s, o) \ {fd}) \in Nat
      BY <2>2, <2>3, FS_RemoveElement, FS_CardinalityType
    <2>5. PICK m \in 0 .. MaxRef : /\ m = Decr(s.item[o].ref)
                                   /\ m = Cardinality(Sharing(s, o) \ {fd})
      BY <2>2, <2>3, <2>4, Wrapping
    <2>6. PICK it \in [Obj -> Item] : it = [s.item EXCEPT ![o].ref = m]
      BY <1>0 DEF Item
    <2>7. PICK w \in State : w = [s EXCEPT !.item = it]
      BY DEF State
    <2>8. w = [s EXCEPT !.item[o].ref = Decr(@)]
      BY <2>5, <2>6, <2>7 DEF State
    <2>9. /\ w.table = s.table /\ w.mem = s.mem /\ w.brk = s.brk /\ w.old = s.old
          /\ w.active = s.active /\ w.cached = s.cached /\ w.item = it
          /\ w.files = s.files /\ w.crashed = s.crashed
      BY <2>7 DEF State
    <2>10. /\ \A x \in Obj : /\ it[x].next = s.item[x].next /\ it[x].prev = s.item[x].prev
                              /\ it[x].name = s.item[x].name /\ it[x].temp = s.item[x].temp
           /\ \A x \in Obj \ {o} : it[x].ref = s.item[x].ref
           /\ it[o].ref = m
      BY <1>0, <2>6 DEF Item
    <2>11. has_fd_properties(s, fd)
      BY <1>2 DEF has_fd_properties
    <2>12. PICK tab \in [Fd -> Ptr] : tab = [s.table EXCEPT ![fd] = Null]
      BY <1>0 DEF Ptr
    <2>13. CASE m > 0
      <3>1. PICK t \in State : t = [w EXCEPT !.table = tab]
        BY DEF State
      <3>2. clear_fd_properties(s, fd) = t
        BY <2>1, <2>8, <2>9, <2>10, <2>11, <2>12, <2>13, <3>1
           DEF clear_fd_properties, State
      <3>3. /\ t.table = tab /\ t.mem = s.mem /\ t.brk = s.brk /\ t.old = s.old
            /\ t.active = s.active /\ t.cached = s.cached /\ t.item = it
            /\ t.files = s.files
        BY <2>9, <3>1 DEF State
      <3>4. Sharing(t, o) = Sharing(s, o) \ {fd}
        BY <1>0, <2>12, <3>3 DEF Sharing, Obj, Null
      <3>5. ASSUME NEW x \in Obj \ {o} PROVE Sharing(t, x) = Sharing(s, x)
        BY <1>0, <2>1, <2>12, <3>3 DEF Sharing, Obj, Null
      <3>6. Sharing(s, o) \ {fd} # {}
        BY <2>5, <2>13, FS_EmptySet
      <3>7. Used(t) = Used(s)
        <4>1. \A x \in Obj : x \in Used(t) <=> Sharing(t, x) # {}
          BY DEF Used, Sharing
        <4>2. \A x \in Obj : x \in Used(s) <=> Sharing(s, x) # {}
          BY DEF Used, Sharing
        <4>3. \A x \in Obj : x \in Used(s) <=> x \in Used(t)
          BY <2>2, <3>4, <3>5, <3>6, <4>1, <4>2
        <4> QED BY <4>3 DEF Used
      <3>8. Good(t)
        <4>1. t.item[o].ref = Cardinality(Sharing(t, o))
          BY <2>5, <2>10, <3>3, <3>4
        <4> QED BY <2>10, <3>3, <3>5, <3>7, <4>1, ShareGood
      <3>9. Remembers(s, t) /\ \A x \in Used(t) : t.item[x].name = s.item[x].name
        BY <2>10, <3>3, <3>7 DEF Remembers, Used
      <3> QED BY <2>12, <3>2, <3>3, <3>8, <3>9 DEF ClearedIs
    <2>14. CASE ~(m > 0)
      <3>1. Sharing(s, o) = {fd}
        <4>1. Cardinality(Sharing(s, o) \ {fd}) = 0
          BY <2>5, <2>14
        <4>2. Sharing(s, o) \ {fd} = {}
          BY <2>4, <4>1, FS_EmptySet
        <4> QED BY <2>2, <4>2
      <3> DEFINE c == close_fd(w, o)
      <3>2. ClosedIs(c, w, o)
        BY Closed
      <3>3. /\ clear_fd_properties(s, fd) =
                 [(IF c.crashed THEN c
                   ELSE free_fd_properties([c EXCEPT !.item[o].name = NoName], o))
                  EXCEPT !.table[fd] = Null]
        <4>1. ~(w.item[o].ref > 0)
          BY <2>9, <2>10, <2>14
        <4> QED BY <2>1, <2>8, <2>11, <4>1 DEF clear_fd_properties
      <3> HIDE DEF c
      <3>4. /\ c \in State /\ c.mem = s.mem /\ c.old = s.old /\ c.files \subseteq s.files
            /\ c.table = s.table /\ c.brk = s.brk /\ c.active = s.active
            /\ c.cached = s.cached
            /\ \A x \in Obj : /\ c.item[x].next = s.item[x].next
                              /\ c.item[x].prev = s.item[x].prev
                              /\ c.item[x].name = s.item[x].name
            /\ \A x \in Obj \ {o} : c.item[x].ref = s.item[x].ref
        BY <2>9, <2>10, <3>2 DEF ClosedIs, Alike
      <3>5. /\ \A x \in Obj : s.item[x].temp => c.item[x].temp
            /\ ~c.crashed /\ s.item[o].temp /\ s.item[o].name \in c.files =>
                 \E p \in Obj \ {o} : /\ s.item[p].name = s.item[o].name
                                      /\ s.item[o].name # NoName /\ c.item[p].temp
        BY <2>9, <2>10, <3>2 DEF ClosedIs
      <3>6. CASE c.crashed
        <4>1. PICK t \in State : t = [c EXCEPT !.table = tab]
          BY <3>4 DEF State
        <4>2. clear_fd_properties(s, fd) = t
          BY <2>12, <3>3, <3>4, <3>6, <4>1 DEF State
        <4>3. t.crashed /\ t.files = c.files
          BY <3>4, <3>6, <4>1 DEF State
        <4> QED BY <3>4, <4>2, <4>3 DEF ClearedIs
      <3>7. CASE ~c.crashed
        <4>1. PICK ic \in [Obj -> Item] : ic = [c.item EXCEPT ![o].name = NoName]
          <5>1. c.item \in [Obj -> Item] /\ [c.item[o] EXCEPT !.name = NoName] \in Item
            BY <3>4 DEF State, Item
          <5> QED BY <5>1
        <4>2. PICK u \in State : u = [c EXCEPT !.item = ic]
          BY <3>4 DEF State
        <4>3. u = [c EXCEPT !.item[o].name = NoName]
          BY <3>4, <4>1, <4>2 DEF State
        <4>4. /\ u.table = s.table /\ u.mem = s.mem /\ u.brk = s.brk /\ u.old = s.old
              /\ u.active = s.active /\ u.cached = s.cached /\ u.item = ic
              /\ u.files = c.files /\ u.crashed = c.crashed
          BY <3>4, <4>2 DEF State
        <4>5. /\ \A x \in Obj : /\ ic[x].next = s.item[x].next
                                /\ ic[x].prev = s.item[x].prev
              /\ \A x \in Obj \ {o} : ic[x].name = s.item[x].name /\ ic[x].ref = s.item[x].ref
              /\ \A x \in Obj \ {o} : ic[x].temp = c.item[x].temp
              /\ ic[o].name = NoName
          BY <3>4, <4>1 DEF State, Item
        <4> DEFINE d == free_fd_properties(u, o)
        <4>6. FreedIs(d, u, o)
          <5>1. s.item[o].prev # o
            BY <2>2 DEF Good, Lists, Linked, Obj, Null
          <5>2. s.cached # o
            BY <2>2 DEF Good, Lists, Heads
          <5> QED BY <4>4, <4>5, <5>1, <5>2, Freed
        <4> HIDE DEF d
        <4>7. /\ d \in State /\ d.table = s.table /\ d.mem = s.mem /\ d.old = s.old
              /\ d.files = c.files /\ \A x \in Obj : Same(d.item[x], ic[x])
          BY <4>4, <4>6 DEF FreedIs, Kept
        <4>8. PICK t \in State : t = [d EXCEPT !.table = tab]
          BY <4>7 DEF State
        <4>9. clear_fd_properties(s, fd) = t
          BY <2>12, <3>3, <3>7, <4>3, <4>7, <4>8 DEF d, State
        <4>10. /\ t.table = tab /\ t.mem = d.mem /\ t.brk = d.brk /\ t.old = d.old
               /\ t.active = d.active /\ t.cached = d.cached /\ t.item = d.item
               /\ t.files = d.files
          BY <4>7, <4>8 DEF State
        <4>11. Good(t) /\ Used(t) = Used(s) \ {o}
          <5>1. /\ \A x \in Obj : u.item[x].next = s.item[x].next /\ u.item[x].prev = s.item[x].prev
                /\ \A x \in Obj \ {o} : u.item[x].ref = s.item[x].ref /\ u.item[x].name = s.item[x].name
                /\ u.item[o].name = NoName
            BY <4>4, <4>5
          <5> QED BY <2>12, <3>1, <4>4, <4>6, <4>10, <5>1, LastGood
        <4>12. \A x \in Used(t) : t.item[x].name = s.item[x].name
          BY <4>5, <4>7, <4>10, <4>11 DEF Same, Used
        <4>13. Remembers(s, t)
          <5> SUFFICES ASSUME NEW x \in Used(s), s.item[x].temp, s.item[x].name \in t.files
                       PROVE  \E y \in Used(t) : /\ t.item[y].name = s.item[x].name
                                                 /\ t.item[y].temp
            BY DEF Remembers
          <5>1. x \in Obj /\ t.files = c.files
            BY <4>7, <4>10 DEF Used
          <5>2. CASE x # o
            BY <3>5, <4>5, <4>7, <4>10, <4>11, <5>1, <5>2 DEF Same
          <5>3. CASE x = o
            <6>1. PICK p \in Obj \ {o} : /\ s.item[p].name = s.item[o].name
                                        /\ s.item[o].name # NoName /\ c.item[p].temp
              BY <3>5, <3>7, <5>1, <5>3
            <6>2. p \in Used(s)
              BY <6>1 DEF Good, Lists
            <6> QED BY <4>5, <4>7, <4>10, <4>11, <5>3, <6>1, <6>2 DEF Same
          <5> QED BY <5>2, <5>3
        <4>14. t.files \subseteq s.files
          BY <3>4, <4>7, <4>10
        <4> QED BY <2>12, <4>7, <4>9, <4>10, <4>11, <4>12, <4>13, <4>14 DEF ClearedIs
      <3> QED BY <3>6, <3>7
    <2> QED BY <2>13, <2>14
  <1> QED BY <1>1, <1>2

(* __dup_fd_properties(), for a descriptor without properties. *)
DuppedIs(t, s, from, to) ==
  /\ t \in State /\ Good(t) /\ Used(t) = Used(s)
  /\ t.old = s.old /\ t.mem = s.mem /\ t.files = s.files /\ t.crashed = s.crashed
  /\ t.table = [s.table EXCEPT ![to] = s.table[from]]
  /\ \A x \in Obj : t.item[x].name = s.item[x].name /\ t.item[x].temp = s.item[x].temp

LEMMA Dupped ==
  ASSUME NEW s \in State, Good(s), NEW from \in Fd, NEW to \in Fd, s.table[to] = Null,
         s.table[from] # Null => s.mem
  PROVE  DuppedIs(dup_fd_properties(s, from, to), s, from, to)
  <1>0. s.table \in [Fd -> Ptr] /\ s.item \in [Obj -> Item] /\ s.mem \in BOOLEAN
    BY DEF State
  <1>1. CASE s.table[from] = Null
    <2>1. dup_fd_properties(s, from, to) = s
      BY <1>1 DEF dup_fd_properties, has_fd_properties
    <2>2. s.table = [s.table EXCEPT ![to] = s.table[from]]
      BY <1>0, <1>1
    <2> QED BY <2>1, <2>2 DEF DuppedIs
  <1>2. CASE s.table[from] # Null
    <2>1. PICK o \in Obj : o = s.table[from]
      BY <1>0, <1>2 DEF Ptr
    <2>2. /\ o \in Used(s) /\ s.item[o].ref = Cardinality(Sharing(s, o))
          /\ s.item[o].ref \in 0 .. MaxRef /\ to \notin Sharing(s, o)
      <3>1. o \in Used(s) /\ to \notin Sharing(s, o)
        BY <2>1 DEF Used, Sharing, Obj, Null
      <3>2. s.item[o].ref \in 0 .. MaxRef
        BY <1>0 DEF Item
      <3> QED BY <3>1, <3>2 DEF Good, Counts
    <2>3. /\ IsFiniteSet(Sharing(s, o)) /\ Cardinality(Sharing(s, o)) \in 0 .. NFd
          /\ Cardinality(Sharing(s, o)) < NFd
      BY <2>2, SharingFinite
    <2>4. Cardinality(Sharing(s, o) \cup {to}) = Cardinality(Sharing(s, o)) + 1
      BY <2>2, <2>3, FS_AddElement
    <2>5. PICK m \in 0 .. MaxRef : /\ m = Incr(s.item[o].ref)
                                   /\ m = Cardinality(Sharing(s, o) \cup {to})
      BY <2>2, <2>3, <2>4, Wrapping, FdConstantsOK
    <2>6. PICK it \in [Obj -> Item] : it = [s.item EXCEPT ![o].ref = m]
      BY <1>0 DEF Item
    <2>7. PICK tab \in [Fd -> Ptr] : tab = [s.table EXCEPT ![to] = o]
      BY <1>0 DEF Ptr
    <2>8. PICK t \in State : t = [s EXCEPT !.table = tab, !.item = it]
      BY DEF State
    <2>9. has_fd_properties(s, from)
      BY <1>2 DEF has_fd_properties
    <2>10. dup_fd_properties(s, from, to) = t
      BY <2>1, <2>5, <2>6, <2>7, <2>8, <2>9 DEF dup_fd_properties, State
    <2>11. /\ t.table = tab /\ t.mem = s.mem /\ t.brk = s.brk /\ t.old = s.old
           /\ t.active = s.active /\ t.cached = s.cached /\ t.item = it
           /\ t.files = s.files /\ t.crashed = s.crashed
      BY <2>8 DEF State
    <2>12. /\ \A x \in Obj : /\ it[x].next = s.item[x].next /\ it[x].prev = s.item[x].prev
                              /\ it[x].name = s.item[x].name /\ it[x].temp = s.item[x].temp
           /\ \A x \in Obj \ {o} : it[x].ref = s.item[x].ref
           /\ it[o].ref = m
      BY <1>0, <2>6 DEF Item
    <2>13. Sharing(t, o) = Sharing(s, o) \cup {to}
      BY <1>0, <2>7, <2>11 DEF Sharing
    <2>14. ASSUME NEW x \in Obj \ {o} PROVE Sharing(t, x) = Sharing(s, x)
      BY <1>0, <2>7, <2>11 DEF Sharing, Obj, Null
    <2>15. Used(t) = Used(s)
      <3>1. \A x \in Obj : x \in Used(t) <=> Sharing(t, x) # {}
        BY DEF Used, Sharing
      <3>2. \A x \in Obj : x \in Used(s) <=> Sharing(s, x) # {}
        BY DEF Used, Sharing
      <3>3. \A x \in Obj : x \in Used(s) <=> x \in Used(t)
        BY <2>2, <2>13, <2>14, <3>1, <3>2
      <3> QED BY <3>3 DEF Used
    <2>16. Good(t)
      <3>1. t.item[o].ref = Cardinality(Sharing(t, o))
        BY <2>5, <2>11, <2>12, <2>13
      <3> QED BY <2>11, <2>12, <2>14, <2>15, <3>1, ShareGood
    <2> QED BY <2>1, <2>7, <2>10, <2>11, <2>12, <2>15, <2>16 DEF DuppedIs
  <1> QED BY <1>1, <1>2

(* exit_cleanup(): its loop. *)
LoopIs(g, n, s, open) ==
  g = [fd \in 0 .. n |->
         IF fd = 0 THEN s
         ELSE IF g[fd - 1].crashed \/ open[fd] = NoName THEN g[fd - 1]
         ELSE clear_fd_properties(g[fd - 1], fd)]

LEMMA LoopExists ==
  ASSUME NEW s, NEW open, NEW n \in Nat
  PROVE  \E g : LoopIs(g, n, s, open)
  <1> DEFINE T == {k \in Nat : \E g : LoopIs(g, k, s, open)}
  <1>1. 0 \in T
    <2> DEFINE g == [k \in 0 .. 0 |-> s]
    <2>1. LoopIs(g, 0, s, open)
      BY DEF LoopIs
    <2> QED BY <2>1
  <1>2. ASSUME NEW k \in 1 .. n, k - 1 \in T PROVE k \in T
    <2>1. PICK g : LoopIs(g, k - 1, s, open)
      BY <1>2
    <2> DEFINE h == [j \in 0 .. k |->
                       IF j = k THEN IF g[k - 1].crashed \/ open[k] = NoName THEN g[k - 1]
                                     ELSE clear_fd_properties(g[k - 1], k)
                       ELSE g[j]]
    <2>2. \A j \in 0 .. k - 1 : h[j] = g[j]
      OBVIOUS
    <2>3. \A j \in 0 .. k - 1 :
            g[j] = IF j = 0 THEN s
                   ELSE IF g[j - 1].crashed \/ open[j] = NoName THEN g[j - 1]
                   ELSE clear_fd_properties(g[j - 1], j)
      BY <2>1 DEF LoopIs
    <2>4. ASSUME NEW j \in 0 .. k
          PROVE  h[j] = IF j = 0 THEN s
                        ELSE IF h[j - 1].crashed \/ open[j] = NoName THEN h[j - 1]
                        ELSE clear_fd_properties(h[j - 1], j)
      BY <2>2, <2>3
    <2>5. LoopIs(h, k, s, open)
      BY <2>4 DEF LoopIs
    <2> QED BY <2>5
  <1>3. n \in T
    <2> HIDE DEF T
    <2>1. \A k \in 1 .. n : k - 1 \in T => k \in T
      BY <1>2
    <2>2. \A k \in 0 .. n : k \in T
      BY <1>1, <2>1, UpTo
    <2> QED BY <2>2
  <1> QED BY <1>3

CleanedIs(t, s) ==
  /\ t \in State
  /\ ~t.crashed => /\ Good(t) /\ t.old = s.old /\ t.mem = s.mem
                   /\ \A fd \in Fd : t.table[fd] \in {Null, s.table[fd]}

LEMMA Cleaned ==
  ASSUME NEW s \in State, Good(s), \A fd \in Fd : s.table[fd] # Null => s.mem, NEW open
  PROVE  CleanedIs(exit_cleanup(s, open), s)
  <1>0. NFd \in Nat
    BY FdConstantsOK
  <1>1. CASE ~s.mem \/ s.active = Null
    <2>1. exit_cleanup(s, open) = s
      BY <1>1 DEF exit_cleanup
    <2> QED BY <2>1 DEF CleanedIs
  <1>2. CASE ~(~s.mem \/ s.active = Null)
    <2>1. PICK g : LoopIs(g, NFd, s, open)
      BY <1>0, LoopExists
    <2> DEFINE loop == CHOOSE h : LoopIs(h, NFd, s, open)
    <2>2. LoopIs(loop, NFd, s, open)
      BY <2>1
    <2>3. exit_cleanup(s, open) = loop[NFd]
      BY <1>2 DEF exit_cleanup, LoopIs
    <2> HIDE DEF loop
    <2>4. \A k \in 0 .. NFd :
            loop[k] = IF k = 0 THEN s
                      ELSE IF loop[k - 1].crashed \/ open[k] = NoName THEN loop[k - 1]
                      ELSE clear_fd_properties(loop[k - 1], k)
      BY <2>2 DEF LoopIs
    <2> DEFINE T == {k \in Nat : CleanedIs(loop[k], s)}
    <2>5. 0 \in T
      BY <1>0, <2>4 DEF CleanedIs
    <2>6. ASSUME NEW k \in 1 .. NFd, k - 1 \in T PROVE k \in T
      <3>1. PICK u \in State : u = loop[k - 1] /\ CleanedIs(u, s)
        BY <2>6 DEF CleanedIs
      <3>2. CASE u.crashed \/ open[k] = NoName
        BY <1>0, <2>4, <3>1, <3>2
      <3>3. CASE ~(u.crashed \/ open[k] = NoName)
        <4>1. k \in Fd /\ loop[k] = clear_fd_properties(u, k)
          BY <1>0, <2>4, <3>1, <3>3 DEF Fd
        <4>2. /\ Good(u) /\ u.old = s.old /\ u.mem = s.mem
              /\ \A fd \in Fd : u.table[fd] \in {Null, s.table[fd]}
          BY <3>1, <3>3 DEF CleanedIs
        <4>3. u.table[k] # Null => u.mem
          BY <4>1, <4>2
        <4>4. ClearedIs(loop[k], u, k)
          BY <4>1, <4>2, <4>3, Cleared
        <4>5. u.table \in [Fd -> Ptr]
          BY DEF State
        <4>6. CleanedIs(loop[k], s)
          BY <4>1, <4>2, <4>4, <4>5 DEF CleanedIs, ClearedIs
        <4> QED BY <1>0, <4>6
      <3> QED BY <3>2, <3>3
    <2>7. NFd \in T
      <3> HIDE DEF T
      <3>1. \A k \in 1 .. NFd : k - 1 \in T => k \in T
        BY <2>6
      <3>2. \A k \in 0 .. NFd : k \in T
        BY <1>0, <2>5, <3>1, UpTo
      <3> QED BY <1>0, <3>2
    <2> QED BY <2>3, <2>7
  <1> QED BY <1>1, <1>2

-----------------------------------------------------------------------------
(* Which descriptors and files an operation leaves right. *)
LEMMA SetNames ==
  ASSUME NEW s \in State, NEW t \in State, NEW fd \in Fd, s.table[fd] = Null,
         NEW name, NEW temporary, SetIs(t, s, fd, name, temporary),
         NEW old, NEW new, Named(s, old), \A g \in Fd \ {fd} : new[g] = old[g],
         new[fd] # NoName, name \in {NoName, new[fd]}
  PROVE  Named(t, new)
  <1>1. s.table \in [Fd -> Ptr]
    BY DEF State
  <1>2. \A g \in Fd : s.table[g] # Null => s.table[g] \in Used(s)
    BY <1>1 DEF Used, Ptr
  <1>3. CASE t.table = s.table /\ \A x \in Obj : Same(t.item[x], s.item[x])
    BY <1>2, <1>3 DEF Named, Same, Used
  <1>4. ASSUME NEW o \in Obj \ Used(s), t.table = [s.table EXCEPT ![fd] = o],
               t.item[o].name = name, \A x \in Obj \ {o} : Same(t.item[x], s.item[x])
        PROVE  Named(t, new)
    <2>1. ASSUME NEW g \in Fd, t.table[g] # Null
          PROVE  new[g] # NoName /\ t.item[t.table[g]].name \in {NoName, new[g]}
      <3>1. CASE g = fd
        BY <1>1, <1>4, <3>1
      <3>2. CASE g # fd
        BY <1>1, <1>2, <1>4, <2>1, <3>2 DEF Named, Same, Used
      <3> QED BY <3>1, <3>2
    <2> QED BY <2>1 DEF Named
  <1> QED BY <1>3, <1>4 DEF SetIs

LEMMA SetTracks ==
  ASSUME NEW s \in State, NEW t \in State, NEW fd \in Fd, s.table[fd] = Null, ~oom,
         NEW name, NEW temporary, SetIs(t, s, fd, name, temporary),
         NEW old, NEW new, Tracked(s, old),
         \A n \in new : n \in old \/ (n = name /\ temporary /\ name # NoName)
  PROVE  Tracked(t, new)
  <1>1. s.table \in [Fd -> Ptr]
    BY DEF State
  <1>2. PICK o \in Obj \ Used(s) :
          /\ t.table = [s.table EXCEPT ![fd] = o]
          /\ t.item[o].name = name
          /\ t.item[o].temp <=> temporary /\ name # NoName
          /\ \A x \in Obj \ {o} : Same(t.item[x], s.item[x])
    BY DEF SetIs
  <1>3. o \in Used(t)
    BY <1>1, <1>2 DEF Used
  <1>4. ASSUME NEW x \in Used(s) PROVE x \in Used(t) /\ Same(t.item[x], s.item[x])
    BY <1>1, <1>2 DEF Used, Obj, Null
  <1>5. ASSUME NEW n \in new PROVE \E x \in Used(t) : t.item[x].name = n /\ t.item[x].temp
    <2>1. CASE n \in old
      BY <1>4, <2>1 DEF Tracked, Same
    <2>2. CASE n = name /\ temporary /\ name # NoName
      BY <1>2, <1>3, <2>2
    <2> QED BY <2>1, <2>2
  <1> QED BY <1>5 DEF Tracked

LEMMA ClearNames ==
  ASSUME NEW s \in State, NEW t \in State, NEW fd \in Fd, ClearedIs(t, s, fd), ~t.crashed,
         NEW old, NEW new, Named(s, old), \A g \in Fd \ {fd} : new[g] = old[g]
  PROVE  Named(t, new)
  <1>1. s.table \in [Fd -> Ptr] /\ t.table = [s.table EXCEPT ![fd] = Null]
    BY DEF State, ClearedIs
  <1>2. \A x \in Used(t) : t.item[x].name = s.item[x].name
    BY DEF ClearedIs
  <1>3. ASSUME NEW g \in Fd, t.table[g] # Null
        PROVE  new[g] # NoName /\ t.item[t.table[g]].name \in {NoName, new[g]}
    <2>1. g # fd /\ t.table[g] = s.table[g] /\ t.table[g] \in Used(t)
      BY <1>1, <1>3 DEF Used, Ptr
    <2> QED BY <1>2, <1>3, <2>1 DEF Named
  <1> QED BY <1>3 DEF Named

LEMMA ClearTracks ==
  ASSUME NEW s \in State, NEW t \in State, NEW fd \in Fd, ClearedIs(t, s, fd), ~t.crashed,
         NEW old, NEW new, Tracked(s, old), new = old \cap t.files
  PROVE  Tracked(t, new)
  BY DEF Tracked, ClearedIs, Remembers

LEMMA DupNames ==
  ASSUME NEW s \in State, NEW t \in State, NEW from \in Fd, NEW to \in Fd,
         DuppedIs(t, s, from, to), NEW open, Named(s, open), open[to] = open[from]
  PROVE  Named(t, open)
  <1>1. s.table \in [Fd -> Ptr] /\ t.table = [s.table EXCEPT ![to] = s.table[from]]
    BY DEF State, DuppedIs
  <1>2. \A x \in Obj : t.item[x].name = s.item[x].name
    BY DEF DuppedIs
  <1>3. ASSUME NEW g \in Fd, t.table[g] # Null
        PROVE  open[g] # NoName /\ t.item[t.table[g]].name \in {NoName, open[g]}
    <2>1. PICK f \in Fd : t.table[g] = s.table[f] /\ open[g] = open[f]
      BY <1>1
    <2>2. s.table[f] \in Obj
      BY <1>1, <1>3, <2>1 DEF Ptr
    <2> QED BY <1>2, <1>3, <2>1, <2>2 DEF Named
  <1> QED BY <1>3 DEF Named

LEMMA DupTracks ==
  ASSUME NEW s \in State, NEW t \in State, NEW from \in Fd, NEW to \in Fd,
         DuppedIs(t, s, from, to), NEW files, Tracked(s, files)
  PROVE  Tracked(t, files)
  BY DEF Tracked, DuppedIs, Used

(* An empty table stays empty when a descriptor is closed or duplicated. *)
LEMMA NoFdsKept ==
  ASSUME NEW fd \in Fd, NEW x, x = Null
  PROVE  [NoFds EXCEPT ![fd] = x] = NoFds /\ NoFds[fd] = Null
  BY DEF NoFds

-----------------------------------------------------------------------------
(* What the invariant says while the program runs. *)
RunsWell ==
  /\ depth = 1 /\ bss_count = 2 /\ 1 \in Prog
  /\ P \in State /\ Good(P)
  /\ \A fd \in Fd : P.table[fd] # Null => P.mem
  /\ P.mem \/ P.table = NoFds
  /\ P.old # bss_count => P.table = NoFds
  /\ Named(P, jft[1])
  /\ ~oom => Tracked(P, tmp[1])

LEMMA WhileRunning ==
  ASSUME FInv, MaxStarts = 1, Running
  PROVE  RunsWell
  <1>1. depth = 1 /\ bss_count = 2 /\ 1 \in Prog /\ P \in State
    BY DEF FInv, TypeOK, Running, Prog
  <1>2. P.mem \/ P.table = NoFds
    BY DEF FInv, Fine, Running
  <1>3. \A fd \in Fd : P.table[fd] # Null => P.mem
    BY <1>2 DEF NoFds
  <1> QED BY <1>1, <1>2, <1>3 DEF FInv, Fine, Running, RunsWell

(* The parts of the invariant after a step of the program. *)
LEMMA StillRunning ==
  ASSUME FInv, RunsWell, MaxStarts = 1, oom' = oom, bss_count' = bss_count, depth' = depth,
         P' \in State, hook' \in [Prog -> BOOLEAN],
         jft' \in [Prog -> [Fd -> Name \cup {NoName}]], tmp' \in [Prog -> SUBSET Name],
         Fine(P', bss_count, TRUE, jft'[1], tmp'[1], oom)
  PROVE  FInv'
  <1>1. TypeOK'
    BY DEF FInv, TypeOK
  <1>2. Fine(P', bss_count', depth' = 1, jft'[1], tmp'[1], oom')
    BY DEF RunsWell, Fine
  <1>3. bss_count' = 2
    BY DEF RunsWell
  <1> QED BY <1>1, <1>2, <1>3 DEF FInv

(* A file more on disk. *)
LEMMA Created ==
  ASSUME NEW s \in State, Good(s), NEW name \in Name
  PROVE  /\ [s EXCEPT !.files = @ \cup {name}] \in State
         /\ Good([s EXCEPT !.files = @ \cup {name}])
  <1>1. PICK t \in State : t = [s EXCEPT !.files = @ \cup {name}]
    BY DEF State
  <1>2. Alike(s, t)
    BY <1>1 DEF State, Alike
  <1> QED BY <1>1, <1>2, AlikeGood

LEMMA OpenStep ==
  ASSUME FInv, MaxStarts = 1, oom' = oom, NEW fd \in Fd, NEW name \in Name,
         NEW temporary \in BOOLEAN, Open(fd, name, temporary)
  PROVE  FInv'
  <1>1. RunsWell /\ ~P.crashed
    BY WhileRunning DEF Open, Running
  <1>2. PICK s \in State : s = [P EXCEPT !.files = @ \cup {name}] /\ Good(s)
    BY <1>1, Created DEF RunsWell
  <1>3. s.table = P.table /\ s.item = P.item /\ s.old = P.old
    BY <1>1, <1>2 DEF State, RunsWell
  <1>4. /\ jft \in [Prog -> [Fd -> Name \cup {NoName}]] /\ tmp \in [Prog -> SUBSET Name]
        /\ hook \in [Prog -> BOOLEAN] /\ oom \in BOOLEAN /\ bss_count \in Nat
        /\ depth = 1 /\ 1 \in Prog
    BY <1>1 DEF FInv, TypeOK, RunsWell
  <1>5. s.table[fd] = Null
    BY <1>1, <1>3, <1>4 DEF RunsWell, Named, Open, IsOpen
  <1>6. PICK n \in Truename(name) : P' \in set_fd_properties(s, fd, n, temporary)
    BY <1>2 DEF Open
  <1>6a. n \in {NoName, name} /\ (~oom => n = name)
    BY DEF Truename, When
  <1>7. SetAll(P', s, fd, n, temporary)
    <2>1. s.old # bss_count => s.table = NoFds
      BY <1>1, <1>3 DEF RunsWell
    <2>2. n \in Name \cup {NoName}
      BY <1>6a
    <2> QED BY <1>2, <1>4, <1>5, <1>6, <2>1, <2>2, SetProperties
  <1>8. /\ jft' \in [Prog -> [Fd -> Name \cup {NoName}]]
        /\ jft'[1][fd] = name /\ \A g \in Fd \ {fd} : jft'[1][g] = jft[1][g]
    BY <1>4 DEF Open
  <1>9. tmp' \in [Prog -> SUBSET Name]
    BY <1>4 DEF Open
  <1>10. \A m \in tmp'[1] : m \in tmp[1] \/ (m = name /\ temporary /\ name # NoName)
    BY <1>4, FdConstantsOK DEF Open
  <1>11. hook' \in [Prog -> BOOLEAN]
    BY <1>4, Zenon DEF Open, SetHook
  <1>12. Fine(P', bss_count, TRUE, jft'[1], tmp'[1], oom)
    <2> SUFFICES ASSUME ~P'.crashed
                 PROVE  /\ Good(P')
                        /\ P'.mem \/ P'.table = NoFds
                        /\ P'.old # bss_count => P'.table = NoFds
                        /\ Named(P', jft'[1])
                        /\ ~oom => Tracked(P', tmp'[1])
      BY DEF Fine
    <2>1. P' \in State /\ SetIs(P', s, fd, n, temporary)
      BY <1>7 DEF SetAll
    <2>2. Named(P', jft'[1])
      <3>1. name # NoName
        BY FdConstantsOK
      <3>2. Named(s, jft[1])
        BY <1>1, <1>3 DEF RunsWell, Named
      <3> QED BY <1>5, <1>6a, <1>8, <2>1, <3>1, <3>2, SetNames
    <2>3. ~oom => Tracked(P', tmp'[1])
      <3>1. ~oom => Tracked(s, tmp[1])
        BY <1>1, <1>3 DEF RunsWell, Tracked, Used
      <3> QED BY <1>5, <1>6a, <1>10, <2>1, <3>1, SetTracks
    <2> QED BY <1>7, <2>2, <2>3 DEF SetAll
  <1>13. bss_count' = bss_count /\ depth' = depth /\ P' \in State
    BY <1>7 DEF Open, SetAll
  <1> QED BY <1>1, <1>8, <1>9, <1>11, <1>12, <1>13, StillRunning

LEMMA RawOpenStep ==
  ASSUME FInv, MaxStarts = 1, oom' = oom, NEW fd \in Fd, NEW name \in Name, RawOpen(fd, name)
  PROVE  FInv'
  <1>1. RunsWell /\ ~P.crashed
    BY WhileRunning DEF RawOpen, Running
  <1>2. P' \in State /\ Good(P')
    BY <1>1, Created DEF RunsWell, RawOpen
  <1>3. P'.table = P.table /\ P'.item = P.item /\ P'.old = P.old /\ P'.mem = P.mem
    BY <1>1 DEF State, RunsWell, RawOpen
  <1>4. /\ jft \in [Prog -> [Fd -> Name \cup {NoName}]] /\ tmp \in [Prog -> SUBSET Name]
        /\ hook \in [Prog -> BOOLEAN] /\ depth = 1 /\ 1 \in Prog
    BY <1>1 DEF FInv, TypeOK, RunsWell
  <1>5. /\ jft' \in [Prog -> [Fd -> Name \cup {NoName}]] /\ jft[1][fd] = NoName
        /\ \A g \in Fd \ {fd} : jft'[1][g] = jft[1][g]
    BY <1>4 DEF RawOpen, IsOpen
  <1>6. Named(P', jft'[1])
    BY <1>1, <1>3, <1>5 DEF RunsWell, Named
  <1>7. tmp' = tmp /\ hook' = hook /\ bss_count' = bss_count /\ depth' = depth
    BY DEF RawOpen
  <1>8. ~oom => Tracked(P', tmp'[1])
    BY <1>1, <1>3, <1>7 DEF RunsWell, Tracked, Used
  <1>9. Fine(P', bss_count, TRUE, jft'[1], tmp'[1], oom)
    BY <1>1, <1>2, <1>3, <1>6, <1>8 DEF Fine, RunsWell
  <1> QED BY <1>1, <1>2, <1>4, <1>5, <1>7, <1>9, StillRunning

LEMMA LlseekStep ==
  ASSUME FInv, MaxStarts = 1, oom' = oom, NEW fd \in Fd, Llseek(fd)
  PROVE  FInv'
  <1>1. RunsWell /\ ~P.crashed
    BY WhileRunning DEF Llseek, Running
  <1>2. /\ jft \in [Prog -> [Fd -> Name \cup {NoName}]] /\ tmp \in [Prog -> SUBSET Name]
        /\ hook \in [Prog -> BOOLEAN] /\ oom \in BOOLEAN /\ bss_count \in Nat
        /\ depth = 1 /\ 1 \in Prog /\ P \in State /\ Good(P)
    BY <1>1 DEF FInv, TypeOK, RunsWell
  <1>3. P.table[fd] = Null
    BY <1>1 DEF RunsWell, Llseek, has_fd_properties
  <1>4. P' \in set_fd_properties(P, fd, NoName, FALSE)
    BY DEF Llseek
  <1>5. SetAll(P', P, fd, NoName, FALSE)
    <2>1. P.old # bss_count => P.table = NoFds
      BY <1>1 DEF RunsWell
    <2>2. NoName \in Name \cup {NoName} /\ FALSE \in BOOLEAN
      OBVIOUS
    <2> QED BY <1>2, <1>3, <1>4, <2>1, <2>2, SetProperties
  <1>6. hook' \in [Prog -> BOOLEAN]
    BY <1>2, Zenon DEF Llseek, SetHook
  <1>7. /\ jft' = jft /\ tmp' = tmp /\ bss_count' = bss_count /\ depth' = depth
        /\ jft[1][fd] # NoName
    BY <1>2 DEF Llseek, IsOpen
  <1>8. Fine(P', bss_count, TRUE, jft'[1], tmp'[1], oom)
    <2>0. P' \in State
      BY <1>5 DEF SetAll
    <2>1. ASSUME ~P'.crashed PROVE Named(P', jft[1])
      <3>1. SetIs(P', P, fd, NoName, FALSE) /\ Named(P, jft[1])
        BY <1>1, <1>5, <2>1 DEF SetAll, RunsWell
      <3> QED BY <1>2, <1>3, <1>7, <2>0, <3>1, SetNames
    <2>2. ASSUME ~P'.crashed, ~oom PROVE Tracked(P', tmp[1])
      <3>1. SetIs(P', P, fd, NoName, FALSE) /\ Tracked(P, tmp[1])
        BY <1>1, <1>5, <2>2 DEF SetAll, RunsWell
      <3> QED BY <1>2, <1>3, <2>0, <2>2, <3>1, SetTracks
    <2> QED BY <1>5, <1>7, <2>1, <2>2 DEF Fine, SetAll
  <1>9. P' \in State
    BY <1>5 DEF SetAll
  <1> QED BY <1>1, <1>2, <1>6, <1>7, <1>8, <1>9, StillRunning

(* The files that are left of those a program opened as temporary. *)
LEMMA Forgotten ==
  ASSUME tmp \in [Prog -> SUBSET Name], tmp' = Forget(tmp), 1 \in Prog
  PROVE  tmp' \in [Prog -> SUBSET Name] /\ tmp'[1] = tmp[1] \cap P'.files
  BY DEF Forget

LEMMA CloseStep ==
  ASSUME FInv, MaxStarts = 1, oom' = oom, NEW fd \in Fd, Close(fd)
  PROVE  FInv'
  <1>1. RunsWell /\ ~P.crashed
    BY WhileRunning DEF Close, Running
  <1>2. /\ jft \in [Prog -> [Fd -> Name \cup {NoName}]] /\ tmp \in [Prog -> SUBSET Name]
        /\ hook \in [Prog -> BOOLEAN] /\ depth = 1 /\ 1 \in Prog /\ P \in State /\ Good(P)
    BY <1>1 DEF FInv, TypeOK, RunsWell
  <1>3. P.table[fd] # Null => P.mem
    BY <1>1 DEF RunsWell
  <1>4. ClearedIs(P', P, fd)
    BY <1>2, <1>3, Cleared DEF Close
  <1>5. P' \in State
    BY <1>4 DEF ClearedIs
  <1>6. /\ jft' \in [Prog -> [Fd -> Name \cup {NoName}]]
        /\ \A g \in Fd \ {fd} : jft'[1][g] = jft[1][g]
    BY <1>2 DEF Close
  <1>7. /\ tmp' \in [Prog -> SUBSET Name] /\ tmp'[1] = tmp[1] \cap P'.files
    BY <1>2, Forgotten DEF Close
  <1>8. Fine(P', bss_count, TRUE, jft'[1], tmp'[1], oom)
    <2>1. ASSUME ~P'.crashed PROVE Named(P', jft'[1])
      <3>1. Named(P, jft[1])
        BY <1>1 DEF RunsWell
      <3> QED BY <1>2, <1>4, <1>5, <1>6, <2>1, <3>1, ClearNames
    <2>2. ASSUME ~P'.crashed, ~oom PROVE Tracked(P', tmp'[1])
      <3>1. Tracked(P, tmp[1])
        BY <1>1, <2>2 DEF RunsWell
      <3> QED BY <1>2, <1>4, <1>5, <1>7, <2>2, <3>1, ClearTracks
    <2>3. ASSUME ~P'.crashed, P.table = NoFds PROVE P'.table = NoFds
      BY <1>4, <2>3, NoFdsKept DEF ClearedIs
    <2> QED BY <1>1, <1>4, <2>1, <2>2, <2>3 DEF Fine, ClearedIs, RunsWell
  <1>9. hook' = hook /\ bss_count' = bss_count /\ depth' = depth
    BY DEF Close
  <1> QED BY <1>1, <1>2, <1>5, <1>6, <1>7, <1>8, <1>9, StillRunning

(* What __dup_fd_properties() leaves right, in dup() and in dup2(). *)
LEMMA DupFine ==
  ASSUME NEW s \in State, Good(s), NEW from \in Fd, NEW to \in Fd, s.table[to] = Null,
         s.mem \/ s.table = NoFds, s.old # bss_count => s.table = NoFds,
         NEW open, Named(s, open), open[to] = open[from],
         NEW files, ~oom => Tracked(s, files)
  PROVE  /\ dup_fd_properties(s, from, to) \in State
         /\ dup_fd_properties(s, from, to).files = s.files
         /\ Fine(dup_fd_properties(s, from, to), bss_count, TRUE, open, files, oom)
  <1> DEFINE t == dup_fd_properties(s, from, to)
  <1>1. s.table[from] # Null => s.mem
    BY DEF NoFds
  <1>2. DuppedIs(t, s, from, to)
    BY <1>1, Dupped
  <1> HIDE DEF t
  <1>3. t \in State /\ t.files = s.files /\ Good(t) /\ t.old = s.old /\ t.mem = s.mem
    BY <1>2 DEF DuppedIs
  <1>4. Named(t, open)
    BY <1>2, <1>3, DupNames
  <1>5. ~oom => Tracked(t, files)
    BY <1>2, <1>3, DupTracks
  <1>6. ASSUME s.table = NoFds PROVE t.table = NoFds
    <2>1. s.table[from] = Null /\ t.table = [NoFds EXCEPT ![to] = s.table[from]]
      BY <1>2, <1>6, NoFdsKept DEF DuppedIs
    <2> QED BY <2>1, NoFdsKept
  <1>7. Fine(t, bss_count, TRUE, open, files, oom)
    BY <1>3, <1>4, <1>5, <1>6 DEF Fine
  <1> QED BY <1>3, <1>7 DEF t

LEMMA DupStep ==
  ASSUME FInv, MaxStarts = 1, oom' = oom, NEW from \in Fd, NEW to \in Fd, Dup(from, to)
  PROVE  FInv'
  <1>1. RunsWell /\ ~P.crashed
    BY WhileRunning DEF Dup, Running
  <1>2. /\ jft \in [Prog -> [Fd -> Name \cup {NoName}]] /\ tmp \in [Prog -> SUBSET Name]
        /\ hook \in [Prog -> BOOLEAN] /\ depth = 1 /\ 1 \in Prog /\ P \in State /\ Good(P)
    BY <1>1 DEF FInv, TypeOK, RunsWell
  <1>3. /\ jft' \in [Prog -> [Fd -> Name \cup {NoName}]] /\ jft[1][to] = NoName
        /\ jft'[1][to] = jft'[1][from] /\ \A g \in Fd \ {to} : jft'[1][g] = jft[1][g]
    BY <1>2 DEF Dup, IsOpen
  <1>4. P.table[to] = Null
    BY <1>1, <1>3 DEF RunsWell, Named
  <1>5. Named(P, jft'[1])
    BY <1>1, <1>3, <1>4 DEF RunsWell, Named
  <1>6. tmp' = tmp /\ hook' = hook /\ bss_count' = bss_count /\ depth' = depth
    BY DEF Dup
  <1>7. /\ P.mem \/ P.table = NoFds
        /\ P.old # bss_count => P.table = NoFds
        /\ ~oom => Tracked(P, tmp'[1])
    BY <1>1, <1>6 DEF RunsWell
  <1>8. P' \in State /\ Fine(P', bss_count, TRUE, jft'[1], tmp'[1], oom)
    BY <1>2, <1>3, <1>4, <1>5, <1>7, DupFine DEF Dup
  <1> QED BY <1>1, <1>2, <1>3, <1>6, <1>8, StillRunning

LEMMA Dup2Step ==
  ASSUME FInv, MaxStarts = 1, oom' = oom, NEW fd \in Fd, NEW newfd \in Fd, Dup2(fd, newfd)
  PROVE  FInv'
  <1>1. RunsWell /\ ~P.crashed
    BY WhileRunning DEF Dup2, Running
  <1>2. /\ jft \in [Prog -> [Fd -> Name \cup {NoName}]] /\ tmp \in [Prog -> SUBSET Name]
        /\ hook \in [Prog -> BOOLEAN] /\ depth = 1 /\ 1 \in Prog /\ P \in State /\ Good(P)
    BY <1>1 DEF FInv, TypeOK, RunsWell
  <1>3. /\ jft' \in [Prog -> [Fd -> Name \cup {NoName}]]
        /\ jft'[1][newfd] = jft'[1][fd] /\ \A g \in Fd \ {newfd} : jft'[1][g] = jft[1][g]
    BY <1>2 DEF Dup2
  <1> DEFINE c == clear_fd_properties(P, newfd)
  <1>4. ClearedIs(c, P, newfd)
    <2>1. P.table[newfd] # Null => P.mem
      BY <1>1 DEF RunsWell
    <2> QED BY <1>2, <2>1, Cleared
  <1>5. P' = IF c.crashed THEN c ELSE dup_fd_properties(c, fd, newfd)
    BY DEF Dup2
  <1> HIDE DEF c
  <1>6. c \in State
    BY <1>4 DEF ClearedIs
  <1>7. tmp' \in [Prog -> SUBSET Name] /\ tmp'[1] = tmp[1] \cap P'.files
    BY <1>2, Forgotten DEF Dup2
  <1>8. P' \in State /\ Fine(P', bss_count, TRUE, jft'[1], tmp'[1], oom)
    <2>1. CASE c.crashed
      BY <1>5, <1>6, <2>1 DEF Fine
    <2>2. CASE ~c.crashed
      <3> DEFINE kept == tmp[1] \cap c.files
      <3>1. P.table \in [Fd -> Ptr] /\ c.table = [P.table EXCEPT ![newfd] = Null]
        BY <1>2, <1>4, <2>2 DEF ClearedIs, State
      <3>2. c.table[newfd] = Null
        BY <3>1
      <3>3. ASSUME P.table = NoFds PROVE c.table = NoFds
        BY <3>1, <3>3, NoFdsKept
      <3>4. /\ Good(c)
            /\ c.mem \/ c.table = NoFds
            /\ c.old # bss_count => c.table = NoFds
        BY <1>1, <1>4, <2>2, <3>3 DEF ClearedIs, RunsWell
      <3>5. Named(c, jft'[1])
        <4>1. Named(P, jft[1])
          BY <1>1 DEF RunsWell
        <4> QED BY <1>2, <1>3, <1>4, <1>6, <2>2, <4>1, ClearNames
      <3>6. ~oom => Tracked(c, kept)
        <4>1. ~oom => Tracked(P, tmp[1])
          BY <1>1 DEF RunsWell
        <4> QED BY <1>2, <1>4, <1>6, <2>2, <4>1, ClearTracks
      <3> HIDE DEF kept
      <3>7. P' \in State /\ P'.files = c.files /\ Fine(P', bss_count, TRUE, jft'[1], kept, oom)
        BY <1>3, <1>5, <1>6, <2>2, <3>2, <3>4, <3>5, <3>6, DupFine
      <3> QED BY <1>7, <3>7 DEF kept
    <2> QED BY <2>1, <2>2
  <1>9. hook' = hook /\ bss_count' = bss_count /\ depth' = depth
    BY DEF Dup2
  <1> QED BY <1>1, <1>2, <1>3, <1>7, <1>8, <1>9, StillRunning

LEMMA StartStep ==
  ASSUME FInv, MaxStarts = 1, oom' = oom, NEW S \in SUBSET Fd, Start(S)
  PROVE  FInv'
  <1>1. bss_count = 1 /\ depth = 0 /\ P.old = 0 /\ 1 \in Prog /\ ~P.crashed
    BY DEF FInv, TypeOK, Start, Prog
  <1>2. /\ jft \in [Prog -> [Fd -> Name \cup {NoName}]] /\ tmp \in [Prog -> SUBSET Name]
        /\ hook \in [Prog -> BOOLEAN] /\ P \in State /\ oom \in BOOLEAN
    BY DEF FInv, TypeOK
  <1>3. P' = P /\ tmp' = tmp /\ bss_count' = 2 /\ depth' = 1 /\ S = {}
    BY <1>1 DEF Start
  <1>4. P.table = NoFds
    BY <1>1 DEF FInv, Fine
  <1>5. jft' \in [Prog -> [Fd -> Name \cup {NoName}]]
    BY <1>1, <1>2, <1>3 DEF Start
  <1>6. hook' \in [Prog -> BOOLEAN]
    BY <1>1, <1>2 DEF Start
  <1>7. TypeOK'
    BY <1>2, <1>3, <1>5, <1>6 DEF TypeOK
  <1>8. Named(P, jft'[1])
    BY <1>4 DEF Named, NoFds
  <1>9. Fine(P', bss_count', depth' = 1, jft'[1], tmp'[1], oom')
    BY <1>1, <1>3, <1>4, <1>8 DEF Fine, FInv
  <1> QED BY <1>3, <1>7, <1>9 DEF FInv

LEMMA ExitStep ==
  ASSUME FInv, MaxStarts = 1, oom' = oom, Exit
  PROVE  FInv'
  <1>1. RunsWell /\ ~P.crashed
    BY WhileRunning DEF Exit, Running
  <1>2. /\ jft \in [Prog -> [Fd -> Name \cup {NoName}]] /\ tmp \in [Prog -> SUBSET Name]
        /\ hook \in [Prog -> BOOLEAN] /\ depth = 1 /\ 1 \in Prog /\ P \in State /\ Good(P)
        /\ bss_count = 2
    BY <1>1 DEF FInv, TypeOK, RunsWell
  <1>3. bss_count' = 2 /\ depth' = 0 /\ hook' = hook
    BY <1>2 DEF Exit
  <1>4. jft' \in [Prog -> [Fd -> Name \cup {NoName}]]
    BY <1>2 DEF Exit, NoFiles
  <1>5. tmp' \in [Prog -> SUBSET Name] /\ tmp'[1] = {}
    BY <1>2 DEF Exit, Forget
  <1>6. CleanedIs(P', P)
    <2>1. \A fd \in Fd : P.table[fd] # Null => P.mem
      BY <1>1 DEF RunsWell
    <2>2. CleanedIs(exit_cleanup(P, jft[depth]), P)
      BY <1>2, <2>1, Cleaned
    <2>3. CleanedIs(P, P)
      BY <1>2 DEF CleanedIs
    <2> QED BY <2>2, <2>3 DEF Exit
  <1>7. P' \in State
    BY <1>6 DEF CleanedIs
  <1>8. ASSUME ~P'.crashed, P.table = NoFds PROVE P'.table = NoFds
    <2>1. P'.table \in [Fd -> Ptr]
      BY <1>7 DEF State
    <2>2. \A fd \in Fd : P'.table[fd] = Null
      BY <1>6, <1>8 DEF CleanedIs, NoFds
    <2> QED BY <2>1, <2>2 DEF NoFds
  <1>9. Fine(P', bss_count', depth' = 1, jft'[1], tmp'[1], oom')
    BY <1>1, <1>2, <1>3, <1>5, <1>6, <1>8 DEF Fine, CleanedIs, RunsWell, Tracked
  <1>10. TypeOK'
    BY <1>2, <1>3, <1>4, <1>5, <1>7 DEF TypeOK, FInv
  <1> QED BY <1>3, <1>9, <1>10 DEF FInv

LEMMA FInvInit ==
  ASSUME Init, MaxStarts = 1
  PROVE  FInv
  <1>0. /\ NFd \in Nat /\ MaxObj \in Nat /\ MaxRef \in Nat
    BY FdConstantsOK
  <1>1. /\ bss_count = 1 /\ depth = 0 /\ oom \in BOOLEAN
        /\ hook \in [Prog -> BOOLEAN] /\ jft \in [Prog -> [Fd -> Name \cup {NoName}]]
        /\ tmp \in [Prog -> SUBSET Name] /\ 1 \in Prog /\ tmp[1] = {}
    BY DEF Init, NoFiles, Prog
  <1>2. /\ P.table = NoFds /\ P.old = 0 /\ P.active = Null /\ P.cached = Null
        /\ P.item = [o \in Obj |-> [NewItem EXCEPT !.ref = 0]]
    BY DEF Init
  <1>3. \A o \in Obj : P.item[o].next = Null /\ P.item[o].name = NoName
    BY <1>2 DEF NewItem
  <1>4. P \in State
    <2>1. [NewItem EXCEPT !.ref = 0] \in Item
      <3>1. PICK x \in [ref : Nat, name : Name \cup {NoName}, temp : BOOLEAN,
                         next : Ptr, prev : Ptr] : x = NewItem
        BY DEF NewItem, Ptr
      <3>2. [x EXCEPT !.ref = 0] \in Item
        BY <1>0 DEF Item
      <3> QED BY <3>1, <3>2
    <2>2. P.item \in [Obj -> Item] /\ NoFds \in [Fd -> Ptr] /\ 0 \in 0 .. MaxObj
      BY <1>0, <1>2, <2>1 DEF NoFds, Ptr
    <2> QED BY <2>2 DEF Init, State, Ptr
  <1>5. Used(P) = {}
    BY <1>2 DEF Used, NoFds, Obj, Null
  <1>6. Good(P)
    BY <1>2, <1>3, <1>5 DEF Good, Lists, Heads, Unlinked, Counts
  <1>7. TypeOK
    BY <1>1, <1>4 DEF TypeOK
  <1>8. Fine(P, bss_count, depth = 1, jft[1], tmp[1], oom)
    BY <1>1, <1>2, <1>6 DEF Fine, Tracked
  <1> QED BY <1>1, <1>2, <1>7, <1>8 DEF FInv

LEMMA FInvStep ==
  ASSUME FInv, MaxStarts = 1, [Next]_vars
  PROVE  FInv'
  <1>1. CASE UNCHANGED vars
    BY <1>1 DEF vars, FInv, TypeOK, Fine, Good, Lists, Heads, Linked, Unlinked, Counts,
                Named, Tracked, Used, Sharing
  <1>2. CASE Next
    <2>0. oom' = oom
      BY <1>2 DEF Next
    <2>1. ASSUME NEW fd \in Fd, NEW n \in Name, NEW t \in BOOLEAN, Open(fd, n, t)
          PROVE  FInv'
      BY <2>0, <2>1, OpenStep
    <2>2. ASSUME NEW fd \in Fd, NEW n \in Name, RawOpen(fd, n) PROVE FInv'
      BY <2>0, <2>2, RawOpenStep
    <2>3. ASSUME NEW fd \in Fd, Llseek(fd) PROVE FInv'
      BY <2>0, <2>3, LlseekStep
    <2>4. ASSUME NEW fd \in Fd, Close(fd) PROVE FInv'
      BY <2>0, <2>4, CloseStep
    <2>5. ASSUME NEW fd \in Fd, NEW to \in Fd, Dup(fd, to) PROVE FInv'
      BY <2>0, <2>5, DupStep
    <2>6. ASSUME NEW fd \in Fd, NEW to \in Fd, Dup2(fd, to) PROVE FInv'
      BY <2>0, <2>6, Dup2Step
    <2>7. ASSUME NEW S \in SUBSET Fd, Start(S) PROVE FInv'
      BY <2>0, <2>7, StartStep
    <2>8. CASE Exit
      BY <2>0, <2>8, ExitStep
    <2> QED BY <1>2, <2>1, <2>2, <2>3, <2>4, <2>5, <2>6, <2>7, <2>8 DEF Next, Step
  <1> QED BY <1>1, <1>2

(* The statics of fd_props.c stay consistent while one program runs: list  *)
(* heads, links, ref_count, names and temporary files, whatever order of   *)
(* open, dup, dup2, llseek and close, and although malloc() may fail.      *)
THEOREM FdState ==
  ASSUME MaxStarts = 1
  PROVE  Spec => []FInv
  <1>1. Init => FInv
    BY FInvInit
  <1>2. FInv /\ [Next]_vars => FInv'
    BY FInvStep
  <1> QED BY <1>1, <1>2, PTL DEF Spec

LEMMA UsersAre ==
  ASSUME NEW o \in Obj
  PROVE  Users(o) = Sharing(P, o) /\ InUse = Used(P)
  <1>1. \A x \in Obj : Users(x) = Sharing(P, x)
    BY DEF Users, Sharing
  <1> QED BY <1>1 DEF InUse, Used, Sharing

(* ref_count is the number of descriptors that share the object.           *)
THEOREM RefCounts ==
  ASSUME MaxStarts = 1
  PROVE  Spec => []RefCountRight
  <1>1. FInv => RefCountRight
    <2> SUFFICES ASSUME FInv, ~P.crashed, NEW o \in InUse
                 PROVE  P.item[o].ref = Cardinality(Users(o))
      BY DEF RefCountRight
    <2>1. o \in Obj
      BY DEF InUse
    <2>2. o \in Used(P) /\ Users(o) = Sharing(P, o)
      BY <2>1, UsersAre
    <2> QED BY <2>2 DEF FInv, Fine, Good, Counts
  <1> QED BY <1>1, FdState, PTL

(* The properties of a descriptor name the file that DOS has open on it.   *)
THEOREM OwnNames ==
  ASSUME MaxStarts = 1
  PROVE  Spec => []OwnName
  <1>1. FInv => OwnName
    <2> SUFFICES ASSUME FInv, ~P.crashed, NEW fd \in Fd, has_fd_properties(P, fd), depth > 0
                 PROVE  P.item[P.table[fd]].name \in {NoName, jft[depth][fd]}
      BY DEF OwnName, FInv
    <2>1. depth = 1
      BY DEF FInv, TypeOK
    <2>2. Named(P, jft[1])
      BY <2>1 DEF FInv, Fine
    <2> QED BY <2>1, <2>2 DEF Named, has_fd_properties
  <1> QED BY <1>1, FdState, PTL

(* A temporary file that exists is known to a descriptor with the flag, so *)
(* that the last close of that file removes it.                            *)
THEOREM TempsTracked ==
  ASSUME MaxStarts = 1
  PROVE  Spec => []TempTracked
  <1>1. FInv => TempTracked
    <2> SUFFICES ASSUME FInv, ~P.crashed, ~oom, NEW d \in Prog, NEW n \in tmp[d]
                 PROVE  \E o \in InUse : P.item[o].name = n /\ P.item[o].temp
      BY DEF TempTracked
    <2>1. d = 1
      BY DEF Prog
    <2>2. PICK o \in Used(P) : P.item[o].name = n /\ P.item[o].temp
      BY <2>1 DEF FInv, Fine, Tracked
    <2>3. o \in InUse
      BY UsersAre DEF Used
    <2> QED BY <2>2, <2>3
  <1> QED BY <1>1, FdState, PTL

(* cached_fds leads to no object that a descriptor has, so that            *)
(* alloc_fd_properties() never hands out an object in use, although        *)
(* remove_list() loses links.                                              *)
THEOREM CachedUnused ==
  ASSUME MaxStarts = 1
  PROVE  Spec => []CacheUnused
  <1>1. FInv => CacheUnused
    <2> SUFFICES ASSUME FInv, ~P.crashed
                 PROVE  Listed(P, P.cached) \cap InUse = {}
      BY DEF CacheUnused
    <2> DEFINE S == (Obj \ Used(P)) \cup {Null}
    <2>1. P \in State /\ Lists(P)
      BY DEF FInv, TypeOK, Fine, Good
    <2>2. P.cached \in S /\ Null \in S
      BY <2>1 DEF Lists, Heads, State, Ptr
    <2>3. ASSUME NEW x \in S \ {Null} PROVE P.item[x].next \in S
      <3>1. x \in Obj \ Used(P) /\ P.item[x].next \in Ptr
        BY <2>1 DEF State, Item
      <3> QED BY <2>1, <3>1 DEF Lists, Unlinked, Ptr
    <2>4. \A k \in 0 .. MaxObj : Nth(P, P.cached)[k] \in S
      <3> HIDE DEF S
      <3> QED BY <2>2, <2>3, NthStays
    <2>5. Listed(P, P.cached) \subseteq Obj \ Used(P)
      BY <2>4 DEF Listed
    <2>6. ASSUME NEW o \in InUse PROVE o \in Used(P)
      BY UsersAre DEF InUse
    <2> QED BY <2>5, <2>6
  <1> QED BY <1>1, FdState, PTL
=============================================================================
