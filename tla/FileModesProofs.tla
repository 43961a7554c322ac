-------------------------- MODULE FileModesProofs --------------------------
(***************************************************************************)
(* Proofs about the modes of descriptors: for all sizes of the two tables  *)
(* and any number of programs.                                             *)
(***************************************************************************)
EXTENDS FileModes, WellFoundedInduction, TLAPS

(* The tables fit what DOS was told; a descriptor in use has a place. *)
Sized(q) ==
  /\ q \in Program
  /\ q.limit = Big => q.grown
  /\ q.count = Big => q.grown
  /\ \A f \in q.open : f < q.limit

(* With the small table only NUL can be open at its last place. *)
Early(q) == Small - 1 \in q.open => q.grown \/ q.want[Small - 1] = {}

(* What is closed was not asked for. *)
Shut(q) == \A f \in Fd : f \notin q.open => q.want[f] = {}

(* The table will not be expanded a second time: no child was run. *)
Alone(q) == q.grown => q.bss = bss_count /\ q.count = Big

(* Every descriptor of the program has its mode, and no other is open but *)
(* the one for NUL.                                                        *)
KeptAt(q, f) ==
  /\ q.want[f] # {} => Modes(q, f) = q.want[f]
  /\ q.want[f] = {} => f = q.nul /\ ~q.fresh

Kept(q) == \A f \in q.open : KeptAt(q, f)

Fine(q) == Sized(q) /\ Early(q) /\ Shut(q) /\ (~children => Alone(q) /\ Kept(q))

(* The inductive invariant. *)
MInv == bss_count \in Nat /\ children \in BOOLEAN /\ Fine(p)

(* What all parts of __file_handle_set() and DOS leave alone. *)
Same(r, q) ==
  /\ r.want = q.want /\ r.nul = q.nul /\ (r.fresh <=> q.fresh)
  /\ q.grown => r.grown

-----------------------------------------------------------------------------
(* Induction without an operator as a parameter: a set of naturals that is *)
(* not empty has a least element.                                          *)
LEMMA Least ==
  ASSUME NEW T \in SUBSET Nat, T # {}
  PROVE  \E x \in T : \A y \in T : x <= y
  <1> DEFINE R == OpToRel(<, Nat)
  <1>1. IsWellFoundedOn(R, Nat)
    BY NatLessThanWellFounded
  <1>2. \A x, y \in Nat : <<y, x>> \in R <=> y < x
    BY DEF OpToRel
  <1> HIDE DEF R
  <1>3. PICK x \in T : \A y \in T : ~ (<<y, x>> \in R)
    BY <1>1, WFMin
  <1>4. ASSUME NEW y \in T PROVE x <= y
    <2>1. y \in Nat /\ x \in Nat
      OBVIOUS
    <2>2. ~(y < x)
      BY <1>2, <1>3, <2>1, Zenon
    <2> QED BY <2>1, <2>2
  <1> QED BY <1>4

(* A set with 0 and with the successors of its elements up to n. *)
LEMMA UpTo ==
  ASSUME NEW n \in Nat, NEW T, 0 \in T, \A k \in 1 .. n : k - 1 \in T => k \in T
  PROVE  \A k \in 0 .. n : k \in T
  <1> SUFFICES ASSUME (0 .. n) \ T # {} PROVE FALSE
    OBVIOUS
  <1>0. (0 .. n) \ T \in SUBSET Nat
    OBVIOUS
  <1>1. PICK x \in (0 .. n) \ T : \A y \in (0 .. n) \ T : x <= y
    BY <1>0, Least
  <1>2. x \in 1 .. n /\ x - 1 \in 0 .. n /\ ~(x <= x - 1)
    BY <1>1
  <1> QED BY <1>1, <1>2

LEMMA Sizes == /\ Small \in Nat /\ Big \in Nat /\ 0 < Small /\ Small < Big
               /\ Fd = 0 .. Big - 1 /\ Small - 1 \in Fd /\ NoFd \notin Fd
  BY FileModesConstantsOK DEF Fd, NoFd

(* DOS gives out a handle that is free. *)
LEMMA LowestFree ==
  ASSUME NEW q
  PROVE  Lowest(q) = NoFd \/ (Lowest(q) \in Fd /\ Lowest(q) < q.limit /\ Lowest(q) \notin q.open)
  <1>1. CASE Handles(q) = {}
    BY <1>1 DEF Lowest
  <1>2. CASE Handles(q) # {}
    <2>1. Handles(q) \in SUBSET Nat
      BY Sizes DEF Handles
    <2>2. \E x \in Handles(q) : \A y \in Handles(q) : x <= y
      BY <1>2, <2>1, Least
    <2>3. Lowest(q) \in Handles(q)
      BY <1>2, <2>2 DEF Lowest, Min
    <2> QED BY <2>3 DEF Handles
  <1> QED BY <1>1, <1>2

-----------------------------------------------------------------------------
(* __file_handle_set(): the modes of the others stay, if the table is not  *)
(* expanded a second time.                                                 *)
SetIs(r, q, fd, mode) ==
  /\ Sized(r)
  /\ r.open = q.open /\ Same(r, q) /\ q.limit <= r.limit
  /\ fd = Small - 1 => r.grown
  /\ Modes(r, fd) = mode
  /\ Alone(q) => /\ Alone(r)
                 /\ \A f \in Fd : f < q.limit /\ f # fd => Modes(r, f) = Modes(q, f)

LEMMA Set ==
  ASSUME bss_count \in Nat, NEW q, Sized(q), NEW fd \in Fd, NEW mode \in Mode
  PROVE  SetIs(FileHandleSet(q, fd, mode), q, fd, mode)
  <1>0. /\ q \in Program /\ q.init \in [0 .. Small - 1 -> Mode] /\ q.table \in [Fd -> Mode]
        /\ q.count \in {Small, Big} /\ q.limit \in {Small, Big} /\ q.grown \in BOOLEAN
        /\ q.limit = Big => q.grown
        /\ q.count = Big => q.grown
        /\ \A f \in q.open : f < q.limit
    BY DEF Sized, Program
  <1>1. PICK u \in Program : u = Recounted(q)
    <2>0. q \in Program /\ bss_count \in Int
      BY <1>0
    <2>1. [q EXCEPT !.bss = bss_count, !.count = Small] \in Program
      BY <2>0 DEF Program
    <2> QED BY <1>0, <2>1 DEF Recounted
  <1>2. /\ u.init = q.init /\ u.grown = q.grown /\ u.table = q.table /\ u.bss = bss_count
        /\ u.limit = q.limit /\ u.open = q.open /\ u.want = q.want
        /\ u.nul = q.nul /\ u.fresh = q.fresh
        /\ u.count \in {Small, Big}
        /\ u.count = Big => u.grown
        /\ Alone(q) /\ q.grown => u.count = Big
    BY <1>0, <1>1, Sizes DEF Recounted, Program, Alone
  <1> DEFINE tab == [f \in Fd |-> IF f < Small THEN q.init[f] ELSE {}]
             full == fd >= u.count - 1 /\ u.count < Big
  <1>3. tab \in [Fd -> Mode] /\ \A f \in Fd : f < Small => tab[f] = q.init[f]
    <2>1. q.init \in [0 .. Small - 1 -> Mode] /\ {} \in Mode
      BY <1>0 DEF Mode
    <2>2. \A f \in Fd : f < Small => f \in 0 .. Small - 1
      BY Sizes
    <2> QED BY <2>1, <2>2
  <1> HIDE DEF tab
  <1>4. PICK e \in Program :
          /\ e = Expanded(u, fd)
          /\ e.init = q.init /\ e.open = q.open /\ e.want = q.want /\ e.bss = bss_count
          /\ e.nul = q.nul /\ e.fresh = q.fresh
          /\ full => e.count = Big /\ e.grown /\ e.limit \in {q.limit, Big} /\ e.table = tab
          /\ ~full => e = u
    <2>1. CASE full
      <3>0. PICK l \in {Small, Big} : l = (IF more THEN Big ELSE u.limit) /\ l \in {q.limit, Big}
        BY <1>0, <1>2
      <3>1. PICK e \in Program : e = [u EXCEPT !.count = Big, !.grown = TRUE, !.limit = l,
                                                !.table = tab]
        BY <1>3 DEF Program
      <3>2. e = Expanded(u, fd)
        BY <1>2, <2>1, <3>0, <3>1 DEF Expanded, tab
      <3>3. /\ e.init = u.init /\ e.open = u.open /\ e.want = u.want /\ e.bss = u.bss
            /\ e.nul = u.nul /\ e.fresh = u.fresh
            /\ e.count = Big /\ e.limit = l /\ e.table = tab
        BY <3>1 DEF Program
      <3>4. e.grown
        BY <3>1 DEF Program
      <3> QED BY <1>2, <2>1, <3>0, <3>2, <3>3, <3>4
    <2>2. CASE ~full
      <3>1. u = Expanded(u, fd)
        BY <2>2 DEF Expanded
      <3> QED BY <1>2, <2>2, <3>1
    <2> QED BY <2>1, <2>2
  <1>5. /\ e.limit = Big => e.grown
        /\ e.count = Big => e.grown
        /\ q.limit <= e.limit /\ e.limit \in {Small, Big}
        /\ fd >= Small - 1 => e.grown
        /\ q.grown => e.grown
    <2>1. CASE full
      BY <1>0, <1>4, <2>1, Sizes
    <2>2. CASE ~full
      <3>1. u.limit \in {Small, Big} /\ (u.limit = Big => u.grown) /\ (u.count = Big => u.grown)
        BY <1>0, <1>2
      <3>2. fd >= Small - 1 => u.grown
        BY <1>2, <2>2, <3>1, Sizes
      <3>3. q.limit <= u.limit
        BY <1>0, <1>2, Sizes
      <3> QED BY <1>2, <1>4, <2>2, <3>1, <3>2, <3>3
    <2> QED BY <2>1, <2>2
  <1>6. Alone(q) => /\ e.grown => e.count = Big
                    /\ \A f \in Fd : f < q.limit => Modes(e, f) = Modes(q, f)
    <2> SUFFICES ASSUME Alone(q)
                 PROVE  /\ e.grown => e.count = Big
                        /\ \A f \in Fd : f < q.limit => Modes(e, f) = Modes(q, f)
      OBVIOUS
    <2>1. CASE full
      <3>1. u.count = Small /\ ~q.grown
        BY <1>2, <2>1, Sizes
      <3>2. q.limit = Small
        BY <1>0, <3>1
      <3> QED BY <1>3, <1>4, <2>1, <3>1, <3>2 DEF Modes
    <2>2. CASE ~full
      BY <1>2, <1>4, <2>2 DEF Modes
    <2> QED BY <2>1, <2>2
  <1> HIDE DEF full
  <1> DEFINE r == FileHandleSet(q, fd, mode)
  <1>7. r = IF e.grown THEN [e EXCEPT !.table[fd] = mode] ELSE [e EXCEPT !.init[fd] = mode]
    BY <1>1, <1>4 DEF FileHandleSet
  <1> HIDE DEF r
  <1>8. /\ r \in Program
        /\ r.open = e.open /\ r.want = e.want /\ r.limit = e.limit /\ r.count = e.count
        /\ r.bss = e.bss /\ (r.grown <=> e.grown)
        /\ r.nul = e.nul /\ (r.fresh <=> e.fresh)
        /\ Modes(r, fd) = mode
        /\ \A f \in Fd : f < q.limit /\ f # fd => Modes(r, f) = Modes(e, f)
    <2>0. e.init \in [0 .. Small - 1 -> Mode] /\ e.table \in [Fd -> Mode]
      BY DEF Program
    <2>1. CASE e.grown
      <3>1. PICK t \in [Fd -> Mode] : t = [e.table EXCEPT ![fd] = mode]
        BY <2>0
      <3>2. PICK w \in Program : w = [e EXCEPT !.table = t]
        BY DEF Program
      <3>3. r = w
        BY <1>7, <2>1, <3>1, <3>2 DEF Program
      <3>4. /\ w.open = e.open /\ w.want = e.want /\ w.limit = e.limit /\ w.count = e.count
            /\ w.bss = e.bss /\ w.grown = e.grown /\ w.table = t
            /\ w.nul = e.nul /\ w.fresh = e.fresh
        BY <3>2 DEF Program
      <3>5. t[fd] = mode /\ \A f \in Fd \ {fd} : t[f] = e.table[f]
        BY <2>0, <3>1
      <3> QED BY <2>1, <3>3, <3>4, <3>5 DEF Modes
    <2>2. CASE ~e.grown
      <3>0. q.limit = Small /\ fd \in 0 .. Small - 1
        <4>1. q.limit = Small
          BY <1>0, <1>5, <2>2
        <4>2. fd < Small
          BY <1>5, <2>2, Sizes
        <4> QED BY <4>1, <4>2, Sizes
      <3>1. PICK t \in [0 .. Small - 1 -> Mode] : t = [e.init EXCEPT ![fd] = mode]
        BY <2>0
      <3>2. PICK w \in Program : w = [e EXCEPT !.init = t]
        BY DEF Program
      <3>3. r = w
        BY <1>7, <2>2, <3>1, <3>2 DEF Program
      <3>4. /\ w.open = e.open /\ w.want = e.want /\ w.limit = e.limit /\ w.count = e.count
            /\ w.bss = e.bss /\ w.grown = e.grown /\ w.init = t
            /\ w.nul = e.nul /\ w.fresh = e.fresh
        BY <3>2 DEF Program
      <3>5. t[fd] = mode /\ \A f \in Fd : f < Small /\ f # fd => t[f] = e.init[f]
        BY <2>0, <3>0, <3>1, Sizes
      <3> QED BY <2>2, <3>0, <3>3, <3>4, <3>5 DEF Modes
    <2> QED BY <2>1, <2>2
  <1>9. \A f \in r.open : f < r.limit
    <2>1. \A f \in q.open : f \in Fd
      BY <1>0 DEF Program
    <2>2. q.limit \in Nat /\ r.limit \in Nat /\ q.limit <= r.limit
      BY <1>0, <1>5, <1>8, Sizes DEF Program
    <2> QED BY <1>0, <1>4, <1>8, <2>1, <2>2, Sizes
  <1>10. Sized(r)
    BY <1>5, <1>8, <1>9 DEF Sized
  <1>11. Alone(q) => /\ Alone(r)
                     /\ \A f \in Fd : f < q.limit /\ f # fd => Modes(r, f) = Modes(q, f)
    BY <1>4, <1>6, <1>8 DEF Alone
  <1>12. Same(r, q)
    BY <1>4, <1>5, <1>8 DEF Same
  <1>13. (fd = Small - 1 => r.grown) /\ q.limit <= r.limit /\ r.open = q.open
    BY <1>4, <1>5, <1>8, Sizes
  <1>14. SetIs(r, q, fd, mode)
    BY <1>8, <1>10, <1>11, <1>12, <1>13 DEF SetIs
  <1> QED BY <1>14 DEF r

(* An operation on the descriptor fd ends with the mode it was asked for, *)
(* or with the descriptor closed.                                          *)
LEMMA Wanted ==
  ASSUME NEW r, Sized(r), Early(r), ~children => Alone(r), NEW fd \in Fd, NEW w \in Mode,
         fd = Small - 1 /\ fd \in r.open => r.grown,
         w = {} <=> fd \notin r.open,
         \A f \in Fd : f # fd /\ f \notin r.open => r.want[f] = {},
         ~children => /\ \A f \in r.open : f # fd => KeptAt(r, f)
                      /\ fd \in r.open => Modes(r, fd) = w
  PROVE  Fine([r EXCEPT !.want[fd] = w])
  <1>1. r \in Program /\ r.want \in [Fd -> Mode] /\ r.open \subseteq Fd
    BY DEF Sized, Program
  <1>2. PICK v \in [Fd -> Mode] : v = [r.want EXCEPT ![fd] = w]
    BY <1>1
  <1>3. PICK q \in Program : q = [r EXCEPT !.want = v]
    BY <1>1 DEF Program
  <1>4. q = [r EXCEPT !.want[fd] = w]
    BY <1>1, <1>2, <1>3 DEF Program
  <1>5. /\ q.init = r.init /\ q.grown = r.grown /\ q.table = r.table /\ q.bss = r.bss
        /\ q.limit = r.limit /\ q.open = r.open /\ q.count = r.count /\ q.want = v
        /\ q.nul = r.nul /\ q.fresh = r.fresh
    BY <1>1, <1>3 DEF Program
  <1>6. Sized(q) /\ (~children => Alone(q))
    BY <1>5 DEF Sized, Alone
  <1>7. v[fd] = w /\ \A f \in Fd : f # fd => v[f] = r.want[f]
    BY <1>1, <1>2
  <1>8. Early(q)
    BY <1>5, <1>7, Sizes DEF Early
  <1>9. Shut(q)
    BY <1>5, <1>7 DEF Shut
  <1>10. ASSUME ~children, NEW f \in q.open PROVE KeptAt(q, f)
    <2>1. Modes(q, f) = Modes(r, f) /\ f \in Fd
      BY <1>1, <1>5 DEF Modes
    <2>2. CASE f = fd
      BY <1>5, <1>7, <1>10, <2>1, <2>2 DEF KeptAt
    <2>3. CASE f # fd
      BY <1>5, <1>7, <1>10, <2>1, <2>3 DEF KeptAt
    <2> QED BY <2>2, <2>3
  <1> QED BY <1>4, <1>6, <1>8, <1>9, <1>10 DEF Fine, Kept

(* DOS opens a handle it has given out. *)
OpenedIs(t, q, fd) ==
  /\ Sized(t) /\ t.open = q.open \cup {fd} /\ Same(t, q) /\ t.limit = q.limit
  /\ Alone(q) => Alone(t)
  /\ \A f \in Fd : Modes(t, f) = Modes(q, f)

LEMMA Opens ==
  ASSUME NEW q, Sized(q), NEW fd \in Fd, fd < q.limit
  PROVE  OpenedIs(Opened(q, fd), q, fd)
  <1>1. PICK t \in Program : t = [q EXCEPT !.open = @ \cup {fd}]
    BY DEF Sized, Program
  <1>2. /\ t.init = q.init /\ t.grown = q.grown /\ t.table = q.table /\ t.bss = q.bss
        /\ t.limit = q.limit /\ t.open = q.open \cup {fd} /\ t.count = q.count
        /\ t.want = q.want /\ t.nul = q.nul /\ t.fresh = q.fresh
    BY <1>1 DEF Sized, Program
  <1>3. Sized(t) /\ (Alone(q) => Alone(t)) /\ \A f \in Fd : Modes(t, f) = Modes(q, f)
    BY <1>2 DEF Sized, Alone, Modes
  <1>4. Same(t, q)
    BY <1>2 DEF Same
  <1> QED BY <1>1, <1>2, <1>3, <1>4 DEF Opened, OpenedIs

(* DOS closes handles. *)
ClosedIs(t, q, fds) ==
  /\ Sized(t) /\ t.open = q.open \ fds /\ Same(t, q) /\ t.limit = q.limit
  /\ Alone(q) => Alone(t)
  /\ \A f \in Fd : Modes(t, f) = Modes(q, f)

LEMMA Closes ==
  ASSUME NEW q, Sized(q), NEW fds
  PROVE  ClosedIs(CloseAll(q, fds), q, fds)
  <1>1. PICK t \in Program : t = [q EXCEPT !.open = @ \ fds]
    BY DEF Sized, Program
  <1>2. /\ t.init = q.init /\ t.grown = q.grown /\ t.table = q.table /\ t.bss = q.bss
        /\ t.limit = q.limit /\ t.open = q.open \ fds /\ t.count = q.count
        /\ t.want = q.want /\ t.nul = q.nul /\ t.fresh = q.fresh
    BY <1>1 DEF Sized, Program
  <1>3. Sized(t) /\ (Alone(q) => Alone(t)) /\ \A f \in Fd : Modes(t, f) = Modes(q, f)
    BY <1>2 DEF Sized, Alone, Modes
  <1>4. Same(t, q)
    BY <1>2 DEF Same
  <1> QED BY <1>1, <1>2, <1>3, <1>4 DEF CloseAll, ClosedIs

(* With fewer descriptors, or a larger table, the last place is right too. *)
LEMMA StillEarly ==
  ASSUME NEW q, NEW r, Early(q), Same(r, q), NEW fd,
         r.open \subseteq q.open \cup {fd}, fd = Small - 1 => r.grown
  PROVE  Early(r)
  BY DEF Early, Same

(* A descriptor that is open, or just given out, and gets a mode.  All but *)
(* the last step of an operation on fd leaves this.                        *)
PlacedIs(r, q, fd, mode) ==
  /\ Sized(r) /\ Early(r) /\ r.open = q.open \cup {fd} /\ Same(r, q)
  /\ fd < r.limit /\ q.limit <= r.limit /\ Modes(r, fd) = mode
  /\ fd = Small - 1 => r.grown
  /\ Alone(q) => /\ Alone(r)
                 /\ \A f \in Fd : f < q.limit /\ f # fd => Modes(r, f) = Modes(q, f)

LEMMA Placed ==
  ASSUME bss_count \in Nat, NEW q, Sized(q), Early(q), NEW fd \in Fd, fd < q.limit,
         NEW mode \in Mode
  PROVE  /\ PlacedIs(FileHandleSet(Opened(q, fd), fd, mode), q, fd, mode)
         /\ fd \in q.open => PlacedIs(FileHandleSet(q, fd, mode), q, fd, mode)
  <1>1. ASSUME NEW t, OpenedIs(t, q, fd)
        PROVE  PlacedIs(FileHandleSet(t, fd, mode), q, fd, mode)
    <2> DEFINE r == FileHandleSet(t, fd, mode)
    <2>1. Sized(t) /\ t.limit = q.limit
      BY <1>1 DEF OpenedIs
    <2>2. SetIs(r, t, fd, mode)
      BY <2>1, Set
    <2> HIDE DEF r
    <2>3. r.limit \in {Small, Big} /\ q.limit \in {Small, Big} /\ q.limit <= r.limit
      BY <2>1, <2>2 DEF Sized, SetIs, Program
    <2>4. /\ Sized(r) /\ r.open = q.open \cup {fd}
          /\ Modes(r, fd) = mode /\ (fd = Small - 1 => r.grown)
      BY <1>1, <2>2 DEF SetIs, OpenedIs
    <2>5. fd < r.limit
      BY <2>3, Sizes
    <2>6. Same(r, q)
      BY <1>1, <2>2 DEF SetIs, OpenedIs, Same
    <2>7. Early(r)
      BY <2>4, <2>6, StillEarly
    <2>8. Alone(q) => /\ Alone(r)
                      /\ \A f \in Fd : f < q.limit /\ f # fd => Modes(r, f) = Modes(q, f)
      BY <1>1, <2>2 DEF SetIs, OpenedIs
    <2>9. PlacedIs(r, q, fd, mode)
      BY <2>3, <2>4, <2>5, <2>6, <2>7, <2>8 DEF PlacedIs
    <2> QED BY <2>9 DEF r
  <1>2. OpenedIs(Opened(q, fd), q, fd)
    BY Opens
  <1>3. ASSUME fd \in q.open PROVE OpenedIs(q, q, fd)
    <2>1. q.open = q.open \cup {fd} /\ Same(q, q)
      BY <1>3 DEF Same
    <2> QED BY <2>1 DEF OpenedIs
  <1> QED BY <1>1, <1>2, <1>3

(* The mode of an open descriptor is one. *)
LEMMA ModesTyped ==
  ASSUME NEW q, Sized(q), NEW f \in q.open
  PROVE  Modes(q, f) \in Mode
  <1>1. q \in Program /\ f \in Fd /\ f < q.limit
    BY DEF Sized, Program
  <1>2. CASE q.grown
    BY <1>1, <1>2 DEF Modes, Program
  <1>3. CASE ~q.grown
    <2>1. q.limit = Small /\ f \in 0 .. Small - 1
      BY <1>1, <1>3, Sizes DEF Sized, Program
    <2> QED BY <1>1, <1>3, <2>1 DEF Modes, Program
  <1> QED BY <1>2, <1>3

-----------------------------------------------------------------------------
(* What a step finds: the modes are those the program asked for. *)
LEMMA Starts ==
  ASSUME NEW q, Fine(q)
  PROVE  /\ q \in Program /\ Sized(q) /\ Early(q) /\ q.open \subseteq Fd
         /\ ~children => Alone(q) /\ \A f \in q.open : KeptAt(q, f)
         /\ \A f \in q.open : f < q.limit /\ Modes(q, f) \in Mode
         /\ q.want \in [Fd -> Mode]
         /\ \A f \in Fd : f \notin q.open => q.want[f] = {}
  <1>1. q \in Program /\ Sized(q) /\ q.open \subseteq Fd /\ q.want \in [Fd -> Mode]
    BY DEF Fine, Sized, Program
  <1>2. \A f \in q.open : f < q.limit
    BY <1>1 DEF Sized
  <1>3. \A f \in q.open : Modes(q, f) \in Mode
    BY <1>1, ModesTyped
  <1>4. Early(q) /\ (~children => Alone(q) /\ \A f \in q.open : KeptAt(q, f))
    BY DEF Fine, Kept
  <1>5. \A f \in Fd : f \notin q.open => q.want[f] = {}
    BY DEF Fine, Shut
  <1> QED BY <1>1, <1>2, <1>3, <1>4, <1>5

(* init() of fsext.c changes none of it. *)
LEMMA Looks ==
  ASSUME NEW q, Fine(q)
  PROVE  /\ Fine(Looked(q)) /\ Looked(q).open = q.open /\ Looked(q).want = q.want
         /\ Looked(q).limit = q.limit
  <1>0. q \in Program
    BY Starts
  <1>1. ASSUME NEW b \in BOOLEAN, ~b
        PROVE  LET t == [q EXCEPT !.fresh = b] IN
               Fine(t) /\ t.open = q.open /\ t.want = q.want /\ t.limit = q.limit
    <2>1. PICK t \in Program : t = [q EXCEPT !.fresh = b]
      BY <1>0 DEF Program
    <2>2. /\ t.init = q.init /\ t.grown = q.grown /\ t.table = q.table /\ t.bss = q.bss
          /\ t.limit = q.limit /\ t.open = q.open /\ t.count = q.count
          /\ t.want = q.want /\ t.nul = q.nul
      BY <1>0, <2>1 DEF Program
    <2>3. ~t.fresh
      BY <1>0, <1>1, <2>1 DEF Program
    <2>4. Sized(t) /\ Early(t) /\ Shut(t) /\ (Alone(q) => Alone(t))
      BY <2>2 DEF Fine, Sized, Early, Shut, Alone
    <2>5. \A f : KeptAt(q, f) => KeptAt(t, f)
      BY <2>2, <2>3 DEF KeptAt, Modes
    <2>6. Kept(q) => Kept(t)
      BY <2>2, <2>5 DEF Kept
    <2>7. Fine(t)
      BY <2>4, <2>6 DEF Fine
    <2> QED BY <2>1, <2>2, <2>7
  <1>2. PICK b \in BOOLEAN : ~b /\ b = FALSE
    OBVIOUS
  <1>3. Looked(q) = [q EXCEPT !.fresh = b]
    BY <1>2 DEF Looked
  <1> QED BY <1>1, <1>2, <1>3

(* The same descriptors, untouched by what was done to fd. *)
LEMMA OthersKept ==
  ASSUME NEW q, Fine(q), NEW r, NEW fd, NEW mode, PlacedIs(r, q, fd, mode), ~children,
         NEW f \in q.open, f # fd
  PROVE  KeptAt(r, f)
  <1>1. f \in Fd /\ f < q.limit /\ KeptAt(q, f) /\ Alone(q)
    BY Starts
  <1>2. Modes(r, f) = Modes(q, f) /\ Same(r, q)
    BY <1>1 DEF PlacedIs
  <1> QED BY <1>1, <1>2 DEF KeptAt, Same

(* The last change of an operation, and the mode the program wants. *)
LEMMA Ends ==
  ASSUME NEW q, Fine(q), NEW r, NEW fd \in Fd, NEW mode, PlacedIs(r, q, fd, mode),
         NEW w \in Mode, w # {}, ~children => w = mode
  PROVE  Fine([r EXCEPT !.want[fd] = w])
  <1>1. /\ Sized(r) /\ Early(r) /\ r.want = q.want
        /\ r.open = q.open \cup {fd} /\ q.open \subseteq Fd
        /\ Modes(r, fd) = mode /\ (fd = Small - 1 => r.grown)
    BY Starts DEF PlacedIs, Same
  <1>2. ~children => Alone(r)
    BY Starts DEF PlacedIs
  <1>3. ASSUME ~children, NEW f \in r.open, f # fd
        PROVE  KeptAt(r, f)
    BY <1>1, <1>3, OthersKept
  <1>4. \A f \in Fd : f # fd /\ f \notin r.open => r.want[f] = {}
    BY <1>1, Starts
  <1>5. w = {} <=> fd \notin r.open
    BY <1>1
  <1> QED BY <1>1, <1>2, <1>3, <1>4, <1>5, Wanted

(* Two changes of one descriptor are one. *)
LEMMA PlacedTwice ==
  ASSUME bss_count \in Nat, NEW q, NEW r, NEW fd \in Fd, NEW other, Sized(q),
         PlacedIs(r, q, fd, other), NEW mode \in Mode
  PROVE  PlacedIs(FileHandleSet(r, fd, mode), q, fd, mode)
  <1> DEFINE t == FileHandleSet(r, fd, mode)
  <1>1. PlacedIs(t, r, fd, mode)
    <2>1. Sized(r) /\ Early(r) /\ fd < r.limit /\ fd \in r.open
      BY DEF PlacedIs
    <2> QED BY <2>1, Placed
  <1> HIDE DEF t
  <1>2. q.limit <= r.limit /\ r.limit <= t.limit
    BY <1>1 DEF PlacedIs
  <1>3. q.limit \in Nat /\ r.limit \in Nat /\ t.limit \in Nat
    BY <1>1, Sizes DEF PlacedIs, Sized, Program
  <1>4. q.limit <= t.limit /\ \A f \in Fd : f < q.limit => f < r.limit
    BY <1>2, <1>3, Sizes
  <1>5. t.open = q.open \cup {fd} /\ Same(t, q)
    BY <1>1 DEF PlacedIs, Same
  <1>6. Alone(q) => /\ Alone(t)
                    /\ \A f \in Fd : f < q.limit /\ f # fd => Modes(t, f) = Modes(q, f)
    BY <1>1, <1>4 DEF PlacedIs
  <1>7. PlacedIs(t, q, fd, mode)
    BY <1>1, <1>4, <1>5, <1>6 DEF PlacedIs
  <1> QED BY <1>7 DEF t

(* A step that leaves a good program leaves the invariant. *)
LEMMA FineNext ==
  ASSUME MInv, children' = children, bss_count' = bss_count, Fine(p')
  PROVE  MInv'
  BY DEF MInv, Fine, Alone

LEMMA SetmodeStep ==
  ASSUME MInv, children' = children, NEW fd \in Fd, NEW mode \in {Text, Binary},
         setmode(fd, mode)
  PROVE  MInv'
  <1>0. Fine(p) /\ bss_count \in Nat
    BY DEF MInv
  <1>1. mode \in Mode /\ mode # {} /\ fd < p.limit /\ fd \in p.open
    BY <1>0, Starts DEF Mode, Text, Binary, Bits, setmode, Own
  <1>2. PlacedIs(SetMode(p, fd, mode), p, fd, mode)
    BY <1>0, <1>1, Starts, Placed DEF SetMode
  <1>3. Fine(p') /\ bss_count' = bss_count
    BY <1>0, <1>1, <1>2, Ends DEF setmode
  <1> QED BY <1>3, FineNext

LEMMA OpenStep ==
  ASSUME MInv, children' = children, NEW mode \in {Text, Binary}, NEW looks \in BOOLEAN,
         open(mode, looks)
  PROVE  MInv'
  <1> DEFINE q == IF looks THEN Looked(p) ELSE p
             fd == Lowest(q)
             o == FileHandleSet(Opened(q, fd), fd, Binary)
             f == FileHandleSet(o, fd, Flip(mode))
             r == SetMode(f, fd, mode)
  <1>0. Fine(q) /\ bss_count \in Nat
    BY Looks DEF MInv
  <1>1. fd \in Fd /\ fd < q.limit
    BY LowestFree DEF open
  <1>2. p' = [r EXCEPT !.want[fd] = mode] /\ bss_count' = bss_count
    BY DEF open
  <1>3. mode \in Mode /\ Binary \in Mode /\ Flip(mode) \in Mode /\ mode # {}
    BY DEF Mode, Text, Binary, Bits, Flip
  <1> HIDE DEF q, fd
  <1>4. PlacedIs(o, q, fd, Binary)
    BY <1>0, <1>1, <1>3, Starts, Placed
  <1> HIDE DEF o
  <1>5. PlacedIs(f, q, fd, Flip(mode))
    BY <1>0, <1>1, <1>3, <1>4, Starts, PlacedTwice
  <1> HIDE DEF f
  <1>6. PlacedIs(r, q, fd, mode)
    BY <1>0, <1>1, <1>3, <1>5, Starts, PlacedTwice DEF SetMode
  <1> HIDE DEF r
  <1>7. Fine(p')
    BY <1>0, <1>1, <1>2, <1>3, <1>6, Ends
  <1> QED BY <1>2, <1>7, FineNext

LEMMA CloseStep ==
  ASSUME MInv, children' = children, NEW fd \in Fd, close(fd)
  PROVE  MInv'
  <1> DEFINE q == Looked(p)
             t == CloseAll(q, {fd})
  <1>0. Fine(q)
    BY Looks DEF MInv
  <1>1. ClosedIs(t, q, {fd})
    BY <1>0, Starts, Closes
  <1>2. p' = [t EXCEPT !.want[fd] = {}] /\ bss_count' = bss_count
    BY DEF close, Closed, CloseAll
  <1> HIDE DEF q, t
  <1>3. Sized(t) /\ (~children => Alone(t)) /\ {} \in Mode
    BY <1>0, <1>1, Starts DEF ClosedIs, Mode
  <1>4. t.open = q.open \ {fd} /\ Same(t, q)
    BY <1>1 DEF ClosedIs
  <1>5. Early(t)
    BY <1>0, <1>4, Starts DEF Early, Same
  <1>6. ASSUME ~children, NEW f \in t.open PROVE KeptAt(t, f)
    <2>1. f \in q.open /\ KeptAt(q, f) /\ Modes(t, f) = Modes(q, f)
      BY <1>0, <1>1, <1>4, <1>6, Starts DEF ClosedIs
    <2> QED BY <1>4, <2>1 DEF KeptAt, Same
  <1>7. fd \notin t.open
    BY <1>4
  <1>8. \A f \in Fd : f # fd /\ f \notin t.open => t.want[f] = {}
    BY <1>0, <1>4, Starts DEF Same
  <1>9. Fine(p')
    BY <1>2, <1>3, <1>5, <1>6, <1>7, <1>8, Wanted
  <1> QED BY <1>2, <1>9, FineNext

(* What a program knows of a descriptor of its own. *)
LEMMA OwnKept ==
  ASSUME MInv, NEW fd \in Own(p), NEW q, q = Looked(p)
  PROVE  /\ Fine(q) /\ fd \in q.open /\ fd \in Fd /\ fd < q.limit
         /\ p.want[fd] \in Mode /\ p.want[fd] # {}
         /\ Modes(q, fd) \in Mode
         /\ ~children => Modes(q, fd) = p.want[fd]
  <1>1. Fine(q) /\ q.open = p.open /\ q.want = p.want
    BY Looks DEF MInv
  <1>2. fd \in q.open /\ q.want[fd] # {}
    BY <1>1 DEF Own
  <1>3. ~children => KeptAt(q, fd)
    BY <1>1, <1>2, Starts
  <1> QED BY <1>1, <1>2, <1>3, Starts DEF KeptAt

LEMMA DupStep ==
  ASSUME MInv, children' = children, NEW fd \in Fd, dup(fd)
  PROVE  MInv'
  <1> DEFINE new == Lowest(p)
             q == Looked(p)
             r == Dupped(q, fd, new)
  <1>0. Fine(p) /\ q.limit = p.limit /\ bss_count \in Nat
    BY Looks DEF MInv
  <1>1. new \in Fd /\ new < p.limit /\ new \notin p.open /\ fd \in Own(p)
    BY LowestFree DEF dup
  <1>2. p' = [r EXCEPT !.want[new] = p.want[fd]] /\ bss_count' = bss_count
    BY DEF dup
  <1> HIDE DEF new
  <1>3. /\ Fine(q) /\ Modes(q, fd) \in Mode /\ p.want[fd] \in Mode /\ p.want[fd] # {}
        /\ ~children => Modes(q, fd) = p.want[fd]
    BY <1>1, OwnKept
  <1> HIDE DEF q
  <1>4. PlacedIs(r, q, new, Modes(q, fd))
    BY <1>0, <1>1, <1>3, Starts, Placed DEF Dupped, SetMode
  <1> HIDE DEF r
  <1>5. Fine(p')
    BY <1>1, <1>2, <1>3, <1>4, Ends
  <1> QED BY <1>2, <1>5, FineNext

LEMMA Dup2Step ==
  ASSUME MInv, children' = children, NEW fd \in Fd, NEW new \in Fd, dup2(fd, new)
  PROVE  MInv'
  <1> DEFINE q == Looked(p)
             m == Marked(q, fd, new)
             r == Dupped2(m, fd, new)
  <1>1. fd \in Own(p) /\ fd # new /\ bss_count' = bss_count /\ bss_count \in Nat
    BY DEF dup2, MInv
  <1>2. p' = IF new < m.limit THEN [r EXCEPT !.want[new] = p.want[fd]] ELSE m
    BY DEF dup2
  <1>3. /\ Fine(q) /\ Modes(q, fd) \in Mode /\ p.want[fd] \in Mode /\ p.want[fd] # {}
        /\ fd \in q.open /\ fd < q.limit
        /\ ~children => Modes(q, fd) = p.want[fd]
    BY <1>1, OwnKept
  <1> HIDE DEF q
  <1>4. Flip(Modes(q, fd)) \in Mode
    BY DEF Flip, Mode
  <1>5. SetIs(m, q, new, Flip(Modes(q, fd)))
    BY <1>1, <1>3, <1>4, Starts, Set DEF Marked
  <1> HIDE DEF m
  <1>6. /\ Sized(m) /\ m.open = q.open /\ Same(m, q) /\ q.limit <= m.limit
        /\ m.limit \in Nat /\ q.limit \in Nat
        /\ new = Small - 1 => m.grown
    <2>1. /\ Sized(m) /\ m.open = q.open /\ Same(m, q) /\ q.limit <= m.limit
          /\ new = Small - 1 => m.grown
      BY <1>5 DEF SetIs
    <2>2. m.limit \in Nat /\ q.limit \in Nat
      BY <1>3, <2>1, Starts, Sizes DEF Sized, Program
    <2> QED BY <2>1, <2>2
  <1>7. Early(m)
    BY <1>3, <1>6, Starts, StillEarly
  <1>8. /\ ~children => Alone(m)
        /\ ~children => \A f \in q.open \ {new} : Modes(m, f) = Modes(q, f)
    <2>1. ~children => Alone(q)
      BY <1>3, Starts
    <2>2. \A f \in q.open : f \in Fd /\ f < q.limit
      BY <1>3, Starts
    <2> QED BY <1>5, <2>1, <2>2 DEF SetIs
  <1>9. CASE new < m.limit
    <2>1. Modes(m, fd) \in Mode
      BY <1>3, <1>6, ModesTyped
    <2>2. PlacedIs(r, m, new, Modes(m, fd))
      BY <1>1, <1>6, <1>7, <1>9, <2>1, Placed DEF Dupped2, SetMode
    <2> HIDE DEF r
    <2>3. r.limit \in Nat /\ m.limit <= r.limit
      BY <2>2, Sizes DEF PlacedIs, Sized, Program
    <2>4. q.limit <= r.limit /\ \A f \in Fd : f < q.limit => f < m.limit
      BY <1>6, <2>3, Sizes
    <2>5. r.open = q.open \cup {new} /\ Same(r, q)
      BY <1>6, <2>2 DEF PlacedIs, Same
    <2>6. Alone(q) => /\ Alone(r)
                      /\ \A f \in Fd : f < q.limit /\ f # new => Modes(r, f) = Modes(q, f)
      <3>1. Alone(q) => Alone(m) /\ \A f \in Fd : f < q.limit /\ f # new => Modes(m, f) = Modes(q, f)
        BY <1>5 DEF SetIs
      <3> QED BY <2>2, <2>4, <3>1 DEF PlacedIs
    <2>7. PlacedIs(r, q, new, Modes(m, fd))
      BY <2>2, <2>4, <2>5, <2>6 DEF PlacedIs
    <2>8. ~children => p.want[fd] = Modes(m, fd)
      BY <1>1, <1>3, <1>8
    <2>9. Fine(p')
      BY <1>2, <1>3, <1>9, <2>7, <2>8, Ends
    <2> QED BY <1>1, <2>9, FineNext
  <1>10. CASE ~(new < m.limit)
    <2>1. new \notin q.open
      <3>1. \A f \in q.open : f \in Fd /\ f < q.limit
        BY <1>3, Starts
      <3> QED BY <1>6, <1>10, <3>1, Sizes
    <2>2. Shut(m)
      BY <1>3, <1>6, Starts DEF Shut, Same
    <2>3. ASSUME ~children, NEW f \in m.open PROVE KeptAt(m, f)
      <3>1. f \in q.open /\ KeptAt(q, f) /\ Modes(m, f) = Modes(q, f)
        BY <1>3, <1>6, <1>8, <2>1, <2>3, Starts
      <3> QED BY <1>6, <3>1 DEF KeptAt, Same
    <2>4. Fine(m)
      BY <1>6, <1>7, <1>8, <2>2, <2>3 DEF Fine, Kept
    <2> QED BY <1>1, <1>2, <1>10, <2>4, FineNext
  <1> QED BY <1>9, <1>10

-----------------------------------------------------------------------------
(* move_fd(): the levels of the recursion, as Moved defines them. *)
LevelsAre(g, n, q, fd) ==
  g = [i \in 0 .. n |->
         IF i = 0 THEN [q |-> q, last |-> fd, met |-> {fd}] ELSE MoveStep(g[i - 1])]

LEMMA LevelsExist ==
  ASSUME NEW q, NEW fd, NEW n \in Nat
  PROVE  \E g : LevelsAre(g, n, q, fd)
  <1> DEFINE T == {k \in Nat : \E g : LevelsAre(g, k, q, fd)}
             first == [q |-> q, last |-> fd, met |-> {fd}]
  <1>1. 0 \in T
    <2> DEFINE g == [k \in 0 .. 0 |-> first]
    <2>1. LevelsAre(g, 0, q, fd)
      BY DEF LevelsAre
    <2> QED BY <2>1
  <1>2. ASSUME NEW k \in 1 .. n, k - 1 \in T PROVE k \in T
    <2>1. PICK g : LevelsAre(g, k - 1, q, fd)
      BY <1>2
    <2> DEFINE h == [j \in 0 .. k |-> IF j = k THEN MoveStep(g[k - 1]) ELSE g[j]]
    <2>2. \A j \in 0 .. k - 1 : h[j] = g[j]
      OBVIOUS
    <2>3. h[k] = MoveStep(g[k - 1])
      OBVIOUS
    <2>4. \A j \in 0 .. k - 1 : g[j] = IF j = 0 THEN first ELSE MoveStep(g[j - 1])
      BY <2>1 DEF LevelsAre
    <2>5. h = [j \in 0 .. k |-> h[j]]
      OBVIOUS
    <2> HIDE DEF h
    <2>6. ASSUME NEW j \in 0 .. k
          PROVE  h[j] = IF j = 0 THEN first ELSE MoveStep(h[j - 1])
      <3>1. CASE j = k
        <4>1. j # 0 /\ h[k - 1] = g[k - 1]
          BY <2>2, <3>1
        <4> QED BY <2>3, <3>1, <4>1
      <3>2. CASE j # k
        <4>1. j \in 0 .. k - 1 /\ h[j] = g[j]
          BY <2>2, <3>2
        <4>2. j # 0 => h[j - 1] = g[j - 1]
          BY <2>2, <4>1
        <4> QED BY <2>4, <4>1, <4>2
      <3> QED BY <3>1, <3>2
    <2>7. LevelsAre(h, k, q, fd)
      BY <2>5, <2>6 DEF LevelsAre
    <2> QED BY <2>7
  <1>3. n \in T
    <2> HIDE DEF T
    <2>1. \A k \in 1 .. n : k - 1 \in T => k \in T
      BY <1>2
    <2>2. \A k \in 0 .. n : k \in T
      BY <1>1, <2>1, UpTo
    <2> QED BY <2>2
  <1> QED BY <1>3

(* What a level leaves of the state q that move_fd() met: descriptors were *)
(* added, all of them binary, and none of the others lost its mode.        *)
MovedIs(c, q, fd) ==
  /\ Sized(c.q) /\ Early(c.q) /\ Same(c.q, q)
  /\ c.met \subseteq Fd /\ fd \in c.met /\ c.last \in c.met
  /\ c.met \cap q.open = {fd}
  /\ c.q.open = q.open \cup c.met
  /\ Alone(q) => /\ Alone(c.q)
                 /\ \A f \in c.met : Modes(c.q, f) = Binary
                 /\ \A f \in q.open \ {fd} : Modes(c.q, f) = Modes(q, f)

LEMMA LevelMoves ==
  ASSUME bss_count \in Nat, NEW q, NEW fd \in Fd, NEW c, MovedIs(c, q, fd)
  PROVE  MovedIs(MoveStep(c), q, fd)
  <1> DEFINE new == Lowest(c.q)
             r == Dupped(c.q, c.last, new)
             d == [q |-> r, last |-> new, met |-> c.met \cup {new}]
  <1>1. CASE c.last >= Small \/ new = NoFd
    BY <1>1 DEF MoveStep
  <1>2. CASE ~(c.last >= Small \/ new = NoFd)
    <2>1. new \in Fd /\ new < c.q.limit /\ new \notin c.q.open
      BY <1>2, LowestFree
    <2>2. MoveStep(c) = d
      BY <1>2 DEF MoveStep
    <2> HIDE DEF new
    <2>3. /\ Sized(c.q) /\ Early(c.q) /\ c.last \in c.q.open /\ c.q.open \subseteq Fd
          /\ c.met \subseteq Fd /\ fd \in c.met /\ c.met \cap q.open = {fd}
          /\ c.q.open = q.open \cup c.met /\ Same(c.q, q)
      BY DEF MovedIs, Sized, Program
    <2>4. Modes(c.q, c.last) \in Mode
      BY <2>3, ModesTyped
    <2>5. PlacedIs(r, c.q, new, Modes(c.q, c.last))
      BY <2>1, <2>3, <2>4, Placed DEF Dupped, SetMode
    <2> HIDE DEF r
    <2>6. d.q = r /\ d.last = new /\ d.met = c.met \cup {new}
      OBVIOUS
    <2> HIDE DEF d
    <2>7. Sized(r) /\ Early(r) /\ Same(r, q) /\ r.open = q.open \cup (c.met \cup {new})
      BY <2>3, <2>5 DEF PlacedIs, Same
    <2>8. (c.met \cup {new}) \cap q.open = {fd}
      BY <2>1, <2>3
    <2>9. ASSUME Alone(q)
          PROVE  /\ Alone(r)
                 /\ \A f \in c.met \cup {new} : Modes(r, f) = Binary
                 /\ \A f \in q.open \ {fd} : Modes(r, f) = Modes(q, f)
      <3>1. /\ Alone(c.q)
            /\ \A f \in c.met : Modes(c.q, f) = Binary
            /\ \A f \in q.open \ {fd} : Modes(c.q, f) = Modes(q, f)
            /\ Modes(c.q, c.last) = Binary
        BY <2>9 DEF MovedIs
      <3>2. Alone(r) /\ Modes(r, new) = Binary
        BY <2>5, <3>1 DEF PlacedIs
      <3>3. ASSUME NEW f \in c.q.open PROVE Modes(r, f) = Modes(c.q, f)
        <4>1. f \in Fd /\ f < c.q.limit /\ f # new
          BY <2>1, <2>3 DEF Sized
        <4> QED BY <2>5, <3>1, <4>1 DEF PlacedIs
      <3> QED BY <2>3, <3>1, <3>2, <3>3
    <2>10. MovedIs(d, q, fd)
      BY <2>1, <2>3, <2>6, <2>7, <2>8, <2>9 DEF MovedIs
    <2> QED BY <2>2, <2>10
  <1> QED BY <1>1, <1>2

LEMMA Moves ==
  ASSUME bss_count \in Nat, NEW q, Sized(q), Early(q), NEW fd \in Fd, fd \in q.open,
         Modes(q, fd) = Binary
  PROVE  MovedIs(Moved(q, fd), q, fd)
  <1> DEFINE n == Small + 1
             level == CHOOSE g : LevelsAre(g, n, q, fd)
             T == {k \in Nat : MovedIs(level[k], q, fd)}
             first == [q |-> q, last |-> fd, met |-> {fd}]
  <1>0. n \in Nat
    BY Sizes
  <1>1. LevelsAre(level, n, q, fd)
    BY <1>0, LevelsExist
  <1>2. Moved(q, fd) = level[n]
    BY DEF Moved, LevelsAre
  <1> HIDE DEF level, n
  <1>3. \A k \in 0 .. n : level[k] = IF k = 0 THEN first ELSE MoveStep(level[k - 1])
    BY <1>1 DEF LevelsAre
  <1>4. 0 \in T
    <2>1. first.q = q /\ first.last = fd /\ first.met = {fd}
      OBVIOUS
    <2>2. level[0] = first
      BY <1>0, <1>3
    <2> HIDE DEF first
    <2>3. q.open = q.open \cup {fd} /\ {fd} \cap q.open = {fd}
      OBVIOUS
    <2>4. MovedIs(first, q, fd)
      BY <2>1, <2>3 DEF MovedIs, Same
    <2> QED BY <2>2, <2>4
  <1>5. ASSUME NEW k \in 1 .. n, k - 1 \in T PROVE k \in T
    <2>1. level[k] = MoveStep(level[k - 1])
      BY <1>0, <1>3
    <2>2. MovedIs(level[k], q, fd)
      BY <1>5, <2>1, LevelMoves
    <2> QED BY <1>0, <2>2
  <1>6. n \in T
    <2> HIDE DEF T
    <2>1. \A k \in 1 .. n : k - 1 \in T => k \in T
      BY <1>5
    <2>2. \A k \in 0 .. n : k \in T
      BY <1>0, <1>4, <2>1, UpTo
    <2> QED BY <1>0, <2>2
  <1> QED BY <1>2, <1>6

(* __FSEXT_alloc_fd() opens NUL at most, and that only when no other is    *)
(* open for it.                                                            *)
NulIs(n, q) ==
  /\ Fine(n) /\ n.want = q.want /\ q.open \subseteq n.open
  /\ \A f \in n.open \ q.open : q.want[f] = {}
  /\ \A f \in Fd : Modes(n, f) = Modes(q, f)

LEMMA NulOpens ==
  ASSUME NEW q, Fine(q)
  PROVE  NulIs(NulOpened(q), q)
  <1> DEFINE n == NulOpened(q)
             fd == Lowest(q)
             add == {fd} \ {NoFd}
  <1>0. q \in Program
    BY Starts
  <1>1. CASE ~(q.fresh \/ q.nul = NoFd)
    BY <1>1 DEF NulOpened, NulIs
  <1>2. CASE q.fresh \/ q.nul = NoFd
    <2>1. fd = NoFd \/ (fd \in Fd /\ fd < q.limit /\ fd \notin q.open)
      BY LowestFree
    <2>2. PICK b \in BOOLEAN : ~b /\ b = FALSE
      OBVIOUS
    <2>3. n = [q EXCEPT !.fresh = b, !.nul = fd, !.open = @ \cup add]
      BY <1>2, <2>2 DEF NulOpened
    <2> HIDE DEF fd, n
    <2>4. PICK t \in Program : t = [q EXCEPT !.fresh = b, !.nul = fd, !.open = @ \cup add]
      BY <1>0, <2>1 DEF Program
    <2>5. /\ t.init = q.init /\ t.grown = q.grown /\ t.table = q.table /\ t.bss = q.bss
          /\ t.limit = q.limit /\ t.open = q.open \cup add /\ t.count = q.count
          /\ t.want = q.want /\ t.nul = fd
      BY <1>0, <2>4 DEF Program
    <2>6. ~t.fresh
      BY <1>0, <2>2, <2>4 DEF Program
    <2>7. \A f \in add : f = fd /\ f \in Fd /\ f < q.limit /\ f \notin q.open /\ q.want[f] = {}
      BY <2>1, Starts
    <2> HIDE DEF add
    <2>8. Sized(t)
      BY <2>5, <2>7, Starts DEF Sized
    <2>9. Early(t)
      BY <2>5, <2>7, Starts DEF Early
    <2>10. Shut(t)
      BY <2>5, Starts DEF Shut
    <2>11. \A f \in Fd : Modes(t, f) = Modes(q, f)
      BY <2>5 DEF Modes
    <2>12. ASSUME ~children, NEW f \in t.open PROVE KeptAt(t, f)
      <3>1. CASE f \in add
        BY <2>5, <2>6, <2>7, <3>1 DEF KeptAt
      <3>2. CASE f \notin add
        <4>1. f \in q.open /\ f \in Fd /\ KeptAt(q, f)
          BY <2>5, <2>12, <3>2, Starts
        <4>2. q.want[f] # {}
          <5>1. q.want[f] = {} => f = NoFd
            BY <1>2, <4>1 DEF KeptAt
          <5> QED BY <4>1, <5>1, Sizes
        <4> QED BY <2>5, <2>11, <4>1, <4>2 DEF KeptAt
      <3> QED BY <3>1, <3>2
    <2>13. ~children => Alone(t)
      BY <2>5, Starts DEF Alone
    <2>14. Fine(t)
      BY <2>8, <2>9, <2>10, <2>12, <2>13 DEF Fine, Kept
    <2>15. NulIs(t, q)
      BY <2>5, <2>7, <2>11, <2>14 DEF NulIs
    <2> QED BY <2>3, <2>4, <2>15 DEF n
  <1> QED BY <1>1, <1>2

(* From n on a directory was opened, or all is as it was. *)
Cleanly(q, n) ==
  /\ \A f \in n.open : Modes(q, f) = Modes(n, f)
  /\ \/ q.open = n.open /\ q.want = n.want
     \/ \E f \in Fd : /\ f >= Small /\ q.open = n.open \cup {f} /\ f \notin n.open
                      /\ Modes(q, f) = Binary
                      /\ q.want[f] = Binary /\ \A g \in n.open : q.want[g] = n.want[g]

(* move_fd() and what follows it, from a state n with a handle left. *)
LEMMA DirectoryOpens ==
  ASSUME bss_count \in Nat, NEW n, Fine(n), NEW fd, fd = Lowest(n), fd # NoFd, NEW a,
         a = FileHandleSet(Opened(n, fd), fd, Binary), NEW m, m = move_fd(a, fd),
         NEW z, z = IF m.fd = NoFd THEN Closed(m.q, fd)
                    ELSE [m.q EXCEPT !.want[m.fd] = Binary]
  PROVE  Fine(z) /\ (~children => Cleanly(z, n))
  <1> DEFINE c == Moved(a, fd)
             fds == c.met \ {IF c.last >= Small THEN c.last ELSE fd}
             t == CloseAll(c.q, fds)
  <1>1. /\ fd \in Fd /\ fd < n.limit /\ fd \notin n.open
        /\ Binary \in Mode /\ Binary # {}
    BY LowestFree DEF Mode, Binary, Bits
  <1>2. /\ c.last >= Small => z = IF c.last = NoFd THEN Closed(t, fd)
                                  ELSE [t EXCEPT !.want[c.last] = Binary]
        /\ ~(c.last >= Small) => z = Closed(t, fd)
    BY DEF move_fd
  <1>4. PlacedIs(a, n, fd, Binary)
    BY <1>1, Starts, Placed
  <1>5. /\ Sized(a) /\ Early(a) /\ fd \in a.open /\ Modes(a, fd) = Binary
        /\ a.open = n.open \cup {fd} /\ Same(a, n)
    BY <1>4 DEF PlacedIs
  <1>6. MovedIs(c, a, fd)
    BY <1>1, <1>5, Moves
  <1> HIDE DEF c
  <1>7. /\ Sized(c.q) /\ Early(c.q) /\ Same(c.q, n)
        /\ c.met \subseteq Fd /\ fd \in c.met /\ c.last \in c.met
        /\ c.met \cap n.open = {} /\ c.q.open = n.open \cup c.met
    <2>1. Same(c.q, n)
      BY <1>5, <1>6 DEF MovedIs, Same
    <2> QED BY <1>1, <1>5, <1>6, <2>1 DEF MovedIs
  <1>8. ClosedIs(t, c.q, fds)
    BY <1>7, Closes
  <1> HIDE DEF t
  <1>9. ASSUME ~children
        PROVE  /\ Alone(c.q)
               /\ \A f \in c.met : Modes(c.q, f) = Binary
               /\ \A f \in n.open : Modes(c.q, f) = Modes(n, f) /\ KeptAt(n, f)
    <2>1. Alone(a) /\ \A f \in n.open : Modes(a, f) = Modes(n, f)
      BY <1>1, <1>4, <1>9, Starts DEF PlacedIs
    <2>2. Alone(c.q) /\ \A f \in c.met : Modes(c.q, f) = Binary
      BY <1>6, <2>1 DEF MovedIs
    <2>3. \A f \in n.open : Modes(c.q, f) = Modes(a, f)
      BY <1>1, <1>5, <1>6, <2>1 DEF MovedIs
    <2> QED BY <1>9, <2>1, <2>2, <2>3, Starts
  <1>10. n.open \subseteq Fd /\ Same(t, n) /\ Sized(t) /\ t.limit = c.q.limit /\ t.open \subseteq c.q.open
    BY <1>7, <1>8, Starts DEF ClosedIs, Same
  <1>11. Early(t)
    <2>1. Same(t, c.q)
      BY <1>8 DEF ClosedIs
    <2> QED BY <1>7, <1>10, <2>1 DEF Early, Same
  <1>12. ~children => Alone(t)
    BY <1>8, <1>9 DEF ClosedIs
  <1>13. ASSUME ~children, NEW f \in n.open
         PROVE  Modes(t, f) = Modes(n, f) /\ KeptAt(t, f)
    <2>1. Modes(t, f) = Modes(n, f) /\ KeptAt(n, f)
      BY <1>8, <1>9, <1>10, <1>13 DEF ClosedIs
    <2> QED BY <1>10, <2>1 DEF KeptAt, Same
  <1>14. CASE c.last >= Small
    <2>1. c.last # NoFd /\ c.last \in Fd /\ c.last # Small - 1
      BY <1>7, <1>14, Sizes
    <2>2. z = [t EXCEPT !.want[c.last] = Binary]
      BY <1>2, <1>14, <2>1
    <2>3. t.open = n.open \cup {c.last} /\ c.last \notin n.open
      BY <1>7, <1>8, <1>14 DEF ClosedIs
    <2>4. ~children => Modes(t, c.last) = Binary
      BY <1>7, <1>8, <1>9, <2>1 DEF ClosedIs
    <2>5. ~children => \A f \in t.open : f # c.last => KeptAt(t, f)
      BY <1>13, <2>3
    <2>6. \A f \in Fd : f # c.last /\ f \notin t.open => t.want[f] = {}
      BY <1>10, <2>3, Starts DEF Same
    <2>7. Fine(z)
      BY <1>1, <1>10, <1>11, <1>12, <2>1, <2>2, <2>3, <2>4, <2>5, <2>6, Wanted
    <2>8. ASSUME ~children PROVE Cleanly(z, n)
      <3>0. t \in Program /\ t.want \in [Fd -> Mode] /\ t.want = n.want
        BY <1>10 DEF Sized, Program, Same
      <3>1. /\ z.open = t.open /\ z.grown = t.grown
            /\ z.table = t.table /\ z.init = t.init
        BY <2>2, <3>0 DEF Program
      <3>2. PICK v : v = [t.want EXCEPT ![c.last] = Binary]
        OBVIOUS
      <3>3. z.want = v
        BY <2>2, <3>0, <3>2 DEF Program
      <3>4. v[c.last] = Binary /\ \A g \in Fd : g # c.last => v[g] = n.want[g]
        BY <2>1, <3>0, <3>2
      <3>5. \A f : Modes(z, f) = Modes(t, f)
        BY <3>1 DEF Modes
      <3>6. \A f \in n.open : Modes(z, f) = Modes(n, f)
        BY <1>13, <2>8, <3>5
      <3>7. \A g \in n.open : z.want[g] = n.want[g]
        BY <1>10, <2>3, <3>3, <3>4
      <3> QED BY <1>14, <2>1, <2>3, <2>4, <2>8, <3>1, <3>3, <3>4, <3>5, <3>6, <3>7 DEF Cleanly
    <2> QED BY <2>7, <2>8
  <1>15. CASE ~(c.last >= Small)
    <2> DEFINE u == CloseAll(t, {fd})
    <2>1. z = u
      BY <1>2, <1>15 DEF Closed, CloseAll
    <2>2. ClosedIs(u, t, {fd})
      BY <1>10, Closes
    <2> HIDE DEF u
    <2>3. /\ Sized(u) /\ u.open = n.open /\ Same(u, t)
      BY <1>1, <1>7, <1>8, <1>15, <2>2 DEF ClosedIs
    <2>4. Early(u)
      BY <1>7, <1>10, <1>11, <1>15, <2>2, <2>3 DEF Early, Same, ClosedIs
    <2>5. ~children => Alone(u)
      BY <1>12, <2>2 DEF ClosedIs
    <2>6. ASSUME ~children, NEW f \in n.open
          PROVE  Modes(u, f) = Modes(n, f) /\ KeptAt(u, f)
      <3>1. Modes(u, f) = Modes(t, f) /\ Modes(t, f) = Modes(n, f) /\ KeptAt(t, f)
        BY <1>10, <1>13, <2>2, <2>6 DEF ClosedIs
      <3> QED BY <2>3, <3>1 DEF KeptAt, Same
    <2>7. Shut(u)
      BY <1>10, <2>3, Starts DEF Shut, Same
    <2>8. Fine(u)
      BY <2>3, <2>4, <2>5, <2>6, <2>7 DEF Fine, Kept
    <2>9. u.want = n.want
      BY <1>10, <2>3 DEF Same
    <2>10. ~children => Cleanly(u, n)
      BY <2>3, <2>6, <2>9 DEF Cleanly
    <2> QED BY <2>1, <2>8, <2>10
  <1> QED BY <1>14, <1>15

LEMMA OpendirDone ==
  ASSUME MInv, opendir_as_fd
  PROVE  /\ Fine(p') /\ bss_count' = bss_count
         /\ ~children => Cleanly(p', NulOpened(p))
  <1> DEFINE n == NulOpened(p)
             fd == Lowest(n)
             a == FileHandleSet(Opened(n, fd), fd, Binary)
             m == move_fd(a, fd)
             ok == fd # NoFd /\ n.nul \in n.open
  <1>1. Fine(n) /\ bss_count \in Nat
    BY NulOpens DEF MInv, NulIs
  <1>2. bss_count' = bss_count
    BY DEF opendir_as_fd
  <1>3. CASE ok
    <2>1. alloc_fd(p) = [q |-> a, fd |-> fd]
      BY <1>3 DEF alloc_fd
    <2>2. p' = IF m.fd = NoFd THEN Closed(m.q, fd) ELSE [m.q EXCEPT !.want[m.fd] = Binary]
      BY <1>3, <2>1 DEF opendir_as_fd
    <2> QED BY <1>1, <1>2, <1>3, <2>2, DirectoryOpens
  <1>4. CASE ~ok
    <2>1. alloc_fd(p) = [q |-> n, fd |-> NoFd]
      BY <1>4 DEF alloc_fd
    <2>2. p' = n
      BY <2>1 DEF opendir_as_fd
    <2> QED BY <1>1, <1>2, <2>2 DEF Cleanly
  <1> QED BY <1>3, <1>4

LEMMA SpawnStep ==
  ASSUME MInv, children' = children, spawn
  PROVE  MInv'
  <1>1. PICK b \in BOOLEAN, x \in Fd \cup {NoFd} : p' = [p EXCEPT !.fresh = b, !.nul = x]
    BY DEF spawn
  <1>2. Fine(p) /\ p \in Program /\ children /\ bss_count' \in Nat
    BY Starts DEF MInv, spawn
  <1>3. PICK t \in Program : t = [p EXCEPT !.fresh = b, !.nul = x]
    BY <1>2 DEF Program
  <1>4. /\ t.init = p.init /\ t.grown = p.grown /\ t.table = p.table /\ t.bss = p.bss
        /\ t.limit = p.limit /\ t.open = p.open /\ t.count = p.count /\ t.want = p.want
    BY <1>2, <1>3 DEF Program
  <1>5. Sized(t) /\ Early(t) /\ Shut(t)
    BY <1>2, <1>4 DEF Fine, Sized, Early, Shut
  <1> QED BY <1>1, <1>2, <1>3, <1>5 DEF MInv, Fine

-----------------------------------------------------------------------------
LEMMA MInvInit ==
  ASSUME Init
  PROVE  MInv
  <1>0. NText \in Nat /\ NStd \in Nat /\ NStd < Small
    BY FileModesConstantsOK
  <1>1. \A f : InitMode(f) \in Mode
    BY DEF InitMode, Mode, Bits, Text, Binary
  <1>2. PICK i \in [0 .. Small - 1 -> Mode] : i = [f \in 0 .. Small - 1 |-> InitMode(f)]
    BY <1>1
  <1>3. PICK w \in [Fd -> Mode] : w = [f \in Fd |-> InitMode(f)]
    BY <1>1
  <1>4. PICK t \in [Fd -> Mode] : t = [f \in Fd |-> {}]
    BY DEF Mode
  <1>5. 0 .. NStd - 1 \subseteq Fd
    BY <1>0, Sizes
  <1>x. PICK x \in Fd \cup {NoFd} : p = NewProgram(x)
    BY DEF Init
  <1> DEFINE new(g, h) == [init |-> i, grown |-> g, table |-> t, bss |-> -1, count |-> Small,
                           limit |-> Small, open |-> 0 .. NStd - 1, want |-> w,
                           fresh |-> h, nul |-> x]
  <1>6. \A g, h \in BOOLEAN : new(g, h) \in Program
    BY <1>5, Sizes DEF Program
  <1>7. PICK q \in Program : q = new(FALSE, TRUE) /\ p = q
    <2>1. p = new(FALSE, TRUE)
      BY <1>2, <1>3, <1>4, <1>x DEF NewProgram
    <2>2. new(FALSE, TRUE) \in Program
      <3> HIDE DEF new
      <3> QED BY <1>6
    <2> QED BY <2>1, <2>2
  <1>8. /\ q.init = i /\ ~q.grown /\ q.count = Small /\ q.limit = Small
        /\ q.open = 0 .. NStd - 1 /\ q.want = w
    BY <1>7
  <1>9. Sized(q) /\ Early(q) /\ Alone(q)
    BY <1>0, <1>8, Sizes DEF Sized, Early, Alone
  <1>10. ASSUME NEW f \in q.open PROVE KeptAt(q, f)
    <2>1. f \in Fd /\ f \in 0 .. Small - 1 /\ f < NStd
      BY <1>0, <1>5, <1>8, <1>10, Sizes
    <2>2. q.want[f] = InitMode(f) /\ Modes(q, f) = InitMode(f)
      BY <1>2, <1>3, <1>8, <2>1 DEF Modes
    <2>3. InitMode(f) # {}
      BY <2>1 DEF InitMode, Text, Binary
    <2> QED BY <2>2, <2>3 DEF KeptAt
  <1>11. Shut(q)
    <2>1. ASSUME NEW f \in Fd, f \notin q.open PROVE InitMode(f) = {}
      <3>1. ~(f < NStd) /\ ~(f < NText)
        BY <1>0, <1>8, <2>1, Sizes, FileModesConstantsOK
      <3> QED BY <3>1 DEF InitMode
    <2> QED BY <1>3, <1>8, <2>1 DEF Shut
  <1> QED BY <1>7, <1>9, <1>10, <1>11 DEF Init, MInv, Fine, Kept

LEMMA MInvStep ==
  ASSUME MInv, [Next]_vars
  PROVE  MInv'
  <1>1. CASE UNCHANGED vars
    BY <1>1 DEF vars, MInv, Fine, Sized, Early, Shut, Alone, Kept, KeptAt, Modes
  <1>2. CASE Next
    <2>0. children' = children
      BY <1>2 DEF Next
    <2>1. CASE spawn
      BY <2>0, <2>1, SpawnStep
    <2>2. CASE opendir_as_fd
      BY <2>0, <2>2, OpendirDone, FineNext
    <2>8. CASE lookup
      BY <2>0, <2>8, Looks, FineNext DEF lookup, MInv
    <2>3. ASSUME NEW mode \in {Text, Binary}, NEW looks \in BOOLEAN, open(mode, looks)
          PROVE  MInv'
      BY <2>0, <2>3, OpenStep
    <2>4. ASSUME NEW fd \in Fd, close(fd) PROVE MInv'
      BY <2>0, <2>4, CloseStep
    <2>5. ASSUME NEW fd \in Fd, dup(fd) PROVE MInv'
      BY <2>0, <2>5, DupStep
    <2>6. ASSUME NEW fd \in Fd, NEW mode \in {Text, Binary}, setmode(fd, mode) PROVE MInv'
      BY <2>0, <2>6, SetmodeStep
    <2>7. ASSUME NEW fd \in Fd, NEW new \in Fd, dup2(fd, new) PROVE MInv'
      BY <2>0, <2>7, Dup2Step
    <2> QED BY <1>2, <2>1, <2>2, <2>3, <2>4, <2>5, <2>6, <2>7, <2>8 DEF Next, Step
  <1> QED BY <1>1, <1>2

(* The inductive invariant holds in every state: the tables fit what DOS   *)
(* was told, only NUL is ever open at the last place of the small table,   *)
(* and of a program alone every mode is the one asked for and one handle   *)
(* at most is open for NUL.                                                *)
THEOREM ModesState == Spec => []MInv
  BY MInvInit, MInvStep, PTL DEF Spec

(* A descriptor that DOS may hand out has a place in the table.            *)
THEOREM Typed == Spec => []TypeOK
  <1>1. MInv => TypeOK
    <2> SUFFICES ASSUME MInv PROVE TypeOK
      OBVIOUS
    <2>1. Sized(p) /\ bss_count \in Nat
      BY DEF MInv, Fine
    <2> QED BY <2>1 DEF TypeOK, Sized
  <1> QED BY <1>1, ModesState, PTL

(* A program alone finds every descriptor of its own in the mode it gave   *)
(* it last, through setmode(), open(), dup(), dup2(), move_fd() and the    *)
(* exchange of the tables.                                                 *)
THEOREM KeepsModes == Spec => []ModesKept
  <1>1. MInv => ModesKept
    BY DEF MInv, Fine, Kept, KeptAt, ModesKept, Own
  <1> QED BY <1>1, ModesState, PTL

(* DOS is out of handles before the table of modes has grown only if NUL   *)
(* took the last one.                                                      *)
THEOREM NeverFull == Spec => []GrowsInTime
  <1>1. MInv => GrowsInTime
    <2> SUFFICES ASSUME MInv, ~p.grown, Handles(p) = {} PROVE Small - 1 \in Nul(p)
      BY DEF GrowsInTime
    <2>1. p.limit = Small /\ Early(p)
      BY DEF MInv, Fine, Sized, Program
    <2>2. Small - 1 \in p.open
      BY <2>1, Sizes DEF Handles
    <2> QED BY <2>1, <2>2 DEF Early, Nul
  <1> QED BY <1>1, ModesState, PTL

(* open() of a directory leaves NUL, one new descriptor above 19 and       *)
(* binary or none, and all else as it was, however many levels move_fd()   *)
(* went through.                                                           *)
THEOREM OpensCleanly == Spec => OpendirClean
  <1> DEFINE Clean ==
        LET new == p'.open \ (p.open \cup Nul(p')) IN
        /\ Nul(p') \subseteq {p'.nul}
        /\ p.open \subseteq p'.open
        /\ \A f \in p.open : Modes(p', f) = Modes(p, f)
        /\ new # {} => \E f \in Fd : /\ f >= Small /\ new = {f}
                                     /\ Modes(p', f) = Binary
  <1>1. ASSUME MInv, ~children, opendir_as_fd PROVE Clean
    <2>1. PICK n : n = NulOpened(p)
      OBVIOUS
    <2>2. NulIs(n, p) /\ Fine(p) /\ p.open \subseteq Fd
      BY <1>1, <2>1, NulOpens, Starts DEF MInv
    <2>3. Fine(p') /\ Cleanly(p', n)
      BY <1>1, <2>1, OpendirDone
    <2>4. Nul(p') \subseteq {p'.nul}
      BY <1>1, <2>3 DEF Fine, Kept, KeptAt, Nul
    <2>5. p.open \subseteq n.open /\ n.open \subseteq p'.open
      BY <2>2, <2>3 DEF NulIs, Cleanly
    <2>6. \A f \in p.open : Modes(p', f) = Modes(p, f)
      BY <2>2, <2>3, <2>5 DEF NulIs, Cleanly
    <2>7. \A f \in n.open \ p.open : p'.want[f] = {}
      BY <2>2, <2>3 DEF NulIs, Cleanly
    <2>8. \A f \in n.open : f \in p.open \cup Nul(p')
      BY <2>5, <2>7 DEF Nul
    <2>9. CASE p'.open = n.open
      BY <2>4, <2>5, <2>6, <2>8, <2>9
    <2>10. CASE p'.open # n.open
      <3>1. PICK f \in Fd : /\ f >= Small /\ p'.open = n.open \cup {f} /\ f \notin n.open
                            /\ Modes(p', f) = Binary /\ p'.want[f] = Binary
        BY <2>3, <2>10 DEF Cleanly
      <3>2. f \notin Nul(p')
        BY <3>1 DEF Nul, Binary
      <3>3. p'.open \ (p.open \cup Nul(p')) = {f}
        BY <2>5, <2>8, <3>1, <3>2
      <3> QED BY <2>4, <2>5, <2>6, <3>1, <3>3
    <2> QED BY <2>9, <2>10
  <1>2. MInv /\ [Next]_vars => [~children /\ opendir_as_fd => Clean]_vars
    BY <1>1
  <1> QED BY <1>2, ModesState, PTL DEF Spec, OpendirClean
=============================================================================
