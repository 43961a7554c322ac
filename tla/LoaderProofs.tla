---------------------------- MODULE LoaderProofs ----------------------------
(***************************************************************************)
(* Proofs about the registry of libraries, for every set of handles and    *)
(* any number of libraries that are loaded.                                *)
(***************************************************************************)
EXTENDS Loader, FiniteSetTheorems, SequenceTheorems, TLAPS

(***************************************************************************)
(* The inductive invariant.  What runs on a handle has slots of its own,   *)
(* later ones above; a library that was refused and that u_handle_p still  *)
(* leads into does not run.                                                *)
(***************************************************************************)
Told == [h : Handle \cup {None}, id : Slot \cup {None}]

Types ==
  /\ pending \in [Kind -> Lib \cup {NoLib}] /\ ptrs \in Lib \cup {NoLib}
  /\ init \in [Handle -> BOOLEAN] /\ tab \in [Handle -> BOOLEAN]
  /\ fatalerr \in BOOLEAN /\ aborted \in BOOLEAN
  /\ slot \in [Handle -> [Slot -> [Kind -> Lib \cup {NoLib}]]]
  /\ has \in Seq(SUBSET Kind) /\ Len(has) <= MaxLibs
  /\ told \in Seq(Told) /\ Len(told) = Len(has)
  /\ run \in Seq(Frame)
  /\ eh = 0

Nested ==
  \A i, j \in 1 .. Len(run) :
    i < j /\ run[i].h = run[j].h =>
      run[j].id > 1 /\ ("nest" \notin practice => run[i].id < run[j].id)

Known ==
  /\ \A i \in 1 .. Len(run) : run[i].lib <= Len(has)
  /\ ptrs <= Len(has)
  /\ ptrs # NoLib => \A i \in 1 .. Len(run) : run[i].lib # ptrs

IsProgram(f, h) == f.h = h /\ f.lib # NoLib /\ f.id = 1
Tables ==
  \A h \in Handle : tab[h] <=> \E i \in 1 .. Len(run) : IsProgram(run[i], h)

Finds(f, hs, sl, td) ==
  f.lib # NoLib =>
    /\ \A k \in hs[f.lib] : sl[f.h][f.id][k] = f.lib
    /\ "pt" \in hs[f.lib] => td[f.lib] = [h |-> f.h, id |-> f.id]
Placed ==
  "nest" \notin practice => \A i \in 1 .. Len(run) : Finds(run[i], has, slot, told)

LInv == Types /\ Nested /\ Known /\ Tables /\ Placed

-----------------------------------------------------------------------------
(* The steps of dj64_ctrl(): how many handles are open after each. *)
LEMMA CountZero ==
  ASSUME NEW steps, NEW s
  PROVE  Count(steps, s, 0) = 0
  <1>1. {i \in 1 .. 0 : steps[i] = s} = {}
    OBVIOUS
  <1> QED
    BY <1>1, FS_EmptySet DEF Count

LEMMA CountNext ==
  ASSUME NEW steps, NEW s, NEW n \in Nat
  PROVE  /\ Count(steps, s, n) \in Nat
         /\ Count(steps, s, n + 1) =
              IF steps[n + 1] = s THEN Count(steps, s, n) + 1 ELSE Count(steps, s, n)
  <1> DEFINE S == {i \in 1 .. n : steps[i] = s}
             T == {i \in 1 .. n + 1 : steps[i] = s}
  <1>1. IsFiniteSet(1 .. n)
    BY FS_Interval
  <1>2. IsFiniteSet(S) /\ Cardinality(S) \in Nat
    <2>1. S \subseteq 1 .. n
      OBVIOUS
    <2> QED
      BY <1>1, <2>1, FS_Subset, FS_CardinalityType
  <1>3. CASE steps[n + 1] = s
    <2>1. T = S \cup {n + 1} /\ n + 1 \notin S
      BY <1>3
    <2>2. Cardinality(T) = Cardinality(S) + 1
      BY <1>2, <2>1, FS_AddElement
    <2> QED
      BY <1>2, <1>3, <2>2 DEF Count
  <1>4. CASE steps[n + 1] # s
    <2>1. T = S
      BY <1>4
    <2> QED
      BY <1>2, <1>4, <2>1 DEF Count
  <1> QED
    BY <1>3, <1>4

(* The handles open after n steps. *)
Open(steps, n) == Count(steps, "open", n) - Count(steps, "close", n)

LEMMA OpenNext ==
  ASSUME NEW steps, NEW n \in Nat
  PROVE  /\ Open(steps, 0) = 0 /\ Open(steps, n) \in Int
         /\ steps[n + 1] = "open" => Open(steps, n + 1) = Open(steps, n) + 1
         /\ steps[n + 1] = "close" => Open(steps, n + 1) = Open(steps, n) - 1
         /\ steps[n + 1] \notin {"open", "close"} => Open(steps, n + 1) = Open(steps, n)
  BY CountZero, CountNext DEF Open

(* A handle that is opened, used and closed. *)
LEMMA OpenUseClose ==
  ASSUME NEW steps, NEW a \in Nat, Open(steps, a) = 0,
         steps[a + 1] = "open", steps[a + 2] \notin {"open", "close"},
         steps[a + 3] = "close"
  PROVE  Open(steps, a + 1) = 1 /\ Open(steps, a + 2) = 1 /\ Open(steps, a + 3) = 0
  <1>1. Open(steps, a + 1) = 1
    BY OpenNext
  <1>2. PICK b \in Nat : b = a + 1
    OBVIOUS
  <1>3. a + 2 = b + 1 /\ a + 3 = (b + 1) + 1 /\ b + 1 \in Nat
    BY <1>2
  <1>4. Open(steps, b + 1) = 1
    BY <1>1, <1>2, <1>3, OpenNext
  <1>5. Open(steps, (b + 1) + 1) = 0
    BY <1>3, <1>4, OpenNext
  <1> QED
    BY <1>1, <1>3, <1>4, <1>5

LEMMA OpenUseUseClose ==
  ASSUME NEW steps, Len(steps) = 4,
         steps[1] = "open", steps[2] \notin {"open", "close"},
         steps[3] \notin {"open", "close"}, steps[4] = "close",
         NEW f \in Fallible(steps)
  PROVE  Left(steps, f) = 0
  <1>1. Open(steps, 0) = 0 /\ 0 \in Nat /\ 1 \in Nat /\ 2 \in Nat /\ 3 \in Nat
    BY OpenNext
  <1>2. Open(steps, 1) = 1
    <2>1. Open(steps, 0 + 1) = Open(steps, 0) + 1
      BY <1>1, OpenNext
    <2> QED
      BY <1>1, <2>1
  <1>3. Open(steps, 2) = 1
    <2>1. Open(steps, 1 + 1) = Open(steps, 1)
      BY <1>1, OpenNext
    <2> QED
      BY <1>2, <2>1
  <1>4. Open(steps, 4) = 0
    <2>1. Open(steps, 2 + 1) = Open(steps, 2)
      BY <1>1, OpenNext
    <2>2. Open(steps, 3 + 1) = Open(steps, 3) - 1
      BY <1>1, OpenNext
    <2> QED
      BY <1>3, <2>1, <2>2
  <1>5. f \in {1, 2, 3, 5}
    BY DEF Fallible
  <1> QED
    BY <1>1, <1>2, <1>3, <1>4, <1>5 DEF Left, Open

LEMMA OnceBalanced ==
  ASSUME NEW steps, Len(steps) = 3,
         steps[1] = "open", steps[2] \notin {"open", "close"}, steps[3] = "close",
         NEW f \in Fallible(steps)
  PROVE  Left(steps, f) = 0
  <1>1. Open(steps, 0) = 0 /\ 0 \in Nat
    BY OpenNext
  <1>2. Open(steps, 0 + 1) = 1 /\ Open(steps, 0 + 3) = 0
    BY <1>1, OpenUseClose
  <1>3. f \in {1, 2, 4}
    BY DEF Fallible
  <1> QED
    BY <1>1, <1>2, <1>3 DEF Left, Open

LEMMA TwiceBalanced ==
  ASSUME NEW steps, Len(steps) = 6,
         steps[1] = "open", steps[2] \notin {"open", "close"}, steps[3] = "close",
         steps[4] = "open", steps[5] \notin {"open", "close"}, steps[6] = "close",
         NEW f \in Fallible(steps)
  PROVE  Left(steps, f) = 0
  <1>1. Open(steps, 0) = 0 /\ 0 \in Nat /\ 3 \in Nat
    BY OpenNext
  <1>2. Open(steps, 0 + 1) = 1 /\ Open(steps, 0 + 3) = 0
    BY <1>1, OpenUseClose
  <1>3. Open(steps, 3 + 1) = 1 /\ Open(steps, 3 + 3) = 0
    BY <1>1, <1>2, OpenUseClose
  <1>4. f \in {1, 2, 4, 5, 7}
    BY DEF Fallible
  <1> QED
    BY <1>1, <1>2, <1>3, <1>4 DEF Left, Open

(* Whatever step of a request fails, no elf_ops handle is left open. *)
LEMMA LoadBalanced ==
  ASSUME NEW f \in Fallible(ElfLoad)
  PROVE  Left(ElfLoad, f) = 0
  <1>1. /\ Len(ElfLoad) = 4 /\ ElfLoad[1] = "open" /\ ElfLoad[2] = "reloc"
        /\ ElfLoad[3] = "user" /\ ElfLoad[4] = "close"
    BY DEF ElfLoad
  <1> QED
    BY <1>1, OpenUseUseClose

Word == {"open", "close", "core", "user"}

LEMMA Joined ==
  ASSUME NEW S, NEW s \in Seq(S), NEW t \in Seq(S), NEW u, u = s \o t
  PROVE  /\ u \in Seq(S) /\ Len(u) = Len(s) + Len(t)
         /\ \A i \in 1 .. Len(s) : u[i] = s[i]
         /\ \A i \in 1 .. Len(t) : u[Len(s) + i] = t[i]
  <1>1. Len(s) \in Nat /\ Len(t) \in Nat
    OBVIOUS
  <1>2. /\ u \in Seq(S) /\ Len(u) = Len(s) + Len(t)
        /\ \A i \in 1 .. Len(s) + Len(t) : u[i] = IF i <= Len(s) THEN s[i] ELSE t[i - Len(s)]
    BY ConcatProperties
  <1>3. \A i \in 1 .. Len(t) : /\ Len(s) + i \in 1 .. Len(s) + Len(t)
                               /\ ~(Len(s) + i <= Len(s)) /\ (Len(s) + i) - Len(s) = i
    BY <1>1
  <1> QED
    BY <1>1, <1>2, <1>3

LEMMA JoinedOne ==
  ASSUME NEW S, NEW s \in Seq(S), NEW x \in S, NEW u, u = s \o <<x>>
  PROVE  /\ u \in Seq(S) /\ Len(u) = Len(s) + 1
         /\ \A i \in 1 .. Len(s) : u[i] = s[i]
         /\ u[Len(s) + 1] = x
  <1>1. <<x>> \in Seq(S) /\ Len(<<x>>) = 1 /\ <<x>>[1] = x
    OBVIOUS
  <1> QED
    BY <1>1, Joined

LEMMA SymtabBalanced ==
  ASSUME NEW addr \in BOOLEAN, NEW have_core \in BOOLEAN, NEW split_pl \in BOOLEAN,
         have_core => addr, NEW f \in Fallible(Symtab(addr, have_core, split_pl))
  PROVE  Left(Symtab(addr, have_core, split_pl), f) = 0
  <1>0. "open" \in Word /\ "core" \in Word /\ "user" \in Word /\ "close" \in Word
    BY DEF Word
  <1>1. PICK st : st = Symtab(addr, have_core, split_pl)
    OBVIOUS
  <1>2. PICK a : a = <<"open">>
    OBVIOUS
  <1>3. a \in Seq(Word) /\ Len(a) = 1 /\ a[1] = "open"
    BY <1>0, <1>2
  <1>4. PICK c : c = a \o <<"core">>
    OBVIOUS
  <1>5. c \in Seq(Word) /\ Len(c) = 2 /\ c[1] = "open" /\ c[2] = "core"
    BY <1>3, <1>4, <1>0, JoinedOne
  <1>6. CASE addr /\ have_core /\ split_pl
    <2>1. st = ((c \o <<>>) \o <<"close">>) \o <<>>
      BY <1>1, <1>2, <1>4, <1>6 DEF Symtab
    <2>2. PICK d : d = c \o <<"close">>
      OBVIOUS
    <2>3. d \in Seq(Word) /\ Len(d) = 3 /\ d[1] = "open" /\ d[2] = "core" /\ d[3] = "close"
      BY <1>5, <2>2, <1>0, JoinedOne
    <2>4. st = d
      BY <1>5, <2>1, <2>2, <2>3, ConcatEmptySeq
    <2> QED
      BY <1>1, <2>3, <2>4, OnceBalanced
  <1>7. CASE addr /\ have_core /\ ~split_pl
    <2>1. st = ((c \o <<"user">>) \o <<"close">>) \o <<>>
      BY <1>1, <1>2, <1>4, <1>7 DEF Symtab
    <2>2. PICK u : u = c \o <<"user">>
      OBVIOUS
    <2>3. u \in Seq(Word) /\ Len(u) = 3 /\ u[1] = "open" /\ u[2] = "core" /\ u[3] = "user"
      BY <1>5, <2>2, <1>0, JoinedOne
    <2>4. PICK d : d = u \o <<"close">>
      OBVIOUS
    <2>5. /\ d \in Seq(Word) /\ Len(d) = 4 /\ d[1] = "open" /\ d[2] = "core"
          /\ d[3] = "user" /\ d[4] = "close"
      <3>1. /\ d \in Seq(Word) /\ Len(d) = Len(u) + 1 /\ d[Len(u) + 1] = "close"
            /\ \A i \in 1 .. Len(u) : d[i] = u[i]
        <4>1. PICK w \in Word : w = "close"
          BY <1>0
        <4>2. u \in Seq(Word) /\ d = u \o <<w>>
          BY <2>3, <2>4, <4>1
        <4>3. /\ d \in Seq(Word) /\ Len(d) = Len(u) + 1 /\ d[Len(u) + 1] = w
              /\ \A i \in 1 .. Len(u) : d[i] = u[i]
          BY <4>2, JoinedOne
        <4> QED BY <4>1, <4>3
      <3>2. Len(d) = 4 /\ d[4] = "close" /\ \A i \in 1 .. 3 : d[i] = u[i]
        BY <2>3, <3>1
      <3>3. 1 \in 1 .. 3 /\ 2 \in 1 .. 3 /\ 3 \in 1 .. 3
        OBVIOUS
      <3> QED BY <2>3, <3>1, <3>2, <3>3
    <2>6. st = d
      BY <2>1, <2>2, <2>4, <2>5, ConcatEmptySeq
    <2> QED
      BY <1>1, <2>5, <2>6, OpenUseUseClose
  <1>8. PICK z : z = <<"open", "core", "close">>
    OBVIOUS
  <1>9. z \in Seq(Word) /\ Len(z) = 3 /\ z[1] = "open" /\ z[2] = "core" /\ z[3] = "close"
    BY <1>0, <1>8
  <1>10. CASE addr /\ ~have_core
    <2>1. st = (((a \o <<>>) \o <<"user">>) \o <<"close">>) \o z
      BY <1>1, <1>2, <1>8, <1>10 DEF Symtab
    <2>2. PICK u : u = a \o <<"user">>
      OBVIOUS
    <2>3. u \in Seq(Word) /\ Len(u) = 2 /\ u[1] = "open" /\ u[2] = "user"
      BY <1>3, <2>2, <1>0, JoinedOne
    <2>4. PICK d : d = u \o <<"close">>
      OBVIOUS
    <2>5. d \in Seq(Word) /\ Len(d) = 3 /\ d[1] = "open" /\ d[2] = "user" /\ d[3] = "close"
      BY <2>3, <2>4, <1>0, JoinedOne
    <2>6. st = d \o z
      BY <1>3, <2>1, <2>2, <2>4, ConcatEmptySeq
    <2>7. /\ Len(st) = 3 + 3 /\ \A i \in 1 .. 3 : st[i] = d[i]
          /\ \A i \in 1 .. 3 : st[3 + i] = z[i]
      <3>1. /\ Len(st) = Len(d) + Len(z) /\ \A i \in 1 .. Len(d) : st[i] = d[i]
            /\ \A i \in 1 .. Len(z) : st[Len(d) + i] = z[i]
        <4>1. d \in Seq(Word) /\ z \in Seq(Word) /\ st = d \o z
          BY <1>9, <2>5, <2>6
        <4> QED
          BY <4>1, Joined
      <3> QED
        BY <1>9, <2>5, <3>1
    <2>8. st[3 + 1] = z[1] /\ st[3 + 2] = z[2] /\ st[3 + 3] = z[3]
      BY <2>7
    <2>9. /\ Len(st) = 6 /\ st[1] = "open" /\ st[2] = "user" /\ st[3] = "close"
          /\ st[4] = "open" /\ st[5] = "core" /\ st[6] = "close"
      BY <1>9, <2>5, <2>7, <2>8
    <2> QED
      BY <1>1, <2>9, TwiceBalanced
  <1>11. CASE ~addr
    <2>1. st = <<>> \o z
      BY <1>1, <1>8, <1>11 DEF Symtab
    <2>2. st = z
      BY <1>9, <2>1, ConcatEmptySeq
    <2> QED
      BY <1>1, <1>9, <2>2, OnceBalanced
  <1> QED
    BY <1>6, <1>7, <1>10, <1>11

-----------------------------------------------------------------------------
LEMMA InitHolds ==
  ASSUME Init
  PROVE  LInv
  <1>1. Len(run) = 0 /\ Len(has) = 0 /\ Len(told) = 0 /\ MaxLibs \in Nat
    BY EmptySeq, LoaderConstantsOK DEF Init
  <1>2. Types
    <2>1. /\ pending \in [Kind -> Lib \cup {NoLib}] /\ ptrs \in Lib \cup {NoLib}
          /\ slot \in [Handle -> [Slot -> [Kind -> Lib \cup {NoLib}]]]
      BY DEF Init
    <2>2. /\ fatalerr \in BOOLEAN /\ aborted \in BOOLEAN
          /\ init \in [Handle -> BOOLEAN] /\ tab \in [Handle -> BOOLEAN]
      BY DEF Init
    <2>3. has \in Seq(SUBSET Kind) /\ told \in Seq(Told) /\ run \in Seq(Frame) /\ eh = 0
      BY EmptySeq DEF Init
    <2> QED
      BY <1>1, <2>1, <2>2, <2>3 DEF Types
  <1>3. Nested /\ Known /\ Placed
    BY <1>1 DEF Init, Nested, Known, Placed, NoLib
  <1>4. Tables
    BY <1>1 DEF Init, Tables
  <1> QED
    BY <1>2, <1>3, <1>4 DEF LInv

(* What runs, with a library more and with one less. *)
LEMMA Frames ==
  ASSUME Types, NEW i \in 1 .. Len(run)
  PROVE  /\ run[i] \in Frame /\ run[i].h \in Handle /\ run[i].id \in Slot
         /\ run[i].lib \in Nat /\ run[i].lib <= MaxLibs
  <1>1. run[i] \in Frame
    BY DEF Types
  <1>2. run[i].h \in Handle /\ run[i].id \in Slot /\ run[i].lib \in Lib \cup {NoLib}
    BY <1>1 DEF Frame
  <1> QED
    BY <1>1, <1>2, LoaderConstantsOK DEF Lib, NoLib

LEMMA Pushed ==
  ASSUME Types, NEW f \in Frame, run' = Append(run, f)
  PROVE  /\ run' \in Seq(Frame) /\ Len(run') = Len(run) + 1 /\ Len(run) \in Nat
         /\ run'[Len(run) + 1] = f /\ Len(run) + 1 \in 1 .. Len(run')
         /\ \A i \in 1 .. Len(run) : run'[i] = run[i] /\ i \in 1 .. Len(run')
         /\ \A i \in 1 .. Len(run') : i \in 1 .. Len(run) \/ i = Len(run) + 1
  <1>1. run \in Seq(Frame) /\ Len(run) \in Nat
    BY DEF Types
  <1>2. /\ run' \in Seq(Frame) /\ Len(run') = Len(run) + 1
        /\ run'[Len(run) + 1] = f /\ \A i \in 1 .. Len(run) : run'[i] = run[i]
    BY <1>1, AppendProperties
  <1> QED
    BY <1>1, <1>2

(* The programs of a handle stay nested when one more starts. *)
LEMMA NestedPushed ==
  ASSUME Types, Nested, NEW f \in Frame, run' = Append(run, f), practice' = practice,
         \A i \in 1 .. Len(run) :
           run[i].h = f.h => f.id > 1 /\ ("nest" \notin practice => run[i].id < f.id)
  PROVE  Nested'
  <1>1. PICK n \in Nat : n = Len(run)
    BY Pushed
  <1>2. /\ Len(run') = n + 1 /\ run'[n + 1] = f
        /\ \A i \in 1 .. n : run'[i] = run[i]
        /\ \A i \in 1 .. Len(run') : i \in 1 .. n \/ i = n + 1
    BY <1>1, Pushed
  <1>3. ASSUME NEW i \in 1 .. Len(run'), NEW j \in 1 .. Len(run'), i < j,
               run'[i].h = run'[j].h
        PROVE  run'[j].id > 1 /\ ("nest" \notin practice => run'[i].id < run'[j].id)
    <2>1. i \in 1 .. n
      BY <1>2, <1>3
    <2>2. CASE j \in 1 .. n
      BY <1>1, <1>2, <1>3, <2>1, <2>2 DEF Nested
    <2>3. CASE j = n + 1
      BY <1>1, <1>2, <1>3, <2>1, <2>3
    <2> QED
      BY <1>2, <2>2, <2>3
  <1> QED
    BY <1>3 DEF Nested

LEMMA TopRuns ==
  ASSUME Types, run # <<>>
  PROVE  /\ Len(run) \in Nat /\ Len(run) \in 1 .. Len(run) /\ Top = run[Len(run)]
         /\ Top \in Frame /\ Top.h \in Handle /\ Top.id \in Slot
         /\ DOMAIN run = 1 .. Len(run)
  <1>1. run \in Seq(Frame) /\ Len(run) \in Nat /\ Len(run) >= 1 /\ DOMAIN run = 1 .. Len(run)
    BY EmptySeq, LenProperties DEF Types
  <1>2. Len(run) \in 1 .. Len(run) /\ Top = run[Len(run)]
    BY <1>1 DEF Top, Last
  <1> QED
    BY <1>1, <1>2, Frames

(* A library more is known. *)
LEMMA Loaded ==
  ASSUME Types, NEW kinds \in SUBSET Kind, has' = Append(has, kinds), Len(has) < MaxLibs
  PROVE  /\ has' \in Seq(SUBSET Kind) /\ Len(has') = Len(has) + 1 /\ Len(has') <= MaxLibs
         /\ Len(has) \in Nat /\ Len(has) + 1 \in Lib
         /\ has'[Len(has) + 1] = kinds
         /\ \A l \in 1 .. Len(has) : has'[l] = has[l]
  <1>1. has \in Seq(SUBSET Kind) /\ Len(has) \in Nat /\ MaxLibs \in Nat
    BY LoaderConstantsOK DEF Types
  <1>2. /\ has' \in Seq(SUBSET Kind) /\ Len(has') = Len(has) + 1
        /\ has'[Len(has) + 1] = kinds /\ \A l \in 1 .. Len(has) : has'[l] = has[l]
    BY <1>1, AppendProperties
  <1> QED
    BY <1>1, <1>2 DEF Lib

(* The slot is filled and the library, or the one that is waiting, told. *)
LEMMA Filled ==
  ASSUME LInv, NEW h \in Handle, NEW id \in Slot, NEW kinds \in SUBSET Kind,
         NEW l, l = Len(has) + 1, Len(has) < MaxLibs, FillSlot(h, id, l, kinds)
  PROVE  /\ slot' \in [Handle -> [Slot -> [Kind -> Lib \cup {NoLib}]]]
         /\ \A k \in Kind : slot'[h][id][k] = IF k \in kinds THEN l ELSE pending[k]
         /\ \A g \in Handle, j \in Slot : g # h \/ j # id => slot'[g][j] = slot[g][j]
         /\ told' \in Seq(Told) /\ Len(told') = l
         /\ \A i \in 1 .. l - 1 : i # ptrs \/ "pt" \in kinds => told'[i] = told[i]
         /\ "pt" \in kinds => told'[l] = [h |-> h, id |-> id]
         /\ \A k \in Kind : pending'[k] = NoLib
         /\ pending' \in [Kind -> Lib \cup {NoLib}] /\ ptrs' = NoLib
  <1>1. /\ pending \in [Kind -> Lib \cup {NoLib}] /\ ptrs \in Lib \cup {NoLib}
        /\ slot \in [Handle -> [Slot -> [Kind -> Lib \cup {NoLib}]]]
        /\ told \in Seq(Told) /\ Len(told) = Len(has) /\ Len(has) \in Nat
        /\ ptrs <= Len(has) /\ MaxLibs \in Nat
    BY LoaderConstantsOK DEF LInv, Types, Known
  <1>2. l \in Lib /\ l \in Nat
    BY <1>1 DEF Lib
  <1>3. PICK R : R = Registers(l, kinds)
    OBVIOUS
  <1>4. R \in [Kind -> Lib \cup {NoLib}] /\ \A k \in Kind : R[k] = IF k \in kinds THEN l ELSE pending[k]
    BY <1>1, <1>2, <1>3 DEF Registers
  <1>5. slot' = [slot EXCEPT ![h][id] = R]
    BY <1>3 DEF FillSlot
  <1>6. /\ slot' \in [Handle -> [Slot -> [Kind -> Lib \cup {NoLib}]]]
        /\ slot'[h][id] = R
        /\ \A g \in Handle, j \in Slot : g # h \/ j # id => slot'[g][j] = slot[g][j]
    BY <1>1, <1>4, <1>5
  <1>7. PICK p : p = PtrsOf(l, kinds)
    OBVIOUS
  <1>8. p = IF "pt" \in kinds THEN l ELSE ptrs
    BY <1>7 DEF PtrsOf
  <1>9. told' = [i \in 1 .. l |->
                   IF i = p THEN [h |-> h, id |-> id]
                   ELSE IF i = l THEN [h |-> None, id |-> None] ELSE told[i]]
    BY <1>7 DEF FillSlot
  <1>10. /\ [h |-> h, id |-> id] \in Told /\ [h |-> None, id |-> None] \in Told
    BY DEF Told
  <1>11. \A i \in 1 .. l : i # l => told[i] \in Told
    BY <1>1, <1>2
  <1>12. told' \in [1 .. l -> Told]
    BY <1>9, <1>10, <1>11
  <1>13. told' \in Seq(Told) /\ Len(told') = l
    BY <1>2, <1>12
  <1>14. \A i \in 1 .. l - 1 : i # l /\ i \in 1 .. l
    BY <1>2
  <1>15. \A i \in 1 .. l - 1 : i # ptrs \/ "pt" \in kinds => told'[i] = told[i]
    BY <1>8, <1>9, <1>14
  <1>16. "pt" \in kinds => told'[l] = [h |-> h, id |-> id]
    BY <1>2, <1>8, <1>9
  <1>17. pending' = [k \in Kind |-> NoLib] /\ ptrs' = NoLib
    BY DEF FillSlot
  <1> QED
    BY <1>4, <1>6, <1>13, <1>15, <1>16, <1>17

(* A program or what it runs starts. *)
LEMMA FillKeeps ==
  ASSUME LInv, NEW h \in Handle, NEW id \in Slot, NEW kinds \in SUBSET Kind,
         NEW l, l = Len(has) + 1, Len(has) < MaxLibs, has' = Append(has, kinds),
         aborted' = FALSE, eh' = eh, fatalerr' \in BOOLEAN, practice' = practice,
         FillSlot(h, id, l, kinds), run' = Append(run, [lib |-> l, h |-> h, id |-> id]),
         init' \in [Handle -> BOOLEAN], \A g \in Handle : init[g] => init'[g], init'[h],
         tab' \in [Handle -> BOOLEAN],
         \A g \in Handle : tab'[g] <=> tab[g] \/ (g = h /\ id = 1),
         \A i \in 1 .. Len(run) :
           run[i].h = h => id > 1 /\ ("nest" \notin practice => run[i].id < id)
  PROVE  LInv'
  <1>0. Types
    BY DEF LInv
  <1>1. /\ slot' \in [Handle -> [Slot -> [Kind -> Lib \cup {NoLib}]]]
        /\ \A k \in Kind : slot'[h][id][k] = IF k \in kinds THEN l ELSE pending[k]
        /\ \A g \in Handle, j \in Slot : g # h \/ j # id => slot'[g][j] = slot[g][j]
        /\ told' \in Seq(Told) /\ Len(told') = l
        /\ \A i \in 1 .. l - 1 : i # ptrs \/ "pt" \in kinds => told'[i] = told[i]
        /\ "pt" \in kinds => told'[l] = [h |-> h, id |-> id]
        /\ \A k \in Kind : pending'[k] = NoLib
        /\ pending' \in [Kind -> Lib \cup {NoLib}] /\ ptrs' = NoLib
    BY Filled
  <1>2. /\ has' \in Seq(SUBSET Kind) /\ Len(has') = Len(has) + 1 /\ Len(has') <= MaxLibs
        /\ Len(has) \in Nat /\ l \in Lib
        /\ has'[l] = kinds
        /\ \A j \in 1 .. Len(has) : has'[j] = has[j]
    BY <1>0, Loaded
  <1>3. PICK f \in Frame : /\ f = [lib |-> l, h |-> h, id |-> id]
                           /\ f.lib = l /\ f.h = h /\ f.id = id
    <2>1. [lib |-> l, h |-> h, id |-> id] \in Frame
      BY <1>2 DEF Frame
    <2> QED
      BY <2>1
  <1>4. run' = Append(run, f)
    BY <1>3
  <1>5. PICK n \in Nat : n = Len(run)
    BY <1>0 DEF Types
  <1>6. /\ run' \in Seq(Frame) /\ Len(run') = n + 1
        /\ run'[n + 1] = f /\ n + 1 \in 1 .. Len(run')
        /\ \A i \in 1 .. n : run'[i] = run[i] /\ i \in 1 .. Len(run')
        /\ \A i \in 1 .. Len(run') : i \in 1 .. n \/ i = n + 1
    BY <1>0, <1>4, <1>5, Pushed
  <1>7. \A i \in 1 .. n : /\ run[i].lib \in Nat /\ run[i].lib <= Len(has) /\ run[i].lib # l
                          /\ run[i].h \in Handle /\ run[i].id \in Slot
    <2>1. \A i \in 1 .. n : run[i].lib \in Nat /\ run[i].h \in Handle /\ run[i].id \in Slot
      BY <1>0, <1>5, Frames
    <2>2. \A i \in 1 .. n : run[i].lib <= Len(has)
      BY <1>5 DEF LInv, Known
    <2> QED
      BY <1>2, <2>1, <2>2
  <1>8. Types'
    <2>1. aborted' \in BOOLEAN /\ fatalerr' \in BOOLEAN
      BY DEF LInv, Types
    <2>2. ptrs' \in Lib \cup {NoLib} /\ eh' = 0 /\ Len(told') = Len(has')
      BY <1>1, <1>2 DEF LInv, Types
    <2> QED
      BY <1>1, <1>2, <1>6, <2>1, <2>2 DEF Types
  <1>9. Nested'
    <2>1. \A i \in 1 .. Len(run) :
            run[i].h = f.h => f.id > 1 /\ ("nest" \notin practice => run[i].id < f.id)
      BY <1>3
    <2> QED
      BY <1>0, <1>4, <2>1, NestedPushed DEF LInv
  <1>10. Known'
    <2>1. \A i \in 1 .. Len(run') : run'[i].lib <= Len(has')
      BY <1>2, <1>3, <1>6, <1>7
    <2> QED
      BY <1>1, <1>2, <2>1 DEF Known, NoLib
  <1>11. Tables'
    <2> SUFFICES ASSUME NEW g \in Handle
                 PROVE  tab'[g] <=> \E i \in 1 .. Len(run') : IsProgram(run'[i], g)
      BY DEF Tables
    <2>1. tab[g] <=> \E i \in 1 .. n : IsProgram(run[i], g)
      BY <1>5 DEF LInv, Tables
    <2>2. IsProgram(run'[n + 1], g) <=> g = h /\ id = 1
      BY <1>2, <1>3, <1>6 DEF IsProgram, Lib, NoLib
    <2>3. \A i \in 1 .. n : IsProgram(run'[i], g) <=> IsProgram(run[i], g)
      BY <1>6
    <2> QED
      BY <1>6, <2>1, <2>2, <2>3
  <1>12. Placed'
    <2> SUFFICES ASSUME "nest" \notin practice, NEW i \in 1 .. Len(run')
                 PROVE  Finds(run'[i], has', slot', told')
      BY DEF Placed
    <2>1. CASE i \in 1 .. n
      <3>1. PICK g : g = run[i]
        OBVIOUS
      <3>2. Finds(g, has, slot, told) /\ run'[i] = g
        BY <1>5, <1>6, <2>1, <3>1 DEF LInv, Placed
      <3>3. /\ g.lib \in Nat /\ g.lib <= Len(has) /\ g.h \in Handle /\ g.id \in Slot
        BY <1>7, <2>1, <3>1
      <3>4. slot'[g.h][g.id] = slot[g.h][g.id]
        <4>1. g.h = h => g.id # id
          BY <1>5, <2>1, <3>1, <3>3 DEF Slot
        <4> QED
          BY <1>1, <3>3, <4>1
      <3>5. ASSUME g.lib # NoLib PROVE has'[g.lib] = has[g.lib] /\ told'[g.lib] = told[g.lib]
        <4>1. g.lib \in 1 .. Len(has) /\ g.lib \in 1 .. l - 1
          BY <1>2, <3>3, <3>5 DEF NoLib
        <4>2. g.lib # ptrs
          BY <1>5, <2>1, <3>1, <3>5 DEF LInv, Known
        <4> QED
          BY <1>1, <1>2, <4>1, <4>2
      <3>6. CASE g.lib = NoLib
        BY <3>2, <3>6 DEF Finds
      <3>7. CASE g.lib # NoLib
        <4>1. has'[g.lib] = has[g.lib] /\ told'[g.lib] = told[g.lib]
          BY <3>5, <3>7
        <4>2. /\ \A k \in has[g.lib] : slot[g.h][g.id][k] = g.lib
              /\ "pt" \in has[g.lib] => told[g.lib] = [h |-> g.h, id |-> g.id]
          BY <3>2, <3>7 DEF Finds
        <4>3. /\ \A k \in has'[g.lib] : slot'[g.h][g.id][k] = g.lib
              /\ "pt" \in has'[g.lib] => told'[g.lib] = [h |-> g.h, id |-> g.id]
          BY <3>4, <4>1, <4>2
        <4> QED
          BY <3>2, <4>3 DEF Finds
      <3> QED
        BY <3>6, <3>7
    <2>2. CASE i = n + 1
      <3>1. run'[i] = f
        BY <1>6, <2>2
      <3>2. \A k \in kinds : slot'[h][id][k] = l
        BY <1>1
      <3> QED
        BY <1>1, <1>2, <1>3, <3>1, <3>2 DEF Finds
    <2> QED
      BY <1>6, <2>1, <2>2
  <1> QED
    BY <1>8, <1>9, <1>10, <1>11, <1>12 DEF LInv

(* Steps that leave alone what runs, and the slots and tables. *)
LEMMA RunStays ==
  ASSUME LInv, Types', UNCHANGED <<run, tab, slot, init, practice>>,
         Len(has') >= Len(has),
         \A l \in 1 .. Len(has) : has'[l] = has[l] /\ told'[l] = told[l]
  PROVE  Nested' /\ Tables' /\ Placed'
  <1>1. Nested'
    BY DEF LInv, Nested
  <1>2. Tables'
    BY DEF LInv, Tables
  <1>3. Placed'
    <2> SUFFICES ASSUME "nest" \notin practice, NEW i \in 1 .. Len(run)
                 PROVE  Finds(run[i], has', slot, told')
      BY DEF Placed
    <2>1. PICK g : g = run[i]
      OBVIOUS
    <2>2. Finds(g, has, slot, told)
      BY <2>1 DEF LInv, Placed
    <2>3. g.lib \in Nat /\ g.lib <= Len(has) /\ Len(has) \in Nat
      <3>1. Types /\ Known
        BY DEF LInv
      <3>2. g.lib \in Nat
        BY <2>1, <3>1, Frames
      <3>3. g.lib <= Len(has)
        BY <2>1, <3>1 DEF Known
      <3> QED BY <3>1, <3>2, <3>3 DEF Types
    <2>4. CASE g.lib = NoLib
      BY <2>1, <2>4 DEF Finds
    <2>5. CASE g.lib # NoLib
      <3>1. g.lib \in 1 .. Len(has)
        BY <2>3, <2>5 DEF NoLib
      <3>2. has'[g.lib] = has[g.lib] /\ told'[g.lib] = told[g.lib]
        BY <3>1
      <3>3. /\ \A k \in has[g.lib] : slot[g.h][g.id][k] = g.lib
            /\ "pt" \in has[g.lib] => told[g.lib] = [h |-> g.h, id |-> g.id]
        BY <2>2, <2>5 DEF Finds
      <3>4. /\ \A k \in has'[g.lib] : slot[g.h][g.id][k] = g.lib
            /\ "pt" \in has'[g.lib] => told'[g.lib] = [h |-> g.h, id |-> g.id]
        BY <3>2, <3>3
      <3> QED
        BY <2>1, <3>4 DEF Finds
    <2> QED
      BY <2>4, <2>5
  <1> QED
    BY <1>1, <1>2, <1>3

(* A library that is told nothing. *)
LEMMA Untold ==
  ASSUME LInv, told' = Append(told, [h |-> None, id |-> None])
  PROVE  /\ told' \in Seq(Told) /\ Len(told') = Len(has) + 1
         /\ \A l \in 1 .. Len(has) : told'[l] = told[l]
  <1>1. told \in Seq(Told) /\ Len(told) = Len(has)
    BY DEF LInv, Types
  <1>2. PICK t \in Told : t = [h |-> None, id |-> None]
    <2>1. [h |-> None, id |-> None] \in Told
      BY DEF Told
    <2> QED
      BY <2>1
  <1> QED
    BY <1>1, <1>2, AppendProperties

(* The call for a library is refused. *)
LEMMA RefusedKeeps ==
  ASSUME LInv, NEW kinds \in SUBSET Kind, NEW l, l = Len(has) + 1,
         Load(kinds), Refused(l, kinds), fatalerr' \in BOOLEAN, practice' = practice
  PROVE  LInv'
  <1>0. Types
    BY DEF LInv
  <1>1. Len(has) < MaxLibs /\ has' = Append(has, kinds) /\ eh' = eh
    BY DEF Load
  <1>2. /\ has' \in Seq(SUBSET Kind) /\ Len(has') = Len(has) + 1 /\ Len(has') <= MaxLibs
        /\ Len(has) \in Nat /\ l \in Lib
        /\ \A j \in 1 .. Len(has) : has'[j] = has[j]
    BY <1>0, <1>1, Loaded
  <1>3. /\ told' \in Seq(Told) /\ Len(told') = Len(has) + 1
        /\ \A j \in 1 .. Len(has) : told'[j] = told[j]
    BY Untold DEF Refused
  <1>4. /\ run' = run /\ tab' = tab /\ slot' = slot /\ init' = init
        /\ pending' = Registers(l, kinds) /\ ptrs' = PtrsOf(l, kinds)
    BY DEF Refused
  <1>5. pending' \in [Kind -> Lib \cup {NoLib}]
    BY <1>0, <1>2, <1>4 DEF Registers, Types
  <1>6. (ptrs' = l \/ ptrs' = ptrs) /\ ptrs' \in Lib \cup {NoLib}
    BY <1>0, <1>2, <1>4 DEF PtrsOf, Types
  <1>7. aborted' \in BOOLEAN
    <2>1. aborted' = Clash(kinds)
      BY DEF Load
    <2>2. Clash(kinds) \in BOOLEAN
      BY DEF Clash
    <2> QED
      BY <2>1, <2>2
  <1>8. Types'
    BY <1>0, <1>1, <1>2, <1>3, <1>4, <1>5, <1>6, <1>7 DEF Types
  <1>9. Nested' /\ Tables' /\ Placed'
    BY <1>2, <1>3, <1>4, <1>8, RunStays
  <1>10. Known'
    <2>1. \A i \in 1 .. Len(run) : run[i].lib \in Nat /\ run[i].lib <= Len(has)
      BY <1>0, Frames DEF LInv, Known
    <2>2. /\ ptrs <= Len(has) /\ ptrs \in Nat
          /\ ptrs # NoLib => \A i \in 1 .. Len(run) : run[i].lib # ptrs
      BY <1>0 DEF LInv, Known, Types, Lib, NoLib
    <2>3. \A i \in 1 .. Len(run) : run[i].lib <= Len(has') /\ run[i].lib # l
      BY <1>2, <2>1
    <2>4. ptrs' <= Len(has')
      BY <1>2, <1>6, <2>2
    <2>5. ptrs' # NoLib => \A i \in 1 .. Len(run) : run[i].lib # ptrs'
      BY <1>6, <2>2, <2>3
    <2> QED
      BY <1>4, <2>3, <2>4, <2>5 DEF Known
  <1> QED
    BY <1>8, <1>9, <1>10 DEF LInv

LEMMA OtherKeeps ==
  ASSUME LInv, open_other, UNCHANGED practice
  PROVE  LInv'
  <1>0. Types
    BY DEF LInv
  <1>1. /\ Len(has) < MaxLibs /\ has' = Append(has, {})
        /\ told' = Append(told, [h |-> None, id |-> None])
        /\ fatalerr' = TRUE /\ "version" \in practice
        /\ pending' = pending /\ ptrs' = ptrs /\ init' = init /\ tab' = tab /\ slot' = slot
        /\ run' = run /\ eh' = eh /\ aborted' = aborted
    BY DEF open_other
  <1>2. {} \in SUBSET Kind
    OBVIOUS
  <1>3. /\ has' \in Seq(SUBSET Kind) /\ Len(has') = Len(has) + 1 /\ Len(has') <= MaxLibs
        /\ Len(has) \in Nat
        /\ \A j \in 1 .. Len(has) : has'[j] = has[j]
    BY <1>0, <1>1, <1>2, Loaded
  <1>4. /\ told' \in Seq(Told) /\ Len(told') = Len(has) + 1
        /\ \A j \in 1 .. Len(has) : told'[j] = told[j]
    BY <1>1, Untold
  <1>5. fatalerr' \in BOOLEAN
    BY <1>1
  <1>6. Types'
    BY <1>0, <1>1, <1>3, <1>4, <1>5 DEF Types
  <1>7. Nested' /\ Tables' /\ Placed'
    BY <1>1, <1>3, <1>4, <1>6, RunStays
  <1>8. Known'
    <2>1. \A i \in 1 .. Len(run) : run[i].lib \in Nat /\ run[i].lib <= Len(has)
      BY <1>0, Frames DEF LInv, Known
    <2>2. ptrs <= Len(has) /\ ptrs \in Nat
      BY <1>0 DEF LInv, Known, Types, Lib, NoLib
    <2>3. ptrs # NoLib => \A i \in 1 .. Len(run) : run[i].lib # ptrs
      BY DEF LInv, Known
    <2>4. ptrs <= Len(has') /\ \A i \in 1 .. Len(run) : run[i].lib <= Len(has')
      BY <1>3, <2>1, <2>2
    <2> QED
      BY <1>1, <2>3, <2>4 DEF Known
  <1> QED
    BY <1>6, <1>7, <1>8 DEF LInv

LEMMA OpenKeeps ==
  ASSUME LInv, NEW h \in Handle, NEW kinds \in SUBSET Kind, open(h, kinds),
         UNCHANGED practice
  PROVE  LInv'
  <1>0. Types
    BY DEF LInv
  <1>1. PICK l : l = Len(has) + 1
    OBVIOUS
  <1>2. /\ ~Busy(h) /\ Load(kinds) /\ fatalerr' = fatalerr
    BY DEF open
  <1>3. CASE fatalerr \/ Clash(kinds)
    <2>1. Refused(l, kinds)
      BY <1>1, <1>3 DEF open
    <2>2. fatalerr' \in BOOLEAN
      BY <1>0, <1>2 DEF Types
    <2> QED
      BY <1>1, <1>2, <2>1, <2>2, RefusedKeeps
  <1>4. CASE ~(fatalerr \/ Clash(kinds))
    <2>1. /\ FillSlot(h, 1, l, kinds)
          /\ init' = [init EXCEPT ![h] = TRUE] /\ tab' = [tab EXCEPT ![h] = TRUE]
          /\ run' = Append(run, [lib |-> l, h |-> h, id |-> 1])
      BY <1>1, <1>4 DEF open
    <2>2. aborted' = FALSE
      <3>1. aborted' = Clash(kinds) /\ ~Clash(kinds)
        BY <1>2, <1>4 DEF Load
      <3> QED
        BY <3>1
    <2>3. Len(has) < MaxLibs /\ has' = Append(has, kinds) /\ eh' = eh
      BY <1>2 DEF Load
    <2>4. /\ init' \in [Handle -> BOOLEAN] /\ init'[h]
          /\ \A g \in Handle : init[g] => init'[g]
      BY <1>0, <2>1 DEF Types
    <2>5. tab' \in [Handle -> BOOLEAN]
      BY <1>0, <2>1 DEF Types
    <2>6. \A g \in Handle : tab'[g] <=> tab[g] \/ (g = h /\ 1 = 1)
      BY <1>0, <2>1 DEF Types
    <2>7. \A i \in 1 .. Len(run) : run[i].h # h
      <3>1. DOMAIN run = 1 .. Len(run)
        BY <1>0, LenProperties DEF Types
      <3> QED
        BY <1>2, <3>1 DEF Busy
    <2>8. 1 \in Slot
      BY DEF Slot
    <2>9. fatalerr' \in BOOLEAN
      BY <1>0, <1>2 DEF Types
    <2> QED
      BY <1>1, <1>2, <2>1, <2>2, <2>3, <2>4, <2>5, <2>6, <2>7, <2>8, <2>9, FillKeeps
  <1> QED
    BY <1>3, <1>4

LEMMA ExecKeeps ==
  ASSUME LInv, NEW kinds \in SUBSET Kind, NEW id \in Slot, NEW other \in BOOLEAN,
         exec(id, kinds, other), UNCHANGED practice
  PROVE  LInv'
  <1>0. Types
    BY DEF LInv
  <1>1. PICK l : l = Len(has) + 1
    OBVIOUS
  <1>2. /\ run # <<>> /\ id > 1 /\ ("nest" \in practice \/ Top.id < id) /\ Load(kinds)
        /\ fatalerr' \in BOOLEAN /\ init' = init /\ tab' = tab
    BY DEF exec
  <1>3. PICK h \in Handle : h = Top.h
    BY <1>0, <1>2, TopRuns
  <1>4. /\ Len(run) \in Nat /\ Len(run) \in 1 .. Len(run) /\ Top = run[Len(run)]
    BY <1>0, <1>2, TopRuns
  <1>5. CASE ~init[h] \/ Clash(kinds)
    <2>1. Refused(l, kinds)
      BY <1>1, <1>3, <1>5 DEF exec
    <2> QED
      BY <1>1, <1>2, <2>1, RefusedKeeps
  <1>6. CASE ~(~init[h] \/ Clash(kinds))
    <2>1. /\ FillSlot(h, id, l, kinds) /\ run' = Append(run, [lib |-> l, h |-> h, id |-> id])
      BY <1>1, <1>3, <1>6 DEF exec
    <2>2. aborted' = FALSE
      <3>1. aborted' = Clash(kinds) /\ ~Clash(kinds)
        BY <1>2, <1>6 DEF Load
      <3> QED
        BY <3>1
    <2>3. Len(has) < MaxLibs /\ has' = Append(has, kinds) /\ eh' = eh
      BY <1>2 DEF Load
    <2>4. /\ init' \in [Handle -> BOOLEAN] /\ init'[h]
          /\ \A g \in Handle : init[g] => init'[g]
      BY <1>0, <1>2, <1>6 DEF Types
    <2>5. tab' \in [Handle -> BOOLEAN]
      BY <1>0, <1>2 DEF Types
    <2>6. \A g \in Handle : tab'[g] <=> tab[g] \/ (g = h /\ id = 1)
      BY <1>2
    <2>7. ASSUME NEW i \in 1 .. Len(run), run[i].h = h, "nest" \notin practice
          PROVE  run[i].id < id
      <3>1. Top.id < id /\ Top.id \in Nat /\ run[i].id \in Nat /\ id \in Nat
        BY <1>0, <1>2, <1>4, <2>7, Frames DEF Slot
      <3>2. CASE i = Len(run)
        BY <1>4, <3>1, <3>2
      <3>3. CASE i # Len(run)
        <4>1. i < Len(run)
          BY <1>4, <3>3
        <4>2. run[i].id < Top.id
          BY <1>3, <1>4, <2>7, <4>1 DEF LInv, Nested
        <4> QED
          BY <3>1, <4>2
      <3> QED
        BY <3>2, <3>3
    <2>8. \A i \in 1 .. Len(run) :
            run[i].h = h => id > 1 /\ ("nest" \notin practice => run[i].id < id)
      BY <1>2, <2>7
    <2> QED
      BY <1>1, <1>2, <2>1, <2>2, <2>3, <2>4, <2>5, <2>6, <2>8, FillKeeps
  <1> QED
    BY <1>5, <1>6

LEMMA StaticKeeps ==
  ASSUME LInv, NEW h \in Handle, open_static(h), UNCHANGED practice
  PROVE  LInv'
  <1>1. /\ "static" \in practice /\ run = <<>> /\ run' = <<[lib |-> NoLib, h |-> h, id |-> 1]>>
        /\ pending' = pending /\ ptrs' = ptrs /\ fatalerr' = fatalerr /\ init' = init
        /\ tab' = tab /\ slot' = slot /\ has' = has /\ told' = told /\ eh' = eh
        /\ aborted' = aborted
    BY DEF open_static
  <1>2. PICK f \in Frame : /\ f = [lib |-> NoLib, h |-> h, id |-> 1]
                           /\ f.lib = NoLib /\ f.h = h /\ f.id = 1
    <2>1. [lib |-> NoLib, h |-> h, id |-> 1] \in Frame
      BY DEF Frame, Slot
    <2> QED
      BY <2>1
  <1>3. run' = <<f>>
    BY <1>1, <1>2
  <1>4. run' \in Seq(Frame) /\ Len(run') = 1 /\ run'[1] = f /\ Len(run) = 0
    BY <1>1, <1>3
  <1>5. Types'
    BY <1>1, <1>4 DEF LInv, Types
  <1>6. \A i \in 1 .. Len(run') : i = 1
    BY <1>4
  <1>7. Nested' /\ Placed'
    BY <1>2, <1>4, <1>6 DEF Nested, Placed, Finds
  <1>8. Known'
    <2>1. Len(has) \in Nat /\ ptrs <= Len(has)
      BY DEF LInv, Types, Known
    <2> QED
      BY <1>1, <1>2, <1>4, <1>6, <2>1 DEF Known, NoLib
  <1>9. Tables'
    BY <1>1, <1>2, <1>4, <1>6 DEF LInv, Tables, IsProgram
  <1> QED
    BY <1>5, <1>7, <1>8, <1>9 DEF LInv

(* What ran last returns; a program takes its tables with it. *)
LEMMA ReturnKeeps ==
  ASSUME LInv, return, UNCHANGED practice
  PROVE  LInv'
  <1>0. Types
    BY DEF LInv
  <1>1. /\ run # <<>> /\ run' = Front(run)
        /\ pending' = pending /\ ptrs' = ptrs /\ fatalerr' = fatalerr /\ init' = init
        /\ slot' = slot /\ has' = has /\ told' = told /\ eh' = eh /\ aborted' = aborted
    BY DEF return
  <1>2. /\ Len(run) \in Nat /\ Len(run) \in 1 .. Len(run) /\ Top = run[Len(run)]
        /\ Top.h \in Handle /\ run \in Seq(Frame)
    BY <1>0, <1>1, TopRuns DEF Types
  <1>3. PICK n \in Nat : n = Len(run) - 1
    BY <1>2
  <1>4. run' = SubSeq(run, 1, n) /\ n \in 0 .. Len(run) /\ Len(run) = n + 1
    BY <1>1, <1>2, <1>3 DEF Front
  <1>5. /\ run' \in Seq(Frame) /\ Len(run') = n
        /\ \A i \in 1 .. n : run'[i] = run[i] /\ i \in 1 .. Len(run)
    BY <1>2, <1>4, SubSeqProperties
  <1>6. tab' \in [Handle -> BOOLEAN]
    BY <1>0, <1>2 DEF return, done, Types
  <1>7. Types'
    BY <1>0, <1>1, <1>5, <1>6 DEF Types
  <1>8. Nested'
    BY <1>5 DEF LInv, Nested
  <1>9. Known'
    BY <1>1, <1>5 DEF LInv, Known
  <1>10. Placed'
    BY <1>1, <1>5 DEF LInv, Placed
  <1>12. Tables'
    <2> SUFFICES ASSUME NEW g \in Handle
                 PROVE  tab'[g] <=> \E i \in 1 .. n : IsProgram(run[i], g)
      BY <1>5 DEF Tables
    <2>1. tab[g] <=> \E i \in 1 .. n + 1 : IsProgram(run[i], g)
      BY <1>4 DEF LInv, Tables
    <2>2. \A i \in 1 .. n + 1 : i \in 1 .. n \/ i = n + 1
      BY <1>3
    <2>3. \A i \in 1 .. n : i \in 1 .. n + 1
      BY <1>3
    <2>4. n + 1 \in 1 .. n + 1 /\ run[n + 1] = Top
      BY <1>2, <1>3, <1>4
    <2>5. CASE Top.id = 1 /\ Top.lib # NoLib
      <3>1. tab' = [tab EXCEPT ![Top.h] = FALSE]
        BY <2>5 DEF return, done
      <3>2. \A i \in 1 .. n : run[i].h # Top.h
        <4>1. \A i \in 1 .. n : i \in 1 .. Len(run) /\ i < n + 1
          BY <1>3, <1>4
        <4>2. Len(run) = n + 1 /\ n + 1 \in 1 .. Len(run)
          BY <1>3, <1>4
        <4>3. \A i \in 1 .. n : run[i].h = Top.h => Top.id > 1
          BY <2>4, <4>1, <4>2 DEF LInv, Nested
        <4> QED
          BY <2>5, <4>3
      <3>3. CASE g = Top.h
        <4>1. tab'[g] = FALSE
          BY <1>0, <3>1, <3>3 DEF Types
        <4> QED
          BY <3>2, <3>3, <4>1 DEF IsProgram
      <3>4. CASE g # Top.h
        <4>1. tab'[g] = tab[g]
          BY <1>0, <3>1, <3>4 DEF Types
        <4>2. ~IsProgram(run[n + 1], g)
          BY <2>4, <3>4 DEF IsProgram
        <4> QED
          BY <2>1, <2>2, <2>3, <4>1, <4>2
      <3> QED
        BY <3>3, <3>4
    <2>6. CASE ~(Top.id = 1 /\ Top.lib # NoLib)
      <3>1. tab' = tab
        BY <2>6 DEF return
      <3>2. ~IsProgram(run[n + 1], g)
        BY <2>4, <2>6 DEF IsProgram
      <3> QED
        BY <2>1, <2>2, <2>3, <3>1, <3>2
    <2> QED
      BY <2>5, <2>6
  <1> QED
    BY <1>7, <1>8, <1>9, <1>10, <1>12 DEF LInv

(* dj64_ctrl() with a request that leaves no handle open. *)
LEMMA CtrlKeeps ==
  ASSUME LInv, NEW steps, dj64_ctrl(steps), UNCHANGED practice,
         \A f \in Fallible(steps) : Left(steps, f) = 0
  PROVE  LInv'
  <1>1. eh' = 0
    <2>1. PICK f \in Fallible(steps) : eh' = eh + Left(steps, f)
      BY DEF dj64_ctrl
    <2>2. Left(steps, f) = 0 /\ eh = 0
      BY DEF LInv, Types
    <2> QED
      BY <2>1, <2>2
  <1>2. /\ pending' = pending /\ ptrs' = ptrs /\ fatalerr' = fatalerr /\ init' = init
        /\ tab' = tab /\ slot' = slot /\ has' = has /\ told' = told /\ run' = run
        /\ aborted' = aborted
    BY DEF dj64_ctrl
  <1>3. Types'
    BY <1>1, <1>2 DEF LInv, Types
  <1>4. Nested' /\ Known' /\ Tables' /\ Placed'
    BY <1>2 DEF LInv, Nested, Known, Tables, Placed
  <1> QED
    BY <1>3, <1>4 DEF LInv

LEMMA NextKeeps ==
  ASSUME LInv, [Next]_vars
  PROVE  LInv'
  <1>1. CASE UNCHANGED vars
    <2>1. Types'
      BY <1>1 DEF vars, LInv, Types
    <2>2. Nested' /\ Known' /\ Tables' /\ Placed'
      BY <1>1 DEF vars, LInv, Nested, Known, Tables, Placed
    <2> QED
      BY <2>1, <2>2 DEF LInv
  <1>2. ASSUME Next PROVE LInv'
    <2>1. Step /\ UNCHANGED practice
      BY <1>2 DEF Next
    <2>2. ASSUME NEW h \in Handle, open_static(h) PROVE LInv'
      BY <2>1, <2>2, StaticKeeps
    <2>3. ASSUME NEW h \in Handle, NEW kinds \in SUBSET Kind, open(h, kinds) PROVE LInv'
      BY <2>1, <2>3, OpenKeeps
    <2>4. ASSUME NEW kinds \in SUBSET Kind, NEW id \in Slot, NEW other \in BOOLEAN,
                 exec(id, kinds, other)
          PROVE  LInv'
      BY <2>1, <2>4, ExecKeeps
    <2>5. CASE open_other
      BY <2>1, <2>5, OtherKeeps
    <2>6. CASE return
      BY <2>1, <2>6, ReturnKeeps
    <2>7. ASSUME NEW addr \in BOOLEAN, NEW have_core \in BOOLEAN, NEW split_pl \in BOOLEAN,
                 have_core => addr, dj64_ctrl(Symtab(addr, have_core, split_pl))
          PROVE  LInv'
      <3>1. PICK st : st = Symtab(addr, have_core, split_pl)
        OBVIOUS
      <3>2. \A f \in Fallible(st) : Left(st, f) = 0
        BY <2>7, <3>1, SymtabBalanced
      <3> QED
        BY <2>1, <2>7, <3>1, <3>2, CtrlKeeps
    <2>8. CASE dj64_ctrl(ElfLoad)
      <3>1. \A f \in Fallible(ElfLoad) : Left(ElfLoad, f) = 0
        BY LoadBalanced
      <3> QED
        BY <2>1, <2>8, <3>1, CtrlKeeps
    <2>9. CASE Abort
      BY <1>1, <2>9 DEF Abort
    <2> QED
      BY <2>1, <2>2, <2>3, <2>4, <2>5, <2>6, <2>7, <2>8, <2>9 DEF Step
  <1> QED
    BY <1>1, <1>2

-----------------------------------------------------------------------------
(* The registry keeps the libraries that run apart, whatever is loaded,    *)
(* refused, nested and ended.                                              *)
THEOREM RegistryState == Spec => []LInv
  <1>1. LInv /\ [Next]_vars => LInv'
    BY NextKeeps
  <1> QED
    BY InitHolds, <1>1, PTL DEF Spec

(* The variables of thunks.c hold what they are declared to hold, the core *)
(* tables are there exactly while a program runs, and no request of        *)
(* dj64_ctrl() leaves an elf_ops handle open, whichever step of it fails.  *)
THEOREM RegistryTypes == Spec => []TypeOK
  <1>1. LInv => TypeOK
    <2> SUFFICES ASSUME LInv PROVE TypeOK
      OBVIOUS
    <2>1. DOMAIN run = 1 .. Len(run)
      BY LenProperties DEF LInv, Types
    <2>2. \A h \in Handle :
            tab[h] <=> \E i \in DOMAIN run :
                         run[i].h = h /\ run[i].lib # NoLib /\ run[i].id = 1
      BY <2>1 DEF LInv, Tables, IsProgram
    <2> QED
      BY <2>2 DEF LInv, Types, TypeOK
  <1> QED
    BY <1>1, RegistryState, PTL

(* The calls of what runs reach its own dispatcher and tables, whatever    *)
(* was refused before, for every number of handles and libraries.          *)
THEOREM CallsReachOwner == Spec => []ReachesItself
  <1>1. LInv => ReachesItself
    <2> SUFFICES ASSUME LInv, "nest" \notin practice, run # <<>>, Top.lib # NoLib
                 PROVE  /\ \A k \in has[Top.lib] : slot[Top.h][Top.id][k] = Top.lib
                        /\ "pt" \in has[Top.lib] => told[Top.lib] = [h |-> Top.h, id |-> Top.id]
      BY DEF ReachesItself
    <2>1. Len(run) \in 1 .. Len(run) /\ Top = run[Len(run)]
      BY TopRuns DEF LInv
    <2>2. Finds(Top, has, slot, told)
      BY <2>1 DEF LInv, Placed
    <2> QED
      BY <2>2 DEF Finds
  <1> QED
    BY <1>1, RegistryState, PTL
=============================================================================
