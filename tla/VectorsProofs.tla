---------------------------- MODULE VectorsProofs ----------------------------
(***************************************************************************)
(* Proofs about the vectors of nested programs, for every number of them   *)
(* and all their habits.  The last part is about the interval timers of    *)
(* one program, for every resolution of the clock, every time and reload   *)
(* interval, and any number of calls and ticks.                            *)
(***************************************************************************)
EXTENDS Vectors, ITimer, SequenceTheorems, TLAPS

(***************************************************************************)
(* What a program has saved, related to what it found and to the vectors L *)
(* and the Ctrl-Break vector C that it leaves to the program above it, or  *)
(* that are in force if it is the innermost one.  Its handlers are either  *)
(* in place or toggled out.  H is what the programs do, and H, S (the      *)
(* stack of programs), V and C (the vectors) are parameters, so that the   *)
(* lemmas can speak of a state and of its successor alike.                 *)
(***************************************************************************)
Held(H) == IF "tidy" \in H THEN Vector ELSE Vector \ {"timer"}

Placed(p, L, x) ==
  IF Intact(p) THEN p.ori[x] = p.saw[x] /\ L[x] = p.id
               ELSE p.ori[x] = p.id /\ L[x] = p.saw[x]

TimerPlaced(p, L) ==
  IF p.old_timer = Void
  THEN p.ori.timer = p.saw.timer /\ L.timer = p.saw.timer
  ELSE /\ p.old_timer = p.saw.timer
       /\ IF Intact(p)
          THEN p.ori.timer = p.saw.timer /\ L.timer \in {p.saw.timer, p.id}
          ELSE L.timer = p.saw.timer /\ p.ori.timer \in {p.saw.timer, p.id}

CbrkPlaced(p, C) ==
  /\ p.hooked <=> Intact(p)
  /\ IF Intact(p) THEN C = p.id /\ p.cbrk_ori = p.sawCbrk ELSE C = p.sawCbrk

Right(H, p, L, C) ==
  /\ p.old_kbd = p.saw.kbd
  /\ Placed(p, L, "exc") /\ Placed(p, L, "kbd")
  /\ IF "nmi_signal" \in H THEN Placed(p, L, "nmi") ELSE L.nmi = p.saw.nmi
  /\ CbrkPlaced(p, C)
  /\ "tidy" \in H => TimerPlaced(p, L)

(* The handler of p is in the timer vector, or will be when p toggles. *)
ArmedBy(p, L) == p.id = L.timer \/ p.id = p.ori.timer

(* What program i leaves to the one above it. *)
Left(S, V, i) == IF i = Len(S) THEN V ELSE S[i + 1].saw
LeftCbrk(S, C, i) == IF i = Len(S) THEN C ELSE S[i + 1].sawCbrk

(* The programs below the i-th, and the host. *)
Below(S, i) == {Host} \cup {S[j].id : j \in 1 .. i - 1}

(***************************************************************************)
(* The inductive invariant.  What a program found is what the one below it *)
(* leaves, so that the end of a program puts back what Right says of the   *)
(* program below.                                                          *)
(***************************************************************************)
Ordered(S, s) ==
  /\ \A i, j \in 1 .. Len(S) : i < j => S[i].id < S[j].id
  /\ \A i \in 1 .. Len(S) : S[i].id <= s

Found(H, S, V, C) ==
  /\ \A i \in 1 .. Len(S) : /\ \A x \in Held(H) : S[i].saw[x] \in Below(S, i)
                            /\ S[i].sawCbrk \in Below(S, i)
  /\ \A x \in Held(H) : V[x] \in Below(S, Len(S) + 1)
  /\ C \in Below(S, Len(S) + 1)

Linked(H, S, V, C) ==
  \A i \in 1 .. Len(S) : Right(H, S[i], Left(S, V, i), LeftCbrk(S, C, i))

TimerOwner(H, S, V, on) ==
  "tidy" \in H =>
    \A i \in 1 .. Len(S) : ArmedBy(S[i], Left(S, V, i)) =>
      /\ on
      /\ \A j \in 1 .. Len(S) : i < j => S[j].old_timer = Void

Owned(S, B) ==
  /\ \A i \in 1 .. Len(S) : S[i].hooked <=> S[i].id \in B
  /\ \A b \in B : \E i \in 1 .. Len(S) : b = S[i].id

Typed(S, V, C, on, s) ==
  /\ V \in [Vector -> Target]
  /\ C \in Target
  /\ on \in BOOLEAN
  /\ s \in 0 .. MaxStarts
  /\ S \in Seq(Program)

VInv ==
  /\ VectorsTypeOK
  /\ Ordered(progs, started)
  /\ Found(practice, progs, vec, cbrk)
  /\ Linked(practice, progs, vec, cbrk)
  /\ TimerOwner(practice, progs, vec, itimer_on)
  /\ Owned(progs, callbacks)

-----------------------------------------------------------------------------
(* __djgpp_exception_toggle() as a step from one program record to the     *)
(* next: what it keeps and what it exchanges.                              *)
LEMMA ToggleFields ==
  ASSUME NEW p \in Program, NEW v \in [Vector -> Target], NEW rm \in Target,
         NEW q, q = ToggledProg(p, v, rm)
  PROVE  /\ q \in Program
         /\ q.id = p.id /\ q.old_kbd = p.old_kbd /\ q.old_timer = p.old_timer
         /\ q.saw = p.saw /\ q.sawCbrk = p.sawCbrk
         /\ q.ori.exc = v.exc /\ q.ori.nmi = v.nmi /\ q.ori.kbd = v.kbd
         /\ q.ori.timer = IF TimerOut(p) THEN v.timer
                          ELSE IF TimerIn(p) THEN p.old_timer ELSE p.ori.timer
         /\ q.cbrk_ori = IF p.hooked THEN p.cbrk_ori ELSE rm
  <1>1. PICK o \in [Vector -> Target], c \in Target :
          /\ o.exc = v.exc /\ o.nmi = v.nmi /\ o.kbd = v.kbd
          /\ o.timer = IF TimerOut(p) THEN v.timer
                       ELSE IF TimerIn(p) THEN p.old_timer ELSE p.ori.timer
          /\ c = IF p.hooked THEN p.cbrk_ori ELSE rm
          /\ q = [p EXCEPT !.ori = o, !.hooked = ~p.hooked, !.cbrk_ori = c]
    <2> DEFINE o == [exc   |-> v.exc, nmi |-> v.nmi, kbd |-> v.kbd,
                     timer |-> CASE TimerOut(p) -> v.timer
                                 [] TimerIn(p)  -> p.old_timer
                                 [] OTHER       -> p.ori.timer]
               c == IF p.hooked THEN p.cbrk_ori ELSE rm
    <2>1. /\ o \in [Vector -> Target]
          /\ o.exc = v.exc /\ o.nmi = v.nmi /\ o.kbd = v.kbd
          /\ o.timer = IF TimerOut(p) THEN v.timer
                       ELSE IF TimerIn(p) THEN p.old_timer ELSE p.ori.timer
      BY DEF Vector, Program, TimerOut, TimerIn
    <2>2. c \in Target
      BY DEF Program
    <2>3. q = [p EXCEPT !.ori = o, !.hooked = ~p.hooked, !.cbrk_ori = c]
      BY Zenon DEF ToggledProg
    <2>4. c = IF p.hooked THEN p.cbrk_ori ELSE rm
      OBVIOUS
    <2> HIDE DEF o, c
    <2> QED
      BY <2>1, <2>2, <2>3, <2>4
  <1>2. /\ q \in Program
        /\ q.id = p.id /\ q.ori = o /\ q.cbrk_ori = c
        /\ q.old_kbd = p.old_kbd /\ q.old_timer = p.old_timer
        /\ q.saw = p.saw /\ q.sawCbrk = p.sawCbrk
    BY <1>1 DEF Program
  <1> QED
    BY <1>1, <1>2, Zenon

(* cbrk_hooked is inverted. *)
LEMMA ToggleHooked ==
  ASSUME NEW p \in Program, NEW v, NEW rm, NEW q, q = ToggledProg(p, v, rm)
  PROVE  q.hooked <=> ~p.hooked
  BY DEF ToggledProg, Program

LEMMA ToggleVector ==
  ASSUME NEW p \in Program, NEW v \in [Vector -> Target], NEW w,
         w = ToggledVec(p, v)
  PROVE  /\ w \in [Vector -> Target]
         /\ w.exc = p.ori.exc /\ w.kbd = p.ori.kbd
         /\ w.nmi = IF "nmi_signal" \in practice THEN p.ori.nmi ELSE v.nmi
         /\ w.timer = IF TimerOut(p) THEN p.old_timer
                      ELSE IF TimerIn(p) THEN p.ori.timer ELSE v.timer
  BY DEF ToggledVec, Vector, Program, TimerOut, TimerIn

(* Toggling keeps the relation: handlers that were in place are out and    *)
(* what was found is in force, or the other way round.                     *)
LEMMA ToggleRight ==
  ASSUME NEW p \in Program, NEW v \in [Vector -> Target], NEW rm \in Target,
         Right(practice, p, v, rm), p.saw.kbd # p.id,
         "tidy" \in practice => p.saw.timer \notin {p.id, Void},
         NEW q, q = ToggledProg(p, v, rm),
         NEW w, w = ToggledVec(p, v)
  PROVE  /\ Right(practice, q, w, ToggledCbrk(p, rm))
         /\ "tidy" \in practice /\ ArmedBy(q, w) => ArmedBy(p, v)
         /\ Intact(p) =>
              /\ \A x \in Held(practice) : w[x] = p.saw[x]
              /\ ToggledCbrk(p, rm) = p.sawCbrk
  <1>1. /\ q \in Program
        /\ q.id = p.id /\ q.old_kbd = p.old_kbd /\ q.old_timer = p.old_timer
        /\ q.saw = p.saw /\ q.sawCbrk = p.sawCbrk
    BY ToggleFields
  <1>11. /\ q.ori.exc = v.exc /\ q.ori.nmi = v.nmi /\ q.ori.kbd = v.kbd
        /\ q.ori.timer = IF TimerOut(p) THEN v.timer
                         ELSE IF TimerIn(p) THEN p.old_timer ELSE p.ori.timer
    BY ToggleFields
  <1>12. q.cbrk_ori = IF p.hooked THEN p.cbrk_ori ELSE rm
    BY ToggleFields
  <1>13. q.hooked <=> ~p.hooked
    BY ToggleHooked
  <1>2. /\ w.exc = p.ori.exc /\ w.kbd = p.ori.kbd
        /\ w.nmi = IF "nmi_signal" \in practice THEN p.ori.nmi ELSE v.nmi
        /\ w.timer = IF TimerOut(p) THEN p.old_timer
                     ELSE IF TimerIn(p) THEN p.ori.timer ELSE v.timer
    BY ToggleVector
  <1>3. Intact(q) <=> ~Intact(p)
    BY <1>1, <1>11 DEF Right, Placed, Intact
  <1>4. /\ Placed(q, w, "exc") /\ Placed(q, w, "kbd")
        /\ IF "nmi_signal" \in practice THEN Placed(q, w, "nmi") ELSE w.nmi = q.saw.nmi
    BY <1>1, <1>11, <1>2, <1>3 DEF Right, Placed
  <1>5. CbrkPlaced(q, ToggledCbrk(p, rm))
    BY <1>1, <1>12, <1>13, <1>3 DEF Right, CbrkPlaced, ToggledCbrk, Program
  <1>6. ASSUME "tidy" \in practice
        PROVE  TimerPlaced(q, w) /\ (ArmedBy(q, w) => ArmedBy(p, v))
    BY <1>1, <1>11, <1>2, <1>3, <1>6 DEF Right, TimerPlaced, TimerOut, TimerIn, ArmedBy
  <1>7. ASSUME Intact(p)
        PROVE  /\ \A x \in Held(practice) : w[x] = p.saw[x]
               /\ ToggledCbrk(p, rm) = p.sawCbrk
    BY <1>1, <1>11, <1>2, <1>3, <1>4, <1>5, <1>6, <1>7
       DEF Held, Vector, Right, Placed, TimerPlaced, CbrkPlaced, TimerOut, TimerIn
  <1> QED
    BY <1>1, <1>3, <1>4, <1>5, <1>6, <1>7 DEF Right

(* A program leaves its own handlers or those it found.                    *)
LEMMA RightLeaves ==
  ASSUME NEW H, NEW p \in Program, NEW L \in [Vector -> Target], NEW C,
         Right(H, p, L, C)
  PROVE  \A x \in Held(H) : L[x] = p.id \/ L[x] = p.saw[x]
  BY DEF Held, Vector, Right, Placed, TimerPlaced

LEMMA RightLeavesCbrk ==
  ASSUME NEW H, NEW p, NEW L, NEW C, Right(H, p, L, C)
  PROVE  C = p.id \/ C = p.sawCbrk
  BY DEF Right, CbrkPlaced

(* Only the vectors that are kept matter to the relation. *)
LEMMA RightAgrees ==
  ASSUME NEW H, NEW p, NEW L, NEW C, Right(H, p, L, C),
         NEW M, \A x \in Held(H) : M[x] = L[x]
  PROVE  Right(H, p, M, C)
  BY DEF Held, Vector, Right, Placed, TimerPlaced

(* The stack without its top. *)
LEMMA TopFields ==
  ASSUME NEW S \in Seq(Program), S # <<>>
  PROVE  /\ Len(S) \in Nat /\ Len(S) >= 1 /\ Len(S) \in 1 .. Len(S)
         /\ S[Len(S)] \in Program
         /\ SubSeq(S, 1, Len(S) - 1) \in Seq(Program)
         /\ Len(SubSeq(S, 1, Len(S) - 1)) = Len(S) - 1
         /\ \A i \in 1 .. Len(S) - 1 :
              /\ i \in 1 .. Len(S) /\ i # Len(S)
              /\ SubSeq(S, 1, Len(S) - 1)[i] = S[i]
  <1>1. Len(S) \in Nat /\ Len(S) >= 1
    BY EmptySeq
  <1>2. /\ SubSeq(S, 1, Len(S) - 1) \in Seq(Program)
        /\ Len(SubSeq(S, 1, Len(S) - 1)) = Len(S) - 1
        /\ \A i \in 1 .. Len(S) - 1 : SubSeq(S, 1, Len(S) - 1)[i] = S[i]
    <2> DEFINE m == Len(S) - 1
    <2>1. m \in Nat /\ \A i \in 1 .. m : S[i] \in Program
      BY <1>1
    <2> HIDE DEF m
    <2>2. /\ SubSeq(S, 1, m) \in Seq(Program)
          /\ Len(SubSeq(S, 1, m)) = m
          /\ \A i \in 1 .. m : SubSeq(S, 1, m)[i] = S[i]
      BY <2>1, SubSeqProperties
    <2> QED
      BY <2>2 DEF m
  <1> QED
    BY <1>1, <1>2

LEMMA AppendLonger ==
  ASSUME NEW S \in Seq(Program), NEW q
  PROVE  Len(Append(S, q)) = Len(S) + 1
  <1>1. S \in Seq(Program \cup {q})
    OBVIOUS
  <1> QED
    BY <1>1, AppendProperties

LEMMA AppendFields ==
  ASSUME NEW S \in Seq(Program), NEW q \in Program
  PROVE  /\ Len(S) \in Nat
         /\ Append(S, q) \in Seq(Program)
         /\ Len(Append(S, q)) = Len(S) + 1
         /\ Append(S, q)[Len(S) + 1] = q
         /\ \A i \in 1 .. Len(S) : Append(S, q)[i] = S[i]
  BY AppendProperties

-----------------------------------------------------------------------------
(* A program starts: it finds what the one below leaves. *)
LEMMA PushKeeps ==
  ASSUME NEW H, NEW S \in Seq(Program), NEW V \in [Vector -> Target],
         NEW C \in Target, NEW on, NEW s \in Nat,
         Ordered(S, s), Found(H, S, V, C), Linked(H, S, V, C),
         TimerOwner(H, S, V, on),
         NEW q \in Program, NEW W \in [Vector -> Target], NEW D \in Target,
         q.id = s + 1, q.saw = V, q.sawCbrk = C, q.old_timer = Void,
         Right(H, q, W, D),
         "tidy" \in H => ~ArmedBy(q, W),
         NEW T, T = Append(S, q)
  PROVE  /\ Ordered(T, s + 1) /\ Found(H, T, W, D) /\ Linked(H, T, W, D)
         /\ TimerOwner(H, T, W, on)
  <1> DEFINE n == Len(S)
  <1>1. /\ n \in Nat /\ T \in Seq(Program) /\ Len(T) = n + 1
        /\ T[n + 1] = q
        /\ \A i \in 1 .. n : T[i] = S[i]
    BY AppendFields
  <1> HIDE DEF n
  <1>0. n = Len(S)
    BY DEF n
  <1>2. \A i \in 1 .. n : S[i] \in Program
    BY <1>0
  <1>3. Ordered(T, s + 1)
    BY <1>0, <1>1, <1>2 DEF Ordered, Program, Prog
  <1>4. \A i \in 1 .. n + 1 : Below(T, i) = Below(S, i)
    BY <1>1 DEF Below
  <1>5. Below(T, n + 2) = Below(S, n + 1) \cup {q.id}
    BY <1>1 DEF Below
  <1>6. Found(H, T, W, D)
    <2>1. \A x \in Held(H) : W[x] = q.id \/ W[x] = V[x]
      BY RightLeaves
    <2>2. D = q.id \/ D = C
      BY RightLeavesCbrk
    <2>3. \A i \in 1 .. n + 1 : /\ \A x \in Held(H) : T[i].saw[x] \in Below(S, i)
                                /\ T[i].sawCbrk \in Below(S, i)
      BY <1>0, <1>1 DEF Found
    <2>4. \A x \in Held(H) : W[x] \in Below(T, n + 2)
      BY <1>0, <1>5, <2>1 DEF Found
    <2>5. D \in Below(T, n + 2)
      BY <1>0, <1>5, <2>2 DEF Found
    <2>6. n + 2 = (n + 1) + 1
      BY <1>1
    <2> QED
      BY <1>1, <1>4, <2>3, <2>4, <2>5, <2>6, Zenon DEF Found
  <1>7. \A i \in 1 .. n : /\ Left(T, W, i) = Left(S, V, i)
                          /\ LeftCbrk(T, D, i) = LeftCbrk(S, C, i)
    BY <1>0, <1>1 DEF Left, LeftCbrk
  <1>8. Left(T, W, n + 1) = W /\ LeftCbrk(T, D, n + 1) = D
    BY <1>1 DEF Left, LeftCbrk
  <1>9. 1 .. n + 1 = (1 .. n) \cup {n + 1}
    BY <1>1
  <1>10. Linked(H, T, W, D)
    BY <1>0, <1>1, <1>7, <1>8, <1>9 DEF Linked
  <1>11. TimerOwner(H, T, W, on)
    BY <1>0, <1>1, <1>7, <1>8, <1>9 DEF TimerOwner
  <1> QED
    BY <1>3, <1>6, <1>10, <1>11

(* The innermost program changes what it has saved and the vectors. *)
LEMMA ReplaceKeeps ==
  ASSUME Typed(progs, vec, cbrk, itimer_on, started),
         Ordered(progs, started), Found(practice, progs, vec, cbrk),
         Linked(practice, progs, vec, cbrk),
         TimerOwner(practice, progs, vec, itimer_on),
         progs # <<>>,
         NEW q \in Program, vec' \in [Vector -> Target], cbrk' \in Target,
         q.id = Me.id, q.saw = Me.saw, q.sawCbrk = Me.sawCbrk,
         Right(practice, q, vec', cbrk'),
         "tidy" \in practice /\ ArmedBy(q, vec') => itimer_on',
         "tidy" \in practice =>
           \A i \in 1 .. Len(progs) - 1 :
             ArmedBy(progs[i], Left(progs, vec, i)) => itimer_on' /\ q.old_timer = Void,
         progs' = Append(Others, q)
  PROVE  /\ Ordered(progs', started) /\ Found(practice, progs', vec', cbrk')
         /\ Linked(practice, progs', vec', cbrk')
         /\ TimerOwner(practice, progs', vec', itimer_on')
  <1> DEFINE n == Len(progs)
             R == SubSeq(progs, 1, Len(progs) - 1)
  <1>0. n = Len(progs) /\ progs \in Seq(Program) /\ Me = progs[n]
    BY DEF Typed, Me
  <1>1. /\ n \in Nat /\ n >= 1 /\ R \in Seq(Program) /\ Len(R) = n - 1
        /\ \A i \in 1 .. n - 1 : R[i] = progs[i]
        /\ \A i \in 1 .. n : progs[i] \in Program
    BY <1>0, TopFields
  <1>2. /\ progs' \in Seq(Program) /\ Len(progs') = n /\ progs'[n] = q
        /\ \A i \in 1 .. n - 1 : progs'[i] = progs[i]
    <2> HIDE DEF R, n
    <2>1. progs' = Append(R, q)
      BY DEF R, Others
    <2> QED
      BY <1>1, <2>1, AppendFields
  <1> HIDE DEF n, R
  <1>3. \A i \in 1 .. n : /\ progs'[i].id = progs[i].id /\ progs'[i].saw = progs[i].saw
                          /\ progs'[i].sawCbrk = progs[i].sawCbrk
    <2>1. \A i \in 1 .. n : i = n \/ i \in 1 .. n - 1
      BY <1>1
    <2> QED
      BY <1>0, <1>2, <2>1, Zenon
  <1>4. Ordered(progs', started)
    <2>1. \A i \in 1 .. n : progs'[i].id = progs[i].id
      BY <1>3
    <2> QED
      BY <1>0, <1>2, <2>1 DEF Ordered
  <1>5. \A i \in 1 .. n + 1 : Below(progs', i) = Below(progs, i)
    <2>1. \A j \in 1 .. n : progs'[j].id = progs[j].id
      BY <1>3
    <2>2. \A i \in 1 .. n + 1 : \A j \in 1 .. i - 1 : j \in 1 .. n
      BY <1>1
    <2> QED
      BY <2>1, <2>2, Zenon DEF Below
  <1>6. q.id \in Below(progs, n + 1)
    BY <1>0, <1>1 DEF Below
  <1>7. Below(progs, n) \subseteq Below(progs, n + 1)
    BY <1>0, <1>1 DEF Below
  <1>8. Found(practice, progs', vec', cbrk')
    <2>0. /\ \A x \in Held(practice) : Me.saw[x] \in Below(progs, n)
          /\ Me.sawCbrk \in Below(progs, n)
      BY <1>0, <1>1 DEF Found
    <2>1. \A x \in Held(practice) : vec'[x] = q.id \/ vec'[x] = Me.saw[x]
      BY RightLeaves
    <2>2. cbrk' = q.id \/ cbrk' = Me.sawCbrk
      BY RightLeavesCbrk
    <2>3. \A x \in Held(practice) : vec'[x] \in Below(progs, n + 1)
      BY <1>6, <1>7, <2>0, <2>1
    <2>4. cbrk' \in Below(progs, n + 1)
      BY <1>6, <1>7, <2>0, <2>2
    <2> QED
      <3>1. \A i \in 1 .. n : /\ \A x \in Held(practice) : progs'[i].saw[x] \in Below(progs, i)
                              /\ progs'[i].sawCbrk \in Below(progs, i)
        BY <1>0, <1>3 DEF Found
      <3>2. \A i \in 1 .. n : i \in 1 .. n + 1
        BY <1>1
      <3>3. n + 1 \in 1 .. n + 1
        BY <1>1
      <3> QED
        BY <1>2, <1>5, <2>3, <2>4, <3>1, <3>2, <3>3, Zenon DEF Found
  <1>9. \A i \in 1 .. n - 1 : /\ Left(progs', vec', i) = Left(progs, vec, i)
                              /\ LeftCbrk(progs', cbrk', i) = LeftCbrk(progs, cbrk, i)
    BY <1>0, <1>1, <1>2, <1>3 DEF Left, LeftCbrk
  <1>10. Left(progs', vec', n) = vec' /\ LeftCbrk(progs', cbrk', n) = cbrk'
    BY <1>2 DEF Left, LeftCbrk
  <1>11. 1 .. n = (1 .. n - 1) \cup {n}
    BY <1>1
  <1>12. Linked(practice, progs', vec', cbrk')
    <2>1. \A i \in 1 .. n - 1 :
            Right(practice, progs'[i], Left(progs', vec', i), LeftCbrk(progs', cbrk', i))
      BY <1>0, <1>2, <1>9, <1>11 DEF Linked
    <2>2. Right(practice, progs'[n], Left(progs', vec', n), LeftCbrk(progs', cbrk', n))
      BY <1>2, <1>10
    <2> QED
      BY <1>2, <1>11, <2>1, <2>2 DEF Linked
  <1>13. TimerOwner(practice, progs', vec', itimer_on')
    <2> SUFFICES ASSUME "tidy" \in practice, NEW i \in 1 .. n,
                        ArmedBy(progs'[i], Left(progs', vec', i))
                 PROVE  itimer_on' /\ \A j \in 1 .. n : i < j => progs'[j].old_timer = Void
      BY <1>2, Zenon DEF TimerOwner
    <2>1. CASE i = n
      BY <1>1, <1>2, <1>10, <2>1
    <2>2. CASE i \in 1 .. n - 1
      <3>1. ArmedBy(progs[i], Left(progs, vec, i))
        BY <1>2, <1>9, <2>2
      <3>2. itimer_on' /\ q.old_timer = Void
        BY <1>0, <2>2, <3>1
      <3>3. \A j \in 1 .. n : i < j => progs[j].old_timer = Void
        BY <1>0, <3>1 DEF TimerOwner
      <3> QED
        BY <1>1, <1>2, <1>11, <3>2, <3>3
    <2> QED
      BY <1>11, <2>1, <2>2
  <1> QED
    BY <1>4, <1>8, <1>12, <1>13

(* The innermost program ends and leaves what it found. *)
LEMMA PopKeeps ==
  ASSUME Typed(progs, vec, cbrk, itimer_on, started),
         Ordered(progs, started), Found(practice, progs, vec, cbrk),
         Linked(practice, progs, vec, cbrk),
         TimerOwner(practice, progs, vec, itimer_on),
         progs # <<>>, vec' \in [Vector -> Target], cbrk' \in Target,
         \A x \in Held(practice) : vec'[x] = Me.saw[x], cbrk' = Me.sawCbrk,
         progs' = Others
  PROVE  /\ Ordered(progs', started) /\ Found(practice, progs', vec', cbrk')
         /\ Linked(practice, progs', vec', cbrk')
         /\ TimerOwner(practice, progs', vec', itimer_on)
  <1> DEFINE n == Len(progs)
  <1>0. /\ n = Len(progs) /\ progs \in Seq(Program) /\ Me = progs[n]
        /\ progs' = SubSeq(progs, 1, Len(progs) - 1)
    BY DEF Typed, Me, Others
  <1>1. /\ n \in Nat /\ n >= 1 /\ progs' \in Seq(Program) /\ Len(progs') = n - 1
        /\ \A i \in 1 .. n - 1 : progs'[i] = progs[i]
        /\ \A i \in 1 .. n : progs[i] \in Program
    BY <1>0, TopFields
  <1> HIDE DEF n
  <1>2. Ordered(progs', started)
    BY <1>0, <1>1 DEF Ordered
  <1>3. \A i \in 1 .. n : Below(progs', i) = Below(progs, i)
    BY <1>1 DEF Below
  <1>4. Found(practice, progs', vec', cbrk')
    <2>1. /\ \A x \in Held(practice) : Me.saw[x] \in Below(progs, n)
          /\ Me.sawCbrk \in Below(progs, n)
      BY <1>0, <1>1 DEF Found
    <2>2. \A i \in 1 .. n - 1 : /\ \A x \in Held(practice) : progs'[i].saw[x] \in Below(progs, i)
                                /\ progs'[i].sawCbrk \in Below(progs, i)
      BY <1>0, <1>1 DEF Found
    <2>3. (n - 1) + 1 = n /\ n \in 1 .. n /\ \A i \in 1 .. n - 1 : i \in 1 .. n
      BY <1>1
    <2> QED
      BY <1>1, <1>3, <2>1, <2>2, <2>3, Zenon DEF Found
  <1>5. \A i \in 1 .. n - 1 :
          /\ \A x \in Held(practice) : Left(progs', vec', i)[x] = Left(progs, vec, i)[x]
          /\ LeftCbrk(progs', cbrk', i) = LeftCbrk(progs, cbrk, i)
    BY <1>0, <1>1 DEF Left, LeftCbrk
  <1>6. Linked(practice, progs', vec', cbrk')
    <2> SUFFICES ASSUME NEW i \in 1 .. n - 1
                 PROVE  Right(practice, progs'[i], Left(progs', vec', i), LeftCbrk(progs', cbrk', i))
      BY <1>1 DEF Linked
    <2>1. Right(practice, progs[i], Left(progs, vec, i), LeftCbrk(progs, cbrk, i))
      BY <1>0, <1>1 DEF Linked
    <2> QED
      BY <1>1, <1>5, <2>1, RightAgrees
  <1>7. TimerOwner(practice, progs', vec', itimer_on)
    <2> SUFFICES ASSUME "tidy" \in practice, NEW i \in 1 .. n - 1, ArmedBy(progs'[i], Left(progs', vec', i))
                 PROVE  itimer_on /\ \A j \in 1 .. n - 1 : i < j => progs'[j].old_timer = Void
      BY <1>1, Zenon DEF TimerOwner
    <2>1. Left(progs', vec', i).timer = Left(progs, vec, i).timer
      BY <1>5 DEF Held, Vector
    <2>2. ArmedBy(progs[i], Left(progs, vec, i))
      BY <1>1, <2>1 DEF ArmedBy
    <2>3. itimer_on /\ \A j \in 1 .. n : i < j => progs[j].old_timer = Void
      BY <1>0, <1>1, <2>2 DEF TimerOwner
    <2> QED
      BY <1>1, <2>3
  <1> QED
    BY <1>2, <1>4, <1>6, <1>7

(* Every real mode callback that is allocated belongs to a live program    *)
(* that has it hooked.                                                     *)
LEMMA OrderedTop ==
  ASSUME NEW S \in Seq(Program), S # <<>>, NEW s, Ordered(S, s)
  PROVE  \A i \in 1 .. Len(S) - 1 : S[i].id # S[Len(S)].id
  <1>1. /\ Len(S) \in 1 .. Len(S)
        /\ \A i \in 1 .. Len(S) - 1 : i \in 1 .. Len(S) /\ i < Len(S)
    BY TopFields
  <1>2. \A i \in 1 .. Len(S) : S[i] \in Program
    OBVIOUS
  <1>3. \A i \in 1 .. Len(S) : S[i].id \in Int
    BY <1>2, VectorConstantsOK DEF Program, Prog
  <1> QED
    BY <1>1, <1>3 DEF Ordered

LEMMA OwnedPush ==
  ASSUME NEW S \in Seq(Program), NEW s \in Nat, Ordered(S, s), NEW B, Owned(S, B),
         NEW q \in Program, q.id = s + 1, q.hooked,
         NEW T, T = Append(S, q)
  PROVE  Owned(T, B \cup {q.id})
  <1> DEFINE n == Len(S)
  <1>1. /\ n \in Nat /\ Len(T) = n + 1 /\ T[n + 1] = q
        /\ \A i \in 1 .. n : T[i] = S[i] /\ i \in 1 .. n + 1
        /\ 1 .. n + 1 = (1 .. n) \cup {n + 1}
    BY AppendFields
  <1>2. n = Len(S)
    OBVIOUS
  <1> HIDE DEF n
  <1>3. \A i \in 1 .. n : S[i].id # q.id
    BY <1>1, <1>2 DEF Ordered, Program, Prog
  <1>4. \A i \in 1 .. n : S[i].hooked <=> S[i].id \in B \cup {q.id}
    BY <1>2, <1>3, Zenon DEF Owned
  <1>5. \A b \in B : \E i \in 1 .. n : b = S[i].id
    BY <1>2 DEF Owned
  <1>6. \A i \in 1 .. n + 1 : T[i].hooked <=> T[i].id \in B \cup {q.id}
    BY <1>1, <1>4, Zenon
  <1>7. \A b \in B \cup {q.id} : \E i \in 1 .. n + 1 : b = T[i].id
    BY <1>1, <1>5
  <1> QED
    BY <1>1, <1>6, <1>7, Zenon DEF Owned

LEMMA OwnedReplace ==
  ASSUME NEW S \in Seq(Program), S # <<>>, NEW s \in Nat, Ordered(S, s),
         NEW B, Owned(S, B),
         NEW p, p = S[Len(S)],
         NEW q \in Program, q.id = p.id,
         NEW A, q.hooked <=> q.id \in A,
         A \ {p.id} = B \ {p.id},
         NEW T, T = Append(SubSeq(S, 1, Len(S) - 1), q)
  PROVE  Owned(T, A)
  <1> DEFINE n == Len(S)
             R == SubSeq(S, 1, Len(S) - 1)
  <1>0. n = Len(S)
    OBVIOUS
  <1>1. /\ n \in Nat /\ n >= 1 /\ n \in 1 .. n
        /\ R \in Seq(Program) /\ Len(R) = n - 1
        /\ \A i \in 1 .. n - 1 : R[i] = S[i]
        /\ \A i \in 1 .. n : S[i] \in Program
    BY TopFields
  <1> HIDE DEF n, R
  <1>2. T = Append(R, q)
    BY DEF R
  <1>3. /\ Len(T) = n /\ T[n] = q
        /\ \A i \in 1 .. n - 1 : T[i] = S[i]
    BY <1>1, <1>2, AppendFields
  <1>4. \A i \in 1 .. n - 1 : S[i].id # p.id
    BY <1>0, OrderedTop
  <1>5. \A i \in 1 .. n - 1 : S[i].hooked <=> S[i].id \in B
    BY <1>0, <1>1 DEF Owned
  <1>6. \A i \in 1 .. n - 1 : S[i].hooked <=> S[i].id \in A
    BY <1>4, <1>5, Zenon
  <1>7. \A i \in 1 .. n : i = n \/ i \in 1 .. n - 1
    BY <1>1
  <1>8. \A i \in 1 .. n : T[i].hooked <=> T[i].id \in A
    <2> SUFFICES ASSUME NEW i \in 1 .. n
                 PROVE  T[i].hooked <=> T[i].id \in A
      OBVIOUS
    <2>1. CASE i = n
      <3>1. T[i] = q
        BY <1>3, <2>1
      <3> QED
        BY <3>1, Zenon
    <2>2. CASE i \in 1 .. n - 1
      BY <1>3, <1>6, <2>2, Zenon
    <2> QED
      BY <1>7, <2>1, <2>2
  <1>9. \A b \in A : \E i \in 1 .. n : b = T[i].id
    BY <1>0, <1>1, <1>3, <1>7 DEF Owned
  <1> QED
    BY <1>3, <1>8, <1>9, Zenon DEF Owned

LEMMA OwnedPop ==
  ASSUME NEW S \in Seq(Program), S # <<>>, NEW s \in Nat, Ordered(S, s),
         NEW B, Owned(S, B),
         NEW p, p = S[Len(S)],
         NEW T, T = SubSeq(S, 1, Len(S) - 1)
  PROVE  Owned(T, B \ {p.id})
  <1> DEFINE n == Len(S)
  <1>0. n = Len(S)
    OBVIOUS
  <1>1. /\ n \in Nat /\ n >= 1 /\ n \in 1 .. n /\ Len(T) = n - 1
        /\ \A i \in 1 .. n - 1 : T[i] = S[i]
        /\ \A i \in 1 .. n : S[i] \in Program
    BY TopFields
  <1> HIDE DEF n
  <1>4. \A i \in 1 .. n - 1 : S[i].id # p.id
    BY <1>0, OrderedTop
  <1>5. \A i \in 1 .. n - 1 : S[i].hooked <=> S[i].id \in B
    BY <1>0, <1>1 DEF Owned
  <1>6. \A i \in 1 .. n - 1 : T[i].hooked <=> T[i].id \in B \ {p.id}
    BY <1>1, <1>4, <1>5, Zenon
  <1>7. \A i \in 1 .. n : i = n \/ i \in 1 .. n - 1
    BY <1>1
  <1>9. \A b \in B \ {p.id} : \E i \in 1 .. n - 1 : b = T[i].id
    BY <1>0, <1>1, <1>7 DEF Owned
  <1> QED
    BY <1>1, <1>6, <1>9, Zenon DEF Owned

(* What the invariant says of the innermost program. *)
LEMMA TopRight ==
  ASSUME VInv, progs # <<>>
  PROVE  /\ Me \in Program
         /\ Right(practice, Me, vec, cbrk)
         /\ Me.saw.kbd # Me.id
         /\ "tidy" \in practice => Me.saw.timer \notin {Me.id, Void}
         /\ "tidy" \in practice /\ ArmedBy(Me, vec) => itimer_on
         /\ Me.hooked <=> Me.id \in callbacks
         /\ Me.id \in Prog
  <1> DEFINE n == Len(progs)
  <1>1. /\ progs \in Seq(Program) /\ n \in Nat /\ n \in 1 .. n /\ Me \in Program
        /\ \A i \in 1 .. n : progs[i] \in Program
    BY TopFields DEF VInv, VectorsTypeOK, Me
  <1>2. Right(practice, Me, vec, cbrk)
    BY <1>1 DEF VInv, Linked, Left, LeftCbrk, Me
  <1>3. \A x \in Held(practice) : Me.saw[x] \in Below(progs, n)
    BY <1>1 DEF VInv, Found, Me
  <1>4. Host \notin {Me.id, Void} /\ Me.id \in Prog
    BY <1>1 DEF Program, Prog, Host, Void
  <1>5. \A i \in 1 .. n - 1 : progs[i].id \notin {Me.id, Void}
    BY <1>1 DEF VInv, Ordered, Me, Program, Prog, Void
  <1>6. \A y \in Below(progs, n) : y \notin {Me.id, Void}
    BY <1>4, <1>5, Zenon DEF Below
  <1>7. Me.saw.kbd # Me.id
    BY <1>3, <1>6 DEF Held, Vector
  <1>8. "tidy" \in practice => Me.saw.timer \notin {Me.id, Void}
    BY <1>3, <1>6 DEF Held, Vector
  <1>9. "tidy" \in practice /\ ArmedBy(Me, vec) => itimer_on
    BY <1>1 DEF VInv, TimerOwner, Left, Me
  <1>10. Me.hooked <=> Me.id \in callbacks
    BY <1>1 DEF VInv, Owned, Me
  <1> QED
    BY <1>1, <1>2, <1>4, <1>7, <1>8, <1>9, <1>10, Zenon

(* A lemma on types: Owned says the rest of what VectorsTypeOK says.              *)
LEMMA TypeOwned ==
  ASSUME Typed(progs, vec, cbrk, itimer_on, started), Owned(progs, callbacks)
  PROVE  VectorsTypeOK
  <1>1. /\ DOMAIN progs = 1 .. Len(progs)
        /\ \A i \in 1 .. Len(progs) : progs[i] \in Program
    BY LenProperties DEF Typed
  <1>2. callbacks \subseteq Prog
    BY <1>1 DEF Owned, Program
  <1>3. \A i \in DOMAIN progs : progs[i].hooked <=> progs[i].id \in callbacks
    BY <1>1, Zenon DEF Owned
  <1> QED
    BY <1>2, <1>3, Zenon DEF Typed, VectorsTypeOK

LEMMA TypesPrimed ==
  ASSUME Typed(progs', vec', cbrk', itimer_on', started'), Owned(progs', callbacks')
  PROVE  VectorsTypeOK'
  <1>1. /\ DOMAIN progs' = 1 .. Len(progs')
        /\ \A i \in 1 .. Len(progs') : progs'[i] \in Program
    BY LenProperties DEF Typed
  <1>2. callbacks' \subseteq Prog
    BY <1>1 DEF Owned, Program
  <1>3. \A i \in DOMAIN progs' : progs'[i].hooked <=> progs'[i].id \in callbacks'
    BY <1>1, Zenon DEF Owned
  <1> QED
    BY <1>2, <1>3, Zenon DEF Typed, VectorsTypeOK

(* The invariant at the next state, from its parts. *)
LEMMA VInvPrimed ==
  ASSUME Typed(progs', vec', cbrk', itimer_on', started'), Owned(progs', callbacks'),
         practice' = practice,
         Ordered(progs', started'), Found(practice, progs', vec', cbrk'),
         Linked(practice, progs', vec', cbrk'),
         TimerOwner(practice, progs', vec', itimer_on')
  PROVE  VInv'
  BY TypesPrimed, Zenon DEF VInv

LEMMA VInvTypes ==
  ASSUME VInv
  PROVE  /\ Typed(progs, vec, cbrk, itimer_on, started)
         /\ progs \in Seq(Program) /\ vec \in [Vector -> Target] /\ cbrk \in Target
         /\ started \in Nat /\ started <= MaxStarts /\ MaxStarts \in Nat
  <1>1. started \in 0 .. MaxStarts /\ MaxStarts \in Nat
    BY VectorConstantsOK DEF VInv, VectorsTypeOK
  <1>2. started \in Nat /\ started <= MaxStarts
    BY <1>1
  <1> QED
    BY <1>1, <1>2, Zenon DEF VInv, VectorsTypeOK, Typed

LEMMA VectorsInitHolds ==
  ASSUME VectorsInit
  PROVE  VInv
  <1>1. Typed(progs, vec, cbrk, itimer_on, started)
    <2>1. vec \in [Vector -> Target] /\ cbrk \in Target
      BY DEF VectorsInit, Target
    <2>2. itimer_on \in BOOLEAN
      BY Zenon DEF VectorsInit
    <2>3. started \in 0 .. MaxStarts
      BY VectorConstantsOK DEF VectorsInit
    <2>4. progs \in Seq(Program)
      BY EmptySeq DEF VectorsInit
    <2> QED
      BY <2>1, <2>2, <2>3, <2>4, Zenon DEF Typed
  <1>2. Len(progs) = 0
    BY DEF VectorsInit
  <1>3. Owned(progs, callbacks)
    BY <1>2 DEF VectorsInit, Owned
  <1>4. Found(practice, progs, vec, cbrk)
    BY <1>2 DEF VectorsInit, Found, Below, Held
  <1> QED
    BY <1>1, <1>2, <1>3, <1>4, TypeOwned
       DEF VInv, Ordered, Linked, TimerOwner

(* __djgpp_exception_setup(): before the toggle the program looks like one *)
(* whose handlers are toggled out.                                         *)
LEMMA StartKeeps ==
  ASSUME VInv, Start, practice' = practice
  PROVE  VInv'
  <1> DEFINE n == started + 1
             ori == [exc |-> n, nmi |-> n, kbd |-> n, timer |-> vec.timer]
             rec == [id |-> n, ori |-> ori, old_kbd |-> vec.kbd, old_timer |-> Void,
                     hooked |-> FALSE, cbrk_ori |-> Void,
                     saw |-> vec, sawCbrk |-> cbrk]
  <1>1. /\ Typed(progs, vec, cbrk, itimer_on, started)
        /\ progs \in Seq(Program) /\ vec \in [Vector -> Target] /\ cbrk \in Target
        /\ started \in Nat /\ started <= MaxStarts /\ MaxStarts \in Nat
    BY VInvTypes
  <1>2. /\ started < MaxStarts /\ started' = started + 1 /\ itimer_on' = itimer_on
        /\ vec' = ToggledVec(rec, vec) /\ cbrk' = ToggledCbrk(rec, cbrk)
        /\ callbacks' = ToggledCallbacks(rec, callbacks)
        /\ progs' = Append(progs, ToggledProg(rec, vec, cbrk))
    BY Zenon DEF Start, Toggle
  <1>3. n \in Prog /\ Void \in Target /\ n \in Target
    BY <1>1, <1>2 DEF Prog, Target
  <1>4. ori \in [Vector -> Target]
    BY <1>1, <1>3 DEF Vector
  <1>5. PICK p \in Program :
          /\ p = rec
          /\ p.id = n /\ p.ori.exc = n /\ p.ori.nmi = n /\ p.ori.kbd = n
          /\ p.ori.timer = vec.timer /\ p.old_kbd = vec.kbd /\ p.old_timer = Void
          /\ ~p.hooked /\ p.cbrk_ori = Void /\ p.saw = vec /\ p.sawCbrk = cbrk
    <2>1. ori.exc = n /\ ori.nmi = n /\ ori.kbd = n /\ ori.timer = vec.timer
      OBVIOUS
    <2> HIDE DEF n, ori
    <2>2. vec.kbd \in Target
      BY <1>1 DEF Vector
    <2>3. rec \in Program
      BY <1>1, <1>3, <1>4, <2>2 DEF Program
    <2> QED
      BY <2>1, <2>3
  <1> HIDE DEF rec, ori
  <1>6. \A y \in Below(progs, Len(progs) + 1) : y # n /\ y # Void
    <2>1. n # 0 /\ n # Void /\ Void # 0
      BY <1>1 DEF Void
    <2>2. \A i \in 1 .. Len(progs) : progs[i].id # n /\ progs[i].id # Void
      <3>1. \A i \in 1 .. Len(progs) : progs[i] \in Program
        BY <1>1
      <3> QED
        BY <1>1, <3>1 DEF VInv, Ordered, Program, Prog, Void
    <2>3. (Len(progs) + 1) - 1 = Len(progs)
      BY <1>1
    <2> QED
      BY <2>1, <2>2, <2>3, Zenon DEF Below, Host
  <1>7. /\ vec.kbd # n
        /\ "tidy" \in practice => vec.timer \notin {n, Void}
    BY <1>6 DEF VInv, Found, Held, Vector
  <1>8. ~Intact(p)
    BY <1>5, <1>7 DEF Intact
  <1>9. Right(practice, p, vec, cbrk)
    BY <1>5, <1>8 DEF Right, Placed, TimerPlaced, CbrkPlaced
  <1>10. "tidy" \in practice => ~ArmedBy(p, vec)
    BY <1>5, <1>7 DEF ArmedBy
  <1>11. PICK q : q = ToggledProg(p, vec, cbrk)
    OBVIOUS
  <1>12. /\ q \in Program /\ q.id = n /\ q.saw = vec /\ q.sawCbrk = cbrk
         /\ q.old_timer = Void
    <2>1. /\ q \in Program /\ q.id = p.id /\ q.saw = p.saw /\ q.sawCbrk = p.sawCbrk
          /\ q.old_timer = p.old_timer
      BY <1>1, <1>11, ToggleFields
    <2> QED
      BY <1>5, <2>1
  <1>13. q.hooked
    BY <1>1, <1>5, <1>11, ToggleHooked
  <1>14. vec' = ToggledVec(p, vec) /\ cbrk' = ToggledCbrk(p, cbrk)
    BY <1>2, <1>5
  <1>15. Right(practice, q, vec', cbrk')
    BY <1>1, <1>5, <1>7, <1>9, <1>11, <1>14, ToggleRight
  <1>16. "tidy" \in practice => ~ArmedBy(q, vec')
    BY <1>1, <1>5, <1>7, <1>9, <1>10, <1>11, <1>14, ToggleRight
  <1>17. vec' \in [Vector -> Target]
    BY <1>1, <1>14, ToggleVector
  <1>18. cbrk' \in Target /\ callbacks' = callbacks \cup {q.id}
    BY <1>2, <1>3, <1>5, <1>12 DEF ToggledCbrk, ToggledCallbacks
  <1>19. progs' = Append(progs, q)
    BY <1>2, <1>5, <1>11
  <1> HIDE DEF n
  <1>20. n = started + 1
    BY DEF n
  <1>21. /\ Ordered(progs', started') /\ Found(practice, progs', vec', cbrk')
         /\ Linked(practice, progs', vec', cbrk')
         /\ TimerOwner(practice, progs', vec', itimer_on')
    BY <1>1, <1>2, <1>12, <1>15, <1>16, <1>17, <1>18, <1>19, <1>20, PushKeeps
       DEF VInv
  <1>22. Owned(progs', callbacks')
    BY <1>1, <1>12, <1>13, <1>18, <1>19, <1>20, OwnedPush DEF VInv
  <1>23. Typed(progs', vec', cbrk', itimer_on', started')
    BY <1>1, <1>2, <1>12, <1>17, <1>18, <1>19, AppendFields DEF Typed
  <1> QED
    BY <1>21, <1>22, <1>23, VInvPrimed

(* __djgpp_exception_toggle() of the innermost program. *)
LEMMA TogglesKeep ==
  ASSUME VInv, toggle, practice' = practice
  PROVE  VInv'
  <1>1. /\ Typed(progs, vec, cbrk, itimer_on, started)
        /\ progs \in Seq(Program) /\ vec \in [Vector -> Target] /\ cbrk \in Target
        /\ started \in Nat
    BY VInvTypes
  <1>2. /\ progs # <<>> /\ itimer_on' = itimer_on /\ started' = started
        /\ vec' = ToggledVec(Me, vec) /\ cbrk' = ToggledCbrk(Me, cbrk)
        /\ callbacks' = ToggledCallbacks(Me, callbacks)
        /\ progs' = Append(Others, ToggledProg(Me, vec, cbrk))
    BY Zenon DEF toggle, Toggle
  <1>3. PICK p \in Program : p = Me
    BY <1>2, TopRight
  <1>4. /\ Right(practice, p, vec, cbrk) /\ p.saw.kbd # p.id
        /\ "tidy" \in practice => p.saw.timer \notin {p.id, Void}
    BY <1>2, <1>3, TopRight
  <1>5. "tidy" \in practice /\ ArmedBy(p, vec) => itimer_on
    BY <1>2, <1>3, TopRight
  <1>6. (p.hooked <=> p.id \in callbacks) /\ p.id \in Prog
    BY <1>2, <1>3, TopRight
  <1>7. PICK q : q = ToggledProg(p, vec, cbrk)
    OBVIOUS
  <1>8. /\ q \in Program /\ q.id = p.id /\ q.saw = p.saw /\ q.sawCbrk = p.sawCbrk
        /\ q.old_timer = p.old_timer
    BY <1>1, <1>7, ToggleFields
  <1>9. q.hooked <=> ~p.hooked
    BY <1>7, ToggleHooked
  <1>10. vec' = ToggledVec(p, vec) /\ cbrk' = ToggledCbrk(p, cbrk)
    BY <1>2, <1>3
  <1>11. Right(practice, q, vec', cbrk')
    BY <1>1, <1>4, <1>7, <1>10, ToggleRight
  <1>12. "tidy" \in practice /\ ArmedBy(q, vec') => itimer_on'
    BY <1>1, <1>2, <1>4, <1>5, <1>7, <1>10, ToggleRight
  <1>13. vec' \in [Vector -> Target]
    BY <1>1, <1>10, ToggleVector
  <1>14. cbrk' \in Target
    BY <1>6, <1>10 DEF ToggledCbrk, Target, Program
  <1>15. /\ q.hooked <=> q.id \in callbacks'
         /\ callbacks' \ {p.id} = callbacks \ {p.id}
    BY <1>2, <1>3, <1>6, <1>8, <1>9, Zenon DEF ToggledCallbacks
  <1>16. progs' = Append(SubSeq(progs, 1, Len(progs) - 1), q) /\ p = progs[Len(progs)]
    BY <1>2, <1>3, <1>7 DEF Others, Me
  <1>17. "tidy" \in practice =>
           \A i \in 1 .. Len(progs) - 1 :
             ArmedBy(progs[i], Left(progs, vec, i)) => itimer_on' /\ q.old_timer = Void
    <2>1. /\ Len(progs) \in 1 .. Len(progs)
          /\ \A i \in 1 .. Len(progs) - 1 : i \in 1 .. Len(progs) /\ i < Len(progs)
      BY <1>1, <1>2, EmptySeq
    <2> QED
      BY <1>2, <1>8, <1>16, <2>1 DEF VInv, TimerOwner
  <1>18. /\ Ordered(progs', started') /\ Found(practice, progs', vec', cbrk')
         /\ Linked(practice, progs', vec', cbrk')
         /\ TimerOwner(practice, progs', vec', itimer_on')
    <2>1. /\ Ordered(progs, started) /\ Found(practice, progs, vec, cbrk)
          /\ Linked(practice, progs, vec, cbrk)
          /\ TimerOwner(practice, progs, vec, itimer_on)
      BY DEF VInv
    <2>2. /\ Ordered(progs', started) /\ Found(practice, progs', vec', cbrk')
          /\ Linked(practice, progs', vec', cbrk')
          /\ TimerOwner(practice, progs', vec', itimer_on')
      BY <1>1, <1>2, <1>3, <1>7, <1>8, <1>11, <1>12, <1>13, <1>14, <1>17, <2>1,
         ReplaceKeeps
    <2> QED
      BY <1>2, <2>2
  <1>19. Owned(progs', callbacks')
    BY <1>1, <1>2, <1>8, <1>15, <1>16, OwnedReplace DEF VInv
  <1>20. progs' \in Seq(Program)
    BY <1>1, <1>2, <1>8, <1>16, TopFields, AppendFields
  <1>21. Typed(progs', vec', cbrk', itimer_on', started')
    BY <1>1, <1>2, <1>13, <1>14, <1>20 DEF Typed
  <1> QED
    BY <1>18, <1>19, <1>21, VInvPrimed

(* _exit(): the handlers are toggled out if they are in place, and what    *)
(* the program found is in force.                                          *)
LEMMA ExitRestores ==
  ASSUME VInv, exit
  PROVE  /\ \A x \in Held(practice) : vec'[x] = Me.saw[x]
         /\ cbrk' = Me.sawCbrk
         /\ callbacks' = callbacks \ {Me.id}
         /\ vec' \in [Vector -> Target] /\ cbrk' \in Target
  <1>1. /\ progs \in Seq(Program) /\ vec \in [Vector -> Target] /\ cbrk \in Target
    BY VInvTypes
  <1>2. progs # <<>>
    BY DEF exit
  <1>3. PICK p \in Program : p = Me
    BY <1>2, TopRight
  <1>4. /\ Right(practice, p, vec, cbrk) /\ p.saw.kbd # p.id
        /\ "tidy" \in practice => p.saw.timer \notin {p.id, Void}
    BY <1>2, <1>3, TopRight
  <1>5. (p.hooked <=> p.id \in callbacks) /\ p.id \in Prog
    BY <1>2, <1>3, TopRight
  <1>6. p.hooked <=> Intact(p)
    BY <1>4 DEF Right, CbrkPlaced
  <1>7. CASE Intact(p)
    <2>1. /\ vec' = ToggledVec(p, vec) /\ cbrk' = ToggledCbrk(p, cbrk)
          /\ callbacks' = ToggledCallbacks(p, callbacks)
      BY <1>3, <1>7, Zenon DEF exit, Toggle
    <2>2. PICK q, w : q = ToggledProg(p, vec, cbrk) /\ w = ToggledVec(p, vec)
      OBVIOUS
    <2>3. /\ \A x \in Held(practice) : w[x] = p.saw[x]
          /\ ToggledCbrk(p, cbrk) = p.sawCbrk
      BY <1>1, <1>4, <1>7, <2>2, ToggleRight
    <2>4. w \in [Vector -> Target]
      BY <1>1, <2>2, ToggleVector
    <2>5. callbacks' = callbacks \ {p.id}
      BY <1>6, <1>7, <2>1 DEF ToggledCallbacks
    <2>6. p.sawCbrk \in Target
      BY DEF Program
    <2> QED
      BY <1>3, <2>1, <2>2, <2>3, <2>4, <2>5, <2>6
  <1>8. CASE ~Intact(p)
    <2>1. vec' = vec /\ cbrk' = cbrk /\ callbacks' = callbacks
      BY <1>3, <1>8, Zenon DEF exit
    <2>2. p.id \notin callbacks
      BY <1>5, <1>6, <1>8, Zenon
    <2>3. \A x \in Held(practice) : vec[x] = p.saw[x]
      BY <1>4, <1>8 DEF Right, Placed, TimerPlaced, Held, Vector
    <2>4. cbrk = p.sawCbrk
      BY <1>4, <1>8 DEF Right, CbrkPlaced
    <2> QED
      BY <1>1, <1>3, <2>1, <2>2, <2>3, <2>4
  <1> QED
    BY <1>7, <1>8

LEMMA ExitKeeps ==
  ASSUME VInv, exit, practice' = practice
  PROVE  VInv'
  <1>1. /\ Typed(progs, vec, cbrk, itimer_on, started)
        /\ progs \in Seq(Program) /\ vec \in [Vector -> Target] /\ cbrk \in Target
        /\ started \in Nat
    BY VInvTypes
  <1>2. progs # <<>> /\ itimer_on' = itimer_on /\ started' = started
    BY DEF exit
  <1>3. PICK p \in Program : p = Me
    BY <1>2, TopRight
  <1>4. /\ \A x \in Held(practice) : vec'[x] = p.saw[x]
        /\ cbrk' = p.sawCbrk /\ callbacks' = callbacks \ {p.id}
        /\ vec' \in [Vector -> Target] /\ cbrk' \in Target
    BY <1>3, ExitRestores
  <1>5. progs' = SubSeq(progs, 1, Len(progs) - 1) /\ p = progs[Len(progs)]
    BY <1>3 DEF exit, Others, Me
  <1>10. progs' = Others
    BY DEF exit
  <1>6. /\ Ordered(progs', started') /\ Found(practice, progs', vec', cbrk')
        /\ Linked(practice, progs', vec', cbrk')
        /\ TimerOwner(practice, progs', vec', itimer_on')
    <2>1. /\ Ordered(progs, started) /\ Found(practice, progs, vec, cbrk)
          /\ Linked(practice, progs, vec, cbrk)
          /\ TimerOwner(practice, progs, vec, itimer_on)
      BY DEF VInv
    <2>2. /\ Ordered(progs', started) /\ Found(practice, progs', vec', cbrk')
          /\ Linked(practice, progs', vec', cbrk')
          /\ TimerOwner(practice, progs', vec', itimer_on)
      BY <1>1, <1>2, <1>3, <1>4, <1>10, <2>1, PopKeeps
    <2> QED
      BY <1>2, <2>2
  <1>7. Owned(progs', callbacks')
    BY <1>1, <1>2, <1>4, <1>5, OwnedPop DEF VInv
  <1>8. progs' \in Seq(Program)
    BY <1>1, <1>2, <1>5, TopFields
  <1>9. Typed(progs', vec', cbrk', itimer_on', started')
    BY <1>1, <1>2, <1>4, <1>8 DEF Typed
  <1> QED
    BY <1>6, <1>7, <1>9, VInvPrimed

(* start_timer() puts the handler of the innermost program in the vector.  *)
(* That vector held what the program found: no handler of its own, since   *)
(* itimer_on would say so.                                                  *)
LEMMA StartTimerKeeps ==
  ASSUME VInv, start_timer, practice' = practice
  PROVE  VInv'
  <1>1. /\ Typed(progs, vec, cbrk, itimer_on, started)
        /\ progs \in Seq(Program) /\ vec \in [Vector -> Target] /\ cbrk \in Target
        /\ started \in Nat
    BY VInvTypes
  <1>2. /\ progs # <<>> /\ ~itimer_on /\ itimer_on' = TRUE /\ started' = started
        /\ "tidy" \in practice => Intact(Me)
        /\ progs' = Append(Others, [Me EXCEPT !.old_timer = vec.timer])
        /\ vec' = [vec EXCEPT !.timer = Me.id]
        /\ cbrk' = cbrk /\ callbacks' = callbacks
    BY Zenon DEF start_timer
  <1>3. PICK p \in Program : p = Me
    BY <1>2, TopRight
  <1>4. /\ Right(practice, p, vec, cbrk) /\ p.saw.kbd # p.id
        /\ "tidy" \in practice => p.saw.timer \notin {p.id, Void}
    BY <1>2, <1>3, TopRight
  <1>5. "tidy" \in practice => ~ArmedBy(p, vec)
    BY <1>2, <1>3, TopRight
  <1>6. (p.hooked <=> p.id \in callbacks) /\ p.id \in Prog
    BY <1>2, <1>3, TopRight
  <1>7. PICK q : q = [p EXCEPT !.old_timer = vec.timer]
    OBVIOUS
  <1>8. /\ q \in Program /\ q.id = p.id /\ q.saw = p.saw /\ q.sawCbrk = p.sawCbrk
        /\ q.old_timer = vec.timer /\ q.ori = p.ori /\ q.old_kbd = p.old_kbd
        /\ q.cbrk_ori = p.cbrk_ori
    BY <1>1, <1>7 DEF Program, Vector
  <1>9. q.hooked <=> p.hooked
    BY <1>7 DEF Program
  <1>10. /\ vec' \in [Vector -> Target] /\ vec'.timer = p.id
         /\ vec'.exc = vec.exc /\ vec'.kbd = vec.kbd /\ vec'.nmi = vec.nmi
    BY <1>1, <1>2, <1>3, <1>6 DEF Vector, Target
  <1>11. Intact(q) <=> Intact(p)
    BY <1>8 DEF Intact
  <1>12. ASSUME "tidy" \in practice
         PROVE  TimerPlaced(q, vec')
    <2>1. Intact(p) /\ Intact(q) /\ ~ArmedBy(p, vec) /\ TimerPlaced(p, vec)
      BY <1>2, <1>3, <1>4, <1>5, <1>11, <1>12 DEF Right
    <2>2. vec.timer = p.saw.timer /\ p.ori.timer = p.saw.timer /\ p.saw.timer # Void
      BY <1>4, <1>12, <2>1 DEF TimerPlaced, ArmedBy
    <2> QED
      BY <1>8, <1>10, <2>1, <2>2 DEF TimerPlaced
  <1>13. Right(practice, q, vec', cbrk')
    BY <1>2, <1>4, <1>8, <1>9, <1>10, <1>11, <1>12 DEF Right, Placed, CbrkPlaced
  <1>14. progs' = Append(Others, q)
    BY <1>2, <1>3, <1>7
  <1>15. "tidy" \in practice =>
           \A i \in 1 .. Len(progs) - 1 :
             ArmedBy(progs[i], Left(progs, vec, i)) => itimer_on' /\ q.old_timer = Void
    <2>1. \A i \in 1 .. Len(progs) - 1 : i \in 1 .. Len(progs)
      BY <1>1, <1>2, EmptySeq
    <2> QED
      BY <1>2, <2>1 DEF VInv, TimerOwner
  <1>16. /\ Ordered(progs', started) /\ Found(practice, progs', vec', cbrk')
         /\ Linked(practice, progs', vec', cbrk')
         /\ TimerOwner(practice, progs', vec', itimer_on')
    <2>1. /\ Ordered(progs, started) /\ Found(practice, progs, vec, cbrk)
          /\ Linked(practice, progs, vec, cbrk)
          /\ TimerOwner(practice, progs, vec, itimer_on)
      BY DEF VInv
    <2> QED
      BY <1>1, <1>2, <1>3, <1>8, <1>10, <1>13, <1>14, <1>15, <2>1, ReplaceKeeps
  <1>17. progs' = Append(SubSeq(progs, 1, Len(progs) - 1), q) /\ p = progs[Len(progs)]
    BY <1>3, <1>14 DEF Others, Me
  <1>18. Owned(progs', callbacks')
    <2>1. q.hooked <=> q.id \in callbacks'
      BY <1>2, <1>6, <1>8, <1>9, Zenon
    <2> QED
      BY <1>1, <1>2, <1>8, <1>17, <2>1, OwnedReplace DEF VInv
  <1>19. progs' \in Seq(Program)
    <2>1. SubSeq(progs, 1, Len(progs) - 1) \in Seq(Program)
      BY <1>1, <1>2, TopFields
    <2> QED
      BY <1>8, <1>17, <2>1, AppendFields
  <1>20. itimer_on' \in BOOLEAN
    BY <1>2, Zenon
  <1>21. Typed(progs', vec', cbrk', itimer_on', started')
    BY <1>1, <1>2, <1>10, <1>19, <1>20, Zenon DEF Typed
  <1> QED
    BY <1>2, <1>16, <1>18, <1>21, VInvPrimed

(* stop_timer() puts back __djgpp_old_timer.  A tidy program stops its own *)
(* timer, so that no program below has its handler in the vector.          *)
LEMMA StopTimerKeeps ==
  ASSUME VInv, stop_timer, practice' = practice
  PROVE  VInv'
  <1>1. /\ Typed(progs, vec, cbrk, itimer_on, started)
        /\ progs \in Seq(Program) /\ vec \in [Vector -> Target] /\ cbrk \in Target
        /\ started \in Nat
    BY VInvTypes
  <1>2. /\ progs # <<>> /\ itimer_on' = FALSE /\ started' = started
        /\ "tidy" \in practice => Intact(Me) /\ Me.old_timer # Void
        /\ vec' = [vec EXCEPT !.timer = Me.old_timer]
        /\ cbrk' = cbrk /\ callbacks' = callbacks /\ progs' = progs
    BY Zenon DEF stop_timer
  <1>3. PICK p \in Program : p = Me
    BY <1>2, TopRight
  <1>4. /\ Right(practice, p, vec, cbrk) /\ p.saw.kbd # p.id
        /\ "tidy" \in practice => p.saw.timer \notin {p.id, Void}
    BY <1>2, <1>3, TopRight
  <1>5. /\ vec' \in [Vector -> Target] /\ vec'.timer = p.old_timer
        /\ vec'.exc = vec.exc /\ vec'.kbd = vec.kbd /\ vec'.nmi = vec.nmi
    BY <1>1, <1>2, <1>3 DEF Vector, Program
  <1>6. ASSUME "tidy" \in practice
        PROVE  TimerPlaced(p, vec') /\ ~ArmedBy(p, vec')
    <2>1. Intact(p) /\ TimerPlaced(p, vec) /\ p.old_timer # Void
      BY <1>2, <1>3, <1>4, <1>6 DEF Right
    <2> QED
      BY <1>4, <1>5, <1>6, <2>1 DEF TimerPlaced, ArmedBy
  <1>7. Right(practice, p, vec', cbrk')
    BY <1>2, <1>4, <1>5, <1>6 DEF Right, Placed
  <1>8. progs' = Append(Others, p)
    <2>1. /\ Len(progs) \in Nat /\ Len(progs) >= 1
      BY <1>1, <1>2, EmptySeq
    <2>2. /\ Others \in Seq(Program) /\ Len(Others) = Len(progs) - 1
          /\ \A i \in 1 .. Len(progs) - 1 : Others[i] = progs[i]
      BY <1>1, <1>2, TopFields DEF Others
    <2>3. /\ Append(Others, p) \in Seq(Program) /\ Len(Append(Others, p)) = Len(progs)
          /\ Append(Others, p)[Len(progs)] = p
          /\ \A i \in 1 .. Len(progs) - 1 : Append(Others, p)[i] = progs[i]
      BY <2>1, <2>2, AppendFields
    <2>4. \A i \in 1 .. Len(progs) : Append(Others, p)[i] = progs[i]
      BY <1>3, <2>1, <2>3 DEF Me
    <2> QED
      BY <1>1, <1>2, <2>3, <2>4, SeqEqual
  <1>9. "tidy" \in practice =>
          \A i \in 1 .. Len(progs) - 1 : ~ArmedBy(progs[i], Left(progs, vec, i))
    <2>1. /\ Len(progs) \in 1 .. Len(progs)
          /\ \A i \in 1 .. Len(progs) - 1 : i \in 1 .. Len(progs) /\ i < Len(progs)
      BY <1>1, <1>2, EmptySeq
    <2> QED
      BY <1>2, <2>1 DEF VInv, TimerOwner, Me
  <1>10. /\ Ordered(progs', started) /\ Found(practice, progs', vec', cbrk')
         /\ Linked(practice, progs', vec', cbrk')
         /\ TimerOwner(practice, progs', vec', itimer_on')
    <2>1. /\ Ordered(progs, started) /\ Found(practice, progs, vec, cbrk)
          /\ Linked(practice, progs, vec, cbrk)
          /\ TimerOwner(practice, progs, vec, itimer_on)
      BY DEF VInv
    <2> QED
      BY <1>1, <1>2, <1>3, <1>5, <1>6, <1>7, <1>8, <1>9, <2>1, ReplaceKeeps
  <1>11. Owned(progs', callbacks')
    BY <1>2 DEF VInv
  <1>12. itimer_on' \in BOOLEAN
    BY <1>2, Zenon
  <1>13. Typed(progs', vec', cbrk', itimer_on', started')
    BY <1>1, <1>2, <1>5, <1>12, Zenon DEF Typed
  <1> QED
    BY <1>2, <1>10, <1>11, <1>13, VInvPrimed

-----------------------------------------------------------------------------
(* What every program has saved stays related to what it found, whatever   *)
(* programs start, toggle, use the timer and end.                          *)
THEOREM SavedVectors == VectorsSpec => []VInv
  <1>1. VectorsInit => VInv
    BY VectorsInitHolds
  <1>2. VInv /\ [VectorsNext]_vvars => VInv'
    <2> SUFFICES ASSUME VInv, [VectorsNext]_vvars
                 PROVE  VInv'
      OBVIOUS
    <2>1. CASE VectorsNext
      <3>1. practice' = practice
        BY <2>1 DEF VectorsNext
      <3>2. CASE Start
        BY <3>1, <3>2, StartKeeps
      <3>3. CASE toggle
        BY <3>1, <3>3, TogglesKeep
      <3>4. CASE start_timer
        BY <3>1, <3>4, StartTimerKeeps
      <3>5. CASE stop_timer
        BY <3>1, <3>5, StopTimerKeeps
      <3>6. CASE exit
        BY <3>1, <3>6, ExitKeeps
      <3> QED
        BY <2>1, <3>2, <3>3, <3>4, <3>5, <3>6 DEF VectorsNext
    <2>2. CASE UNCHANGED vvars
      BY <2>2, Zenon DEF vvars, VInv, VectorsTypeOK
    <2> QED
      BY <2>1, <2>2
  <1> QED
    BY <1>1, <1>2, PTL DEF VectorsSpec

(* Vector 0x24 stays with the program started last. *)
LEMMA CritStays == VectorsSpec => [](crit = started)
  <1>1. VectorsInit => crit = started
    BY DEF VectorsInit, Host
  <1>2. crit = started /\ [VectorsNext]_vvars => (crit = started)'
    BY DEF VectorsNext, Start, toggle, start_timer, stop_timer, exit, vvars
  <1> QED
    BY <1>1, <1>2, PTL DEF VectorsSpec

(* No vector that the programs keep right points to 0:0 or into a program  *)
(* that is gone, and no real mode callback outlives its program: _exit()   *)
(* of nested programs undoes what the toggle in __djgpp_exception_setup()  *)
(* did.  Vector 0x24, which is set there without the toggle, stays with    *)
(* the program started last.                                               *)
THEOREM VectorsLive == VectorsSpec => []NoVoid
  <1>1. VInv /\ crit = started => NoVoid
    <2> SUFFICES ASSUME VInv, crit = started
                 PROVE  NoVoid
      OBVIOUS
    <2>1. progs \in Seq(Program) /\ DOMAIN progs = 1 .. Len(progs) /\ Len(progs) \in Nat
      BY VInvTypes, LenProperties
    <2>2. (Len(progs) + 1) - 1 = Len(progs)
      BY <2>1
    <2>3. Below(progs, Len(progs) + 1) = Live
      BY <2>1, <2>2, Zenon DEF Below, Live
    <2>4. \A v \in Kept : vec[v] \in Live
      BY <2>3 DEF VInv, Found, Held, Kept
    <2>5. cbrk \in Live
      BY <2>3 DEF VInv, Found
    <2>6. callbacks \subseteq Live
      BY <2>1 DEF VInv, Owned, Live
    <2> QED
      BY <2>4, <2>5, <2>6 DEF NoVoid, VInv
  <1> QED
    BY <1>1, SavedVectors, CritStays, PTL

(* The end of a program leaves every vector that the toggle exchanges as   *)
(* the program found it.                                                   *)
THEOREM VectorsRestored == VectorsSpec => Restores
  <1> DEFINE Found0 == Len(progs') < Len(progs) =>
                         /\ \A v \in Kept : vec'[v] = Me.saw[v]
                         /\ cbrk' = Me.sawCbrk
  <1>1. VInv /\ [VectorsNext]_vvars => [Found0]_vvars
    <2> SUFFICES ASSUME VInv, VectorsNext, Len(progs') < Len(progs)
                 PROVE  /\ \A v \in Kept : vec'[v] = Me.saw[v]
                        /\ cbrk' = Me.sawCbrk
      BY DEF vvars
    <2>1. progs \in Seq(Program) /\ Len(progs) \in Nat
      BY VInvTypes
    <2>2. ASSUME Start PROVE FALSE
      <3>1. PICK q : progs' = Append(progs, q)
        BY <2>2, Zenon DEF Start
      <3> QED
        BY <2>1, <3>1, AppendLonger
    <2>3. ASSUME toggle \/ start_timer PROVE FALSE
      <3>1. progs # <<>> /\ \E q : progs' = Append(Others, q)
        BY <2>3, Zenon DEF toggle, start_timer
      <3>2. PICK q : progs' = Append(Others, q)
        BY <3>1
      <3>3. Others \in Seq(Program) /\ Len(Others) = Len(progs) - 1
        BY <2>1, <3>1, TopFields DEF Others
      <3>4. Len(progs') = Len(Others) + 1
        BY <3>2, <3>3, AppendLonger
      <3> QED
        BY <2>1, <3>3, <3>4
    <2>4. ASSUME stop_timer PROVE FALSE
      BY <2>1, <2>4 DEF stop_timer
    <2>5. exit
      BY <2>2, <2>3, <2>4 DEF VectorsNext
    <2> QED
      BY <2>5, ExitRestores DEF Held, Kept
  <1> QED
    BY <1>1, SavedVectors, PTL DEF VectorsSpec, Restores

-----------------------------------------------------------------------------
(* Arithmetic of ticks. *)
LEMMA Product ==
  ASSUME NEW a \in Int, NEW b \in Int, NEW T \in Nat \ {0}
  PROVE  /\ a * T \in Int
         /\ (a - 1) * T = a * T - T /\ (a + 1) * T = a * T + T
         /\ 0 * T = 0
         /\ a <= b => a * T <= b * T
  OBVIOUS

LEMMA Quotient ==
  ASSUME NEW a \in Int, NEW T \in Nat \ {0}
  PROVE  /\ a \div T \in Int
         /\ (a \div T) * T <= a /\ a < (a \div T) * T + T
  OBVIOUS

(***************************************************************************)
(* The inductive invariant.  SIGTIMR is due within a tick of every timer   *)
(* that is armed, and while no reload interval is used no timer that is    *)
(* left by timer_action() is due exactly now.                              *)
(***************************************************************************)
Times == [Which -> Int \cup {None}]
Frame == [due : SUBSET Which, todo : Seq({"SIGALRM", "SIGPROF"})]

Timers ==
  /\ exp \in Times /\ \A w \in Armed(exp) : exp[w] >= -MaxLate
  /\ rel \in [Which -> Nat]
  /\ timer_on \in BOOLEAN
  /\ countdown \in Int /\ (timer_on => countdown >= 0)
  /\ phase \in 1 .. TickLen

Bookkeeping ==
  /\ stack \in Seq(Frame) /\ Len(stack) <= MaxNest
  /\ inHandler \in BOOLEAN /\ dead \in BOOLEAN
  /\ calls \in 0 .. MaxCalls /\ lost \in 0 .. MaxLost /\ reloads \in BOOLEAN

OneShots == ~reloads => \A w \in Which : rel[w] = 0

(* The interrupt that finds the countdown at zero is not a tick too late. *)
InTime(c, ph, t) == c = 0 \/ ph + c * TickLen - TickLen < t

OnTime == timer_on /\ lost = 0 => \A w \in Armed(exp) : InTime(countdown, phase, exp[w])

IInv == Timers /\ Bookkeeping /\ OneShots /\ HookedWhileArmed /\ OnTime

-----------------------------------------------------------------------------
(* The next event is the earliest of the timers that are armed. *)
LEMMA NextEvent ==
  ASSUME NEW e \in Times, NEW n, n = GetNextEvent(e)
  PROVE  /\ n \in Int
         /\ Armed(e) = {} => n = 0
         /\ Armed(e) # {} => \E w \in Armed(e) : n = e[w]
         /\ \A w \in Armed(e) : n <= e[w]
  <1>1. CASE Armed(e) = {}
    BY <1>1 DEF GetNextEvent
  <1>2. CASE Armed(e) # {}
    <2> DEFINE S == {e[w] : w \in Armed(e)}
    <2>1. \A w \in Armed(e) : w \in Which /\ e[w] \in Int
      BY DEF Armed, Times
    <2>2. \E x \in S : \A y \in S : x <= y
      <3>1. CASE Armed(e) = Which
        <4>1. S = {e["REAL"], e["PROF"]} /\ e["REAL"] \in Int /\ e["PROF"] \in Int
          BY <2>1, <3>1 DEF Which
        <4>2. e["REAL"] <= e["PROF"] \/ e["PROF"] <= e["REAL"]
          BY <4>1
        <4> QED
          BY <4>1, <4>2
      <3>2. ASSUME NEW v \in Which, Armed(e) = {v} PROVE \E x \in S : \A y \in S : x <= y
        <4>1. S = {e[v]} /\ e[v] \in Int
          BY <2>1, <3>2
        <4> QED
          BY <4>1
      <3>3. Armed(e) = Which \/ \E v \in Which : Armed(e) = {v}
        BY <1>2, <2>1 DEF Which
      <3> QED
        BY <3>1, <3>2, <3>3
    <2>3. n = CHOOSE x \in S : \A y \in S : x <= y
      BY <1>2 DEF GetNextEvent, Min
    <2>4. n \in S /\ \A y \in S : n <= y
      BY <2>2, <2>3
    <2> QED
      BY <1>2, <2>1, <2>4
  <1> QED
    BY <1>1, <1>2

(* What start_timer() and timer_action() set the countdown to. *)
LEMMA CountdownFits ==
  ASSUME NEW n \in Int, NEW c, c = Countdown(n)
  PROVE  c \in Nat /\ (c = 0 \/ c * TickLen <= n - TickLen)
  <1>1. TickLen \in Nat \ {0}
    BY ITimerConstantsOK
  <1>2. CASE n >= TickLen
    <2>1. PICK q \in Int : q = n \div TickLen
      BY <1>1, Quotient
    <2>2. q * TickLen <= n /\ n < q * TickLen + TickLen
      BY <1>1, <2>1, Quotient
    <2>3. q >= 1
      <3>1. SUFFICES ASSUME q <= 0 PROVE FALSE
        BY <2>1
      <3>2. q * TickLen <= 0 * TickLen /\ 0 * TickLen = 0 /\ q * TickLen \in Int
        BY <1>1, <2>1, <3>1, Product
      <3> QED
        BY <1>1, <1>2, <2>2, <3>2
    <2>4. c = q - 1
      BY <1>2, <2>1 DEF Countdown
    <2>5. c * TickLen = q * TickLen - TickLen /\ q * TickLen \in Int
      BY <1>1, <2>1, <2>4, Product
    <2> QED
      BY <1>1, <2>2, <2>3, <2>4, <2>5
  <1>3. CASE ~(n >= TickLen)
    BY <1>3 DEF Countdown
  <1> QED
    BY <1>2, <1>3

(* With the countdown set for the next event every timer is in time. *)
LEMMA Scheduled ==
  ASSUME NEW e \in Times, NEW c, c = Countdown(GetNextEvent(e)), NEW ph \in 1 .. TickLen
  PROVE  c \in Nat /\ \A w \in Armed(e) : InTime(c, ph, e[w])
  <1>1. TickLen \in Nat \ {0}
    BY ITimerConstantsOK
  <1>2. PICK n \in Int : n = GetNextEvent(e)
    BY NextEvent
  <1>3. c \in Nat /\ (c = 0 \/ c * TickLen <= n - TickLen)
    BY <1>2, CountdownFits
  <1>4. \A w \in Armed(e) : n <= e[w] /\ e[w] \in Int
    BY <1>2, NextEvent DEF Armed, Times
  <1>5. c * TickLen \in Int
    BY <1>1, <1>3, Product
  <1> QED
    BY <1>1, <1>3, <1>4, <1>5 DEF InTime

(* Time passes. *)
LEMMA LaterTimes ==
  ASSUME NEW e \in Times, NEW f, f = Later(e, 1)
  PROVE  /\ f \in Times /\ Armed(f) = Armed(e)
         /\ \A w \in Armed(e) : f[w] = e[w] - 1 /\ e[w] \in Int
  <1>1. None \notin Int
    BY ITimerConstantsOK
  <1>2. \A w \in Which : e[w] \in Int \cup {None}
    BY DEF Times
  <1>3. \A w \in Which : f[w] = IF e[w] = None THEN None ELSE e[w] - 1
    BY DEF Later
  <1>4. \A w \in Which : f[w] \in Int \cup {None} /\ (f[w] = None <=> e[w] = None)
    BY <1>1, <1>2, <1>3
  <1>5. f \in Times
    BY <1>4 DEF Times, Later
  <1> QED
    BY <1>2, <1>3, <1>4, <1>5 DEF Armed

(* The timers after timer_action() has looked at them. *)
LEMMA ReloadTimes ==
  ASSUME Timers, NEW e \in Times, NEW f, f = Reload(e)
  PROVE  /\ f \in Times /\ Armed(f) \subseteq Armed(e)
         /\ \A w \in Armed(f) : f[w] >= e[w]
         /\ \A w \in Armed(f) : rel[w] = 0 => f[w] > 0
         /\ Due(e) = {} => f = e
  <1>1. None \notin Int
    BY ITimerConstantsOK
  <1>2. \A w \in Which : e[w] \in Int \cup {None} /\ rel[w] \in Nat
    BY DEF Times, Timers
  <1>3. \A w \in Which : f[w] = IF w \notin Due(e) THEN e[w]
                                ELSE IF rel[w] > 0 THEN e[w] + rel[w] ELSE None
    BY DEF Reload
  <1>4. \A w \in Which : w \in Due(e) <=> e[w] # None /\ e[w] <= 0
    BY DEF Due, Armed
  <1>5. \A w \in Which : f[w] \in Int \cup {None}
    BY <1>2, <1>3, <1>4
  <1>6. f \in Times
    BY <1>5 DEF Times, Reload
  <1>7. \A w \in Which : f[w] # None => /\ e[w] # None /\ f[w] >= e[w]
                                        /\ rel[w] = 0 => f[w] > 0
    BY <1>1, <1>2, <1>3, <1>4
  <1>8. Due(e) = {} => f = e
    <2>1. ASSUME Due(e) = {} PROVE \A w \in Which : f[w] = e[w]
      BY <1>3, <2>1
    <2> QED
      BY <2>1, <1>6 DEF Times
  <1> QED
    BY <1>6, <1>7, <1>8 DEF Armed

-----------------------------------------------------------------------------
LEMMA InitHolds ==
  ASSUME Init
  PROVE  IInv
  <1>1. Armed(exp) = {}
    BY DEF Init, Armed
  <1>2. Timers
    <2>1. exp \in Times
      BY DEF Init, Times
    <2>2. timer_on \in BOOLEAN
      BY DEF Init
    <2>3. rel \in [Which -> Nat] /\ countdown \in Int /\ countdown >= 0 /\ phase \in 1 .. TickLen
      BY DEF Init
    <2> QED
      BY <1>1, <2>1, <2>2, <2>3 DEF Timers
  <1>3. Bookkeeping
    <2>1. inHandler \in BOOLEAN /\ dead \in BOOLEAN /\ reloads \in BOOLEAN
      BY DEF Init
    <2>2. stack \in Seq(Frame) /\ Len(stack) = 0
      BY EmptySeq DEF Init
    <2>3. /\ calls \in 0 .. MaxCalls /\ lost \in 0 .. MaxLost /\ MaxNest \in Nat
      BY ITimerConstantsOK DEF Init
    <2> QED
      BY <2>1, <2>2, <2>3 DEF Bookkeeping
  <1>4. OneShots /\ OnTime /\ HookedWhileArmed
    BY <1>1 DEF Init, OneShots, OnTime, HookedWhileArmed
  <1> QED
    BY <1>2, <1>3, <1>4 DEF IInv

(* Steps that leave the timers alone. *)
LEMMA TimersStay ==
  ASSUME IInv, UNCHANGED <<tvars, phase, lost, reloads>>
  PROVE  Timers' /\ OneShots' /\ HookedWhileArmed' /\ OnTime'
  <1>1. Timers'
    BY DEF IInv, Timers, tvars, Armed
  <1>2. OneShots'
    BY DEF IInv, OneShots, tvars
  <1>3. HookedWhileArmed'
    BY DEF IInv, HookedWhileArmed, tvars, Armed
  <1>4. OnTime'
    BY DEF IInv, OnTime, tvars, Armed
  <1> QED
    BY <1>1, <1>2, <1>3, <1>4

LEMMA RaiseNextKeeps ==
  ASSUME IInv, RaiseNext, UNCHANGED reloads
  PROVE  IInv'
  <1>1. Timers' /\ OneShots' /\ HookedWhileArmed' /\ OnTime'
    BY TimersStay DEF RaiseNext
  <1>2. /\ stack \in Seq(Frame) /\ Len(stack) \in 1 .. Len(stack) /\ Top \in Frame
    BY EmptySeq DEF IInv, Bookkeeping, RaiseNext, Top
  <1>3. PICK f \in Frame : f = [Top EXCEPT !.todo = Tail(@)]
    <2>1. Tail(Top.todo) \in Seq({"SIGALRM", "SIGPROF"})
      BY <1>2 DEF RaiseNext, Frame
    <2> QED
      BY <1>2, <2>1 DEF Frame
  <1>4. stack' = [stack EXCEPT ![Len(stack)] = f]
    BY <1>2, <1>3 DEF RaiseNext, Top
  <1>5. stack' \in Seq(Frame) /\ Len(stack') = Len(stack)
    BY <1>2, <1>3, <1>4
  <1>6. Bookkeeping'
    BY <1>5 DEF IInv, Bookkeeping, RaiseNext
  <1> QED
    BY <1>1, <1>6 DEF IInv

LEMMA HandlerReturnKeeps ==
  ASSUME IInv, HandlerReturn, UNCHANGED reloads
  PROVE  IInv'
  <1>1. Timers' /\ OneShots' /\ HookedWhileArmed' /\ OnTime'
    BY TimersStay DEF HandlerReturn
  <1>2. Bookkeeping'
    BY DEF IInv, Bookkeeping, HandlerReturn
  <1> QED
    BY <1>1, <1>2 DEF IInv

LEMMA HandlerJumpKeeps ==
  ASSUME IInv, HandlerJump, UNCHANGED reloads
  PROVE  IInv'
  <1>1. Timers' /\ OneShots' /\ HookedWhileArmed' /\ OnTime'
    BY TimersStay DEF HandlerJump
  <1>2. Bookkeeping'
    <2>1. stack' \in Seq(Frame) /\ Len(stack') = 0
      BY EmptySeq DEF HandlerJump
    <2>2. inHandler' \in BOOLEAN /\ dead' \in BOOLEAN /\ reloads' \in BOOLEAN
      BY DEF HandlerJump, IInv, Bookkeeping
    <2>3. calls' = calls /\ lost' = lost /\ MaxNest \in Nat
      BY ITimerConstantsOK DEF HandlerJump
    <2> QED
      BY <2>1, <2>2, <2>3 DEF IInv, Bookkeeping
  <1> QED
    BY <1>1, <1>2 DEF IInv

LEMMA ExceptionReturnKeeps ==
  ASSUME IInv, ExceptionReturn, UNCHANGED reloads
  PROVE  IInv'
  <1>1. Timers' /\ OneShots' /\ HookedWhileArmed' /\ OnTime'
    BY TimersStay DEF ExceptionReturn
  <1>2. Bookkeeping'
    BY DEF IInv, Bookkeeping, ExceptionReturn
  <1> QED
    BY <1>1, <1>2 DEF IInv

(* setitimer(): the countdown starts for the earlier timer, or stops. *)
LEMMA SetitimerKeeps ==
  ASSUME IInv, NEW w \in Which, NEW v \in Nat, NEW i \in Nat, setitimer(w, v, i),
         UNCHANGED reloads
  PROVE  IInv'
  <1>1. /\ exp \in Times /\ rel \in [Which -> Nat] /\ phase \in 1 .. TickLen
        /\ \A x \in Armed(exp) : exp[x] >= -MaxLate
        /\ timer_on \in BOOLEAN /\ countdown \in Int /\ (timer_on => countdown >= 0)
    BY DEF IInv, Timers
  <1>2. TickLen \in Nat \ {0} /\ MaxLate \in Nat /\ None \notin Int
    BY ITimerConstantsOK
  <1>3. PICK t \in Int \cup {None} : /\ t = IF v = 0 THEN None ELSE AtLeastTick(v)
                                     /\ v = 0 => t = None
                                     /\ v # 0 => t \in Int /\ t > 0
    <2>1. AtLeastTick(v) \in Int /\ AtLeastTick(v) > 0
      BY <1>2 DEF AtLeastTick
    <2>2. CASE v = 0
      BY <2>2
    <2>3. CASE v # 0
      BY <2>1, <2>3
    <2> QED
      BY <2>2, <2>3
  <1>4. exp' = [exp EXCEPT ![w] = t]
    BY <1>3 DEF setitimer
  <1>5. exp' \in Times
    BY <1>1, <1>4 DEF Times
  <1>6. /\ exp'[w] = t /\ \A x \in Which : x # w => exp'[x] = exp[x]
    BY <1>1, <1>4 DEF Times
  <1>7. \A x \in Armed(exp') : exp'[x] >= -MaxLate
    BY <1>1, <1>2, <1>3, <1>6 DEF Armed
  <1>8. rel' \in [Which -> Nat] /\ phase' = phase /\ lost' = lost
    <2>1. ReloadValue(i) \in Nat
      BY <1>2 DEF ReloadValue, AtLeastTick
    <2> QED
      BY <1>1, <2>1 DEF setitimer
  <1>9. OneShots'
    <2>1. ASSUME ~reloads PROVE \A x \in Which : rel'[x] = 0
      <3>1. i = 0 /\ ReloadValue(i) = 0
        BY <2>1 DEF setitimer, ReloadValue
      <3> QED
        BY <1>1, <2>1, <3>1 DEF setitimer, IInv, OneShots
    <2> QED
      BY <2>1 DEF OneShots
  <1>10. Bookkeeping'
    <2>1. calls' \in 0 .. MaxCalls
      BY ITimerConstantsOK DEF setitimer, IInv, Bookkeeping
    <2> QED
      BY <2>1 DEF setitimer, IInv, Bookkeeping
  <1>11. CASE v # 0
    <2>1. timer_on' = TRUE /\ countdown' = Countdown(GetNextEvent(exp'))
      BY <1>11 DEF setitimer, StartTimer
    <2>2. countdown' \in Nat /\ \A x \in Armed(exp') : InTime(countdown', phase', exp'[x])
      BY <1>1, <1>5, <1>8, <2>1, Scheduled
    <2>3. Timers'
      BY <1>1, <1>5, <1>7, <1>8, <2>1, <2>2 DEF Timers
    <2>4. OnTime'
      BY <2>2 DEF OnTime
    <2>5. Armed(exp') # {}
      BY <1>2, <1>3, <1>6, <1>11 DEF Armed
    <2>6. HookedWhileArmed'
      BY <2>1, <2>5 DEF HookedWhileArmed
    <2> QED
      BY <1>9, <1>10, <2>3, <2>4, <2>6 DEF IInv
  <1>12. CASE v = 0 /\ Armed(exp') = {}
    <2>1. timer_on' = FALSE /\ countdown' \in Int
      <3>1. StopTimer
        BY <1>12 DEF setitimer
      <3> QED
        BY <1>1, <3>1 DEF StopTimer
    <2>2. Timers'
      BY <1>1, <1>5, <1>7, <1>8, <2>1 DEF Timers
    <2>3. OnTime' /\ HookedWhileArmed'
      BY <1>12, <2>1 DEF OnTime, HookedWhileArmed
    <2> QED
      BY <1>9, <1>10, <2>2, <2>3 DEF IInv
  <1>13. CASE v = 0 /\ Armed(exp') # {}
    <2>1. timer_on' = timer_on /\ countdown' = countdown
      BY <1>13 DEF setitimer
    <2>2. \A x \in Armed(exp') : x \in Armed(exp) /\ exp'[x] = exp[x]
      BY <1>3, <1>6, <1>13 DEF Armed
    <2>3. Timers'
      BY <1>1, <1>5, <1>7, <1>8, <2>1 DEF Timers
    <2>4. OnTime'
      BY <1>8, <2>1, <2>2 DEF OnTime, IInv
    <2>5. HookedWhileArmed'
      BY <1>13, <2>1, <2>2 DEF HookedWhileArmed, IInv
    <2> QED
      BY <1>9, <1>10, <2>3, <2>4, <2>5 DEF IInv
  <1> QED
    BY <1>11, <1>12, <1>13

(* A step of time changes no timer's state otherwise. *)
LEMMA LaterKeeps ==
  ASSUME IInv, NotTooLate, NEW f, f = Later(exp, 1)
  PROVE  /\ f \in Times /\ Armed(f) = Armed(exp)
         /\ \A w \in Armed(exp) : /\ f[w] = exp[w] - 1 /\ exp[w] \in Int
                                  /\ f[w] >= -MaxLate
  <1>1. exp \in Times /\ MaxLate \in Nat
    BY ITimerConstantsOK DEF IInv, Timers
  <1>2. /\ f \in Times /\ Armed(f) = Armed(exp)
        /\ \A w \in Armed(exp) : f[w] = exp[w] - 1 /\ exp[w] \in Int
    BY <1>1, LaterTimes
  <1> QED
    BY <1>1, <1>2 DEF NotTooLate

LEMMA ElapseKeeps ==
  ASSUME IInv, Elapse, UNCHANGED reloads
  PROVE  IInv'
  <1>1. /\ exp' \in Times /\ Armed(exp') = Armed(exp)
        /\ \A w \in Armed(exp) : /\ exp'[w] = exp[w] - 1 /\ exp[w] \in Int
                                 /\ exp'[w] >= -MaxLate
    BY LaterKeeps DEF Elapse
  <1>2. /\ phase > 1 /\ phase' = phase - 1 /\ phase \in 1 .. TickLen
        /\ TickLen \in Nat \ {0} /\ phase' \in 1 .. TickLen
    BY ITimerConstantsOK DEF Elapse, IInv, Timers
  <1>3. /\ rel' = rel /\ timer_on' = timer_on /\ countdown' = countdown /\ lost' = lost
    BY DEF Elapse
  <1>4. Timers'
    BY <1>1, <1>2, <1>3 DEF IInv, Timers
  <1>5. Bookkeeping'
    BY DEF IInv, Bookkeeping, Elapse
  <1>6. OneShots'
    BY <1>3 DEF IInv, OneShots
  <1>7. HookedWhileArmed'
    BY <1>1, <1>3 DEF IInv, HookedWhileArmed
  <1>8. OnTime'
    <2> SUFFICES ASSUME timer_on, lost = 0, NEW w \in Armed(exp)
                 PROVE  InTime(countdown, phase', exp'[w])
      BY <1>1, <1>3 DEF OnTime
    <2>1. InTime(countdown, phase, exp[w])
      BY DEF IInv, OnTime
    <2>2. countdown * TickLen \in Int
      BY <1>2, Product DEF IInv, Timers
    <2> QED
      BY <1>1, <1>2, <2>1, <2>2 DEF InTime
  <1> QED
    BY <1>4, <1>5, <1>6, <1>7, <1>8 DEF IInv

LEMMA LostTickKeeps ==
  ASSUME IInv, LostTick, UNCHANGED reloads
  PROVE  IInv'
  <1>1. /\ exp' \in Times /\ Armed(exp') = Armed(exp)
        /\ \A w \in Armed(exp) : /\ exp'[w] = exp[w] - 1 /\ exp[w] \in Int
                                 /\ exp'[w] >= -MaxLate
    BY LaterKeeps DEF LostTick
  <1>2. /\ phase' \in 1 .. TickLen
        /\ rel' = rel /\ timer_on' = timer_on /\ countdown' = countdown
    BY ITimerConstantsOK DEF LostTick
  <1>3. lost' \in 0 .. MaxLost /\ lost' # 0
    BY ITimerConstantsOK DEF LostTick, IInv, Bookkeeping
  <1>4. Timers'
    BY <1>1, <1>2 DEF IInv, Timers
  <1>5. Bookkeeping'
    BY <1>3 DEF IInv, Bookkeeping, LostTick
  <1>6. OneShots' /\ OnTime'
    BY <1>2, <1>3 DEF IInv, OneShots, OnTime
  <1>7. HookedWhileArmed'
    BY <1>1, <1>2 DEF IInv, HookedWhileArmed
  <1> QED
    BY <1>4, <1>5, <1>6, <1>7 DEF IInv

(* timer_action() at a tick: what is left is scheduled, or the timer stops. *)
LEMMA ActionKeeps ==
  ASSUME IInv, NotTooLate, NEW e, e = Later(exp, 1), timer_action(e),
         phase' = TickLen, lost' = lost, reloads' = reloads, rel' = rel,
         timer_on, countdown = 0
  PROVE  Timers' /\ OneShots' /\ HookedWhileArmed' /\ OnTime'
  <1>1. /\ e \in Times /\ Armed(e) = Armed(exp)
        /\ \A w \in Armed(exp) : e[w] >= -MaxLate /\ e[w] \in Int
    BY LaterKeeps
  <1>2. TickLen \in Nat \ {0} /\ MaxLate \in Nat /\ phase' \in 1 .. TickLen
    BY ITimerConstantsOK
  <1>3. /\ exp' = Reload(e) /\ exp' \in Times /\ Armed(exp') \subseteq Armed(e)
        /\ \A w \in Armed(exp') : exp'[w] >= e[w]
        /\ \A w \in Armed(exp') : rel[w] = 0 => exp'[w] > 0
        /\ Due(e) = {} => exp' = e
    BY <1>1, ReloadTimes DEF timer_action, IInv
  <1>4. \A w \in Armed(exp') : exp'[w] >= -MaxLate
    <2>1. \A w \in Armed(exp') : exp'[w] \in Int
      BY <1>3 DEF Armed, Times
    <2> QED
      BY <1>1, <1>2, <1>3, <2>1
  <1>5. rel' \in [Which -> Nat] /\ OneShots'
    BY DEF IInv, Timers, OneShots
  <1>6. CASE Due(e) = {}
    <2>1. timer_on' = timer_on /\ countdown' = 0
      BY <1>6 DEF timer_action
    <2>2. timer_on' \in BOOLEAN
      BY <2>1 DEF IInv, Timers
    <2>3. Timers'
      BY <1>2, <1>3, <1>4, <1>5, <2>1, <2>2 DEF Timers
    <2>4. OnTime'
      BY <2>1 DEF OnTime, InTime
    <2>5. Armed(exp') = Armed(exp)
      BY <1>1, <1>3, <1>6
    <2>6. HookedWhileArmed'
      BY <2>1, <2>5 DEF HookedWhileArmed, IInv
    <2> QED
      BY <1>5, <2>3, <2>4, <2>6
  <1>7. CASE Due(e) # {} /\ GetNextEvent(exp') # 0
    <2>1. timer_on' = timer_on /\ countdown' = Countdown(GetNextEvent(exp'))
      BY <1>3, <1>7 DEF timer_action
    <2>2. countdown' \in Nat /\ \A w \in Armed(exp') : InTime(countdown', phase', exp'[w])
      BY <1>2, <1>3, <2>1, Scheduled
    <2>3. timer_on' \in BOOLEAN
      BY <2>1 DEF IInv, Timers
    <2>4. Timers'
      BY <1>2, <1>3, <1>4, <1>5, <2>2, <2>3 DEF Timers
    <2>5. OnTime'
      BY <2>2 DEF OnTime
    <2>6. Armed(exp') # {}
      BY <1>3, <1>7, NextEvent
    <2>7. HookedWhileArmed'
      BY <2>1, <2>6 DEF HookedWhileArmed
    <2> QED
      BY <1>5, <2>4, <2>5, <2>7
  <1>8. CASE Due(e) # {} /\ GetNextEvent(exp') = 0
    <2>1. timer_on' = FALSE /\ countdown' \in Int
      <3>1. StopTimer
        BY <1>3, <1>8 DEF timer_action
      <3> QED
        BY <3>1 DEF StopTimer, IInv, Timers
    <2>2. Timers'
      BY <1>2, <1>3, <1>4, <1>5, <2>1 DEF Timers
    <2>3. OnTime'
      BY <2>1 DEF OnTime
    <2>4. ASSUME ~reloads PROVE Armed(exp') = {}
      <3>1. \A w \in Armed(exp') : exp'[w] > 0
        BY <1>3, <2>4 DEF IInv, OneShots, Armed
      <3>2. Armed(exp') # {} => \E w \in Armed(exp') : exp'[w] = 0
        BY <1>3, <1>8, NextEvent
      <3> QED
        BY <3>1, <3>2
    <2>5. HookedWhileArmed'
      BY <2>1, <2>4 DEF HookedWhileArmed
    <2> QED
      BY <1>5, <2>2, <2>3, <2>5
  <1> QED
    BY <1>6, <1>7, <1>8

(* The clock ticks. *)
LEMMA TickKeeps ==
  ASSUME IInv, Tick, UNCHANGED reloads
  PROVE  IInv'
  <1>1. PICK e : e = Later(exp, 1)
    OBVIOUS
  <1>2. /\ NotTooLate /\ phase = 1 /\ phase' = TickLen /\ rel' = rel /\ dead' = dead
        /\ calls' = calls /\ lost' = lost /\ reloads' = reloads
    BY DEF Tick
  <1>3. CASE timer_on /\ countdown = 0
    <2>1. timer_action(e) /\ Len(stack) < MaxNest /\ inHandler' = FALSE
      BY <1>1, <1>3 DEF Tick
    <2>2. Timers' /\ OneShots' /\ HookedWhileArmed' /\ OnTime'
      BY <1>1, <1>2, <1>3, <2>1, ActionKeeps
    <2>3. PICK f \in Frame : stack' = Append(stack, f)
      <3>1. Due(e) \in SUBSET Which
        BY DEF Due, Armed
      <3>2. ToRaise(e) \in Seq({"SIGALRM", "SIGPROF"})
        <4> DEFINE A == IF "REAL" \in Due(e) THEN <<SignalOf["REAL"]>> ELSE <<>>
                   B == IF "PROF" \in Due(e) THEN <<SignalOf["PROF"]>> ELSE <<>>
        <4>1. SignalOf["REAL"] = "SIGALRM" /\ SignalOf["PROF"] = "SIGPROF"
          BY DEF SignalOf, Which
        <4>2. A \in Seq({"SIGALRM", "SIGPROF"}) /\ B \in Seq({"SIGALRM", "SIGPROF"})
          <5>1. /\ <<"SIGALRM">> \in Seq({"SIGALRM", "SIGPROF"})
                /\ <<"SIGPROF">> \in Seq({"SIGALRM", "SIGPROF"})
            OBVIOUS
          <5>2. <<>> \in Seq({"SIGALRM", "SIGPROF"})
            BY EmptySeq
          <5>3. A = <<"SIGALRM">> \/ A = <<>>
            BY <4>1
          <5>4. B = <<"SIGPROF">> \/ B = <<>>
            BY <4>1
          <5> HIDE DEF A, B
          <5> QED
            BY <5>1, <5>2, <5>3, <5>4
        <4>3. ToRaise(e) = A \o B
          BY DEF ToRaise
        <4> HIDE DEF A, B
        <4> QED
          BY <4>2, <4>3
      <3>3. [due |-> Due(e), todo |-> ToRaise(e)] \in Frame
        BY <3>1, <3>2 DEF Frame
      <3> QED
        BY <2>1, <3>3 DEF timer_action
    <2>4. stack' \in Seq(Frame) /\ Len(stack') <= MaxNest
      BY <2>1, <2>3, ITimerConstantsOK DEF IInv, Bookkeeping
    <2>5. inHandler' \in BOOLEAN
      BY <2>1
    <2>6. Bookkeeping'
      BY <1>2, <2>4, <2>5 DEF IInv, Bookkeeping
    <2> QED
      BY <2>2, <2>6 DEF IInv
  <1>4. CASE ~(timer_on /\ countdown = 0)
    <2>1. /\ exp' = e /\ timer_on' = timer_on /\ stack' = stack /\ inHandler' = inHandler
          /\ countdown' = IF timer_on THEN countdown - 1 ELSE countdown
      BY <1>1, <1>4 DEF Tick
    <2>2. /\ exp' \in Times /\ Armed(exp') = Armed(exp)
          /\ \A w \in Armed(exp) : /\ exp'[w] = exp[w] - 1 /\ exp[w] \in Int
                                   /\ exp'[w] >= -MaxLate
      BY <1>1, <1>2, <2>1, LaterKeeps
    <2>3. /\ TickLen \in Nat \ {0} /\ phase' \in 1 .. TickLen
      BY <1>2, ITimerConstantsOK
    <2>4. /\ countdown \in Int /\ countdown' \in Int /\ (timer_on => countdown' >= 0)
      BY <1>4, <2>1 DEF IInv, Timers
    <2>5. timer_on' \in BOOLEAN /\ rel' \in [Which -> Nat]
      BY <1>2, <2>1 DEF IInv, Timers
    <2>6. Timers'
      BY <2>1, <2>2, <2>3, <2>4, <2>5 DEF Timers
    <2>7. Bookkeeping'
      BY <1>2, <2>1 DEF IInv, Bookkeeping
    <2>8. OneShots'
      BY <1>2 DEF IInv, OneShots
    <2>9. HookedWhileArmed'
      BY <1>2, <2>1, <2>2 DEF IInv, HookedWhileArmed
    <2>10. OnTime'
      <3> SUFFICES ASSUME timer_on, lost = 0, NEW w \in Armed(exp)
                   PROVE  InTime(countdown', phase', exp'[w])
        BY <1>2, <2>1, <2>2 DEF OnTime
      <3>1. InTime(countdown, 1, exp[w]) /\ countdown # 0 /\ countdown' = countdown - 1
        BY <1>2, <1>4, <2>1 DEF IInv, OnTime
      <3>2. countdown * TickLen \in Int /\ (countdown - 1) * TickLen = countdown * TickLen - TickLen
        BY <2>3, <2>4, Product
      <3>3. 1 + countdown * TickLen - TickLen < exp[w]
        BY <3>1 DEF InTime
      <3>4. phase' + countdown' * TickLen - TickLen < exp'[w]
        BY <1>2, <2>2, <2>3, <3>1, <3>2, <3>3
      <3> QED
        BY <3>4 DEF InTime
    <2> QED
      BY <2>6, <2>7, <2>8, <2>9, <2>10 DEF IInv
  <1> QED
    BY <1>3, <1>4

-----------------------------------------------------------------------------
LEMMA NextKeeps ==
  ASSUME IInv, [Next]_vars
  PROVE  IInv'
  <1>1. CASE UNCHANGED vars
    <2>1. Timers' /\ OneShots' /\ HookedWhileArmed' /\ OnTime'
      BY <1>1, TimersStay DEF vars, tvars
    <2>2. Bookkeeping'
      BY <1>1 DEF vars, IInv, Bookkeeping
    <2> QED
      BY <2>1, <2>2 DEF IInv
  <1>2. ASSUME Next PROVE IInv'
    <2>1. Step /\ UNCHANGED reloads
      BY <1>2 DEF Next
    <2>2. CASE Elapse
      BY <2>1, <2>2, ElapseKeeps
    <2>3. CASE Tick
      BY <2>1, <2>3, TickKeeps
    <2>4. CASE LostTick
      BY <2>1, <2>4, LostTickKeeps
    <2>5. CASE RaiseNext
      BY <2>1, <2>5, RaiseNextKeeps
    <2>6. CASE HandlerReturn
      BY <2>1, <2>6, HandlerReturnKeeps
    <2>7. CASE HandlerJump
      BY <2>1, <2>7, HandlerJumpKeeps
    <2>8. CASE ExceptionReturn
      BY <2>1, <2>8, ExceptionReturnKeeps
    <2>9. ASSUME NEW v \in Values, alarm(v) PROVE IInv'
      <3>1. v \in Nat /\ 0 \in Nat /\ "REAL" \in Which
        BY ITimerConstantsOK DEF Which
      <3> QED
        BY <2>1, <2>9, <3>1, SetitimerKeeps DEF alarm
    <2>10. ASSUME NEW v \in Values, NEW wi \in (Which \X Intervals) \ {<<"REAL", 0>>},
                  setitimer(wi[1], v, wi[2])
           PROVE  IInv'
      <3>1. v \in Nat /\ wi[1] \in Which /\ wi[2] \in Nat
        BY ITimerConstantsOK
      <3> QED
        BY <2>1, <2>10, <3>1, SetitimerKeeps
    <2> QED
      BY <2>1, <2>2, <2>3, <2>4, <2>5, <2>6, <2>7, <2>8, <2>9, <2>10 DEF Step
  <1> QED
    BY <1>1, <1>2

(* The countdown of the timer interrupt is kept in step with the timers by *)
(* setitimer(), by every tick and by timer_action().                       *)
THEOREM CountdownInStep == Spec => []IInv
  <1>1. IInv /\ [Next]_vars => IInv'
    BY NextKeeps
  <1> QED
    BY InitHolds, <1>1, PTL DEF Spec

(* The variables of itimer.c hold what they are declared to hold, and the  *)
(* countdown is never negative while the interrupt is hooked.              *)
THEOREM TimerTypes == Spec => []TypeOK
  <1>1. IInv => TypeOK
    <2> SUFFICES ASSUME IInv PROVE TypeOK
      OBVIOUS
    <2>1. \A w \in Which : exp[w] # None => exp[w] \in Int /\ exp[w] >= -MaxLate
      BY DEF IInv, Timers, Times, Armed
    <2> QED
      BY <2>1 DEF IInv, Timers, Bookkeeping, TypeOK, Frame
  <1> QED
    BY <1>1, CountdownInStep, PTL

(* SIGTIMR comes no later than the first tick at which a timer is due,     *)
(* whatever program sets, clears and reloads its timers, at every          *)
(* resolution of the clock.                                                *)
THEOREM TimersNeverLate == Spec => []NeverLate
  <1>1. IInv => NeverLate
    <2> SUFFICES ASSUME IInv, timer_on, lost = 0, NEW w \in Armed(exp)
                 PROVE  phase + countdown * TickLen <= FirstTick(exp[w])
      BY DEF NeverLate, WakeTime
    <2>1. /\ TickLen \in Nat \ {0} /\ phase \in Int /\ countdown \in Nat /\ exp[w] \in Int
      BY ITimerConstantsOK DEF IInv, Timers, Times, Armed
    <2>2. PICK t \in Int : t = exp[w]
      BY <2>1
    <2>3. PICK m \in Int : m = countdown * TickLen
      BY <2>1, Product
    <2>4. countdown = 0 => m = 0
      BY <2>1, <2>3, Product
    <2>5. countdown = 0 \/ phase + m - TickLen < t
      BY <2>2, <2>3 DEF IInv, OnTime, InTime
    <2>6. countdown # 0 => m >= TickLen
      <3>1. 1 <= countdown => 1 * TickLen <= countdown * TickLen
        BY <2>1, Product
      <3> QED
        BY <2>1, <2>3, <3>1
    <2>7. CASE t <= phase
      <3>1. countdown = 0
        BY <2>1, <2>3, <2>5, <2>6, <2>7
      <3> QED
        BY <2>1, <2>2, <2>3, <2>4, <2>7, <3>1 DEF FirstTick
    <2>8. CASE ~(t <= phase)
      <3>1. PICK a \in Int : a = t - phase + TickLen - 1
        BY <2>1
      <3>2. PICK q \in Int : q = a \div TickLen
        BY <2>1, <3>1, Quotient
      <3>3. q * TickLen \in Int /\ q * TickLen <= a /\ a < q * TickLen + TickLen
        BY <2>1, <3>1, <3>2, Quotient, Product
      <3>4. m <= a
        BY <2>1, <2>3, <2>4, <2>5, <2>8, <3>1
      <3>5. countdown <= q
        <4>1. SUFFICES ASSUME q + 1 <= countdown PROVE FALSE
          BY <2>1, <3>2
        <4>2. (q + 1) * TickLen <= m /\ (q + 1) * TickLen = q * TickLen + TickLen
          BY <2>1, <2>3, <3>2, <4>1, Product
        <4> QED
          BY <2>1, <2>3, <3>1, <3>3, <3>4, <4>2
      <3>6. m <= q * TickLen
        BY <2>1, <2>3, <3>2, <3>5, Product
      <3>7. FirstTick(t) = phase + q * TickLen
        BY <2>8, <3>1, <3>2 DEF FirstTick
      <3> QED
        BY <2>1, <2>2, <2>3, <3>3, <3>6, <3>7
    <2> QED
      BY <2>7, <2>8
  <1> QED
    BY <1>1, CountdownInStep, PTL

(* The timer interrupt is released with the last timer, and is hooked for  *)
(* every armed timer while no reload interval is used.                     *)
THEOREM TimersHooked == Spec => []HookedWhileArmed
  <1>1. IInv => HookedWhileArmed
    BY DEF IInv
  <1> QED
    BY <1>1, CountdownInStep, PTL

=============================================================================
