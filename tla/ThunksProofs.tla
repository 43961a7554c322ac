---------------------------- MODULE ThunksProofs ----------------------------
(***************************************************************************)
(* Proofs about the thunking engine, for every set of handles, every       *)
(* MAX_RECUR, every number of arguments and every value of the globals.    *)
(***************************************************************************)
EXTENDS Thunks, FiniteSetTheorems, SequenceTheorems, TLAPS

(***************************************************************************)
(* The inductive invariant of the control state.  Besides NoretLive it     *)
(* says what the locals of the suspended activations hold, that only the   *)
(* innermost activation can be in C code, and that only loaded programs    *)
(* have activations.                                                       *)
(***************************************************************************)
StackType ==
  /\ inited \subseteq Handle
  /\ stack \in Seq([handle : Handle, phase : Phase])
  /\ frames \in [Handle -> Seq(Frame)]
  /\ recur_cnt \in [Handle -> 0 .. MaxRecur]
  /\ noret_jmp \in [Handle -> 0 .. MaxRecur]
  /\ s_regs \in [Handle -> 0 .. MaxRecur]

StackInv ==
  /\ StackType
  /\ NoretLive
  /\ \A h \in Handle :
       /\ Len(frames[h]) = recur_cnt[h]
       /\ \A k \in 1 .. recur_cnt[h] : frames[h][k].noret = k - 1
  /\ \A i \in 1 .. Len(stack) - 1 : stack[i].phase # "C"
  /\ \A i \in 1 .. Len(stack) : stack[i].handle \in inited

(* Dropping the last element of a sequence. *)
LEMMA DropLast ==
  ASSUME NEW S, NEW s \in Seq(S), s # <<>>
  PROVE  /\ Len(s) \in Nat \ {0}
         /\ SubSeq(s, 1, Len(s) - 1) \in Seq(S)
         /\ Len(SubSeq(s, 1, Len(s) - 1)) = Len(s) - 1
         /\ \A i \in 1 .. Len(s) - 1 : SubSeq(s, 1, Len(s) - 1)[i] = s[i]
  <1> DEFINE n == Len(s) - 1
             t == SubSeq(s, 1, n)
  <1>1. Len(s) \in Nat \ {0}
    BY EmptySeq
  <1>2. \A i \in 1 .. n : s[i] \in S
    BY <1>1
  <1>3. n \in Nat
    BY <1>1
  <1>4. /\ t \in Seq(S)
        /\ Len(t) = IF 1 <= n THEN n - 1 + 1 ELSE 0
        /\ \A i \in 1 .. n - 1 + 1 : t[i] = s[1 + i - 1]
    <2> HIDE DEF n
    <2> QED
      BY <1>2, <1>3, SubSeqProperties
  <1>5. Len(t) = n /\ \A i \in 1 .. n : t[i] = s[i]
    <2> HIDE DEF n, t
    <2> QED
      BY <1>3, <1>4
  <1> QED
    BY <1>1, <1>4, <1>5

(* The activations of a program are finitely many. *)
LEMMA LevelFinite ==
  ASSUME NEW h \in Handle, stack \in Seq([handle : Handle, phase : Phase])
  PROVE  /\ IsFiniteSet(Level(h))
         /\ Level(h) \subseteq 1 .. Len(stack)
         /\ Cardinality(Level(h)) \in Nat
  <1>1. Level(h) \subseteq 1 .. Len(stack)
    BY DEF Level
  <1>2. Len(stack) \in Nat
    OBVIOUS
  <1>3. IsFiniteSet(1 .. Len(stack))
    BY <1>2, FS_Interval
  <1>4. IsFiniteSet(Level(h))
    BY <1>1, <1>3, FS_Subset
  <1> QED
    BY <1>1, <1>4, FS_CardinalityType

(* dj64_call adds one activation of its handle. *)
LEMMA PushLevel ==
  ASSUME NEW h \in Handle, NEW x \in Handle, NEW p \in Phase,
         stack \in Seq([handle : Handle, phase : Phase]),
         stack' = Append(stack, [handle |-> h, phase |-> p])
  PROVE  Cardinality(Level(x)') =
           IF x = h THEN Cardinality(Level(x)) + 1 ELSE Cardinality(Level(x))
  <1> DEFINE n == Len(stack)
  <1>1. /\ n \in Nat
        /\ Len(stack') = n + 1
        /\ \A i \in 1 .. n : stack'[i] = stack[i]
        /\ stack'[n + 1].handle = h
    OBVIOUS
  <1>2. CASE x = h
    <2>1. Level(x)' = Level(x) \cup {n + 1}
      BY <1>1, <1>2 DEF Level
    <2>2. n + 1 \notin Level(x)
      BY <1>1 DEF Level
    <2> QED
      BY <1>2, <2>1, <2>2, LevelFinite, FS_AddElement
  <1>3. CASE x # h
    <2>1. Level(x)' = Level(x)
      BY <1>1, <1>3 DEF Level
    <2> QED
      BY <1>3, <2>1
  <1> QED
    BY <1>2, <1>3

(* Leaving dj64_call removes one activation of the innermost handle. *)
LEMMA PopLevel ==
  ASSUME NEW x \in Handle,
         stack \in Seq([handle : Handle, phase : Phase]), stack # <<>>,
         stack' = SubSeq(stack, 1, Len(stack) - 1)
  PROVE  Cardinality(Level(x)') =
           IF x = Top.handle THEN Cardinality(Level(x)) - 1
                             ELSE Cardinality(Level(x))
  <1> DEFINE n == Len(stack)
  <1>1. /\ n \in Nat \ {0}
        /\ Len(stack') = n - 1
        /\ \A i \in 1 .. n - 1 : stack'[i] = stack[i]
    BY DropLast
  <1>2. CASE x = Top.handle
    <2>1. Level(x)' = Level(x) \ {n}
      BY <1>1, <1>2 DEF Level
    <2>2. n \in Level(x)
      BY <1>1, <1>2 DEF Level, Top
    <2> QED
      BY <1>2, <2>1, <2>2, LevelFinite, FS_RemoveElement
  <1>3. CASE x # Top.handle
    <2>1. Level(x)' = Level(x)
      BY <1>1, <1>3 DEF Level, Top
    <2> QED
      BY <1>3, <2>1
  <1> QED
    BY <1>2, <1>3

(* A program with an activation has a positive recursion count. *)
LEMMA TopCounted ==
  ASSUME StackInv, stack # <<>>
  PROVE  /\ Top \in [handle : Handle, phase : Phase]
         /\ Top.handle \in inited
         /\ recur_cnt[Top.handle] \in 1 .. MaxRecur
         /\ Len(stack) \in Nat \ {0}
  <1>0. stack \in Seq([handle : Handle, phase : Phase])
    BY DEF StackInv, StackType
  <1>1. /\ Len(stack) \in Nat \ {0}
        /\ Top \in [handle : Handle, phase : Phase]
        /\ Top.handle \in inited
    <2>1. Len(stack) \in Nat \ {0}
      BY <1>0, EmptySeq
    <2>2. Len(stack) \in 1 .. Len(stack)
      BY <2>1
    <2>3. Top \in [handle : Handle, phase : Phase]
      BY <1>0, <2>2, ElementOfSeq DEF Top
    <2> QED
      BY <2>1, <2>2, <2>3 DEF StackInv, Top
  <1>2. Len(stack) \in Level(Top.handle)
    BY <1>1 DEF Level, Top
  <1>3. Cardinality(Level(Top.handle)) # 0
    BY <1>1, <1>2, LevelFinite, FS_EmptySet DEF StackInv, StackType
  <1> QED
    BY <1>1, <1>3 DEF StackInv, StackType, NoretLive

(* A step that changes neither the control state nor the saved noret_jmp  *)
(* in the locals keeps the invariant.                                      *)
LEMMA StackUnchanged ==
  ASSUME StackInv, UNCHANGED <<inited, stack, recur_cnt, noret_jmp, s_regs>>,
         frames' \in [Handle -> Seq(Frame)],
         \A h \in Handle :
           /\ Len(frames'[h]) = Len(frames[h])
           /\ \A k \in 1 .. Len(frames[h]) : frames'[h][k].noret = frames[h][k].noret
  PROVE  StackInv'
  <1>1. StackType'
    BY DEF StackInv, StackType
  <1>2. NoretLive'
    BY DEF StackInv, NoretLive, Level
  <1>3. \A h \in Handle :
          /\ Len(frames'[h]) = recur_cnt'[h]
          /\ \A k \in 1 .. recur_cnt'[h] : frames'[h][k].noret = k - 1
    BY DEF StackInv
  <1> QED
    BY <1>1, <1>2, <1>3 DEF StackInv

(* SetPhase changes the innermost phase and nothing else of the stack. *)
LEMMA PhaseSet ==
  ASSUME StackInv, stack # <<>>, NEW p \in Phase, SetPhase(p)
  PROVE  /\ stack' \in Seq([handle : Handle, phase : Phase])
         /\ Len(stack') = Len(stack)
         /\ \A i \in 1 .. Len(stack) : stack'[i].handle = stack[i].handle
         /\ \A i \in 1 .. Len(stack) - 1 : stack'[i] = stack[i]
         /\ stack'[Len(stack)].phase = p
         /\ \A h \in Handle : Level(h)' = Level(h)
  <1> DEFINE n == Len(stack)
             e == [stack[n] EXCEPT !.phase = p]
  <1>1. n \in Nat \ {0} /\ stack \in Seq([handle : Handle, phase : Phase])
    BY TopCounted DEF StackInv, StackType
  <1>2. stack[n] \in [handle : Handle, phase : Phase]
    BY TopCounted DEF Top
  <1>3. e \in [handle : Handle, phase : Phase] /\ e.handle = stack[n].handle /\ e.phase = p
    BY <1>2
  <1>4. stack' = [stack EXCEPT ![n] = e]
    BY <1>1 DEF SetPhase
  <1>5. /\ stack' \in Seq([handle : Handle, phase : Phase])
        /\ Len(stack') = n
        /\ \A j \in 1 .. n : stack'[j] = IF j = n THEN e ELSE stack[j]
    BY <1>1, <1>3, <1>4, ExceptSeq
  <1>6. \A i \in 1 .. n : stack'[i].handle = stack[i].handle
    BY <1>3, <1>5
  <1>7. \A h \in Handle : Level(h)' = Level(h)
    BY <1>1, <1>5, <1>6 DEF Level
  <1> QED
    BY <1>1, <1>3, <1>5, <1>6, <1>7

(* Suspending the innermost activation keeps the invariant. *)
LEMMA SuspendStack ==
  ASSUME StackInv, InC, NEW p \in Phase \ {"C"}, SetPhase(p),
         UNCHANGED <<inited, frames, recur_cnt, noret_jmp, s_regs>>
  PROVE  StackInv'
  <1>1. stack # <<>> /\ p \in Phase
    BY DEF InC
  <1>2. Len(stack) \in Nat \ {0}
    BY <1>1, TopCounted
  <1>3. ~InC'
    BY <1>1, <1>2, PhaseSet DEF InC, Top
  <1> QED
    BY <1>1, <1>2, <1>3, PhaseSet
       DEF StackInv, StackType, NoretLive

(* Resuming it after asm_call keeps the invariant. *)
LEMMA ResumeStack ==
  ASSUME StackInv, AsmReturn
  PROVE  StackInv'
  <1>1. stack # <<>> /\ "C" \in Phase
    BY DEF AsmReturn, Phase
  <1>2. /\ Len(stack) \in Nat \ {0}
        /\ Top.handle \in Handle
        /\ recur_cnt[Top.handle] \in 0 .. MaxRecur
    BY <1>1, TopCounted DEF StackInv, StackType
  <1>3. Top'.handle = Top.handle
    BY <1>1, <1>2, PhaseSet DEF AsmReturn, Top
  <1>5. StackType'
    BY <1>1, <1>2, PhaseSet DEF AsmReturn, StackInv, StackType
  <1> QED
    BY <1>1, <1>2, <1>5, PhaseSet
       DEF AsmReturn, StackInv, NoretLive

(* dj64_call keeps the invariant. *)
LEMMA CallStack ==
  ASSUME StackInv, NEW h \in Handle, dj64_call(h), objcnt[h] \in Nat
  PROVE  StackInv'
  <1> DEFINE f == [noret |-> noret_jmp[h], objcnt |-> objcnt[h], nulls |-> 0]
             a == [handle |-> h, phase |-> "C"]
  <1>1. /\ frames' = [frames EXCEPT ![h] = Append(@, f)]
        /\ stack' = Append(stack, a)
        /\ recur_cnt' = [recur_cnt EXCEPT ![h] = @ + 1]
        /\ noret_jmp' = [noret_jmp EXCEPT ![h] = recur_cnt[h] + 1]
        /\ s_regs' = [s_regs EXCEPT ![h] = recur_cnt[h] + 1]
        /\ inited' = inited
        /\ h \in inited
        /\ recur_cnt[h] < MaxRecur
    BY DEF dj64_call, LoadRegs, RecurAllowed
  <1>2. /\ a \in [handle : Handle, phase : Phase] /\ f \in Frame
        /\ stack \in Seq([handle : Handle, phase : Phase])
        /\ frames \in [Handle -> Seq(Frame)]
        /\ recur_cnt[h] \in 0 .. MaxRecur
        /\ noret_jmp[h] = recur_cnt[h]
        /\ Len(frames[h]) = recur_cnt[h]
    BY ConstantsOK DEF StackInv, StackType, Phase, NoretLive, Frame
  <1>3. StackType'
    BY <1>1, <1>2, ConstantsOK DEF StackInv, StackType
  <1>4. NoretLive'
    <2>1. \A x \in Handle : Cardinality(Level(x)') =
            IF x = h THEN Cardinality(Level(x)) + 1 ELSE Cardinality(Level(x))
      BY <1>1, <1>2, PushLevel DEF Phase
    <2> QED
      BY <1>1, <1>2, <2>1 DEF StackInv, StackType, NoretLive
  <1>5. ASSUME NEW x \in Handle
        PROVE  /\ Len(frames'[x]) = recur_cnt'[x]
               /\ \A k \in 1 .. recur_cnt'[x] : frames'[x][k].noret = k - 1
    <2>1. CASE x = h
      <3>1. /\ frames'[x] = Append(frames[h], f)
            /\ recur_cnt'[x] = recur_cnt[h] + 1
            /\ frames[h] \in Seq(Frame)
        BY <1>1, <1>2, <2>1 DEF StackInv, StackType
      <3>2. \A k \in 1 .. recur_cnt[h] : frames[h][k].noret = k - 1
        BY DEF StackInv
      <3>3. /\ Len(frames'[x]) = recur_cnt[h] + 1
            /\ \A k \in 1 .. recur_cnt[h] : frames'[x][k] = frames[h][k]
            /\ frames'[x][recur_cnt[h] + 1] = f
        BY <1>2, <3>1
      <3>4. f.noret = recur_cnt[h] + 1 - 1
        BY <1>2
      <3> QED
        BY <1>2, <3>1, <3>2, <3>3, <3>4
    <2>2. CASE x # h
      BY <1>1, <1>2, <2>2 DEF StackInv, StackType
    <2> QED
      BY <2>1, <2>2
  <1>6. /\ Len(stack) \in Nat
        /\ Len(stack') = Len(stack) + 1
        /\ \A i \in 1 .. Len(stack) : stack'[i] = stack[i]
        /\ stack'[Len(stack) + 1] = a
    BY <1>1, <1>2
  <1>7. ~InC
    BY DEF dj64_call, HostTurn
  <1>8. \A i \in 1 .. Len(stack') - 1 : stack'[i].phase # "C"
    <2> SUFFICES ASSUME NEW i \in 1 .. Len(stack)
                 PROVE  stack[i].phase # "C"
      BY <1>6
    <2>1. stack # <<>>
      BY <1>6
    <2>2. CASE i = Len(stack)
      BY <1>7, <2>1, <2>2 DEF InC, Top
    <2>3. CASE i # Len(stack)
      BY <1>6, <2>3 DEF StackInv
    <2> QED
      BY <2>2, <2>3
  <1>9. \A i \in 1 .. Len(stack') : stack'[i].handle \in inited'
    BY <1>1, <1>6 DEF StackInv
  <1> QED
    BY <1>3, <1>4, <1>5, <1>8, <1>9 DEF StackInv

(* Leaving dj64_call, by returning or by longjmp(), keeps the invariant and *)
(* gives control to the host.                                              *)
LEMMA LeaveStack ==
  ASSUME StackInv, stack # <<>>, LeaveCall(Top.handle),
         UNCHANGED <<inited, s_regs>>
  PROVE  StackInv' /\ ~InC'
  <1> DEFINE h == Top.handle
  <1>1. /\ h \in Handle
        /\ recur_cnt[h] \in 1 .. MaxRecur
        /\ Len(stack) \in Nat \ {0}
        /\ stack \in Seq([handle : Handle, phase : Phase])
        /\ frames[h] \in Seq(Frame)
        /\ Len(frames[h]) = recur_cnt[h]
        /\ Local(h).noret = recur_cnt[h] - 1
    <2>1. h \in Handle /\ recur_cnt[h] \in 1 .. MaxRecur /\ Len(stack) \in Nat \ {0}
      BY TopCounted
    <2>2. recur_cnt[h] \in 1 .. recur_cnt[h]
      BY <2>1, ConstantsOK
    <2> QED
      BY <2>1, <2>2 DEF StackInv, StackType, Local
  <1>2. /\ noret_jmp' = [noret_jmp EXCEPT ![h] = recur_cnt[h] - 1]
        /\ recur_cnt' = [recur_cnt EXCEPT ![h] = recur_cnt[h] - 1]
        /\ frames' = [frames EXCEPT ![h] = SubSeq(frames[h], 1, recur_cnt[h] - 1)]
        /\ stack' = SubSeq(stack, 1, Len(stack) - 1)
    BY <1>1 DEF LeaveCall, StackInv, StackType
  <1>3. /\ stack' \in Seq([handle : Handle, phase : Phase])
        /\ Len(stack') = Len(stack) - 1
        /\ \A i \in 1 .. Len(stack) - 1 : stack'[i] = stack[i]
    BY <1>1, <1>2, DropLast
  <1>4. frames[h] # <<>>
    BY <1>1
  <1>5. /\ SubSeq(frames[h], 1, recur_cnt[h] - 1) \in Seq(Frame)
        /\ Len(SubSeq(frames[h], 1, recur_cnt[h] - 1)) = recur_cnt[h] - 1
        /\ \A k \in 1 .. recur_cnt[h] - 1 :
             SubSeq(frames[h], 1, recur_cnt[h] - 1)[k] = frames[h][k]
    BY <1>1, <1>4, DropLast
  <1>6. StackType'
    <2>1. recur_cnt[h] - 1 \in 0 .. MaxRecur
      BY <1>1, ConstantsOK
    <2> QED
      BY <1>1, <1>2, <1>3, <1>5, <2>1 DEF StackInv, StackType
  <1>7. NoretLive'
    <2>1. \A x \in Handle : Cardinality(Level(x)') =
            IF x = h THEN Cardinality(Level(x)) - 1 ELSE Cardinality(Level(x))
      BY <1>1, <1>2, PopLevel
    <2> QED
      BY <1>1, <1>2, <2>1 DEF StackInv, StackType, NoretLive
  <1>8. ASSUME NEW x \in Handle
        PROVE  /\ Len(frames'[x]) = recur_cnt'[x]
               /\ \A k \in 1 .. recur_cnt'[x] : frames'[x][k].noret = k - 1
    <2>1. CASE x = h
      <3>1. /\ frames'[x] = SubSeq(frames[h], 1, recur_cnt[h] - 1)
            /\ recur_cnt'[x] = recur_cnt[h] - 1
        BY <1>1, <1>2, <2>1 DEF StackInv, StackType
      <3>2. \A k \in 1 .. recur_cnt[h] : frames[h][k].noret = k - 1
        BY <1>1 DEF StackInv
      <3>3. Len(frames'[x]) = recur_cnt'[x]
        BY <1>5, <3>1
      <3>4. \A k \in 1 .. recur_cnt[h] - 1 : k \in 1 .. recur_cnt[h]
        BY <1>1, ConstantsOK
      <3>5. \A k \in 1 .. recur_cnt'[x] : frames'[x][k].noret = k - 1
        BY <1>5, <3>1, <3>2, <3>4
      <3> QED
        BY <3>3, <3>5
    <2>2. CASE x # h
      BY <1>2, <2>2 DEF StackInv, StackType
    <2> QED
      BY <2>1, <2>2
  <1>9. ~InC'
    <2> SUFFICES ASSUME InC' PROVE FALSE
      OBVIOUS
    <2>1. Len(stack') \in Nat \ {0} /\ stack'[Len(stack')].phase = "C"
      BY <1>3, EmptySeq DEF InC, Top
    <2> QED
      BY <1>1, <1>3, <2>1 DEF StackInv
  <1>10. /\ \A i \in 1 .. Len(stack') - 1 : stack'[i].phase # "C"
         /\ \A i \in 1 .. Len(stack') : stack'[i].handle \in inited'
    <2>1. \A i \in 1 .. Len(stack') : i \in 1 .. Len(stack) - 1 /\ i \in 1 .. Len(stack)
      BY <1>1, <1>3
    <2>2. \A i \in 1 .. Len(stack') - 1 : i \in 1 .. Len(stack')
      BY <1>1, <1>3
    <2>3. \A i \in 1 .. Len(stack') : /\ stack'[i] = stack[i] /\ stack[i].phase # "C"
                                       /\ stack[i].handle \in inited
      BY <1>3, <2>1 DEF StackInv
    <2> QED
      BY <2>2, <2>3
  <1> QED
    BY <1>6, <1>7, <1>8, <1>9, <1>10 DEF StackInv

(***************************************************************************)
(* The inductive invariant of the swappable context.                       *)
(***************************************************************************)
CtxType ==
  /\ cur \in Handle \cup {NoHandle}
  /\ globals \in Val
  /\ contexts \in [Handle -> Val]

CtxInv == CtxType /\ SavedWhileHost /\ ContextOwned

(* Restore(h) makes h's context current and leaves it saved when it was    *)
(* saved before.                                                           *)
LEMMA RestoreCtx ==
  ASSUME StackInv, CtxInv, ~InC, NEW h \in Handle, h \in inited, Restore(h),
         inited' = inited, InC' => Top'.handle = h
  PROVE  CtxInv'
  BY ConstantsOK
     DEF CtxInv, CtxType, SavedWhileHost, ContextOwned, HostTurn, Restore

(* Save, done by the running program, makes its context up to date. *)
LEMMA SaveCtx ==
  ASSUME StackInv, CtxInv, InC, Save, inited' = inited, ~InC'
  PROVE  CtxInv'
  <1>1. cur \in Handle
    BY TopCounted DEF InC, CtxInv, ContextOwned
  <1> QED
    BY <1>1 DEF CtxInv, CtxType, SavedWhileHost, ContextOwned, HostTurn, Save

(***************************************************************************)
(* The inductive invariant of the object table: the locals of the          *)
(* activations of a program form a chain, in which each activation adds    *)
(* the objects of its own row to the count it found.                       *)
(***************************************************************************)
ObjType ==
  /\ objcnt \in [Handle -> Nat]
  /\ objs \in [Handle -> [1 .. MaxRecur -> SUBSET Addr]]
  /\ crashed \in BOOLEAN

Base(h, k) == IF k <= recur_cnt[h] THEN frames[h][k].objcnt ELSE objcnt[h]

Chain(h) ==
  /\ Base(h, 1) = 0
  /\ \A k \in 1 .. recur_cnt[h] :
       Base(h, k + 1) = Base(h, k) + Cardinality(objs[h][k]) + frames[h][k].nulls

RowsOK(h) ==
  \A r \in 1 .. MaxRecur : /\ IsFiniteSet(objs[h][r])
                           /\ r > recur_cnt[h] => objs[h][r] = {}

NullsOK(h) ==
  HeapMayFail \/ \A k \in 1 .. recur_cnt[h] : frames[h][k].nulls = 0

ObjInv ==
  /\ ObjType
  /\ \A h \in Handle : RowsOK(h) /\ NullsOK(h)
  /\ ~crashed => \A h \in Handle : Chain(h)
  /\ HeapMayFail \/ ~crashed

(* What the chain says about the innermost activation. *)
LEMMA TopObjects ==
  ASSUME StackInv, ObjInv, stack # <<>>, ~crashed
  PROVE  LET h == Top.handle IN
         /\ Local(h) \in Frame
         /\ IsFiniteSet(Row(h)) /\ Cardinality(Row(h)) \in Nat
         /\ objcnt[h] = Local(h).objcnt + Cardinality(Row(h)) + Local(h).nulls
  <1> DEFINE h == Top.handle
             r == recur_cnt[h]
  <1>1. h \in Handle /\ r \in 1 .. MaxRecur /\ r \in Nat \ {0}
    BY TopCounted, ConstantsOK
  <1>2. frames[h] \in Seq(Frame) /\ Len(frames[h]) = r /\ r \in 1 .. r
    BY <1>1 DEF StackInv, StackType
  <1>3. Local(h) \in Frame
    BY <1>2, ElementOfSeq DEF Local
  <1>4. IsFiniteSet(Row(h)) /\ Cardinality(Row(h)) \in Nat
    BY <1>1, FS_CardinalityType DEF ObjInv, RowsOK, Row
  <1>5. Base(h, r + 1) = Base(h, r) + Cardinality(objs[h][r]) + frames[h][r].nulls
    BY <1>1, <1>2 DEF ObjInv, Chain
  <1>6. Base(h, r + 1) = objcnt[h] /\ Base(h, r) = Local(h).objcnt
    BY <1>1 DEF Base, Local
  <1> QED
    BY <1>3, <1>4, <1>5, <1>6 DEF Row, Local

(* Changing the count of null objects in the innermost locals. *)
LEMMA LocalNulls ==
  ASSUME StackInv, NEW h \in Handle, recur_cnt[h] \in 1 .. MaxRecur,
         NEW x \in Nat, frames' = [frames EXCEPT ![h][recur_cnt[h]].nulls = x]
  PROVE  /\ frames' \in [Handle -> Seq(Frame)]
         /\ \A g \in Handle \ {h} : frames'[g] = frames[g]
         /\ Len(frames'[h]) = Len(frames[h])
         /\ \A k \in 1 .. Len(frames[h]) : k # recur_cnt[h] => frames'[h][k] = frames[h][k]
         /\ Local(h).noret = frames'[h][recur_cnt[h]].noret
         /\ Local(h).objcnt = frames'[h][recur_cnt[h]].objcnt
         /\ frames'[h][recur_cnt[h]].nulls = x
  <1> DEFINE r == recur_cnt[h]
             f == [frames[h][r] EXCEPT !.nulls = x]
             t == [frames[h] EXCEPT ![r] = f]
  <1>1. /\ frames \in [Handle -> Seq(Frame)]
        /\ frames[h] \in Seq(Frame)
        /\ r \in 1 .. Len(frames[h])
    BY ConstantsOK DEF StackInv, StackType
  <1>2. frames[h][r] \in Frame
    BY <1>1, ElementOfSeq
  <1>3. /\ f \in Frame /\ f.nulls = x
        /\ f.noret = frames[h][r].noret /\ f.objcnt = frames[h][r].objcnt
    BY <1>2 DEF Frame
  <1>4. /\ t \in Seq(Frame)
        /\ Len(t) = Len(frames[h])
        /\ \A j \in 1 .. Len(frames[h]) : t[j] = IF j = r THEN f ELSE frames[h][j]
    <2> HIDE DEF f, r
    <2> QED
      BY <1>1, <1>3, ExceptSeq
  <1>5. frames' = [frames EXCEPT ![h] = t]
    BY <1>1
  <1>6. frames' \in [Handle -> Seq(Frame)] /\ frames'[h] = t
        /\ \A g \in Handle \ {h} : frames'[g] = frames[g]
    <2> HIDE DEF t
    <2> QED
      BY <1>1, <1>4, <1>5
  <1> QED
    <2> HIDE DEF t, f
    <2> QED
      BY <1>1, <1>3, <1>4, <1>6 DEF Local

(* Changing the innermost row and count of a program by the same amount.   *)
LEMMA RowChange ==
  ASSUME StackInv, ObjInv, ~crashed,
         NEW h \in Handle, recur_cnt[h] \in 1 .. MaxRecur,
         NEW R \in SUBSET Addr, IsFiniteSet(R),
         NEW c \in Nat,
         c = Local(h).objcnt + Cardinality(R) + Local(h).nulls,
         objs' = [objs EXCEPT ![h][recur_cnt[h]] = R],
         objcnt' = [objcnt EXCEPT ![h] = c],
         UNCHANGED <<frames, recur_cnt, crashed>>
  PROVE  ObjInv'
  <1> DEFINE r == recur_cnt[h]
  <1>1. r \in 1 .. MaxRecur /\ r \in Nat \ {0} /\ r' = r
    BY ConstantsOK
  <1>2. /\ ObjType
        /\ \A g \in Handle : RowsOK(g) /\ NullsOK(g) /\ Chain(g)
    BY DEF ObjInv
  <1>3. ObjType'
    BY <1>1, <1>2 DEF ObjType
  <1>4. ASSUME NEW g \in Handle, g # h
        PROVE  RowsOK(g)' /\ NullsOK(g)' /\ Chain(g)'
    <2>1. objs'[g] = objs[g] /\ objcnt'[g] = objcnt[g]
      BY <1>2, <1>4 DEF ObjType
    <2> QED
      BY <1>2, <2>1 DEF RowsOK, NullsOK, Chain, Base
  <1>5. /\ objs'[h][r] = R /\ objcnt'[h] = c
        /\ \A k \in 1 .. MaxRecur : k # r => objs'[h][k] = objs[h][k]
    BY <1>1, <1>2 DEF ObjType
  <1>6. RowsOK(h)' /\ NullsOK(h)'
    BY <1>1, <1>2, <1>5 DEF RowsOK, NullsOK
  <1>7. Chain(h)'
    <2>1. Base(h, 1)' = 0
      BY <1>1, <1>2 DEF Chain, Base
    <2>2. ASSUME NEW k \in 1 .. r
          PROVE  Base(h, k + 1)' =
                   Base(h, k)' + Cardinality(objs'[h][k]) + frames'[h][k].nulls
      <3>1. CASE k = r
        <4>1. Base(h, k + 1)' = c /\ Base(h, k)' = Local(h).objcnt
          BY <1>1, <1>5, <3>1 DEF Base, Local
        <4> QED
          BY <1>5, <3>1, <4>1 DEF Local
      <3>2. CASE k # r
        <4>1. /\ Base(h, k + 1)' = Base(h, k + 1) /\ Base(h, k)' = Base(h, k)
              /\ objs'[h][k] = objs[h][k]
          BY <1>1, <1>5, <3>2 DEF Base
        <4> QED
          BY <1>2, <4>1 DEF Chain
      <3> QED
        BY <3>1, <3>2
    <2> QED
      BY <2>1, <2>2 DEF Chain
  <1> QED
    BY <1>3, <1>4, <1>6, <1>7 DEF ObjInv

(* Counting an object whose allocation failed, or releasing it.            *)
LEMMA NullChange ==
  ASSUME StackInv, ObjInv, ~crashed, HeapMayFail,
         NEW h \in Handle, recur_cnt[h] \in 1 .. MaxRecur,
         NEW c \in Nat, NEW x \in Nat,
         c = Local(h).objcnt + Cardinality(Row(h)) + x,
         frames' = [frames EXCEPT ![h][recur_cnt[h]].nulls = x],
         objcnt' = [objcnt EXCEPT ![h] = c],
         UNCHANGED <<objs, recur_cnt, crashed>>
  PROVE  ObjInv'
  <1> DEFINE r == recur_cnt[h]
  <1>1. r \in 1 .. MaxRecur /\ r \in Nat \ {0} /\ r' = r /\ Len(frames[h]) = r
    BY ConstantsOK DEF StackInv
  <1>2. /\ ObjType
        /\ \A g \in Handle : RowsOK(g) /\ Chain(g)
    BY DEF ObjInv
  <1>3. ObjType' /\ objcnt'[h] = c /\ \A g \in Handle : RowsOK(g)' /\ NullsOK(g)'
    BY <1>2 DEF ObjType, RowsOK, NullsOK
  <1>4. ASSUME NEW g \in Handle, g # h
        PROVE  Chain(g)'
    <2>1. frames'[g] = frames[g] /\ objcnt'[g] = objcnt[g]
      BY <1>2, <1>4, LocalNulls DEF ObjType
    <2> QED
      BY <1>2, <2>1 DEF Chain, Base
  <1>5. /\ \A k \in 1 .. r : k # r => frames'[h][k] = frames[h][k]
        /\ frames'[h][r].objcnt = Local(h).objcnt
        /\ frames'[h][r].nulls = x
    BY <1>1, LocalNulls
  <1>6. Chain(h)'
    <2>1. Base(h, 1)' = 0
      BY <1>1, <1>2, <1>5 DEF Chain, Base, Local
    <2>2. ASSUME NEW k \in 1 .. r
          PROVE  Base(h, k + 1)' =
                   Base(h, k)' + Cardinality(objs'[h][k]) + frames'[h][k].nulls
      <3>1. CASE k = r
        <4>1. Base(h, k + 1)' = c /\ Base(h, k)' = Local(h).objcnt
          BY <1>1, <1>3, <1>5, <3>1 DEF Base
        <4> QED
          BY <1>5, <3>1, <4>1 DEF Row
      <3>2. CASE k # r
        <4>1. Base(h, k)' = Base(h, k)
          BY <1>1, <1>5, <3>2 DEF Base
        <4>2. Base(h, k + 1)' = Base(h, k + 1)
          BY <1>1, <1>5, <3>2 DEF Base, Local
        <4> QED
          BY <1>2, <1>5, <3>2, <4>1, <4>2 DEF Chain
      <3> QED
        BY <3>1, <3>2
    <2> QED
      BY <2>1, <2>2 DEF Chain
  <1> QED
    BY <1>3, <1>4, <1>6 DEF ObjInv

(* dj64_call starts a new link of the chain with an empty row.             *)
LEMMA CallObjects ==
  ASSUME StackInv, ObjInv, ~crashed, NEW h \in Handle, dj64_call(h)
  PROVE  ObjInv'
  <1>0. PICK r \in Nat : r = recur_cnt[h]
    BY ConstantsOK DEF StackInv, StackType
  <1> DEFINE f == [noret |-> noret_jmp[h], objcnt |-> objcnt[h], nulls |-> 0]
  <1>1. /\ frames' = [frames EXCEPT ![h] = Append(@, f)]
        /\ recur_cnt' = [recur_cnt EXCEPT ![h] = @ + 1]
        /\ UNCHANGED <<objcnt, objs, crashed>>
        /\ r < MaxRecur /\ r \in Nat
        /\ frames[h] \in Seq(Frame) /\ Len(frames[h]) = r
        /\ frames \in [Handle -> Seq(Frame)]
        /\ recur_cnt \in [Handle -> 0 .. MaxRecur]
        /\ objcnt[h] \in Nat
    BY <1>0, ConstantsOK
       DEF dj64_call, RecurAllowed, StackInv, StackType, ObjInv, ObjType, objvars
  <1>2. /\ ObjType
        /\ \A g \in Handle : RowsOK(g) /\ NullsOK(g) /\ Chain(g)
    BY DEF ObjInv
  <1>3. /\ recur_cnt'[h] = r + 1
        /\ frames'[h] = Append(frames[h], f)
        /\ \A g \in Handle \ {h} : recur_cnt'[g] = recur_cnt[g] /\ frames'[g] = frames[g]
    BY <1>0, <1>1
  <1>4. /\ \A k \in 1 .. r : frames'[h][k] = frames[h][k]
        /\ frames'[h][r + 1] = f
    BY <1>1, <1>3
  <1>5. ASSUME NEW g \in Handle, g # h
        PROVE  RowsOK(g)' /\ NullsOK(g)' /\ Chain(g)'
    BY <1>1, <1>2, <1>3, <1>5 DEF RowsOK, NullsOK, Chain, Base
  <1>6. RowsOK(h)'
    BY <1>0, <1>1, <1>2, <1>3, ConstantsOK DEF RowsOK
  <1>7. NullsOK(h)'
    BY <1>0, <1>1, <1>2, <1>3, <1>4 DEF NullsOK
  <1>8. Chain(h)'
    <2>1. \A k \in 1 .. r + 1 : Base(h, k)' = Base(h, k)
      BY <1>0, <1>1, <1>3, <1>4 DEF Base
    <2>2. Base(h, r + 2)' = objcnt[h] /\ Base(h, r + 1) = objcnt[h]
      BY <1>0, <1>1, <1>3 DEF Base
    <2>3. Cardinality(objs[h][r + 1]) = 0 /\ frames'[h][r + 1].nulls = 0
      <3>1. r + 1 \in 1 .. MaxRecur /\ r + 1 > r
        BY <1>1, ConstantsOK
      <3>2. objs[h][r + 1] = {}
        BY <1>0, <1>2, <3>1 DEF RowsOK
      <3> QED
        BY <1>4, <3>2, FS_EmptySet
    <2>4. Base(h, 1)' = 0
      BY <1>1, <1>2, <2>1 DEF Chain
    <2>5. ASSUME NEW k \in 1 .. r + 1
          PROVE  Base(h, k + 1)' =
                   Base(h, k)' + Cardinality(objs'[h][k]) + frames'[h][k].nulls
      <3>1. CASE k = r + 1
        <4>1. k + 1 = r + 2
          BY <3>1
        <4>2. Base(h, k + 1)' = objcnt[h]
          BY <2>2, <4>1
        <4>3. Base(h, k)' = objcnt[h]
          BY <2>1, <2>2, <3>1
        <4>4. Cardinality(objs'[h][k]) = 0 /\ frames'[h][k].nulls = 0
          BY <1>1, <2>3, <3>1
        <4> QED
          BY <1>1, <4>2, <4>3, <4>4
      <3>2. CASE k # r + 1
        <4>1. k \in 1 .. r /\ k + 1 \in 1 .. r + 1
          BY <1>1, <3>2
        <4> QED
          BY <1>0, <1>1, <1>2, <1>4, <2>1, <4>1 DEF Chain
      <3> QED
        BY <3>1, <3>2
    <2> QED
      BY <1>3, <2>4, <2>5 DEF Chain
  <1>9. ObjType'
    BY <1>1, <1>2 DEF ObjType
  <1> QED
    BY <1>1, <1>5, <1>6, <1>7, <1>8, <1>9 DEF ObjInv

(* Leaving dj64_call after the objects of the innermost row are gone       *)
(* removes a link of the chain; it crashes only if a null object is left.  *)
LEMMA LeaveObjects ==
  ASSUME StackInv, ObjInv, ~crashed, stack # <<>>,
         NEW h \in Handle, h = Top.handle, LeaveCall(h),
         objs' = [objs EXCEPT ![h][recur_cnt[h]] = {}],
         objcnt' = [objcnt EXCEPT ![h] = @ - Cardinality(Row(h))]
  PROVE  ObjInv'
  <1>0. PICK r \in 1 .. MaxRecur : r = recur_cnt[h]
    BY TopCounted
  <1> DEFINE c == objcnt[h] - Cardinality(Row(h))
  <1>1. /\ r \in Nat \ {0}
        /\ frames[h] \in Seq(Frame) /\ Len(frames[h]) = r
        /\ frames \in [Handle -> Seq(Frame)]
        /\ recur_cnt \in [Handle -> 0 .. MaxRecur]
    BY <1>0, ConstantsOK DEF StackInv, StackType
  <1>2. /\ ObjType
        /\ \A g \in Handle : RowsOK(g) /\ NullsOK(g) /\ Chain(g)
    BY DEF ObjInv
  <1>3. /\ c = Local(h).objcnt + Local(h).nulls
        /\ c \in Nat
        /\ Local(h) \in Frame
    BY TopObjects DEF Frame
  <1>4. /\ recur_cnt' = [recur_cnt EXCEPT ![h] = r - 1]
        /\ frames' = [frames EXCEPT ![h] = SubSeq(frames[h], 1, r - 1)]
        /\ objcnt' = [objcnt EXCEPT ![h] = c]
        /\ crashed' = (objcnt'[h] # Local(h).objcnt)
    BY <1>0, <1>1 DEF LeaveCall
  <1>5. ObjType' /\ objcnt'[h] = c
    BY <1>0, <1>1, <1>2, <1>3, <1>4 DEF ObjType
  <1>6. frames[h] # <<>>
    BY <1>1
  <1>7. \A k \in 1 .. r - 1 : SubSeq(frames[h], 1, r - 1)[k] = frames[h][k]
    BY <1>1, <1>6, DropLast
  <1>8. /\ recur_cnt'[h] = r - 1
        /\ \A k \in 1 .. r - 1 : frames'[h][k] = frames[h][k]
        /\ objs'[h][r] = {}
        /\ \A k \in 1 .. MaxRecur : k # r => objs'[h][k] = objs[h][k]
        /\ \A g \in Handle \ {h} : /\ recur_cnt'[g] = recur_cnt[g]
                                   /\ frames'[g] = frames[g]
                                   /\ objs'[g] = objs[g]
                                   /\ objcnt'[g] = objcnt[g]
    <2>1. PICK R \in SUBSET Addr : R = {}
      OBVIOUS
    <2>2. objs' = [objs EXCEPT ![h][r] = R]
      BY <1>0, <2>1
    <2>3. /\ objs'[h][r] = R
          /\ \A k \in 1 .. MaxRecur : k # r => objs'[h][k] = objs[h][k]
          /\ \A g \in Handle \ {h} : objs'[g] = objs[g]
      <3>1. /\ objs \in [Handle -> [1 .. MaxRecur -> SUBSET Addr]]
            /\ objs[h] \in [1 .. MaxRecur -> SUBSET Addr]
            /\ r \in 1 .. MaxRecur
        BY <1>0, <1>2 DEF ObjType
      <3>2. objs'[h] = [objs[h] EXCEPT ![r] = R]
        BY <2>2, <3>1
      <3>3. \A g \in Handle \ {h} : objs'[g] = objs[g]
        BY <2>2, <3>1
      <3> QED
        BY <3>1, <3>2, <3>3
    <2>4. /\ recur_cnt'[h] = r - 1
          /\ frames'[h] = SubSeq(frames[h], 1, r - 1)
          /\ \A g \in Handle \ {h} : /\ recur_cnt'[g] = recur_cnt[g]
                                     /\ frames'[g] = frames[g]
                                     /\ objcnt'[g] = objcnt[g]
      BY <1>1, <1>2, <1>4 DEF ObjType
    <2> QED
      BY <1>7, <2>1, <2>3, <2>4
  <1>9. ASSUME NEW g \in Handle, g # h
        PROVE  RowsOK(g)' /\ NullsOK(g)' /\ Chain(g)'
    BY <1>2, <1>8, <1>9 DEF RowsOK, NullsOK, Chain, Base
  <1>10. RowsOK(h)'
    <2> SUFFICES ASSUME NEW k \in 1 .. MaxRecur
                 PROVE  IsFiniteSet(objs'[h][k]) /\ (k > r - 1 => objs'[h][k] = {})
      BY <1>8 DEF RowsOK
    <2>1. CASE k = r
      BY <1>8, <2>1, FS_EmptySet
    <2>2. CASE k # r
      <3>1. k > r - 1 => k > r
        BY <1>1, <2>2, ConstantsOK
      <3>2. IsFiniteSet(objs[h][k]) /\ (k > r => objs[h][k] = {})
        BY <1>0, <1>2 DEF RowsOK
      <3> QED
        BY <1>8, <2>2, <3>1, <3>2
    <2> QED
      BY <2>1, <2>2
  <1>11. NullsOK(h)'
    <2>1. \A k \in 1 .. r - 1 : k \in 1 .. r
      BY <1>1
    <2> QED
      BY <1>0, <1>2, <1>8, <2>1 DEF NullsOK
  <1>12. ASSUME ~crashed'
         PROVE  Chain(h)'
    <2>1. c = Local(h).objcnt
      BY <1>4, <1>5, <1>12
    <2>2. \A k \in 1 .. r : Base(h, k)' = Base(h, k)
      BY <1>0, <1>1, <1>5, <1>8, <2>1 DEF Base, Local
    <2>3. \A k \in 1 .. r - 1 : k \in 1 .. r /\ k + 1 \in 1 .. r /\ k \in 1 .. MaxRecur /\ k # r
      BY <1>1, ConstantsOK
    <2>4. Base(h, 1)' = 0
      <3>1. 1 \in 1 .. r /\ Base(h, 1) = 0
        BY <1>1, <1>2 DEF Chain
      <3> QED
        BY <2>2, <3>1
    <2>5. ASSUME NEW k \in 1 .. r - 1
          PROVE  Base(h, k + 1)' =
                   Base(h, k)' + Cardinality(objs'[h][k]) + frames'[h][k].nulls
      BY <1>0, <1>2, <1>8, <2>2, <2>3 DEF Chain
    <2> QED
      BY <1>8, <2>4, <2>5 DEF Chain
  <1>13. HeapMayFail \/ ~crashed'
    <2> SUFFICES ASSUME ~HeapMayFail PROVE ~crashed'
      OBVIOUS
    <2>1. Local(h).nulls = 0
      BY <1>0, <1>1, <1>2 DEF NullsOK, Local
    <2>2. Local(h).objcnt \in Nat
      BY <1>3 DEF Frame
    <2>3. objcnt'[h] = Local(h).objcnt
      BY <1>3, <1>5, <2>1, <2>2
    <2> QED
      BY <1>4, <2>3
  <1> QED
    BY <1>5, <1>9, <1>10, <1>11, <1>12, <1>13 DEF ObjInv

(***************************************************************************)
(* Every step preserves the three invariants together.                     *)
(***************************************************************************)
IInv == StackInv /\ CtxInv /\ ObjInv

LEMMA InitIInv == Init => IInv
  <1> SUFFICES ASSUME Init PROVE IInv
    OBVIOUS
  <1>1. ~InC /\ \A h \in Handle : Level(h) = {}
    BY DEF Init, InC, Level
  <1>2. StackInv
    <2>1. StackType
      BY ConstantsOK DEF Init, StackType
    <2>2. NoretLive
      BY <1>1, FS_EmptySet DEF Init, NoretLive
    <2> QED
      BY <1>1, <2>1, <2>2 DEF Init, StackInv
  <1>3. CtxInv
    BY <1>1, ConstantsOK DEF Init, CtxInv, CtxType, SavedWhileHost, ContextOwned
  <1>4. ObjInv
    <2>1. ObjType
      BY DEF Init, ObjType
    <2>2. ASSUME NEW h \in Handle PROVE RowsOK(h) /\ NullsOK(h) /\ Chain(h)
      BY FS_EmptySet DEF Init, RowsOK, NullsOK, Chain, Base
    <2> QED
      BY <2>1, <2>2 DEF Init, ObjInv
  <1> QED
    BY <1>2, <1>3, <1>4 DEF IInv

(* The frame of an action that does not touch the control state.           *)
LEMMA StackStutter ==
  ASSUME StackInv, UNCHANGED <<inited, stack, frames, recur_cnt, noret_jmp, s_regs>>
  PROVE  StackInv'
  BY StackUnchanged DEF StackInv, StackType

(* The frame of an action that does not touch the object table.            *)
LEMMA ObjStutter ==
  ASSUME ObjInv, UNCHANGED <<objcnt, objs, frames, recur_cnt, crashed>>
  PROVE  ObjInv'
  BY DEF ObjInv, ObjType, RowsOK, NullsOK, Chain, Base

(* The frame of an action that touches neither stack nor context.          *)
LEMMA CtxStutter ==
  ASSUME CtxInv, UNCHANGED <<inited, stack, cur, globals, contexts>>
  PROVE  CtxInv'
  BY DEF CtxInv, CtxType, SavedWhileHost, ContextOwned, HostTurn, InC, Top

(* DJ64_INIT_FN *)
LEMMA InitFn ==
  ASSUME IInv, NEW h \in Handle, DJ64_INIT(h) PROVE IInv'
  <1>1. ~InC /\ ~InC'
    BY DEF DJ64_INIT, HostTurn, InC, Top
  <1>2. StackInv'
    BY <1>1 DEF DJ64_INIT, IInv, StackInv, StackType, NoretLive, Level
  <1>3. CtxInv'
    BY <1>1, ConstantsOK
       DEF DJ64_INIT, IInv, CtxInv, CtxType, SavedWhileHost, ContextOwned, HostTurn
  <1>4. ObjInv'
    BY ObjStutter DEF DJ64_INIT, IInv, objvars
  <1> QED
    BY <1>2, <1>3, <1>4 DEF IInv

(* DJ64_DONE_FN *)
LEMMA DoneFn ==
  ASSUME IInv, NEW h \in Handle, DJ64_DONE(h) PROVE IInv'
  <1>1. ~InC /\ ~InC'
    BY DEF DJ64_DONE, HostTurn, InC, Top
  <1>2. StackInv'
    BY <1>1 DEF DJ64_DONE, IInv, StackInv, StackType, NoretLive, Level
  <1>3. CtxInv'
    BY <1>1, ConstantsOK
       DEF DJ64_DONE, Deinit, IInv, CtxInv, CtxType, SavedWhileHost, ContextOwned,
           HostTurn
  <1>4. ObjInv'
    BY ObjStutter DEF DJ64_DONE, IInv, objvars
  <1> QED
    BY <1>2, <1>3, <1>4 DEF IInv

(* The dispatcher returns. *)
LEMMA ReturnStep ==
  ASSUME IInv, ~crashed, DispatchReturn PROVE IInv'
  <1>1. /\ stack # <<>> /\ InC /\ Row(Top.handle) = {} /\ LeaveCall(Top.handle)
        /\ Save /\ UNCHANGED <<inited, s_regs, objcnt, objs>>
    BY DEF DispatchReturn, InC, objvars
  <1>2. StackInv' /\ ~InC'
    BY <1>1, LeaveStack DEF IInv
  <1>3. CtxInv'
    BY <1>1, <1>2, SaveCtx DEF IInv
  <1>4. ObjInv'
    <2>1. PICK h \in Handle : h = Top.handle
      BY <1>1, TopCounted DEF IInv
    <2>2. /\ recur_cnt[h] \in 1 .. MaxRecur /\ objcnt[h] \in Nat
          /\ objs \in [Handle -> [1 .. MaxRecur -> SUBSET Addr]]
          /\ objcnt \in [Handle -> Nat]
      BY <1>1, <2>1, TopCounted DEF IInv, ObjInv, ObjType
    <2>3. objs' = [objs EXCEPT ![h][recur_cnt[h]] = {}]
      BY <1>1, <2>1, <2>2 DEF Row
    <2>4. objcnt' = [objcnt EXCEPT ![h] = @ - Cardinality(Row(h))]
      <3>1. Cardinality(Row(h)) = 0
        BY <1>1, <2>1, FS_EmptySet
      <3> QED
        BY <1>1, <2>2, <3>1
    <2> QED
      BY <1>1, <2>1, <2>3, <2>4, LeaveObjects DEF IInv
  <1> QED
    BY <1>2, <1>3, <1>4 DEF IInv

(* The two ways a suspended activation ends by longjmp(). *)
LEMMA LongJmpStep ==
  ASSUME IInv, ~crashed, stack # <<>>, ~InC, LongJmp PROVE IInv'
  <1>1. PICK h \in Handle : h = Top.handle /\ h \in inited
    BY TopCounted DEF IInv
  <1>2. /\ Restore(h) /\ LeaveCall(h) /\ UNCHANGED <<inited, s_regs>>
        /\ objs' = [objs EXCEPT ![h][recur_cnt[h]] = {}]
        /\ objcnt' = [objcnt EXCEPT ![h] = @ - Cardinality(Row(h))]
    BY <1>1 DEF LongJmp, CollectRow
  <1>3. StackInv' /\ ~InC'
    BY <1>1, <1>2, LeaveStack DEF IInv
  <1>4. CtxInv'
    BY <1>1, <1>2, <1>3, RestoreCtx DEF IInv
  <1>5. ObjInv'
    BY <1>1, <1>2, LeaveObjects DEF IInv
  <1> QED
    BY <1>3, <1>4, <1>5 DEF IInv

(* dj64_call *)
LEMMA CallStep ==
  ASSUME IInv, ~crashed, NEW h \in Handle, dj64_call(h) PROVE IInv'
  <1>1. StackInv' /\ ObjInv'
    BY CallStack, CallObjects DEF IInv, ObjInv, ObjType
  <1>2. Top'.handle = h
    <2>1. stack \in Seq([handle : Handle, phase : Phase])
      BY DEF IInv, StackInv, StackType
    <2>2. stack' = Append(stack, [handle |-> h, phase |-> "C"])
      BY DEF dj64_call
    <2>3. Len(stack') = Len(stack) + 1
          /\ stack'[Len(stack) + 1] = [handle |-> h, phase |-> "C"]
      BY <2>1, <2>2 DEF Phase
    <2> QED
      BY <2>3 DEF Top
  <1>3. CtxInv'
    BY <1>2, RestoreCtx DEF dj64_call, HostTurn, IInv
  <1> QED
    BY <1>1, <1>3 DEF IInv

(* What C code does to its objects. *)
LEMMA ObjectStep ==
  ASSUME IInv, ~crashed,
         \/ \E a \in Addr : dj64_obj_init(a) \/ dj64_obj_done(a)
         \/ dj64_obj_init_null
         \/ dj64_obj_done_null
  PROVE  IInv'
  <1>1. InC /\ stack # <<>> /\ UNCHANGED <<inited, stack, recur_cnt, noret_jmp, s_regs, cur, globals, contexts, crashed>>
    BY DEF dj64_obj_init, dj64_obj_done, dj64_obj_init_null, dj64_obj_done_null, InC, ctxvars
  <1>2. CtxInv'
    BY <1>1, CtxStutter DEF IInv
  <1>3. PICK h \in Handle : h = Top.handle
    BY <1>1, TopCounted DEF IInv
  <1>4. recur_cnt[h] \in 1 .. MaxRecur
    BY <1>1, <1>3, TopCounted DEF IInv
  <1>5. /\ Local(h).objcnt \in Nat /\ Local(h).nulls \in Nat
        /\ IsFiniteSet(Row(h)) /\ Cardinality(Row(h)) \in Nat
        /\ objcnt[h] = Local(h).objcnt + Cardinality(Row(h)) + Local(h).nulls
        /\ Row(h) \in SUBSET Addr
    BY <1>1, <1>3, <1>4, TopObjects DEF IInv, Frame, ObjInv, ObjType, Row
  <1>6. ASSUME NEW a \in Addr, dj64_obj_init(a) PROVE StackInv' /\ ObjInv'
    <2> DEFINE R == Row(h) \cup {a}
    <2>1. /\ objs' = [objs EXCEPT ![h][recur_cnt[h]] = R]
          /\ objcnt' = [objcnt EXCEPT ![h] = objcnt[h] + 1]
          /\ a \notin Row(h)
          /\ frames' = frames
      BY <1>3, <1>4, <1>6 DEF dj64_obj_init, Row
    <2>2. R \in SUBSET Addr /\ IsFiniteSet(R) /\ Cardinality(R) = Cardinality(Row(h)) + 1
      BY <1>5, <2>1, FS_AddElement
    <2>3. /\ objcnt[h] + 1 \in Nat
          /\ objcnt[h] + 1 = Local(h).objcnt + Cardinality(R) + Local(h).nulls
      BY <1>5, <2>2
    <2>4. ObjInv'
      <3> HIDE DEF R
      <3> QED
        BY <1>1, <1>4, <2>1, <2>2, <2>3, RowChange DEF IInv
    <2> QED
      BY <1>1, <2>1, <2>4, StackStutter DEF IInv
  <1>7. ASSUME NEW a \in Addr, dj64_obj_done(a) PROVE StackInv' /\ ObjInv'
    <2> DEFINE R == Row(h) \ {a}
    <2>1. /\ objs' = [objs EXCEPT ![h][recur_cnt[h]] = R]
          /\ objcnt' = [objcnt EXCEPT ![h] = objcnt[h] - 1]
          /\ a \in Row(h)
          /\ frames' = frames
      BY <1>3, <1>4, <1>7 DEF dj64_obj_done, Row
    <2>2. R \in SUBSET Addr /\ IsFiniteSet(R) /\ Cardinality(R) = Cardinality(Row(h)) - 1
      BY <1>5, <2>1, FS_RemoveElement
    <2>3. Cardinality(R) \in Nat
      BY <2>2, FS_CardinalityType
    <2>4. /\ objcnt[h] - 1 \in Nat
          /\ objcnt[h] - 1 = Local(h).objcnt + Cardinality(R) + Local(h).nulls
      BY <1>5, <2>2, <2>3
    <2>5. ObjInv'
      <3> HIDE DEF R
      <3> QED
        BY <1>1, <1>4, <2>1, <2>2, <2>4, RowChange DEF IInv
    <2> QED
      BY <1>1, <2>1, <2>5, StackStutter DEF IInv
  <1>8. ASSUME NEW x \in Nat, NEW c \in Nat, HeapMayFail,
               c = Local(h).objcnt + Cardinality(Row(h)) + x,
               frames' = [frames EXCEPT ![h][recur_cnt[h]].nulls = x],
               objcnt' = [objcnt EXCEPT ![h] = c], objs' = objs
        PROVE  StackInv' /\ ObjInv'
    <2>1. ObjInv'
      BY <1>1, <1>4, <1>8, NullChange DEF IInv
    <2>2. /\ frames' \in [Handle -> Seq(Frame)]
          /\ \A g \in Handle :
               /\ Len(frames'[g]) = Len(frames[g])
               /\ \A k \in 1 .. Len(frames[g]) : frames'[g][k].noret = frames[g][k].noret
      <3>1. Len(frames[h]) = recur_cnt[h]
        BY DEF IInv, StackInv
      <3>2. /\ frames' \in [Handle -> Seq(Frame)]
            /\ \A g \in Handle \ {h} : frames'[g] = frames[g]
            /\ Len(frames'[h]) = Len(frames[h])
            /\ \A k \in 1 .. Len(frames[h]) :
                 k # recur_cnt[h] => frames'[h][k] = frames[h][k]
            /\ frames[h][recur_cnt[h]].noret = frames'[h][recur_cnt[h]].noret
        BY <1>4, <1>8, LocalNulls DEF IInv, Local
      <3>3. \A k \in 1 .. Len(frames[h]) : frames'[h][k].noret = frames[h][k].noret
        BY <3>2
      <3> QED
        BY <3>2, <3>3
    <2> QED
      BY <1>1, <2>1, <2>2, StackUnchanged DEF IInv
  <1>9. ASSUME dj64_obj_init_null PROVE StackInv' /\ ObjInv'
    <2>1. /\ HeapMayFail
          /\ frames' = [frames EXCEPT ![h][recur_cnt[h]].nulls = Local(h).nulls + 1]
          /\ objcnt' = [objcnt EXCEPT ![h] = objcnt[h] + 1]
          /\ objs' = objs
      BY <1>3, <1>9 DEF dj64_obj_init_null, Local
    <2>2. /\ objcnt[h] + 1 \in Nat /\ Local(h).nulls + 1 \in Nat
          /\ objcnt[h] + 1 = Local(h).objcnt + Cardinality(Row(h)) + (Local(h).nulls + 1)
      BY <1>5
    <2> QED
      BY <1>8, <2>1, <2>2
  <1>10. ASSUME dj64_obj_done_null PROVE StackInv' /\ ObjInv'
    <2>1. /\ Local(h).nulls > 0
          /\ frames' = [frames EXCEPT ![h][recur_cnt[h]].nulls = Local(h).nulls - 1]
          /\ objcnt' = [objcnt EXCEPT ![h] = objcnt[h] - 1]
          /\ objs' = objs
      BY <1>3, <1>10 DEF dj64_obj_done_null, Local
    <2>2. HeapMayFail
      BY <1>4, <1>5, <2>1, ConstantsOK DEF IInv, ObjInv, NullsOK, Local
    <2>3. /\ objcnt[h] - 1 \in Nat /\ Local(h).nulls - 1 \in Nat
          /\ objcnt[h] - 1 = Local(h).objcnt + Cardinality(Row(h)) + (Local(h).nulls - 1)
      BY <1>5, <2>1
    <2> QED
      BY <1>8, <2>1, <2>2, <2>3
  <1> QED
    BY <1>2, <1>6, <1>7, <1>9, <1>10 DEF IInv

LEMMA StepIInv == IInv /\ [Next]_vars => IInv'
  <1> SUFFICES ASSUME IInv, [Next]_vars PROVE IInv'
    OBVIOUS
  <1>1. CASE UNCHANGED vars
    BY <1>1, StackStutter, ObjStutter, CtxStutter DEF vars, IInv
  <1>2. CASE ~crashed /\ Step
    <2> USE <1>2
    <2>1. ASSUME NEW h \in Handle, DJ64_INIT(h) PROVE IInv'
      BY <2>1, InitFn
    <2>2. ASSUME NEW h \in Handle, DJ64_DONE(h) PROVE IInv'
      BY <2>2, DoneFn
    <2>3. ASSUME NEW h \in Handle, dj64_call(h) PROVE IInv'
      BY <2>3, CallStep
    <2>4. CASE DispatchReturn
      BY <2>4, ReturnStep
    <2>5. ASSUME NEW v \in Val, AssignGlobals(v) PROVE IInv'
      <3>1. StackInv' /\ ObjInv'
        BY <2>5, StackStutter, ObjStutter DEF AssignGlobals, IInv, objvars
      <3>2. CtxInv'
        BY <2>5 DEF AssignGlobals, IInv, CtxInv, CtxType, SavedWhileHost,
                    ContextOwned, HostTurn, InC, Top
      <3> QED
        BY <3>1, <3>2 DEF IInv
    <2>6. CASE \/ \E a \in Addr : dj64_obj_init(a) \/ dj64_obj_done(a)
               \/ dj64_obj_init_null
               \/ dj64_obj_done_null
      BY <2>6, ObjectStep
    <2>7. CASE dj64_asm_call \/ dj64_asm_noret
      <3>1. PICK p \in Phase \ {"C"} : SetPhase(p)
        BY <2>7 DEF dj64_asm_call, dj64_asm_noret, Phase
      <3>2. /\ InC /\ stack # <<>> /\ Save
            /\ UNCHANGED <<inited, frames, recur_cnt, objcnt, objs, noret_jmp, s_regs, crashed>>
        BY <2>7 DEF dj64_asm_call, dj64_asm_noret, InC, objvars
      <3>3. StackInv' /\ ObjInv'
        BY <3>1, <3>2, SuspendStack, ObjStutter DEF IInv
      <3>4. ~InC'
        BY <3>1, <3>2, PhaseSet DEF IInv, InC, Top
      <3>5. CtxInv'
        BY <3>2, <3>4, SaveCtx DEF IInv
      <3> QED
        BY <3>3, <3>5 DEF IInv
    <2>8. CASE AsmReturn
      <3>1. StackInv'
        BY <2>8, ResumeStack DEF IInv
      <3>2. ObjInv'
        BY <2>8, ObjStutter DEF AsmReturn, objvars, IInv
      <3>3. PICK h \in Handle : h = Top.handle /\ h \in inited
        BY <2>8, TopCounted DEF AsmReturn, IInv
      <3>4. Top'.handle = h
        BY <2>8, <3>3, PhaseSet, TopCounted DEF AsmReturn, IInv, Top, Phase
      <3>5. CtxInv'
        BY <2>8, <3>3, <3>4, RestoreCtx DEF AsmReturn, IInv, HostTurn
      <3> QED
        BY <3>1, <3>2, <3>5 DEF IInv
    <2>9. CASE AsmAbort \/ NoretDone
      BY <2>9, LongJmpStep DEF AsmAbort, NoretDone, HostTurn
    <2> QED
      BY <2>1, <2>2, <2>3, <2>4, <2>5, <2>6, <2>7, <2>8, <2>9 DEF Step
  <1> QED
    BY <1>1, <1>2 DEF Next

(* The inductive invariant holds in every reachable state. *)
THEOREM Invariance == Spec => []IInv
  BY InitIInv, StepIInv, PTL DEF Spec

(* Type correctness of the engine: no counter becomes negative, no row of  *)
(* objs[] outside 0 .. MAX_RECUR - 1 is used.                              *)
THEOREM TypeCorrect == Spec => []TypeOK
  <1>1. IInv => TypeOK
    BY DEF IInv, StackInv, StackType, CtxInv, CtxType, ObjInv, ObjType, TypeOK
  <1> QED
    BY <1>1, Invariance, PTL

(* A longjmp() never lands in an activation that has ended. *)
THEOREM NoretAlwaysLive == Spec => []NoretLive
  <1>1. IInv => NoretLive
    BY DEF IInv, StackInv
  <1> QED
    BY <1>1, Invariance, PTL

(* The context pointer and the saved copies are right whenever they are    *)
(* relied on.                                                              *)
THEOREM ContextsRight == Spec => [](SavedWhileHost /\ ContextOwned)
  <1>1. IInv => SavedWhileHost /\ ContextOwned
    BY DEF IInv, CtxInv
  <1> QED
    BY <1>1, Invariance, PTL

(* An activation none of whose allocations failed leaves the object count  *)
(* it found, whichever way it ends.                                        *)
LEMMA LeaveCounted ==
  ASSUME IInv, ~crashed, stack # <<>>, crashed',
         \/ DispatchReturn
         \/ LongJmp
  PROVE  Local(Top.handle).nulls > 0
  <1> DEFINE h == Top.handle
  <1>1. h \in Handle
    BY TopCounted DEF IInv
  <1>2. /\ Local(h) \in Frame
        /\ Cardinality(Row(h)) \in Nat
        /\ objcnt[h] = Local(h).objcnt + Cardinality(Row(h)) + Local(h).nulls
    BY TopObjects DEF IInv
  <1>3. objcnt \in [Handle -> Nat]
    BY DEF IInv, ObjInv, ObjType
  <1>4. CASE DispatchReturn
    <2>1. Row(h) = {} /\ Local(h).nulls = 0 /\ objcnt'[h] # Local(h).objcnt
          /\ objcnt' = objcnt
      BY <1>4 DEF DispatchReturn, LeaveCall, objvars
    <2> QED
      BY <2>1, <1>2, FS_EmptySet DEF Frame
  <1>5. CASE LongJmp
    <2>1. /\ objcnt' = [objcnt EXCEPT ![h] = @ - Cardinality(Row(h))]
          /\ objcnt'[h] # Local(h).objcnt
      BY <1>5 DEF LongJmp, CollectRow, LeaveCall
    <2>2. objcnt'[h] = objcnt[h] - Cardinality(Row(h))
      BY <2>1, <1>1, <1>3
    <2> QED
      BY <2>1, <2>2, <1>2 DEF Frame
  <1> QED
    BY <1>4, <1>5

(* The assert at the end of dj64_call fails only for an activation that    *)
(* lost an object whose allocation had failed: a return, an ABORT and a    *)
(* NORET exit release everything else.                                     *)
THEOREM NeverLeaks == Spec => NoLeak
  <1>1. ASSUME IInv, [Next]_vars
        PROVE  [crashed' /\ ~crashed => Local(Top.handle).nulls > 0]_vars
    <2> SUFFICES ASSUME Next, crashed', ~crashed
                 PROVE  Local(Top.handle).nulls > 0
      BY <1>1 DEF vars
    <2>1. \/ DispatchReturn
          \/ AsmAbort
          \/ NoretDone
      BY DEF Next, Step, DJ64_INIT, DJ64_DONE, dj64_call, AssignGlobals,
             dj64_obj_init, dj64_obj_init_null, dj64_obj_done,
             dj64_obj_done_null, dj64_asm_call, AsmReturn, dj64_asm_noret
    <2>2. stack # <<>> /\ (DispatchReturn \/ LongJmp)
      BY <2>1 DEF DispatchReturn, InC, AsmAbort, NoretDone
    <2> QED
      BY <1>1, <2>2, LeaveCounted
  <1> QED
    BY <1>1, Invariance, PTL DEF Spec, NoLeak

(* An idle program owns no DOS objects. *)
THEOREM IdleAlwaysClean == Spec => []IdleClean
  <1>1. IInv => IdleClean
    <2> SUFFICES ASSUME IInv, ~crashed, NEW h \in Handle, Level(h) = {}
                 PROVE  objcnt[h] = 0 /\ \A r \in 1 .. MaxRecur : objs[h][r] = {}
      BY DEF IdleClean
    <2>1. recur_cnt[h] = 0
      BY FS_EmptySet DEF IInv, StackInv, NoretLive
    <2> QED
      BY <2>1 DEF IInv, ObjInv, Chain, Base, RowsOK
  <1> QED
    BY <1>1, Invariance, PTL

-----------------------------------------------------------------------------
(***************************************************************************)
(* The thunking engine implements PrivateContext: every step of Thunks is, *)
(* under the mapping of Thunks!Private, a step of the abstract             *)
(* specification or leaves its variables unchanged.                        *)
(***************************************************************************)
Calls == [i \in 1 .. Len(stack) |-> stack[i].handle]
Own == [h \in Handle |-> IF cur = h THEN globals ELSE contexts[h]]
View == IF InC THEN globals ELSE InitVal

(* The handles of a sequence of activations form a sequence. *)
LEMMA HandlesSeq ==
  ASSUME NEW s \in Seq([handle : Handle, phase : Phase])
  PROVE  LET c == [i \in 1 .. Len(s) |-> s[i].handle] IN
         /\ c \in Seq(Handle)
         /\ Len(c) = Len(s)
         /\ \A i \in 1 .. Len(s) : c[i] = s[i].handle
  <1> DEFINE c == [i \in 1 .. Len(s) |-> s[i].handle]
  <1>1. Len(s) \in Nat
    OBVIOUS
  <1>2. \A i \in 1 .. Len(s) : s[i].handle \in Handle
    <2>1. \A i \in 1 .. Len(s) : s[i] \in [handle : Handle, phase : Phase]
      BY ElementOfSeq
    <2> QED
      BY <2>1
  <1>3. c \in [1 .. Len(s) -> Handle]
    BY <1>2
  <1>4. c \in Seq(Handle)
    BY <1>1, <1>3
  <1>5. DOMAIN c = 1 .. Len(s) /\ DOMAIN c = 1 .. Len(c) /\ Len(c) \in Nat
    BY <1>4, LenProperties
  <1>6. Len(c) = Len(s)
    <2> HIDE DEF c
    <2> QED
      BY <1>1, <1>5
  <1> QED
    BY <1>4, <1>6

(* The sequence of handles has the length of the stack. *)
LEMMA CallsSeq ==
  ASSUME stack \in Seq([handle : Handle, phase : Phase])
  PROVE  /\ Calls \in Seq(Handle)
         /\ Len(Calls) = Len(stack)
         /\ \A i \in 1 .. Len(stack) : Calls[i] = stack[i].handle
  BY HandlesSeq DEF Calls

LEMMA CallsRunning ==
  ASSUME StackInv, stack # <<>>
  PROVE  Calls # <<>> /\ Calls[Len(Calls)] = Top.handle
  <1>1. stack \in Seq([handle : Handle, phase : Phase]) /\ Len(stack) \in Nat \ {0}
    BY TopCounted DEF StackInv, StackType
  <1>2. Len(Calls) # 0
    BY <1>1, CallsSeq
  <1> QED
    BY <1>1, <1>2, CallsSeq, EmptySeq DEF Top

LEMMA CallsPush ==
  ASSUME StackInv, StackInv', NEW h \in Handle,
         stack' = Append(stack, [handle |-> h, phase |-> "C"])
  PROVE  Calls' = Append(Calls, h)
  <1>1. /\ stack \in Seq([handle : Handle, phase : Phase])
        /\ stack' \in Seq([handle : Handle, phase : Phase])
    BY DEF StackInv, StackType
  <1>2. /\ Calls \in Seq(Handle) /\ Len(Calls) = Len(stack)
        /\ \A i \in 1 .. Len(stack) : Calls[i] = stack[i].handle
    BY <1>1, CallsSeq
  <1>3. /\ Calls' \in Seq(Handle) /\ Len(Calls') = Len(stack')
        /\ \A i \in 1 .. Len(stack') : Calls'[i] = stack'[i].handle
    BY <1>1, HandlesSeq DEF Calls
  <1>4. /\ Len(stack) \in Nat /\ Len(stack') = Len(stack) + 1
        /\ \A i \in 1 .. Len(stack) : stack'[i] = stack[i]
        /\ stack'[Len(stack) + 1].handle = h
    BY <1>1 DEF Phase
  <1>5. /\ Append(Calls, h) \in Seq(Handle)
        /\ Len(Append(Calls, h)) = Len(stack) + 1
        /\ \A i \in 1 .. Len(stack) : Append(Calls, h)[i] = Calls[i]
        /\ Append(Calls, h)[Len(stack) + 1] = h
    BY <1>2
  <1>6. \A i \in 1 .. Len(Calls') : Calls'[i] = Append(Calls, h)[i]
    <2> SUFFICES ASSUME NEW i \in 1 .. Len(stack) + 1
                 PROVE  Calls'[i] = Append(Calls, h)[i]
      BY <1>3, <1>4
    <2>1. CASE i = Len(stack) + 1
      BY <1>3, <1>4, <1>5, <2>1
    <2>2. CASE i # Len(stack) + 1
      <3>1. i \in 1 .. Len(stack)
        BY <1>4, <2>2
      <3> QED
        BY <1>2, <1>3, <1>4, <1>5, <3>1
    <2> QED
      BY <2>1, <2>2
  <1> QED
    BY <1>3, <1>4, <1>5, <1>6, SeqEqual

LEMMA CallsPop ==
  ASSUME StackInv, StackInv', stack # <<>>,
         stack' = SubSeq(stack, 1, Len(stack) - 1)
  PROVE  Calls' = SubSeq(Calls, 1, Len(Calls) - 1)
  <1>1. /\ stack \in Seq([handle : Handle, phase : Phase])
        /\ stack' \in Seq([handle : Handle, phase : Phase])
    BY DEF StackInv, StackType
  <1>2. /\ Calls \in Seq(Handle) /\ Len(Calls) = Len(stack) /\ Calls # <<>>
        /\ \A i \in 1 .. Len(stack) : Calls[i] = stack[i].handle
    BY <1>1, CallsSeq, CallsRunning
  <1>3. /\ Calls' \in Seq(Handle) /\ Len(Calls') = Len(stack')
        /\ \A i \in 1 .. Len(stack') : Calls'[i] = stack'[i].handle
    BY <1>1, HandlesSeq DEF Calls
  <1>4. /\ Len(stack) \in Nat \ {0} /\ Len(stack') = Len(stack) - 1
        /\ \A i \in 1 .. Len(stack) - 1 : stack'[i] = stack[i]
    BY <1>1, DropLast
  <1> DEFINE d == SubSeq(Calls, 1, Len(Calls) - 1)
  <1>5. /\ d \in Seq(Handle)
        /\ Len(d) = Len(stack) - 1
        /\ \A i \in 1 .. Len(stack) - 1 : d[i] = Calls[i]
    BY <1>2, DropLast
  <1>6. \A i \in 1 .. Len(Calls') : Calls'[i] = d[i]
    <2> HIDE DEF d
    <2> QED
      BY <1>2, <1>3, <1>4, <1>5
  <1> QED
    BY <1>3, <1>4, <1>5, <1>6, SeqEqual

(* Changing a phase does not change the sequence of handles. *)
LEMMA CallsPhase ==
  ASSUME StackInv, stack # <<>>, NEW p \in Phase, SetPhase(p)
  PROVE  Calls' = Calls
  BY PhaseSet DEF Calls

(* The initial states correspond. *)
LEMMA RefInit == Init => Private!AInit
  BY DEF Init, Private!AInit, InC

(* The steps correspond. *)
LEMMA RefStep ==
  ASSUME IInv, IInv', [Next]_vars
  PROVE  [Private!ANext]_(Private!avars)
  <1> DEFINE Same == inited' = inited /\ Calls' = Calls /\ InC' = InC
                     /\ Own' = Own /\ View' = View
  <1>0. ASSUME Same PROVE UNCHANGED Private!avars
    BY <1>0 DEF Calls, Own, View, Private!avars
  <1>1. CASE UNCHANGED vars
    <2>1. Same
      BY <1>1 DEF vars, Calls, Own, View, InC, Top
    <2> QED
      BY <1>0, <2>1
  <1>2. ASSUME NEW h \in Handle, DJ64_INIT(h) PROVE Private!Load(h)
    <2>1. cur # h /\ ~InC /\ UNCHANGED <<stack, cur, globals>>
      BY <1>2, ConstantsOK DEF DJ64_INIT, HostTurn, IInv, CtxInv, ContextOwned
    <2>2. Own' = [Own EXCEPT ![h] = InitVal]
      BY <1>2, <2>1 DEF DJ64_INIT, Own, IInv, CtxInv, CtxType
    <2> QED
      BY <1>2, <2>1, <2>2 DEF Private!Load, DJ64_INIT, Own, InC, Top
  <1>3. ASSUME NEW h \in Handle, DJ64_DONE(h) PROVE Private!Unload(h)
    <2>1. ~InC /\ UNCHANGED <<stack, globals, contexts>> /\ cur' = NoHandle
      BY <1>3 DEF DJ64_DONE, HostTurn, Deinit
    <2>2. Own' = Own
      BY <2>1, ConstantsOK
         DEF Own, IInv, CtxInv, CtxType, SavedWhileHost, HostTurn
    <2> QED
      BY <1>3, <2>1, <2>2 DEF Private!Unload, DJ64_DONE, Own, InC, Top
  <1>4. ASSUME NEW h \in Handle, Restore(h), ~InC PROVE Own' = Own
    <2>1. ASSUME NEW g \in Handle
          PROVE  (IF cur' = g THEN globals' ELSE contexts'[g])
                   = (IF cur = g THEN globals ELSE contexts[g])
      BY <1>4, <2>1, ConstantsOK
         DEF Restore, IInv, CtxInv, CtxType, SavedWhileHost, HostTurn
    <2> QED
      BY <2>1 DEF Own
  <1>5. ASSUME Save, InC PROVE Own' = Own
    BY <1>5 DEF Save, Own, IInv, CtxInv, CtxType
  <1>6. ASSUME NEW h \in Handle, dj64_call(h) PROVE Private!Enter(h)
    <2>1. Calls' = Append(Calls, h)
      BY <1>6, CallsPush DEF dj64_call, IInv
    <2>2. ~InC /\ Own' = Own /\ h \in inited /\ inited' = inited
          /\ globals' = Own[h]
      BY <1>4, <1>6 DEF dj64_call, HostTurn, Restore, Own
    <2>3. InC'
      <3>1. /\ stack \in Seq([handle : Handle, phase : Phase])
            /\ stack' = Append(stack, [handle |-> h, phase |-> "C"])
        BY <1>6 DEF dj64_call, IInv, StackInv, StackType
      <3>2. /\ Len(stack) \in Nat /\ Len(stack') = Len(stack) + 1
            /\ stack'[Len(stack) + 1] = [handle |-> h, phase |-> "C"]
        BY <3>1 DEF Phase
      <3>3. stack' # <<>>
        BY <3>2
      <3> QED
        BY <3>2, <3>3 DEF InC, Top
    <2>4. View' = Own[h]
      BY <2>2, <2>3 DEF View
    <2> QED
      BY <2>1, <2>2, <2>3, <2>4 DEF Private!Enter, Calls, Own, View
  <1>7. ASSUME stack # <<>>, LeaveCall(Top.handle), Own' = Own,
               UNCHANGED <<inited, s_regs>>
        PROVE  Private!Leave
    <2>1. ~InC'
      BY <1>7, LeaveStack DEF IInv
    <2>2. Calls' = SubSeq(Calls, 1, Len(Calls) - 1) /\ Calls # <<>>
      BY <1>7, CallsPop, CallsRunning DEF LeaveCall, IInv
    <2> QED
      <3>1. View' = InitVal /\ InC' = FALSE
        BY <2>1 DEF View
      <3> QED
        BY <1>7, <2>2, <3>1, Zenon DEF Private!Leave, Calls, Own, View
  <1>8. CASE DispatchReturn
    <2>1. stack # <<>> /\ LeaveCall(Top.handle) /\ Save /\ InC
          /\ UNCHANGED <<inited, s_regs>>
      BY <1>8 DEF DispatchReturn, InC
    <2>2. Private!Leave
      BY <1>5, <1>7, <2>1
    <2> QED
      BY <2>2 DEF Private!ANext
  <1>9. ASSUME NEW v \in Val, AssignGlobals(v) PROVE Private!Assign(v)
    <2>1. /\ InC /\ stack # <<>> /\ cur = Top.handle /\ Top.handle \in Handle
          /\ globals' = v /\ UNCHANGED <<inited, stack, cur, contexts>>
      BY <1>9, TopCounted DEF AssignGlobals, InC, IInv, CtxInv, ContextOwned
    <2>2. Calls[Len(Calls)] = Top.handle /\ Calls' = Calls /\ InC' = InC
      BY <2>1, CallsRunning DEF IInv, Calls, InC, Top
    <2>3. Own' = [Own EXCEPT ![Calls[Len(Calls)]] = v]
      BY <2>1, <2>2 DEF Own
    <2>4. View' = v
      BY <2>1, <2>2 DEF View
    <2> QED
      BY <2>1, <2>2, <2>3, <2>4 DEF Private!Assign, Private!Running, Calls, Own, View
  <1>10. CASE dj64_asm_call \/ dj64_asm_noret
    <2>1. PICK p \in Phase \ {"C"} : SetPhase(p)
      BY <1>10 DEF dj64_asm_call, dj64_asm_noret, Phase
    <2>2. InC /\ stack # <<>> /\ Save /\ inited' = inited
      BY <1>10 DEF dj64_asm_call, dj64_asm_noret, InC
    <2>3. Calls' = Calls /\ Own' = Own /\ ~InC'
      BY <1>5, <2>1, <2>2, CallsPhase, PhaseSet DEF IInv, InC, Top
    <2>4. Private!Suspend
      BY <2>2, <2>3 DEF Private!Suspend, Calls, Own
    <2> QED
      BY <2>4 DEF Private!ANext
  <1>11. CASE AsmReturn
    <2>1. /\ stack # <<>> /\ ~InC /\ inited' = inited /\ SetPhase("C") /\ "C" \in Phase
          /\ Restore(Top.handle) /\ Top.handle \in Handle
          /\ Len(stack) \in Nat \ {0}
      BY <1>11, TopCounted DEF AsmReturn, HostTurn, Phase, IInv
    <2>2. Own' = Own /\ globals' = Own[Top.handle]
      BY <1>4, <2>1 DEF Restore, Own
    <2>3. Calls' = Calls /\ Calls # <<>> /\ Calls[Len(Calls)] = Top.handle
      BY <2>1, CallsPhase, CallsRunning DEF IInv
    <2>4. InC'
      <3>1. Len(stack') = Len(stack) /\ stack'[Len(stack)].phase = "C"
        BY <2>1, PhaseSet DEF IInv
      <3>2. stack' # <<>>
        BY <2>1, <3>1
      <3> QED
        BY <3>1, <3>2 DEF InC, Top
    <2>5. View' = Own[Calls[Len(Calls)]]
      BY <2>2, <2>3, <2>4 DEF View
    <2>6. Private!Resume
      BY <2>1, <2>2, <2>3, <2>4, <2>5
         DEF Private!Resume, Private!Running, Calls, Own, View
    <2> QED
      BY <2>6 DEF Private!ANext
  <1>12. CASE AsmAbort \/ NoretDone
    <2>1. /\ stack # <<>> /\ ~InC /\ Restore(Top.handle) /\ LeaveCall(Top.handle)
          /\ UNCHANGED <<inited, s_regs>> /\ Top.handle \in Handle
      BY <1>12, TopCounted DEF AsmAbort, NoretDone, HostTurn, LongJmp, IInv
    <2>2. Private!Leave
      BY <1>4, <1>7, <2>1
    <2> QED
      BY <2>2 DEF Private!ANext
  <1>13. CASE \/ \E a \in Addr : dj64_obj_init(a) \/ dj64_obj_done(a)
              \/ dj64_obj_init_null
              \/ dj64_obj_done_null
    <2>1. UNCHANGED <<inited, stack, cur, globals, contexts>>
      BY <1>13 DEF dj64_obj_init, dj64_obj_done, dj64_obj_init_null,
                   dj64_obj_done_null, ctxvars
    <2>2. Same
      BY <2>1 DEF Calls, Own, View, InC, Top
    <2> QED
      BY <1>0, <2>2
  <1>14. ASSUME NEW h \in Handle, DJ64_INIT(h) \/ DJ64_DONE(h) \/ dj64_call(h)
         PROVE  Private!ANext
    BY <1>2, <1>3, <1>6, <1>14 DEF Private!ANext
  <1>15. ASSUME NEW v \in Val, AssignGlobals(v) PROVE Private!ANext
    BY <1>9, <1>15 DEF Private!ANext
  <1> QED
    BY <1>1, <1>8, <1>10, <1>11, <1>12, <1>13, <1>14, <1>15 DEF Next, Step

(* The engine keeps the libc globals of every program private: each        *)
(* program sees its own, whatever others do while it waits and however     *)
(* its calls end.                                                          *)
THEOREM Refinement == Spec => PrivateSpec
  <1>1. IInv /\ IInv' /\ [Next]_vars => [Private!ANext]_(Private!avars)
    BY RefStep
  <1> QED
    BY <1>1, RefInit, Invariance, PTL DEF Spec, PrivateSpec, Private!ASpec
=============================================================================
