---------------------------- MODULE SignalsProofs ----------------------------
(***************************************************************************)
(* Proofs about the signals of programs that share the libc, for every     *)
(* number of signals, programs and calls in progress.                      *)
(***************************************************************************)
EXTENDS Signals, SequenceTheorems, WellFoundedInduction, TLAPS

(***************************************************************************)
(* The calls in progress: a program is at the bottom, a call of            *)
(* sigprocmask() leaves room for the handlers it runs, and sigaction() is  *)
(* interrupted by exceptions only, from which it never resumes.            *)
(***************************************************************************)
Frames(st) ==
  /\ st \in Seq(Frame) /\ Len(st) <= MaxFrames + 1
  /\ st # <<>> => st[1].kind = "prog"
  /\ \A i \in 1 .. Len(st) : st[i].kind = "sigprocmask" => i <= MaxFrames
  /\ \A i, j \in 1 .. Len(st) :
       j = i + 1 /\ st[i].kind = "sigaction" => st[j].kind = "exception"

(* Programs are numbered as they start. *)
Ids(st, b) ==
  /\ \A i, j \in 1 .. Len(st) :
       i < j /\ st[i].kind = "prog" /\ st[j].kind = "prog" => st[i].id < st[j].id
  /\ \A i \in 1 .. Len(st) : st[i].kind = "prog" => st[i].id <= b

(* The live programs. *)
Live(st) == {st[i].id : i \in {j \in 1 .. Len(st) : st[j].kind = "prog"}}

(* The handler h is no function of a program started before a live one. *)
From(h, P) == h \in Handler => \A p \in P : h[1] >= p

(* A call of sigprocmask() was made for its program or a later one. *)
CallsReset(st, cnt) ==
  \A i, j \in 1 .. Len(st) :
    i < j /\ st[i].kind = "prog" /\ st[j].kind = "sigprocmask" => st[i].id <= cnt

(* What sigaction(), the innermost call, will install. *)
Installs(st, h) ==
  st # <<>> /\ st[Len(st)].kind = "sigaction" /\ h = st[Len(st)].act

(***************************************************************************)
(* The inductive invariant of all programs.  A signal is diverted to       *)
(* sig_suspender only while a handler is kept for it, and nothing is       *)
(* diverted when the sets of sigprocmask() are about to be emptied.        *)
(***************************************************************************)
Types ==
  /\ signal_list \in [Sig -> Installed]
  /\ prev_handlers \in [Sig -> Installed \cup {SIG_ERR}]
  /\ current_mask \in SUBSET Sig /\ pending \in SUBSET Sig
  /\ sigprocmask_count \in (2 .. MaxStarts + 1) \cup {-1}
  /\ bss_count \in 1 .. MaxStarts + 1
  /\ sigprocmask_count <= bss_count

Stacked == Frames(stack) /\ Ids(stack, bss_count)

Isolated ==
  /\ \A s \in Sig : From(signal_list[s], Live(stack))
  /\ \A s \in Sig : From(prev_handlers[s], {p \in Live(stack) : p <= sigprocmask_count})
  /\ CallsReset(stack, sigprocmask_count)
  /\ \A h : Installs(stack, h) => From(h, Live(stack))

Diverted ==
  "child_in_call" \notin practice =>
    /\ \A s \in Sig : prev_handlers[s] # sig_suspender
    /\ \A s \in Sig : signal_list[s] = sig_suspender =>
         sigprocmask_count = bss_count /\ prev_handlers[s] # SIG_ERR
    /\ ~NoCall => sigprocmask_count = bss_count
    /\ Installs(stack, sig_suspender) =>
         sigprocmask_count = bss_count /\ prev_handlers[Top.sig] # SIG_ERR

SInv == Types /\ Stacked /\ Isolated /\ Diverted

-----------------------------------------------------------------------------
(* Facts about sequences of frames: a prefix, a frame on top. *)
LEMMA PrefixFields ==
  ASSUME NEW S, NEW st \in Seq(S), NEW n \in 0 .. Len(st)
  PROVE  /\ SubSeq(st, 1, n) \in Seq(S)
         /\ Len(SubSeq(st, 1, n)) = n
         /\ \A i \in 1 .. n : SubSeq(st, 1, n)[i] = st[i]
  BY SubSeqProperties

LEMMA PushFields ==
  ASSUME NEW S, NEW st \in Seq(S), NEW f \in S
  PROVE  /\ Append(st, f) \in Seq(S)
         /\ Append(st, f) # <<>>
         /\ Len(Append(st, f)) = Len(st) + 1
         /\ Append(st, f)[Len(st) + 1] = f
         /\ \A i \in 1 .. Len(st) : Append(st, f)[i] = st[i]
  BY AppendProperties

(* The fields of the frames. *)
LEMMA FrameFields ==
  ASSUME NEW f \in Frame
  PROVE  /\ f.kind \in {"prog", "handler", "exception", "sigaction", "sigprocmask"}
         /\ f.kind = "prog" => f.id \in Prog
         /\ f.kind = "handler" => f.sig \in Sig /\ f.fn \in Handler
         /\ f.kind = "sigaction" => f.sig \in Sig /\ f.sig # SIGKILL /\ f.act \in Installed
         /\ f.kind = "sigprocmask" => /\ f.how \in How /\ f.set \in SUBSET Sig
                                      /\ f.new_mask \in SUBSET Sig
                                      /\ f.signo \in Sig \cup {NSig + 1}
  BY DEF Frame

(* A prefix of the calls: programs that ended, handlers that returned. *)
LEMMA CutFrames ==
  ASSUME NEW st, Frames(st), NEW n \in 0 .. Len(st),
         NEW t, t = SubSeq(st, 1, n)
  PROVE  /\ Frames(t)
         /\ \A b : Ids(st, b) => Ids(t, b)
         /\ Live(t) \subseteq Live(st)
         /\ \A c : CallsReset(st, c) => CallsReset(t, c)
         /\ \A i \in 1 .. Len(t) : i \in 1 .. Len(st) /\ t[i] = st[i]
         /\ Len(t) = n
         /\ n > 0 => t # <<>>
  <1>1. /\ st \in Seq(Frame) /\ t \in Seq(Frame) /\ Len(t) = n /\ n \in Nat /\ Len(st) \in Nat
        /\ \A i \in 1 .. n : t[i] = st[i] /\ i \in 1 .. Len(st)
    BY PrefixFields DEF Frames
  <1>2. st = <<>> => n = 0
    BY <1>1
  <1>3. t # <<>> => 1 \in 1 .. n /\ st # <<>>
    BY <1>1, <1>2, EmptySeq
  <1>4. Frames(t)
    <2>1. t # <<>> => t[1].kind = "prog"
      BY <1>1, <1>3 DEF Frames
    <2>2. Len(t) <= MaxFrames + 1
      BY <1>1, SignalConstantsOK DEF Frames
    <2>3. \A i \in 1 .. n : t[i].kind = "sigprocmask" => i <= MaxFrames
      BY <1>1 DEF Frames
    <2>4. \A i, j \in 1 .. n :
            j = i + 1 /\ t[i].kind = "sigaction" => t[j].kind = "exception"
      BY <1>1 DEF Frames
    <2> QED
      BY <1>1, <2>1, <2>2, <2>3, <2>4 DEF Frames
  <1>5. \A b : Ids(st, b) => Ids(t, b)
    BY <1>1 DEF Ids
  <1>6. Live(t) \subseteq Live(st)
    BY <1>1 DEF Live
  <1>7. \A c : CallsReset(st, c) => CallsReset(t, c)
    BY <1>1 DEF CallsReset
  <1>8. n > 0 => t # <<>>
    BY <1>1
  <1> QED
    BY <1>1, <1>4, <1>5, <1>6, <1>7, <1>8

(* A call on top. *)
LEMMA PushFrames ==
  ASSUME NEW st, Frames(st), NEW f \in Frame,
         Len(st) <= MaxFrames,
         st = <<>> => f.kind = "prog",
         f.kind = "sigprocmask" => Len(st) < MaxFrames,
         st # <<>> /\ st[Len(st)].kind = "sigaction" => f.kind = "exception",
         NEW t, t = Append(st, f)
  PROVE  Frames(t)
  <1>1. /\ st \in Seq(Frame) /\ t \in Seq(Frame) /\ Len(t) = Len(st) + 1 /\ t # <<>>
        /\ Len(st) \in Nat
        /\ t[Len(st) + 1] = f
        /\ \A i \in 1 .. Len(st) : t[i] = st[i] /\ i \in 1 .. Len(t)
    BY PushFields DEF Frames
  <1>2. MaxFrames \in Nat
    BY SignalConstantsOK
  <1>3. \A i \in 1 .. Len(t) : i \in 1 .. Len(st) \/ i = Len(st) + 1
    BY <1>1
  <1>4. t[1].kind = "prog"
    <2>1. CASE st = <<>>
      BY <1>1, <2>1
    <2>2. CASE st # <<>>
      <3>1. 1 \in 1 .. Len(st)
        BY <1>1, <2>2, EmptySeq
      <3> QED
        BY <1>1, <2>2, <3>1 DEF Frames
    <2> QED
      BY <2>1, <2>2
  <1>5. \A i \in 1 .. Len(t) : t[i].kind = "sigprocmask" => i <= MaxFrames
    BY <1>1, <1>2, <1>3 DEF Frames
  <1>6. \A i, j \in 1 .. Len(t) :
          j = i + 1 /\ t[i].kind = "sigaction" => t[j].kind = "exception"
    <2> SUFFICES ASSUME NEW i \in 1 .. Len(t), NEW j \in 1 .. Len(t),
                        j = i + 1, t[i].kind = "sigaction"
                 PROVE  t[j].kind = "exception"
      OBVIOUS
    <2>1. i \in 1 .. Len(st) /\ t[i] = st[i]
      BY <1>1
    <2>2. CASE j \in 1 .. Len(st)
      BY <1>1, <2>1, <2>2 DEF Frames
    <2>3. CASE j = Len(st) + 1
      <3>1. i = Len(st) /\ st # <<>>
        BY <1>1, <2>1, <2>3
      <3> QED
        BY <1>1, <2>1, <2>3, <3>1
    <2> QED
      BY <1>3, <2>2, <2>3
  <1> QED
    BY <1>1, <1>2, <1>4, <1>5, <1>6 DEF Frames

LEMMA PushTop ==
  ASSUME NEW st, Frames(st), NEW f \in Frame, NEW t, t = Append(st, f)
  PROVE  /\ t # <<>> /\ Len(t) = Len(st) + 1 /\ Len(st) \in Nat
         /\ t[Len(t)] = f
         /\ \A i \in 1 .. Len(st) : i \in 1 .. Len(t) /\ t[i] = st[i]
  <1>1. st \in Seq(Frame) /\ Len(st) \in Nat
    BY DEF Frames
  <1>2. /\ t # <<>> /\ Len(t) = Len(st) + 1
        /\ t[Len(st) + 1] = f
        /\ \A i \in 1 .. Len(st) : t[i] = st[i]
    BY <1>1, PushFields
  <1> QED
    BY <1>1, <1>2

(* A call that is no program and no call of sigprocmask(). *)
LEMMA PushKeeps ==
  ASSUME NEW st, Frames(st), NEW f \in Frame, f.kind # "prog",
         NEW t, t = Append(st, f)
  PROVE  /\ Live(t) = Live(st)
         /\ \A b : Ids(st, b) => Ids(t, b)
         /\ f.kind # "sigprocmask" => \A c : CallsReset(st, c) => CallsReset(t, c)
  <1>1. /\ Len(t) = Len(st) + 1 /\ Len(st) \in Nat
        /\ t[Len(st) + 1] = f
        /\ \A i \in 1 .. Len(st) : t[i] = st[i] /\ i \in 1 .. Len(t)
        /\ \A i \in 1 .. Len(t) : i \in 1 .. Len(st) \/ i = Len(st) + 1
    BY PushFields DEF Frames
  <1>2. {j \in 1 .. Len(t) : t[j].kind = "prog"} = {j \in 1 .. Len(st) : st[j].kind = "prog"}
    BY <1>1
  <1>3. Live(t) = Live(st)
    BY <1>1, <1>2 DEF Live
  <1>4. \A b : Ids(st, b) => Ids(t, b)
    BY <1>1 DEF Ids
  <1>5. f.kind # "sigprocmask" => \A c : CallsReset(st, c) => CallsReset(t, c)
    BY <1>1 DEF CallsReset
  <1> QED
    BY <1>3, <1>4, <1>5

-----------------------------------------------------------------------------
(* The innermost program. *)
LEMMA LastProgFound ==
  ASSUME NEW st, Frames(st), st # <<>>,
         NEW m, m = Max({i \in DOMAIN st : st[i].kind = "prog"})
  PROVE  /\ m \in 1 .. Len(st) /\ st[m].kind = "prog"
         /\ \A j \in 1 .. Len(st) : st[j].kind = "prog" => j <= m
  <1> DEFINE D == {i \in 1 .. Len(st) : st[i].kind = "prog"}
             T == {Len(st) - i : i \in D}
  <1>1. DOMAIN st = 1 .. Len(st) /\ Len(st) \in Nat /\ Len(st) >= 1
    BY LenProperties, EmptySeq DEF Frames
  <1>2. T \subseteq Nat /\ T # {}
    <2>1. 1 \in D
      BY <1>1 DEF Frames
    <2> QED
      BY <1>1, <2>1
  <1> HIDE DEF T
  <1>3. PICK x \in T : \A y \in T : ~(<<y, x>> \in OpToRel(<, Nat))
    BY <1>2, WFMin, NatLessThanWellFounded, Zenon
  <1>4. \A y \in T : ~(y < x)
    BY <1>2, <1>3 DEF OpToRel
  <1>5. PICK k \in D : x = Len(st) - k
    BY DEF T
  <1>6. \A j \in D : Len(st) - j \in T
    BY DEF T
  <1>7. \A j \in D : k >= j
    BY <1>1, <1>4, <1>5, <1>6
  <1>8. m \in D /\ \A j \in D : m >= j
    <2>1. m = CHOOSE z \in D : \A j \in D : z >= j
      BY <1>1 DEF Max
    <2> QED
      BY <1>7, <2>1
  <1> QED
    BY <1>1, <1>8

LEMMA LastProgOK ==
  ASSUME Stacked, stack # <<>>
  PROVE  /\ LastProg \in 1 .. Len(stack)
         /\ stack[LastProg].kind = "prog"
         /\ \A j \in 1 .. Len(stack) : stack[j].kind = "prog" => j <= LastProg
         /\ Running \in Live(stack)
         /\ \A p \in Live(stack) : Running >= p
         /\ Running \in Prog
  <1>1. Frames(stack) /\ stack \in Seq(Frame) /\ \A i \in 1 .. Len(stack) : stack[i] \in Frame
    BY DEF Stacked, Frames
  <1>2. /\ LastProg \in 1 .. Len(stack)
        /\ stack[LastProg].kind = "prog"
        /\ \A j \in 1 .. Len(stack) : stack[j].kind = "prog" => j <= LastProg
    BY <1>1, LastProgFound DEF LastProg
  <1>3. \A j \in 1 .. Len(stack) : stack[j].kind = "prog" => stack[j].id \in Prog
    BY <1>1, FrameFields
  <1>4. Running \in Live(stack) /\ Running \in Prog
    BY <1>2, <1>3 DEF Running, Live
  <1>5. \A j \in 1 .. Len(stack) : stack[j].kind = "prog" => Running >= stack[j].id
    <2> SUFFICES ASSUME NEW j \in 1 .. Len(stack), stack[j].kind = "prog"
                 PROVE  Running >= stack[j].id
      OBVIOUS
    <2>1. j = LastProg \/ j < LastProg
      BY <1>2
    <2>2. Running \in Int /\ stack[j].id \in Int
      BY <1>3, <1>4, SignalConstantsOK DEF Prog
    <2> QED
      BY <1>2, <2>1, <2>2 DEF Stacked, Ids, Running
  <1> QED
    BY <1>2, <1>4, <1>5 DEF Live

(* A stack t that is reached from the current one when no program starts   *)
(* and neither sigaction() nor sigprocmask() is called.                    *)
Sub(t) ==
  /\ Frames(t) /\ Ids(t, bss_count)
  /\ Live(t) \subseteq Live(stack)
  /\ CallsReset(t, sigprocmask_count)
  /\ (\E i \in 1 .. Len(t) : t[i].kind = "sigprocmask") => ~NoCall
  /\ t # <<>> => t[Len(t)].kind # "sigaction"

LEMMA CutSub ==
  ASSUME SInv, NEW n \in 0 .. Len(stack),
         n > 0 => stack[n].kind # "sigaction",
         NEW t, t = SubSeq(stack, 1, n)
  PROVE  Sub(t)
  <1>1. Frames(stack) /\ Ids(stack, bss_count) /\ CallsReset(stack, sigprocmask_count)
    BY DEF SInv, Stacked, Isolated
  <1>2. /\ Frames(t) /\ Ids(t, bss_count) /\ Live(t) \subseteq Live(stack)
        /\ CallsReset(t, sigprocmask_count)
    BY <1>1, CutFrames
  <1>3. /\ \A i \in 1 .. Len(t) : i \in 1 .. Len(stack) /\ t[i] = stack[i]
        /\ Len(t) = n
    BY <1>1, CutFrames
  <1>4. DOMAIN stack = 1 .. Len(stack) /\ Len(stack) \in Nat
    BY <1>1, LenProperties DEF Frames
  <1>5. t # <<>> => n > 0 /\ n \in 1 .. Len(t)
    BY <1>2, <1>3, <1>4, EmptySeq DEF Frames
  <1> QED
    BY <1>2, <1>3, <1>4, <1>5 DEF Sub, NoCall

LEMMA PushSub ==
  ASSUME SInv, NEW st, Sub(st), st # <<>>, Len(st) <= MaxFrames,
         NEW f \in Frame, f.kind \in {"handler", "exception"},
         NEW t, t = Append(st, f)
  PROVE  Sub(t) /\ Len(t) = Len(st) + 1 /\ t # <<>>
  <1>1. Frames(st) /\ Ids(st, bss_count) /\ CallsReset(st, sigprocmask_count)
    BY DEF Sub
  <1>2. /\ Frames(t) /\ t # <<>> /\ Len(t) = Len(st) + 1 /\ Len(st) \in Nat
        /\ t[Len(t)] = f
        /\ \A i \in 1 .. Len(st) : i \in 1 .. Len(t) /\ t[i] = st[i]
    <2>1. /\ st = <<>> => f.kind = "prog"
          /\ f.kind = "sigprocmask" => Len(st) < MaxFrames
          /\ st # <<>> /\ st[Len(st)].kind = "sigaction" => f.kind = "exception"
      BY DEF Sub
    <2>2. Frames(t)
      BY <1>1, <2>1, PushFrames
    <2> QED
      BY <1>1, <2>1, <2>2, PushTop
  <1>3. Live(t) = Live(st) /\ Ids(t, bss_count) /\ CallsReset(t, sigprocmask_count)
    BY <1>1, PushKeeps
  <1>4. \A i \in 1 .. Len(t) : i \in 1 .. Len(st) \/ i = Len(t)
    BY <1>2
  <1> QED
    BY <1>2, <1>3, <1>4 DEF Sub

(* An exception may come in the middle of sigaction(). *)
LEMMA InterruptSub ==
  ASSUME SInv, stack # <<>>, Room, NEW s \in Sig,
         NEW t, t = Append(stack, [kind |-> "exception", sig |-> s])
  PROVE  Sub(t) /\ Len(t) = Len(stack) + 1 /\ t # <<>> /\ Len(t) <= MaxFrames
  <1>1. Frames(stack) /\ Ids(stack, bss_count) /\ CallsReset(stack, sigprocmask_count)
    BY DEF SInv, Stacked, Isolated
  <1>2. PICK f \in Frame : f = [kind |-> "exception", sig |-> s] /\ f.kind = "exception"
    BY DEF Frame
  <1>3. Len(stack) \in Nat /\ Len(stack) < MaxFrames /\ DOMAIN stack = 1 .. Len(stack)
        /\ MaxFrames \in Nat
    BY <1>1, LenProperties, SignalConstantsOK DEF Room, Frames
  <1>4. /\ Frames(t) /\ t # <<>> /\ Len(t) = Len(stack) + 1
        /\ t[Len(t)] = f
        /\ \A i \in 1 .. Len(stack) : i \in 1 .. Len(t) /\ t[i] = stack[i]
    <2>1. /\ stack = <<>> => f.kind = "prog"
          /\ f.kind = "sigprocmask" => Len(stack) < MaxFrames
          /\ stack # <<>> /\ stack[Len(stack)].kind = "sigaction" => f.kind = "exception"
          /\ t = Append(stack, f) /\ Len(stack) <= MaxFrames
      BY <1>2, <1>3
    <2>2. Frames(t)
      BY <1>1, <2>1, PushFrames
    <2> QED
      BY <1>1, <2>1, <2>2, PushTop
  <1>5. Live(t) = Live(stack) /\ Ids(t, bss_count) /\ CallsReset(t, sigprocmask_count)
    <2>1. t = Append(stack, f) /\ f.kind # "prog" /\ f.kind # "sigprocmask"
      BY <1>2
    <2> QED
      BY <1>1, <2>1, PushKeeps
  <1>6. \A i \in 1 .. Len(t) : i \in 1 .. Len(stack) \/ i = Len(t)
    BY <1>3, <1>4
  <1> QED
    BY <1>2, <1>3, <1>4, <1>5, <1>6 DEF Sub, NoCall

(* One iteration of the loop of sigprocmask(), on its frame. *)
LEMMA IteratedFields ==
  ASSUME Stacked, InLoop, NEW b \in BOOLEAN, NEW g, g = Iterated(b)
  PROVE  /\ g \in Frame /\ g.kind = "sigprocmask" /\ g.how = Top.how /\ g.set = Top.set
         /\ g.signo = Top.signo + 1
         /\ g.new_mask = IF b THEN Top.new_mask \cup {Top.signo} ELSE Top.new_mask
  <1>1. Top \in Frame /\ Top.kind = "sigprocmask" /\ Top.signo \in Sig
    BY EmptySeq DEF Stacked, Frames, InLoop, Top
  <1>2. PICK f : f = Top
    OBVIOUS
  <1>3. f \in [kind : {"sigprocmask"}, how : How, set : SUBSET Sig,
               new_mask : SUBSET Sig, signo : Sig \cup {NSig + 1}]
    BY <1>1, <1>2 DEF Frame
  <1>4. f.signo \in Sig /\ f.signo + 1 \in Sig \cup {NSig + 1}
    BY <1>1, <1>2, SignalConstantsOK DEF Sig
  <1>5. PICK m \in SUBSET Sig : m = IF b THEN f.new_mask \cup {f.signo} ELSE f.new_mask
    BY <1>3, <1>4
  <1>6. g = [f EXCEPT !.signo = f.signo + 1, !.new_mask = m]
    BY <1>2, <1>3, <1>5 DEF Iterated
  <1>7. g \in [kind : {"sigprocmask"}, how : How, set : SUBSET Sig,
               new_mask : SUBSET Sig, signo : Sig \cup {NSig + 1}]
    BY <1>3, <1>4, <1>6
  <1>8. /\ g.kind = "sigprocmask" /\ g.how = f.how /\ g.set = f.set
        /\ g.signo = f.signo + 1 /\ g.new_mask = m
    BY <1>3, <1>4, <1>6
  <1>9. g \in Frame
    BY <1>7 DEF Frame
  <1> QED
    BY <1>2, <1>5, <1>8, <1>9

LEMMA AdvancedFields ==
  ASSUME Stacked, InLoop, NEW b \in BOOLEAN, NEW t, t = Advanced(b)
  PROVE  /\ t \in Seq(Frame) /\ Len(t) = Len(stack)
         /\ Len(stack) \in Nat /\ Len(stack) >= 1
         /\ t[Len(stack)] = Iterated(b)
         /\ \A i \in 1 .. Len(stack) - 1 : t[i] = stack[i]
  <1>1. /\ stack \in Seq(Frame) /\ Len(stack) \in Nat /\ Len(stack) >= 1
    BY EmptySeq DEF Stacked, Frames, InLoop
  <1>2. PICK n \in Nat : n = Len(stack) - 1
    BY <1>1
  <1>3. PICK u : u = SubSeq(stack, 1, n)
    OBVIOUS
  <1>4. /\ u \in Seq(Frame) /\ Len(u) = n
        /\ \A i \in 1 .. n : u[i] = stack[i]
    BY <1>1, <1>2, <1>3, PrefixFields
  <1>5. PICK g \in Frame : g = Iterated(b)
    BY IteratedFields
  <1>6. t = Append(u, g)
    BY <1>2, <1>3, <1>5 DEF Advanced, Front
  <1>7. /\ t \in Seq(Frame) /\ Len(t) = n + 1 /\ t[n + 1] = g
        /\ \A i \in 1 .. n : t[i] = stack[i]
    BY <1>4, <1>6, PushFields
  <1> QED
    BY <1>1, <1>2, <1>5, <1>7

LEMMA AdvancedSub ==
  ASSUME SInv, InLoop, NEW b \in BOOLEAN, NEW t, t = Advanced(b)
  PROVE  /\ Sub(t) /\ Len(t) = Len(stack) /\ t # <<>> /\ Len(t) <= MaxFrames
         /\ Live(t) = Live(stack)
  <1>1. Stacked /\ Frames(stack) /\ Ids(stack, bss_count) /\ CallsReset(stack, sigprocmask_count)
    BY DEF SInv, Stacked, Isolated
  <1>2. PICK g : g = Iterated(b)
    OBVIOUS
  <1>3. /\ t \in Seq(Frame) /\ Len(t) = Len(stack)
        /\ Len(stack) \in Nat /\ Len(stack) >= 1
        /\ t[Len(stack)] = g
        /\ \A i \in 1 .. Len(stack) - 1 : t[i] = stack[i]
    BY <1>1, <1>2, AdvancedFields
  <1>4. g.kind = "sigprocmask"
    BY <1>1, <1>2, IteratedFields
  <1>5. stack[Len(stack)].kind = "sigprocmask"
    BY DEF InLoop, Top
  <1>6. \A i \in 1 .. Len(stack) : t[i].kind = stack[i].kind
    BY <1>3, <1>4, <1>5
  <1>7. \A i \in 1 .. Len(stack) : stack[i].kind = "prog" => t[i] = stack[i]
    BY <1>3, <1>5
  <1>8. Len(stack) \in 1 .. Len(stack) /\ 1 \in 1 .. Len(stack) /\ t # <<>> /\ stack # <<>>
    BY <1>3
  <1>9. Frames(t)
    <2>1. t[1].kind = "prog"
      BY <1>1, <1>6, <1>8 DEF Frames
    <2>2. \A i \in 1 .. Len(t) : t[i].kind = "sigprocmask" => i <= MaxFrames
      BY <1>1, <1>3, <1>6 DEF Frames
    <2>3. \A i, j \in 1 .. Len(t) :
            j = i + 1 /\ t[i].kind = "sigaction" => t[j].kind = "exception"
      BY <1>1, <1>3, <1>6 DEF Frames
    <2>4. Len(t) <= MaxFrames + 1
      BY <1>1, <1>3 DEF Frames
    <2> QED
      BY <1>3, <2>1, <2>2, <2>3, <2>4 DEF Frames
  <1>10. Ids(t, bss_count)
    BY <1>1, <1>3, <1>6, <1>7 DEF Ids
  <1>11. Live(t) = Live(stack)
    <2>1. {j \in 1 .. Len(t) : t[j].kind = "prog"} = {j \in 1 .. Len(stack) : stack[j].kind = "prog"}
      BY <1>3, <1>6
    <2> QED
      BY <1>7, <2>1 DEF Live
  <1>12. CallsReset(t, sigprocmask_count)
    BY <1>1, <1>3, <1>6, <1>7 DEF CallsReset
  <1>13. ~NoCall
    <2>1. DOMAIN stack = 1 .. Len(stack)
      BY <1>1, LenProperties DEF Frames
    <2> QED
      BY <1>5, <1>8, <2>1 DEF NoCall
  <1>14. Len(t) <= MaxFrames
    BY <1>1, <1>3, <1>5, <1>8 DEF Frames
  <1> QED
    BY <1>3, <1>4, <1>8, <1>9, <1>10, <1>11, <1>12, <1>13, <1>14 DEF Sub

(* The end of the running program: its parent was in its own code. *)
LEMMA EndSub ==
  ASSUME SInv, stack # <<>>, NEW t, t = SubSeq(stack, 1, LastProg - 1)
  PROVE  Sub(t)
  <1>1. /\ LastProg \in 1 .. Len(stack) /\ stack[LastProg].kind = "prog"
        /\ Len(stack) \in Nat
    BY LastProgOK DEF SInv, Stacked, Frames
  <1>2. PICK n : n = LastProg - 1
    OBVIOUS
  <1>3. n \in 0 .. Len(stack) /\ (n > 0 => n \in 1 .. Len(stack) /\ LastProg = n + 1)
    BY <1>1, <1>2
  <1>4. n > 0 => stack[n].kind # "sigaction"
    BY <1>1, <1>3 DEF SInv, Stacked, Frames
  <1> QED
    BY <1>2, <1>3, <1>4, CutSub

(* raise() leaves such a stack. *)
LEMMA RaisedSub ==
  ASSUME SInv, stack # <<>>,
         NEW s \in Sig, NEW list, NEW pend \in SUBSET Sig,
         NEW st, Sub(st), st # <<>>, Len(st) <= MaxFrames,
         Raised(s, list, pend, st)
  PROVE  /\ Sub(stack') /\ pending' \in SUBSET Sig
  <1>1. CASE stack' = st /\ pending' \in SUBSET Sig
    BY <1>1
  <1>2. CASE EndProgram /\ pending' = pend
    BY <1>2, EndSub DEF EndProgram
  <1>3. CASE /\ list[s] \in Handler /\ pending' = pend
             /\ stack' = Append(st, [kind |-> "handler", sig |-> s, fn |-> list[s]])
    <2>1. PICK f \in Frame : /\ f = [kind |-> "handler", sig |-> s, fn |-> list[s]]
                             /\ f.kind = "handler"
      BY <1>3 DEF Frame
    <2>2. Sub(stack')
      BY <1>3, <2>1, PushSub
    <2> QED
      BY <1>3, <2>2
  <1> QED
    BY <1>1, <1>2, <1>3 DEF Raised

(* The invariant after a step to such a stack. *)
LEMMA SubKeeps ==
  ASSUME SInv, Sub(stack'), Types',
         sigprocmask_count' = sigprocmask_count, bss_count' = bss_count,
         practice' = practice,
         \A s \in Sig : From(signal_list'[s], Live(stack)),
         \A s \in Sig : From(prev_handlers'[s], {p \in Live(stack) : p <= sigprocmask_count}),
         "child_in_call" \notin practice =>
           /\ \A s \in Sig : prev_handlers'[s] # sig_suspender
           /\ \A s \in Sig : signal_list'[s] = sig_suspender =>
                sigprocmask_count = bss_count /\ prev_handlers'[s] # SIG_ERR
  PROVE  SInv'
  <1>1. Frames(stack') /\ Ids(stack', bss_count') /\ Live(stack') \subseteq Live(stack)
    BY DEF Sub
  <1>2. \A h : ~Installs(stack', h)
    BY DEF Sub, Installs
  <1>3. /\ \A s \in Sig : From(signal_list'[s], Live(stack'))
        /\ \A s \in Sig :
             From(prev_handlers'[s], {p \in Live(stack') : p <= sigprocmask_count'})
    BY <1>1 DEF From
  <1>4. Isolated'
    BY <1>2, <1>3 DEF Isolated, Sub
  <1>5. NoCall' <=> ~\E i \in 1 .. Len(stack') : stack'[i].kind = "sigprocmask"
    <2>1. DOMAIN stack' = 1 .. Len(stack')
      BY <1>1, LenProperties DEF Frames
    <2> QED
      BY <2>1 DEF NoCall
  <1>6. Diverted'
    BY <1>2, <1>5 DEF Diverted, Sub, SInv
  <1> QED
    BY <1>1, <1>4, <1>6 DEF SInv, Stacked

LEMMA QuietKeeps ==
  ASSUME SInv, Sub(stack'), UNCHANGED <<signal_list, prev_handlers>>,
         pending' \in SUBSET Sig, current_mask' \in SUBSET Sig,
         UNCHANGED <<sigprocmask_count, bss_count, practice>>
  PROVE  SInv'
  <1>1. Types'
    BY DEF SInv, Types
  <1>2. /\ \A s \in Sig : From(signal_list'[s], Live(stack))
        /\ \A s \in Sig : From(prev_handlers'[s], {p \in Live(stack) : p <= sigprocmask_count})
    BY DEF SInv, Isolated
  <1>3. "child_in_call" \notin practice =>
           /\ \A s \in Sig : prev_handlers'[s] # sig_suspender
           /\ \A s \in Sig : signal_list'[s] = sig_suspender =>
                sigprocmask_count = bss_count /\ prev_handlers'[s] # SIG_ERR
    BY DEF SInv, Diverted
  <1> QED
    BY <1>1, <1>2, <1>3, SubKeeps

(* Handlers that are no functions of a program came from no program. *)
LEMMA NotHandlers ==
  /\ \A P : From(SIG_DFL, P) /\ From(SIG_IGN, P) /\ From(SIG_ERR, P)
            /\ From(sig_suspender, P)
  /\ sig_suspender \notin {SIG_DFL, SIG_IGN, SIG_ERR}
  /\ SIG_ERR \notin Installed
  BY HandlersDiffer DEF From, Installed

LEMMA TopFrame ==
  ASSUME SInv, stack # <<>>
  PROVE  /\ Len(stack) \in Nat /\ Len(stack) >= 1 /\ Len(stack) \in 1 .. Len(stack)
         /\ Top = stack[Len(stack)] /\ Top \in Frame /\ stack \in Seq(Frame)
         /\ DOMAIN stack = 1 .. Len(stack)
         /\ MaxFrames \in Nat
  BY EmptySeq, LenProperties, SignalConstantsOK DEF SInv, Stacked, Frames, Top

LEMMA InitHolds ==
  ASSUME Init
  PROVE  SInv
  <1>1. Types
    BY SignalConstantsOK DEF Init, Types, Installed
  <1>2. Len(stack) = 0 /\ stack = <<>> /\ stack \in Seq(Frame)
    BY EmptySeq DEF Init
  <1>3. Stacked
    BY <1>2, SignalConstantsOK DEF Stacked, Frames, Ids
  <1>4. \A s \in Sig : signal_list[s] = SIG_DFL /\ prev_handlers[s] = SIG_DFL
    BY DEF Init
  <1>5. Isolated
    BY <1>2, <1>4, NotHandlers DEF Isolated, CallsReset, Installs
  <1>6. Diverted
    BY <1>2, <1>4, NotHandlers DEF Diverted, NoCall, Installs
  <1> QED
    BY <1>1, <1>3, <1>5, <1>6 DEF SInv

(* __crt1_startup of a program. *)
LEMMA StartKeeps ==
  ASSUME SInv, Start, UNCHANGED practice
  PROVE  SInv'
  <1>1. /\ bss_count <= MaxStarts /\ bss_count' = bss_count + 1
        /\ stack' = Append(stack, [kind |-> "prog", id |-> bss_count + 1])
        /\ signal_list' = [s \in Sig |-> SIG_DFL]
        /\ prev_handlers' = prev_handlers /\ current_mask' = current_mask
        /\ sigprocmask_count' = sigprocmask_count /\ pending' = pending
    BY DEF Start, Push, SignalSetup, mvars
  <1>2. bss_count \in 1 .. MaxStarts + 1 /\ MaxStarts \in Nat /\ MaxFrames \in Nat
    BY SignalConstantsOK DEF SInv, Types
  <1>3. Types'
    <2>1. signal_list' \in [Sig -> Installed]
      BY <1>1 DEF Installed
    <2>2. bss_count' \in 1 .. MaxStarts + 1 /\ sigprocmask_count' <= bss_count'
      BY <1>1, <1>2 DEF SInv, Types
    <2> QED
      BY <1>1, <2>1, <2>2 DEF SInv, Types
  <1>4. PICK f \in Frame : /\ f = [kind |-> "prog", id |-> bss_count + 1]
                           /\ f.kind = "prog" /\ f.id = bss_count + 1
    <2>1. bss_count + 1 \in Prog
      BY <1>1, <1>2 DEF Prog
    <2>2. \A n \in Prog : [kind |-> "prog", id |-> n] \in Frame
      BY DEF Frame
    <2> QED
      BY <2>1, <2>2
  <1>5. Frames(stack) /\ Ids(stack, bss_count)
    BY DEF SInv, Stacked
  <1>6. /\ stack' = Append(stack, f) /\ Len(stack) <= MaxFrames
        /\ stack = <<>> => f.kind = "prog"
        /\ f.kind = "sigprocmask" => Len(stack) < MaxFrames
        /\ stack # <<>> /\ stack[Len(stack)].kind = "sigaction" => f.kind = "exception"
    <2>1. stack = <<>> => Len(stack) <= MaxFrames
      BY <1>2
    <2>2. ASSUME stack # <<>>
          PROVE  Len(stack) <= MaxFrames /\ stack[Len(stack)].kind # "sigaction"
      <3>1. Top = stack[Len(stack)] /\ Len(stack) \in Nat
        BY <2>2, TopFrame
      <3>2. IsCode(Top) /\ Room
        BY <2>2 DEF Start, InCode
      <3> QED
        BY <1>2, <3>1, <3>2 DEF IsCode, Room
    <2> QED
      BY <1>1, <1>4, <2>1, <2>2
  <1>7. Frames(stack')
    BY <1>5, <1>6, PushFrames
  <1>8. /\ stack' # <<>> /\ Len(stack') = Len(stack) + 1 /\ Len(stack) \in Nat
        /\ stack'[Len(stack')] = f
        /\ \A i \in 1 .. Len(stack) : i \in 1 .. Len(stack') /\ stack'[i] = stack[i]
    BY <1>5, <1>6, PushTop
  <1>9. \A i \in 1 .. Len(stack') : i \in 1 .. Len(stack) \/ i = Len(stack')
    BY <1>8
  <1>10. Ids(stack', bss_count')
    <2>1. \A i \in 1 .. Len(stack) :
            stack[i].kind = "prog" => stack[i].id <= bss_count /\ stack[i].id \in Int
      <3>1. \A i \in 1 .. Len(stack) : stack[i] \in Frame
        BY <1>5 DEF Frames
      <3>2. \A i \in 1 .. Len(stack) : stack[i].kind = "prog" => stack[i].id \in Prog
        BY <3>1, FrameFields
      <3> QED
        BY <1>5, <3>2, SignalConstantsOK DEF Ids, Prog
    <2>2. \A i \in 1 .. Len(stack') : stack'[i].kind = "prog" => stack'[i].id <= bss_count'
      BY <1>1, <1>2, <1>4, <1>8, <1>9, <2>1
    <2>3. \A i, j \in 1 .. Len(stack') :
            i < j /\ stack'[i].kind = "prog" /\ stack'[j].kind = "prog"
              => stack'[i].id < stack'[j].id
      <3> SUFFICES ASSUME NEW i \in 1 .. Len(stack'), NEW j \in 1 .. Len(stack'), i < j,
                          stack'[i].kind = "prog", stack'[j].kind = "prog"
                   PROVE  stack'[i].id < stack'[j].id
        OBVIOUS
      <3>1. i \in 1 .. Len(stack) /\ stack'[i] = stack[i]
        BY <1>8
      <3>2. CASE j \in 1 .. Len(stack)
        BY <1>5, <1>8, <3>1, <3>2 DEF Ids
      <3>3. CASE j = Len(stack')
        BY <1>2, <1>4, <1>8, <2>1, <3>1, <3>3
      <3> QED
        BY <1>9, <3>2, <3>3
    <2> QED
      BY <2>2, <2>3 DEF Ids
  <1>11. \A s \in Sig : signal_list'[s] = SIG_DFL
    BY <1>1
  <1>12. {p \in Live(stack') : p <= sigprocmask_count'}
           \subseteq {p \in Live(stack) : p <= sigprocmask_count}
    <2>1. Live(stack') \subseteq Live(stack) \cup {bss_count + 1}
      BY <1>4, <1>8, <1>9 DEF Live
    <2>2. ~(bss_count + 1 <= sigprocmask_count)
      BY <1>2 DEF SInv, Types
    <2> QED
      BY <1>1, <2>1, <2>2
  <1>13. \A h : ~Installs(stack', h)
    BY <1>4, <1>8 DEF Installs
  <1>14. CallsReset(stack', sigprocmask_count')
    <2>1. CallsReset(stack, sigprocmask_count)
      BY DEF SInv, Isolated
    <2> QED
      BY <1>1, <1>4, <1>8, <1>9, <2>1 DEF CallsReset
  <1>15. Isolated'
    <2>1. \A s \in Sig : From(signal_list'[s], Live(stack'))
      BY <1>11, NotHandlers
    <2>2. \A s \in Sig :
            From(prev_handlers'[s], {p \in Live(stack') : p <= sigprocmask_count'})
      BY <1>1, <1>12 DEF SInv, Isolated, From
    <2> QED
      BY <1>13, <1>14, <2>1, <2>2 DEF Isolated
  <1>16. Diverted'
    <2>1. NoCall => NoCall'
      <3>1. DOMAIN stack' = 1 .. Len(stack') /\ DOMAIN stack = 1 .. Len(stack)
        BY <1>5, <1>7, LenProperties DEF Frames
      <3> QED
        BY <1>4, <1>8, <1>9, <3>1 DEF NoCall
    <2>2. "child_in_call" \notin practice => NoCall
      BY DEF Start
    <2> QED
      BY <1>1, <1>11, <1>13, <2>1, <2>2, NotHandlers DEF SInv, Diverted
  <1> QED
    BY <1>3, <1>7, <1>10, <1>15, <1>16 DEF SInv, Stacked

(* What returns is no exception, and uncovers no sigaction(). *)
LEMMA PopSub ==
  ASSUME SInv, stack # <<>>, Top.kind # "exception"
  PROVE  Sub(Front(stack))
  <1>1. /\ Len(stack) \in Nat /\ Len(stack) >= 1 /\ Len(stack) \in 1 .. Len(stack)
        /\ Top = stack[Len(stack)]
    BY TopFrame
  <1>2. PICK n \in Nat : n = Len(stack) - 1
    BY <1>1
  <1>3. n \in 0 .. Len(stack) /\ (n > 0 => n \in 1 .. Len(stack)) /\ Len(stack) = n + 1
    BY <1>1, <1>2
  <1>4. n > 0 => stack[n].kind # "sigaction"
    BY <1>1, <1>3 DEF SInv, Stacked, Frames
  <1>5. Front(stack) = SubSeq(stack, 1, n)
    BY <1>2 DEF Front
  <1> QED
    BY <1>3, <1>4, <1>5, CutSub

LEMMA CodeSub ==
  ASSUME SInv, InCode
  PROVE  Sub(stack) /\ stack # <<>>
  <1>1. /\ stack # <<>> /\ Top = stack[Len(stack)] /\ DOMAIN stack = 1 .. Len(stack)
        /\ IsCode(Top)
    BY TopFrame DEF InCode
  <1> QED
    BY <1>1 DEF Sub, SInv, Stacked, Isolated, NoCall, IsCode

LEMMA ExitKeeps ==
  ASSUME SInv, exit, UNCHANGED practice
  PROVE  SInv'
  <1>1. stack # <<>> /\ stack' = SubSeq(stack, 1, LastProg - 1)
    BY DEF exit, InCode, EndProgram
  <1>2. Sub(stack')
    BY <1>1, EndSub
  <1>3. /\ signal_list' = [s \in Sig |-> SIG_DFL] /\ prev_handlers' = prev_handlers
        /\ current_mask' = current_mask /\ sigprocmask_count' = sigprocmask_count
        /\ pending' = pending /\ bss_count' = bss_count
    BY DEF exit, SignalSetup, mvars
  <1>4. Types'
    BY <1>3 DEF SInv, Types, Installed
  <1>5. \A s \in Sig : signal_list'[s] = SIG_DFL
    BY <1>3
  <1>6. /\ \A s \in Sig : From(signal_list'[s], Live(stack))
        /\ \A s \in Sig : From(prev_handlers'[s], {p \in Live(stack) : p <= sigprocmask_count})
    BY <1>3, <1>5, NotHandlers DEF SInv, Isolated
  <1>7. "child_in_call" \notin practice =>
           /\ \A s \in Sig : prev_handlers'[s] # sig_suspender
           /\ \A s \in Sig : signal_list'[s] = sig_suspender =>
                sigprocmask_count = bss_count /\ prev_handlers'[s] # SIG_ERR
    BY <1>3, <1>5, NotHandlers DEF SInv, Diverted
  <1> QED
    BY <1>2, <1>3, <1>4, <1>6, <1>7, SubKeeps

(* A function of the running program, which is the last one started. *)
LEMMA OwnHandler ==
  ASSUME SInv, stack # <<>>, NEW h \in Disposition(Running)
  PROVE  h \in Installed /\ From(h, Live(stack)) /\ h # sig_suspender
  <1>1. Running \in Prog /\ \A p \in Live(stack) : Running >= p
    BY LastProgOK DEF SInv
  <1>2. CASE h \in {Running} \X Fn
    <2>1. h \in Handler /\ h[1] = Running
      BY <1>1, <1>2 DEF Handler
    <2>2. h # sig_suspender
      BY <2>1, HandlersDiffer
    <2> QED
      BY <1>1, <2>1, <2>2 DEF From, Installed
  <1>3. CASE h \in {SIG_DFL, SIG_IGN}
    BY <1>3, NotHandlers DEF Installed
  <1> QED
    BY <1>2, <1>3 DEF Disposition

LEMMA SignalKeeps ==
  ASSUME SInv, NEW s \in Sig, InCode, NEW h \in Disposition(Running), signal(s, h),
         UNCHANGED practice
  PROVE  SInv'
  <1>1. stack # <<>> /\ Sub(stack)
    BY CodeSub
  <1>2. /\ signal_list' = [signal_list EXCEPT ![s] = h] /\ prev_handlers' = prev_handlers
        /\ current_mask' = current_mask /\ sigprocmask_count' = sigprocmask_count
        /\ pending' = pending /\ bss_count' = bss_count /\ stack' = stack
    BY DEF signal, mvars
  <1>3. h \in Installed /\ From(h, Live(stack)) /\ h # sig_suspender
    BY <1>1, OwnHandler
  <1>4. signal_list \in [Sig -> Installed]
    BY DEF SInv, Types
  <1>5. Types'
    BY <1>2, <1>3, <1>4 DEF SInv, Types
  <1>6. \A r \in Sig : signal_list'[r] = h \/ signal_list'[r] = signal_list[r]
    BY <1>2, <1>4
  <1>7. /\ \A r \in Sig : From(signal_list'[r], Live(stack))
        /\ \A r \in Sig : From(prev_handlers'[r], {p \in Live(stack) : p <= sigprocmask_count})
    BY <1>2, <1>3, <1>6 DEF SInv, Isolated
  <1>8. "child_in_call" \notin practice =>
           /\ \A r \in Sig : prev_handlers'[r] # sig_suspender
           /\ \A r \in Sig : signal_list'[r] = sig_suspender =>
                sigprocmask_count = bss_count /\ prev_handlers'[r] # SIG_ERR
    BY <1>2, <1>3, <1>6 DEF SInv, Diverted
  <1> QED
    BY <1>1, <1>2, <1>5, <1>7, <1>8, SubKeeps

LEMMA SigactionKeeps ==
  ASSUME SInv, NEW s \in Sig, InCode, UNCHANGED practice,
         NEW h \in Disposition(Running) \cup {signal_list[s]}, sigaction(s, h)
  PROVE  SInv'
  <1>1. stack # <<>> /\ Sub(stack) /\ IsCode(Top) /\ Room
    BY CodeSub DEF InCode, sigaction
  <1>2. /\ signal_list' = [signal_list EXCEPT ![s] = SIG_IGN]
        /\ prev_handlers' = prev_handlers
        /\ current_mask' = current_mask /\ sigprocmask_count' = sigprocmask_count
        /\ pending' = pending /\ bss_count' = bss_count
        /\ stack' = Append(stack, [kind |-> "sigaction", sig |-> s, old |-> signal_list[s],
                                   act |-> h])
    BY DEF sigaction, mvars, Push
  <1>3. signal_list \in [Sig -> Installed] /\ signal_list[s] \in Installed
    BY DEF SInv, Types
  <1>4. /\ h \in Installed /\ From(h, Live(stack))
        /\ h = sig_suspender => signal_list[s] = sig_suspender
    <2>1. CASE h \in Disposition(Running)
      BY <1>1, <2>1, OwnHandler
    <2>2. CASE h = signal_list[s]
      BY <1>3, <2>2 DEF SInv, Isolated
    <2> QED
      BY <2>1, <2>2
  <1>5. Types'
    <2>1. SIG_IGN \in Installed
      BY DEF Installed
    <2> QED
      BY <1>2, <1>3, <2>1 DEF SInv, Types
  <1>6. PICK f \in Frame : /\ stack' = Append(stack, f) /\ f.kind = "sigaction"
                           /\ f.sig = s /\ f.act = h
    <2>0. s \in Sig \ {SIGKILL}
      BY DEF sigaction
    <2>1. \A o, c \in Installed :
            [kind |-> "sigaction", sig |-> s, old |-> o, act |-> c] \in Frame
      BY <2>0 DEF Frame
    <2> QED
      BY <1>2, <1>3, <1>4, <2>1
  <1>7. /\ Len(stack) \in Nat /\ Len(stack) < MaxFrames /\ DOMAIN stack = 1 .. Len(stack)
        /\ MaxFrames \in Nat /\ stack[Len(stack)].kind # "sigaction"
    BY <1>1, TopFrame DEF Room, IsCode
  <1>8. Frames(stack) /\ Ids(stack, bss_count) /\ CallsReset(stack, sigprocmask_count)
    BY DEF SInv, Stacked, Isolated
  <1>9. Frames(stack')
    <2>1. /\ stack = <<>> => f.kind = "prog"
          /\ f.kind = "sigprocmask" => Len(stack) < MaxFrames
          /\ stack # <<>> /\ stack[Len(stack)].kind = "sigaction" => f.kind = "exception"
          /\ Len(stack) <= MaxFrames
      BY <1>1, <1>6, <1>7
    <2> QED
      BY <1>6, <1>8, <2>1, PushFrames
  <1>10. /\ stack' # <<>> /\ Len(stack') = Len(stack) + 1 /\ stack'[Len(stack')] = f
         /\ \A i \in 1 .. Len(stack) : i \in 1 .. Len(stack') /\ stack'[i] = stack[i]
    BY <1>6, <1>8, PushTop
  <1>11. /\ Live(stack') = Live(stack) /\ Ids(stack', bss_count)
         /\ CallsReset(stack', sigprocmask_count)
    <2>1. f.kind # "prog" /\ f.kind # "sigprocmask"
      BY <1>6
    <2> QED
      BY <1>6, <1>8, <2>1, PushKeeps
  <1>12. \A r \in Sig : signal_list'[r] = IF r = s THEN SIG_IGN ELSE signal_list[r]
    BY <1>2, <1>3
  <1>13. Isolated'
    <2>1. \A r \in Sig : From(signal_list'[r], Live(stack'))
      BY <1>11, <1>12, NotHandlers DEF SInv, Isolated
    <2>2. \A r \in Sig :
            From(prev_handlers'[r], {p \in Live(stack') : p <= sigprocmask_count'})
      BY <1>2, <1>11 DEF SInv, Isolated
    <2>3. \A c : Installs(stack', c) => From(c, Live(stack'))
      BY <1>4, <1>6, <1>10, <1>11 DEF Installs
    <2> QED
      BY <1>2, <1>11, <2>1, <2>2, <2>3 DEF Isolated
  <1>14. Diverted'
    <2> SUFFICES ASSUME "child_in_call" \notin practice
                 PROVE  /\ \A r \in Sig : prev_handlers'[r] # sig_suspender
                        /\ \A r \in Sig : signal_list'[r] = sig_suspender =>
                             sigprocmask_count' = bss_count' /\ prev_handlers'[r] # SIG_ERR
                        /\ ~NoCall' => sigprocmask_count' = bss_count'
                        /\ Installs(stack', sig_suspender) =>
                             /\ sigprocmask_count' = bss_count'
                             /\ prev_handlers'[Top'.sig] # SIG_ERR
      BY DEF Diverted
    <2>1. /\ \A r \in Sig : prev_handlers[r] # sig_suspender
          /\ \A r \in Sig : signal_list[r] = sig_suspender =>
               sigprocmask_count = bss_count /\ prev_handlers[r] # SIG_ERR
          /\ ~NoCall => sigprocmask_count = bss_count
      BY DEF SInv, Diverted
    <2>2. NoCall => NoCall'
      <3>1. DOMAIN stack' = 1 .. Len(stack')
        BY <1>9, LenProperties DEF Frames
      <3>2. \A i \in 1 .. Len(stack') : i \in 1 .. Len(stack) \/ i = Len(stack')
        BY <1>7, <1>10
      <3> QED
        BY <1>6, <1>7, <1>10, <3>1, <3>2 DEF NoCall
    <2>3. Top' = f
      BY <1>10 DEF Top
    <2>4. Installs(stack', sig_suspender) => signal_list[s] = sig_suspender
      BY <1>4, <1>6, <1>10 DEF Installs
    <2> QED
      BY <1>2, <1>6, <1>12, <2>1, <2>2, <2>3, <2>4, NotHandlers
  <1> QED
    BY <1>2, <1>5, <1>9, <1>11, <1>13, <1>14 DEF SInv, Stacked

LEMMA SigactionReturnKeeps ==
  ASSUME SInv, SigactionReturn, UNCHANGED practice
  PROVE  SInv'
  <1>1. stack # <<>> /\ Top.kind = "sigaction" /\ stack' = Front(stack)
    BY DEF SigactionReturn
  <1>2. Sub(stack')
    BY <1>1, PopSub
  <1>3. PICK f \in Frame : f = Top /\ f = stack[Len(stack)]
    BY <1>1, TopFrame
  <1>4. /\ signal_list' = [signal_list EXCEPT ![f.sig] = f.act]
        /\ prev_handlers' = prev_handlers
        /\ current_mask' = current_mask /\ sigprocmask_count' = sigprocmask_count
        /\ pending' = pending /\ bss_count' = bss_count
    BY <1>3 DEF SigactionReturn, mvars
  <1>5. f.sig \in Sig /\ f.act \in Installed
    BY <1>1, <1>3, FrameFields
  <1>6. Installs(stack, f.act)
    BY <1>1, <1>3 DEF Installs
  <1>7. signal_list \in [Sig -> Installed]
    BY DEF SInv, Types
  <1>8. Types'
    BY <1>4, <1>5, <1>7 DEF SInv, Types
  <1>9. \A r \in Sig : signal_list'[r] = IF r = f.sig THEN f.act ELSE signal_list[r]
    BY <1>4, <1>5, <1>7
  <1>10. /\ \A r \in Sig : From(signal_list'[r], Live(stack))
         /\ \A r \in Sig : From(prev_handlers'[r], {p \in Live(stack) : p <= sigprocmask_count})
    BY <1>4, <1>6, <1>9 DEF SInv, Isolated
  <1>11. "child_in_call" \notin practice =>
           /\ \A r \in Sig : prev_handlers'[r] # sig_suspender
           /\ \A r \in Sig : signal_list'[r] = sig_suspender =>
                sigprocmask_count = bss_count /\ prev_handlers'[r] # SIG_ERR
    BY <1>3, <1>4, <1>6, <1>9 DEF SInv, Diverted
  <1> QED
    BY <1>2, <1>4, <1>8, <1>10, <1>11, SubKeeps

(* raise() of the program itself, and an interrupt. *)
LEMMA RaiseKeeps ==
  ASSUME SInv, NEW s \in Sig, raise(s), UNCHANGED practice
  PROVE  SInv'
  <1>1. Sub(stack) /\ stack # <<>> /\ Room
    BY CodeSub DEF raise
  <1>2. Len(stack) <= MaxFrames
    BY <1>1, TopFrame DEF Room
  <1>3. pending \in SUBSET Sig /\ current_mask \in SUBSET Sig
    BY DEF SInv, Types
  <1>4. Sub(stack') /\ pending' \in SUBSET Sig
    BY <1>1, <1>2, <1>3, RaisedSub DEF raise
  <1> QED
    BY <1>3, <1>4, QuietKeeps DEF raise, mvars

LEMMA InterruptKeeps ==
  ASSUME SInv, NEW s \in Sig, Interrupt(s), UNCHANGED practice
  PROVE  SInv'
  <1>1. stack # <<>> /\ Room
    BY DEF Interrupt
  <1>2. PICK st : st = Append(stack, [kind |-> "exception", sig |-> s])
    OBVIOUS
  <1>3. Sub(st) /\ st # <<>> /\ Len(st) <= MaxFrames
    BY <1>1, <1>2, InterruptSub
  <1>4. pending \in SUBSET Sig /\ current_mask \in SUBSET Sig
    BY DEF SInv, Types
  <1>5. Raised(s, signal_list, pending, st)
    BY <1>2 DEF Interrupt
  <1>6. Sub(stack') /\ pending' \in SUBSET Sig
    BY <1>1, <1>3, <1>4, <1>5, RaisedSub
  <1> QED
    BY <1>4, <1>6, QuietKeeps DEF Interrupt, mvars

LEMMA HandlerReturnKeeps ==
  ASSUME SInv, HandlerReturn, UNCHANGED practice
  PROVE  SInv'
  <1>1. Sub(stack')
    BY PopSub DEF HandlerReturn
  <1>2. pending \in SUBSET Sig /\ current_mask \in SUBSET Sig
    BY DEF SInv, Types
  <1> QED
    BY <1>1, <1>2, QuietKeeps DEF HandlerReturn, mvars

LEMMA HandlerJumpKeeps ==
  ASSUME SInv, HandlerJump, UNCHANGED practice
  PROVE  SInv'
  <1>1. stack # <<>>
    BY DEF HandlerJump
  <1>2. PICK i \in LastProg .. Len(stack) - 1 :
          IsCode(stack[i]) /\ stack' = SubSeq(stack, 1, i)
    BY DEF HandlerJump
  <1>3. i \in 0 .. Len(stack)
    BY <1>1, <1>2, LastProgOK, TopFrame DEF SInv
  <1>4. Sub(stack')
    BY <1>2, <1>3, CutSub DEF IsCode
  <1>5. pending \in SUBSET Sig /\ current_mask \in SUBSET Sig
    BY DEF SInv, Types
  <1> QED
    BY <1>4, <1>5, QuietKeeps DEF HandlerJump, mvars

LEMMA ExceptionReturnKeeps ==
  ASSUME SInv, ExceptionReturn, UNCHANGED practice
  PROVE  SInv'
  <1>1. stack # <<>> /\ stack' = SubSeq(stack, 1, LastProg - 1)
    BY DEF ExceptionReturn, EndProgram
  <1>2. Sub(stack')
    BY <1>1, EndSub
  <1>3. pending \in SUBSET Sig /\ current_mask \in SUBSET Sig
    BY DEF SInv, Types
  <1> QED
    BY <1>2, <1>3, QuietKeeps DEF ExceptionReturn, mvars

(* A call of sigprocmask() begins; nothing is diverted if the sets are     *)
(* emptied.                                                                *)
LEMMA SigprocmaskKeeps ==
  ASSUME SInv, NEW how \in How, NEW set \in SUBSET Sig, sigprocmask(how, set),
         UNCHANGED practice
  PROVE  SInv'
  <1>1. stack # <<>> /\ Sub(stack) /\ IsCode(Top) /\ Room
    BY CodeSub DEF InCode, sigprocmask
  <1>2. /\ stack' = Append(stack, [kind |-> "sigprocmask", how |-> how, set |-> set,
                                   new_mask |-> {}, signo |-> 1])
        /\ signal_list' = signal_list /\ bss_count' = bss_count
        /\ sigprocmask_count' = bss_count
    BY DEF sigprocmask, mvars
  <1>3. \/ /\ sigprocmask_count # bss_count
           /\ pending' = {} /\ current_mask' = {}
           /\ prev_handlers' = [s \in Sig |-> SIG_ERR]
        \/ /\ sigprocmask_count = bss_count
           /\ pending' = pending /\ current_mask' = current_mask
           /\ prev_handlers' = prev_handlers
    BY DEF sigprocmask, mvars
  <1>4. bss_count \in 1 .. MaxStarts + 1 /\ MaxStarts \in Nat /\ MaxFrames \in Nat
    BY SignalConstantsOK DEF SInv, Types
  <1>5. PICK f \in Frame : /\ stack' = Append(stack, f) /\ f.kind = "sigprocmask"
                           /\ f.how = how /\ f.set = set /\ f.new_mask = {} /\ f.signo = 1
    <2>1. 1 \in Sig
      BY SignalConstantsOK DEF Sig
    <2>2. \A n \in Sig : [kind |-> "sigprocmask", how |-> how, set |-> set,
                          new_mask |-> {}, signo |-> n] \in Frame
      BY DEF Frame
    <2> QED
      BY <1>2, <2>1, <2>2
  <1>6. /\ Len(stack) \in Nat /\ Len(stack) < MaxFrames /\ DOMAIN stack = 1 .. Len(stack)
        /\ stack[Len(stack)].kind # "sigaction"
    BY <1>1, TopFrame DEF Room, IsCode
  <1>7. Frames(stack) /\ Ids(stack, bss_count) /\ CallsReset(stack, sigprocmask_count)
    BY DEF SInv, Stacked, Isolated
  <1>8. Frames(stack')
    <2>1. /\ stack = <<>> => f.kind = "prog"
          /\ f.kind = "sigprocmask" => Len(stack) < MaxFrames
          /\ stack # <<>> /\ stack[Len(stack)].kind = "sigaction" => f.kind = "exception"
          /\ Len(stack) <= MaxFrames
      BY <1>1, <1>4, <1>5, <1>6
    <2> QED
      BY <1>5, <1>7, <2>1, PushFrames
  <1>9. /\ stack' # <<>> /\ Len(stack') = Len(stack) + 1 /\ stack'[Len(stack')] = f
        /\ \A i \in 1 .. Len(stack) : i \in 1 .. Len(stack') /\ stack'[i] = stack[i]
    BY <1>5, <1>7, PushTop
  <1>10. Live(stack') = Live(stack) /\ Ids(stack', bss_count)
    <2>1. f.kind # "prog"
      BY <1>5
    <2> QED
      BY <1>5, <1>7, <2>1, PushKeeps
  <1>11. \A i \in 1 .. Len(stack') : i \in 1 .. Len(stack) \/ i = Len(stack')
    BY <1>6, <1>9
  <1>12. CallsReset(stack', bss_count)
    <2>1. \A i \in 1 .. Len(stack') : stack'[i].kind = "prog" => stack'[i].id <= bss_count
      BY <1>10 DEF Ids
    <2> QED
      BY <2>1 DEF CallsReset
  <1>13. \A h : ~Installs(stack', h)
    BY <1>5, <1>9 DEF Installs
  <1>14. bss_count \in 2 .. MaxStarts + 1
    <2>1. Running \in Live(stack) /\ Running \in Prog
      BY <1>1, LastProgOK DEF SInv
    <2>2. Running <= bss_count
      BY <1>7, <2>1 DEF Ids, Live
    <2> QED
      BY <1>4, <2>1, <2>2 DEF Prog
  <1>15. Types'
    <2>1. prev_handlers' \in [Sig -> Installed \cup {SIG_ERR}]
      BY <1>3 DEF SInv, Types
    <2>2. pending' \in SUBSET Sig /\ current_mask' \in SUBSET Sig
      BY <1>3 DEF SInv, Types
    <2>3. bss_count <= bss_count
      BY <1>4
    <2> QED
      BY <1>2, <1>14, <2>1, <2>2, <2>3 DEF SInv, Types
  <1>16. Isolated'
    <2>1. \A s \in Sig : From(signal_list'[s], Live(stack'))
      BY <1>2, <1>10 DEF SInv, Isolated
    <2>2. \A s \in Sig :
            From(prev_handlers'[s], {p \in Live(stack') : p <= sigprocmask_count'})
      <3>1. CASE prev_handlers' = [s \in Sig |-> SIG_ERR]
        BY <3>1, NotHandlers
      <3>2. CASE sigprocmask_count = bss_count /\ prev_handlers' = prev_handlers
        BY <1>2, <1>10, <3>2 DEF SInv, Isolated
      <3> QED
        BY <1>3, <3>1, <3>2
    <2> QED
      BY <1>2, <1>12, <1>13, <2>1, <2>2 DEF Isolated
  <1>17. Diverted'
    <2> SUFFICES ASSUME "child_in_call" \notin practice
                 PROVE  /\ \A r \in Sig : prev_handlers'[r] # sig_suspender
                        /\ \A r \in Sig : signal_list'[r] = sig_suspender =>
                             sigprocmask_count' = bss_count' /\ prev_handlers'[r] # SIG_ERR
      BY <1>2, <1>13 DEF Diverted
    <2>1. /\ \A r \in Sig : prev_handlers[r] # sig_suspender
          /\ \A r \in Sig : signal_list[r] = sig_suspender =>
               sigprocmask_count = bss_count /\ prev_handlers[r] # SIG_ERR
      BY DEF SInv, Diverted
    <2> QED
      BY <1>2, <1>3, <2>1, NotHandlers
  <1> QED
    BY <1>2, <1>8, <1>10, <1>15, <1>16, <1>17 DEF SInv, Stacked

(* The iterations of its loop. *)
LEMMA LoopKeepKeeps ==
  ASSUME SInv, LoopKeep, UNCHANGED practice
  PROVE  SInv'
  <1>1. InLoop /\ stack' = Advanced(Top.signo \in current_mask)
    BY DEF LoopKeep
  <1>2. PICK b \in BOOLEAN : stack' = Advanced(b)
    <2>1. CASE Top.signo \in current_mask
      <3>1. stack' = Advanced(TRUE)
        BY <1>1, <2>1 DEF Advanced, Iterated
      <3> QED
        BY <3>1
    <2>2. CASE Top.signo \notin current_mask
      <3>1. stack' = Advanced(FALSE)
        BY <1>1, <2>2 DEF Advanced, Iterated
      <3> QED
        BY <3>1
    <2> QED
      BY <2>1, <2>2
  <1>3. Sub(stack')
    BY <1>1, <1>2, AdvancedSub
  <1>4. pending \in SUBSET Sig /\ current_mask \in SUBSET Sig
    BY DEF SInv, Types
  <1> QED
    BY <1>3, <1>4, QuietKeeps DEF LoopKeep, mvars

LEMMA LoopBlockKeeps ==
  ASSUME SInv, LoopBlock, UNCHANGED practice
  PROVE  SInv'
  <1>1. InLoop /\ stack' = Advanced(TRUE)
    BY DEF LoopBlock
  <1>2. Sub(stack')
    BY <1>1, AdvancedSub
  <1>3. /\ current_mask' = current_mask /\ sigprocmask_count' = sigprocmask_count
        /\ pending' = pending /\ bss_count' = bss_count
    BY DEF LoopBlock
  <1>4. PICK s \in Sig : s = Top.signo
    BY DEF InLoop, LoopBlock
  <1>5. CASE UNCHANGED <<prev_handlers, signal_list>>
    <2>1. pending \in SUBSET Sig /\ current_mask \in SUBSET Sig
      BY DEF SInv, Types
    <2> QED
      BY <1>2, <1>3, <1>5, <2>1, QuietKeeps
  <1>6. CASE /\ prev_handlers' = [prev_handlers EXCEPT ![s] = signal_list[s]]
             /\ signal_list' = [signal_list EXCEPT ![s] = sig_suspender]
             /\ prev_handlers[s] = SIG_ERR
    <2>1. /\ signal_list \in [Sig -> Installed]
          /\ prev_handlers \in [Sig -> Installed \cup {SIG_ERR}]
          /\ sig_suspender \in Installed
      BY DEF SInv, Types, Installed
    <2>2. /\ \A r \in Sig : prev_handlers'[r] =
                              IF r = s THEN signal_list[s] ELSE prev_handlers[r]
          /\ \A r \in Sig : signal_list'[r] = IF r = s THEN sig_suspender ELSE signal_list[r]
      BY <1>6, <2>1
    <2>3. Types'
      BY <1>3, <1>6, <2>1 DEF SInv, Types
    <2>4. /\ \A r \in Sig : From(signal_list'[r], Live(stack))
          /\ \A r \in Sig :
               From(prev_handlers'[r], {p \in Live(stack) : p <= sigprocmask_count})
      <3>1. /\ \A r \in Sig : From(signal_list[r], Live(stack))
            /\ \A r \in Sig :
                 From(prev_handlers[r], {p \in Live(stack) : p <= sigprocmask_count})
        BY DEF SInv, Isolated
      <3>2. From(signal_list[s], {p \in Live(stack) : p <= sigprocmask_count})
        BY <3>1 DEF From
      <3> QED
        BY <2>2, <3>1, <3>2, NotHandlers
    <2>5. "child_in_call" \notin practice =>
            /\ \A r \in Sig : prev_handlers'[r] # sig_suspender
            /\ \A r \in Sig : signal_list'[r] = sig_suspender =>
                 sigprocmask_count = bss_count /\ prev_handlers'[r] # SIG_ERR
      <3> SUFFICES ASSUME "child_in_call" \notin practice
                   PROVE  /\ \A r \in Sig : prev_handlers'[r] # sig_suspender
                          /\ \A r \in Sig : signal_list'[r] = sig_suspender =>
                               /\ sigprocmask_count = bss_count
                               /\ prev_handlers'[r] # SIG_ERR
        OBVIOUS
      <3>1. /\ \A r \in Sig : prev_handlers[r] # sig_suspender
            /\ \A r \in Sig : signal_list[r] = sig_suspender =>
                 sigprocmask_count = bss_count /\ prev_handlers[r] # SIG_ERR
            /\ ~NoCall => sigprocmask_count = bss_count
        BY DEF SInv, Diverted
      <3>2. ~NoCall
        BY <1>1, TopFrame DEF NoCall, InLoop
      <3>3. signal_list[s] # sig_suspender /\ signal_list[s] # SIG_ERR
        BY <1>6, <2>1, <3>1, NotHandlers
      <3> QED
        BY <2>2, <3>1, <3>2, <3>3
    <2> QED
      BY <1>2, <1>3, <2>3, <2>4, <2>5, SubKeeps
  <1> QED
    BY <1>4, <1>5, <1>6 DEF LoopBlock

LEMMA LoopUnblockKeeps ==
  ASSUME SInv, LoopUnblock, UNCHANGED practice
  PROVE  SInv'
  <1>1. InLoop
    BY DEF LoopUnblock
  <1>2. PICK s \in Sig : s = Top.signo
    BY <1>1 DEF InLoop
  <1>3. /\ signal_list' = Restored
        /\ prev_handlers' = [prev_handlers EXCEPT ![s] = SIG_ERR]
        /\ current_mask' = current_mask /\ sigprocmask_count' = sigprocmask_count
        /\ bss_count' = bss_count
    BY <1>2 DEF LoopUnblock, UnblockWith
  <1>4. /\ signal_list \in [Sig -> Installed]
        /\ prev_handlers \in [Sig -> Installed \cup {SIG_ERR}]
        /\ pending \in SUBSET Sig
    BY DEF SInv, Types
  <1>5. PICK st : st = Advanced(FALSE)
    OBVIOUS
  <1>6. Sub(st) /\ st # <<>> /\ Len(st) <= MaxFrames
    BY <1>1, <1>5, AdvancedSub
  <1>7. Sub(stack') /\ pending' \in SUBSET Sig
    <2>1. CASE s \in pending
      <3>1. Raised(s, Restored, pending \ {s}, st)
        BY <1>2, <1>5, <2>1 DEF LoopUnblock, UnblockWith
      <3>2. pending \ {s} \in SUBSET Sig /\ stack # <<>>
        BY <1>1, <1>4 DEF InLoop
      <3> QED
        BY <1>6, <3>1, <3>2, RaisedSub
    <2>2. CASE s \notin pending
      BY <1>2, <1>4, <1>5, <1>6, <2>2 DEF LoopUnblock, UnblockWith
    <2> QED
      BY <2>1, <2>2
  <1>8. \A r \in Sig : prev_handlers'[r] = IF r = s THEN SIG_ERR ELSE prev_handlers[r]
    BY <1>3, <1>4
  <1>9. \A r \in Sig : Restored[r] = IF r = s /\ prev_handlers[s] # SIG_ERR
                                     THEN prev_handlers[s] ELSE signal_list[r]
    BY <1>2, <1>4 DEF Restored
  <1>10. Types'
    <2>1. Restored \in [Sig -> Installed]
      BY <1>2, <1>4 DEF Restored
    <2> QED
      BY <1>3, <1>4, <1>7, <2>1 DEF SInv, Types
  <1>11. \A p \in Live(stack) : p <= sigprocmask_count
    <2>1. CallsReset(stack, sigprocmask_count)
      BY DEF SInv, Isolated
    <2>2. /\ Len(stack) \in 1 .. Len(stack) /\ stack[Len(stack)].kind = "sigprocmask"
          /\ Len(stack) \in Nat
      BY <1>1, TopFrame DEF InLoop
    <2>3. \A i \in 1 .. Len(stack) : stack[i].kind = "prog" => i < Len(stack)
      BY <2>2
    <2> QED
      BY <2>1, <2>2, <2>3 DEF CallsReset, Live
  <1>12. /\ \A r \in Sig : From(signal_list'[r], Live(stack))
         /\ \A r \in Sig :
              From(prev_handlers'[r], {p \in Live(stack) : p <= sigprocmask_count})
    <2>1. /\ \A r \in Sig : From(signal_list[r], Live(stack))
          /\ \A r \in Sig :
               From(prev_handlers[r], {p \in Live(stack) : p <= sigprocmask_count})
      BY DEF SInv, Isolated
    <2>2. From(prev_handlers[s], Live(stack))
      BY <1>11, <2>1 DEF From
    <2> QED
      BY <1>3, <1>8, <1>9, <2>1, <2>2, NotHandlers
  <1>13. "child_in_call" \notin practice =>
           /\ \A r \in Sig : prev_handlers'[r] # sig_suspender
           /\ \A r \in Sig : signal_list'[r] = sig_suspender =>
                sigprocmask_count = bss_count /\ prev_handlers'[r] # SIG_ERR
    <2> SUFFICES ASSUME "child_in_call" \notin practice
                 PROVE  /\ \A r \in Sig : prev_handlers'[r] # sig_suspender
                        /\ \A r \in Sig : signal_list'[r] = sig_suspender =>
                             sigprocmask_count = bss_count /\ prev_handlers'[r] # SIG_ERR
      OBVIOUS
    <2>1. /\ \A r \in Sig : prev_handlers[r] # sig_suspender
          /\ \A r \in Sig : signal_list[r] = sig_suspender =>
               sigprocmask_count = bss_count /\ prev_handlers[r] # SIG_ERR
      BY DEF SInv, Diverted
    <2> QED
      BY <1>3, <1>8, <1>9, <2>1, NotHandlers
  <1> QED
    BY <1>3, <1>7, <1>10, <1>12, <1>13, SubKeeps

LEMMA SigprocmaskReturnKeeps ==
  ASSUME SInv, SigprocmaskReturn, UNCHANGED practice
  PROVE  SInv'
  <1>1. stack # <<>> /\ Top.kind = "sigprocmask" /\ stack' = Front(stack)
    BY DEF SigprocmaskReturn
  <1>2. Sub(stack')
    BY <1>1, PopSub
  <1>3. pending \in SUBSET Sig /\ Top.new_mask \in SUBSET Sig
    BY <1>1, TopFrame, FrameFields DEF SInv, Types
  <1> QED
    BY <1>2, <1>3, QuietKeeps DEF SigprocmaskReturn

-----------------------------------------------------------------------------
(* No step of any program breaks the invariant. *)
LEMMA NextKeeps ==
  ASSUME SInv, [Next]_vars
  PROVE  SInv'
  <1>1. CASE UNCHANGED vars
    <2>1. /\ Types' = Types /\ Stacked' = Stacked
      BY <1>1 DEF vars, Types, Stacked
    <2>2. Isolated' = Isolated
      BY <1>1 DEF vars, Isolated
    <2>3. Diverted' = Diverted
      BY <1>1 DEF vars, Diverted, NoCall, Top
    <2> QED
      BY <2>1, <2>2, <2>3 DEF SInv
  <1>2. ASSUME Next PROVE SInv'
    <2>1. Step /\ UNCHANGED practice
      BY <1>2 DEF Next
    <2>2. CASE Start
      BY <2>1, <2>2, StartKeeps
    <2>3. CASE exit
      BY <2>1, <2>3, ExitKeeps
    <2>4. CASE SigactionReturn
      BY <2>1, <2>4, SigactionReturnKeeps
    <2>5. CASE HandlerReturn
      BY <2>1, <2>5, HandlerReturnKeeps
    <2>6. CASE HandlerJump
      BY <2>1, <2>6, HandlerJumpKeeps
    <2>7. CASE ExceptionReturn
      BY <2>1, <2>7, ExceptionReturnKeeps
    <2>8. CASE Loop
      BY <2>1, <2>8, LoopKeepKeeps, LoopBlockKeeps, LoopUnblockKeeps,
         SigprocmaskReturnKeeps DEF Loop
    <2>9. ASSUME NEW s \in Sig, raise(s) PROVE SInv'
      BY <2>1, <2>9, RaiseKeeps
    <2>10. ASSUME NEW s \in Sig, Interrupt(s) PROVE SInv'
      BY <2>1, <2>10, InterruptKeeps
    <2>11. ASSUME NEW s \in Sig, InCode, NEW h \in Disposition(Running), signal(s, h)
           PROVE  SInv'
      BY <2>1, <2>11, SignalKeeps
    <2>12. ASSUME NEW s \in Sig, InCode,
                  NEW h \in Disposition(Running) \cup {signal_list[s]}, sigaction(s, h)
           PROVE  SInv'
      BY <2>1, <2>12, SigactionKeeps
    <2>13. ASSUME NEW how \in How, NEW set \in SUBSET Sig, sigprocmask(how, set)
           PROVE  SInv'
      BY <2>1, <2>13, SigprocmaskKeeps
    <2> QED
      BY <2>1, <2>2, <2>3, <2>4, <2>5, <2>6, <2>7, <2>8, <2>9, <2>10, <2>11,
         <2>12, <2>13 DEF Step
  <1> QED
    BY <1>1, <1>2

(* Programs that share the libc keep its signal state in order, whatever   *)
(* they do with signals, masks and children of theirs.                     *)
THEOREM SignalState == Spec => []SInv
  <1>1. SInv /\ [Next]_vars => SInv'
    BY NextKeeps
  <1> QED
    BY InitHolds, <1>1, PTL DEF Spec

(* The variables of dpmiexcp.c and sigprocm.c hold what they are declared  *)
(* to hold, and unless a program is run in the middle of a call of its     *)
(* parent no signal is diverted for ever.                                  *)
THEOREM SignalTypes == Spec => []TypeOK
  <1>1. SInv => TypeOK
    <2> SUFFICES ASSUME SInv PROVE TypeOK
      OBVIOUS
    <2>1. stack \in Seq(Frame) /\ Len(stack) <= MaxFrames + 2
      BY SignalConstantsOK, LenProperties DEF SInv, Stacked, Frames
    <2>2. "child_in_call" \notin practice =>
            \A s \in Sig : prev_handlers[s] # sig_suspender
      BY DEF SInv, Diverted
    <2> QED
      BY <2>1, <2>2 DEF SInv, Types, TypeOK
  <1> QED
    BY <1>1, SignalState, PTL

(* No program ever runs a handler of a program started before it, with any *)
(* nesting of programs, handlers, calls and interrupts.                    *)
THEOREM ChildrenIsolated == Spec => []ChildIsolated
  <1>1. SInv => ChildIsolated
    <2> SUFFICES ASSUME SInv, stack # <<>>, NEW s \in Sig
                 PROVE  /\ signal_list[s] \in Handler => signal_list[s][1] >= Running
                        /\ Initialised /\ prev_handlers[s] \in Handler
                             => prev_handlers[s][1] >= Running
      BY DEF ChildIsolated
    <2>1. Running \in Live(stack)
      BY LastProgOK DEF SInv
    <2>2. Running <= bss_count
      BY <2>1 DEF SInv, Stacked, Ids, Live
    <2>3. /\ From(signal_list[s], Live(stack))
          /\ From(prev_handlers[s], {p \in Live(stack) : p <= sigprocmask_count})
      BY DEF SInv, Isolated
    <2> QED
      BY <2>1, <2>2, <2>3 DEF From, Initialised
  <1> QED
    BY <1>1, SignalState, PTL

-----------------------------------------------------------------------------
(***************************************************************************)
(* Plain programs: one at a time, and sigprocmask() is called from main()  *)
(* only, so that its frame is the second one.                              *)
(***************************************************************************)
Shape(st) ==
  /\ st \in Seq(Frame)
  /\ st # <<>> => st[1].kind = "prog"
  /\ \A i \in 1 .. Len(st) : st[i].kind = "prog" => i = 1
  /\ \A i \in 1 .. Len(st) : st[i].kind = "sigprocmask" => i = 2

InCall(st) == Len(st) >= 2 /\ st[2].kind = "sigprocmask"

(* The signals the mask names: those the loop has passed are as it decided. *)
Named(st, m) ==
  {s \in Sig : IF InCall(st) /\ s < st[2].signo THEN s \in st[2].new_mask
               ELSE s \in m}

(* The loop has computed what was asked for, for the signals it has passed. *)
Computed(st, m) ==
  InCall(st) =>
    st[2].new_mask = {s \in Sig : s < st[2].signo /\ s \in Requested(st[2], m)}

(***************************************************************************)
(* In the middle of the loop too, a handler is kept for the signals the    *)
(* mask names, these are diverted, and no other is recorded.               *)
(***************************************************************************)
Kept ==
  /\ \A s \in Sig : prev_handlers[s] # SIG_ERR <=>
                      s \in Named(stack, current_mask) /\ s # SIGKILL
  /\ \A s \in Sig : prev_handlers[s] # SIG_ERR => signal_list[s] = sig_suspender
  /\ \A s \in pending : prev_handlers[s] # SIG_ERR
  /\ stack[Len(stack)].kind = "sigaction" =>
       prev_handlers[stack[Len(stack)].sig] = SIG_ERR
  /\ Computed(stack, current_mask)

PInv ==
  Plain =>
    /\ Shape(stack)
    /\ InCall(stack) => Initialised
    /\ stack # <<>> /\ Initialised => Kept

(* The stacks t and st have the same call of sigprocmask() in progress. *)
Same(t, st) ==
  /\ Shape(t) /\ t # <<>>
  /\ InCall(t) <=> InCall(st)
  /\ InCall(st) => t[2] = st[2]

LEMMA PlainHabits ==
  ASSUME Plain
  PROVE  /\ "child" \notin practice /\ "child_in_call" \notin practice
         /\ "jump" \notin practice /\ "mask_in_handler" \notin practice
         /\ "signal_blocked" \notin practice
  BY DEF Plain

LEMMA SameCall ==
  ASSUME NEW t, NEW st, Same(t, st), NEW m
  PROVE  Named(t, m) = Named(st, m) /\ (Computed(st, m) => Computed(t, m))
  <1>1. (InCall(t) <=> InCall(st)) /\ (InCall(st) => t[2] = st[2])
    BY DEF Same
  <1>2. CASE InCall(st)
    <2>1. InCall(t) /\ t[2] = st[2]
      BY <1>1, <1>2
    <2> QED
      BY <1>2, <2>1 DEF Named, Computed
  <1>3. CASE ~InCall(st)
    <2>1. ~InCall(t)
      BY <1>1, <1>3
    <2> QED
      BY <1>3, <2>1 DEF Named, Computed
  <1> QED
    BY <1>2, <1>3

LEMMA PushSame ==
  ASSUME NEW st, Shape(st), st # <<>>, NEW f \in Frame,
         f.kind # "prog", f.kind # "sigprocmask", NEW t, t = Append(st, f)
  PROVE  Same(t, st) /\ t[Len(t)] = f
  <1>1. /\ st \in Seq(Frame) /\ Len(st) \in Nat /\ Len(st) >= 1
    BY EmptySeq DEF Shape
  <1>2. /\ t \in Seq(Frame) /\ t # <<>> /\ Len(t) = Len(st) + 1
        /\ t[Len(st) + 1] = f /\ \A i \in 1 .. Len(st) : t[i] = st[i]
    BY <1>1, PushFields
  <1>3. \A i \in 1 .. Len(t) : i \in 1 .. Len(st) \/ i = Len(st) + 1
    BY <1>1, <1>2
  <1>4. t[1] = st[1]
    BY <1>1, <1>2
  <1>5. Shape(t)
    <2>1. \A i \in 1 .. Len(t) : t[i].kind = "prog" => i = 1
      BY <1>2, <1>3 DEF Shape
    <2>2. \A i \in 1 .. Len(t) : t[i].kind = "sigprocmask" => i = 2
      BY <1>2, <1>3 DEF Shape
    <2> QED
      BY <1>2, <1>4, <2>1, <2>2 DEF Shape
  <1>6. CASE Len(st) >= 2
    <2>1. t[2] = st[2] /\ Len(t) >= 2
      BY <1>1, <1>2, <1>6
    <2> QED
      BY <1>2, <1>5, <1>6, <2>1 DEF Same, InCall
  <1>7. CASE Len(st) = 1
    <2>1. t[2] = f /\ ~InCall(st) /\ ~InCall(t)
      BY <1>2, <1>7 DEF InCall
    <2> QED
      BY <1>2, <1>5, <2>1 DEF Same
  <1>8. Len(st) >= 2 \/ Len(st) = 1
    <2>1. PICK n \in Nat : n = Len(st) /\ n >= 1
      BY <1>1
    <2>2. n >= 2 \/ n = 1
      BY <2>1
    <2> QED
      BY <2>1, <2>2
  <1> QED
    BY <1>6, <1>7, <1>8

LEMMA PopSame ==
  ASSUME SInv, Shape(stack), stack # <<>>, Top.kind # "prog", Top.kind # "sigprocmask",
         Top.kind # "exception", NEW t, t = Front(stack)
  PROVE  Same(t, stack) /\ t[Len(t)].kind # "sigaction"
  <1>1. /\ Len(stack) \in Nat /\ Len(stack) >= 1 /\ Len(stack) \in 1 .. Len(stack)
        /\ Top = stack[Len(stack)] /\ stack \in Seq(Frame)
    BY TopFrame
  <1>2. PICK n \in Nat : n = Len(stack) - 1
    BY <1>1
  <1>3. Len(stack) >= 2
    BY <1>1 DEF Shape
  <1>4. n \in 0 .. Len(stack) /\ n >= 1 /\ Len(stack) = n + 1 /\ t = SubSeq(stack, 1, n)
    BY <1>1, <1>2, <1>3 DEF Front
  <1>5. /\ t \in Seq(Frame) /\ Len(t) = n /\ \A i \in 1 .. n : t[i] = stack[i]
    BY <1>1, <1>4, PrefixFields
  <1>6. t # <<>> /\ t[1] = stack[1] /\ \A i \in 1 .. n : i \in 1 .. Len(stack)
    BY <1>4, <1>5
  <1>7. Shape(t)
    BY <1>5, <1>6 DEF Shape
  <1>8. t[Len(t)].kind # "sigaction"
    <2>1. n \in 1 .. Len(stack) /\ n + 1 \in 1 .. Len(stack) /\ stack[n + 1] = Top
      BY <1>1, <1>4
    <2>2. stack[n].kind # "sigaction"
      BY <2>1 DEF SInv, Stacked, Frames
    <2> QED
      BY <1>4, <1>5, <2>2
  <1>9. CASE n >= 2
    <2>1. t[2] = stack[2]
      BY <1>5, <1>9
    <2> QED
      BY <1>3, <1>5, <1>6, <1>7, <1>8, <1>9, <2>1 DEF Same, InCall
  <1>10. CASE n = 1
    <2>1. ~InCall(t) /\ ~InCall(stack)
      BY <1>1, <1>4, <1>5, <1>10 DEF InCall
    <2> QED
      BY <1>6, <1>7, <1>8, <2>1 DEF Same
  <1> QED
    BY <1>4, <1>9, <1>10

(* The only program ends. *)
LEMMA EndEmpty ==
  ASSUME SInv, Shape(stack), stack # <<>>, EndProgram
  PROVE  stack' = <<>>
  <1>1. LastProg = 1
    BY LastProgOK DEF SInv, Shape
  <1>2. stack' = SubSeq(stack, 1, 0)
    BY <1>1 DEF EndProgram
  <1>3. stack \in Seq(Frame) /\ 0 \in 0 .. Len(stack)
    BY TopFrame
  <1>4. stack' \in Seq(Frame) /\ Len(stack') = 0
    BY <1>2, <1>3, PrefixFields
  <1> QED
    BY <1>4, EmptySeq

LEMMA EmptyKeeps ==
  ASSUME stack' = <<>>
  PROVE  PInv'
  <1>1. Len(stack') = 0 /\ stack' \in Seq(Frame)
    BY EmptySeq
  <1>2. Shape(stack') /\ ~InCall(stack')
    BY <1>1 DEF Shape, InCall
  <1> QED
    BY <1>2 DEF PInv

(* raise() from a stack that does not end in sigaction(). *)
LEMMA RaisedSame ==
  ASSUME SInv, Shape(stack), stack # <<>>,
         NEW s \in Sig, NEW list, NEW pend,
         NEW st, Shape(st), st # <<>>, st[Len(st)].kind # "sigaction",
         Raised(s, list, pend, st)
  PROVE  stack' = <<>> \/ (Same(stack', st) /\ stack'[Len(stack')].kind # "sigaction")
  <1>1. CASE stack' = st
    BY <1>1 DEF Same
  <1>2. CASE EndProgram
    BY <1>2, EndEmpty
  <1>3. CASE list[s] \in Handler /\ stack' = Append(st, [kind |-> "handler", sig |-> s, fn |-> list[s]])
    <2>1. PICK f \in Frame : /\ f = [kind |-> "handler", sig |-> s, fn |-> list[s]]
                             /\ f.kind = "handler"
      BY <1>3 DEF Frame
    <2>2. Same(stack', st) /\ stack'[Len(stack')] = f
      BY <1>3, <2>1, PushSame
    <2> QED
      BY <2>1, <2>2
  <1> QED
    BY <1>1, <1>2, <1>3 DEF Raised

LEMMA RaisedPending ==
  ASSUME NEW s, NEW list, NEW pend, NEW st, Raised(s, list, pend, st)
  PROVE  \A r \in pending' : r \in pend \/ (r = s /\ list[s] = sig_suspender)
  BY DEF Raised

(* Steps outside the loop: the sets of sigprocmask() stay as they are. *)
LEMMA QuietPlain ==
  ASSUME SInv, PInv, Plain, practice' = practice, Same(stack', stack), stack # <<>>,
         prev_handlers' = prev_handlers, current_mask' = current_mask,
         sigprocmask_count' = sigprocmask_count, bss_count' = bss_count,
         Initialised =>
           /\ \A r \in Sig : prev_handlers[r] # SIG_ERR => signal_list'[r] = sig_suspender
           /\ stack'[Len(stack')].kind = "sigaction" =>
                prev_handlers[stack'[Len(stack')].sig] = SIG_ERR,
         \A r \in pending' : r \in pending \/ (r \in Sig /\ signal_list[r] = sig_suspender)
  PROVE  PInv'
  <1>1. Shape(stack') /\ (InCall(stack') => InCall(stack))
    BY DEF Same
  <1>2. Initialised' <=> Initialised
    BY DEF Initialised
  <1>3. InCall(stack') => Initialised'
    BY <1>1, <1>2 DEF PInv
  <1>4. ASSUME Initialised PROVE Kept'
    <2>1. Kept
      BY <1>4 DEF PInv
    <2>2. /\ Named(stack', current_mask') = Named(stack, current_mask)
          /\ Computed(stack', current_mask')
      BY <2>1, SameCall DEF Kept
    <2>3. \A r \in pending' : prev_handlers'[r] # SIG_ERR
      <3>1. \A r \in Sig : signal_list[r] = sig_suspender => prev_handlers[r] # SIG_ERR
        BY PlainHabits DEF SInv, Diverted
      <3> QED
        BY <2>1, <3>1 DEF Kept
    <2>4. \A r \in Sig : prev_handlers'[r] # SIG_ERR <=>
                           r \in Named(stack', current_mask') /\ r # SIGKILL
      BY <2>1, <2>2 DEF Kept
    <2>5. \A r \in Sig : prev_handlers'[r] # SIG_ERR => signal_list'[r] = sig_suspender
      BY <1>4
    <2>6. stack'[Len(stack')].kind = "sigaction" =>
            prev_handlers'[stack'[Len(stack')].sig] = SIG_ERR
      BY <1>4
    <2> QED
      BY <2>2, <2>3, <2>4, <2>5, <2>6 DEF Kept
  <1> QED
    BY <1>1, <1>2, <1>3, <1>4 DEF PInv

LEMMA StartPlain ==
  ASSUME SInv, PInv, Plain, practice' = practice, Start
  PROVE  PInv'
  <1>1. stack = <<>>
    BY PlainHabits DEF Start
  <1>2. bss_count \in 1 .. MaxStarts + 1 /\ sigprocmask_count <= bss_count
    BY DEF SInv, Types
  <1>3. ~Initialised'
    <2>1. /\ bss_count' = bss_count + 1 /\ sigprocmask_count' = sigprocmask_count
          /\ sigprocmask_count \in Int
      BY DEF Start, mvars, SInv, Types
    <2> QED
      BY <1>2, <2>1, SignalConstantsOK DEF Initialised
  <1>4. PICK f \in Frame : f = [kind |-> "prog", id |-> bss_count + 1] /\ f.kind = "prog"
    BY <1>2, SignalConstantsOK DEF Frame, Prog, Start
  <1>5. stack' = <<f>>
    BY <1>1, <1>4 DEF Start, Push
  <1>6. stack' \in Seq(Frame) /\ Len(stack') = 1 /\ stack'[1] = f
    BY <1>5
  <1>7. Shape(stack') /\ ~InCall(stack')
    BY <1>4, <1>6 DEF Shape, InCall
  <1> QED
    BY <1>3, <1>7 DEF PInv

(* Code of a program or a handler is about to do something. *)
LEMMA CodePlain ==
  ASSUME SInv, PInv, Plain, InCode
  PROVE  /\ stack # <<>> /\ Shape(stack) /\ Same(stack, stack)
         /\ stack[Len(stack)].kind # "sigaction"
  BY TopFrame DEF PInv, InCode, IsCode, Same

LEMMA SignalPlain ==
  ASSUME SInv, PInv, Plain, practice' = practice, NEW s \in Sig, NEW h, signal(s, h)
  PROVE  PInv'
  <1>1. /\ InCode /\ signal_list[s] # sig_suspender
        /\ signal_list' = [signal_list EXCEPT ![s] = h] /\ stack' = stack
        /\ pending' = pending /\ bss_count' = bss_count
    BY PlainHabits DEF signal
  <1>2. /\ prev_handlers' = prev_handlers /\ current_mask' = current_mask
        /\ sigprocmask_count' = sigprocmask_count
    BY DEF signal, mvars
  <1>3. ASSUME Initialised
        PROVE  \A r \in Sig : prev_handlers[r] # SIG_ERR => signal_list'[r] = sig_suspender
    <2>1. \A r \in Sig : prev_handlers[r] # SIG_ERR => signal_list[r] = sig_suspender
      BY <1>1, <1>3 DEF PInv, Kept, InCode
    <2>2. \A r \in Sig : r # s => signal_list'[r] = signal_list[r]
      BY <1>1 DEF SInv, Types
    <2> QED
      BY <1>1, <2>1, <2>2
  <1>4. /\ stack # <<>> /\ Same(stack', stack) /\ stack'[Len(stack')].kind # "sigaction"
    BY <1>1, CodePlain
  <1> QED
    BY <1>1, <1>2, <1>3, <1>4, QuietPlain

LEMMA SigactionPlain ==
  ASSUME SInv, PInv, Plain, practice' = practice,
         NEW s \in Sig, NEW h \in Installed, sigaction(s, h)
  PROVE  PInv'
  <1>1. /\ InCode /\ signal_list[s] # sig_suspender
        /\ signal_list' = [signal_list EXCEPT ![s] = SIG_IGN]
        /\ pending' = pending /\ bss_count' = bss_count
    BY PlainHabits DEF sigaction
  <1>2. /\ prev_handlers' = prev_handlers /\ current_mask' = current_mask
        /\ sigprocmask_count' = sigprocmask_count
    BY DEF sigaction, mvars
  <1>3. PICK f \in Frame : /\ f = [kind |-> "sigaction", sig |-> s,
                                   old |-> signal_list[s], act |-> h]
                           /\ f.kind = "sigaction" /\ f.sig = s
    <2>1. signal_list[s] \in Installed
      BY DEF SInv, Types
    <2>0. s \in Sig \ {SIGKILL}
      BY DEF sigaction
    <2>2. \A x, y \in Installed : \A z \in Sig \ {SIGKILL} :
            [kind |-> "sigaction", sig |-> z, old |-> x, act |-> y] \in Frame
      BY DEF Frame
    <2>3. [kind |-> "sigaction", sig |-> s, old |-> signal_list[s], act |-> h] \in Frame
      BY <2>0, <2>1, <2>2
    <2> QED
      BY <2>3
  <1>4. stack' = Append(stack, f)
    BY <1>3 DEF sigaction, Push
  <1>5. /\ stack # <<>> /\ Shape(stack)
    BY <1>1, CodePlain
  <1>6. Same(stack', stack) /\ stack'[Len(stack')] = f
    BY <1>3, <1>4, <1>5, PushSame
  <1>7. ASSUME Initialised
        PROVE  /\ \A r \in Sig : prev_handlers[r] # SIG_ERR => signal_list'[r] = sig_suspender
               /\ prev_handlers[s] = SIG_ERR
    <2>1. \A r \in Sig : prev_handlers[r] # SIG_ERR => signal_list[r] = sig_suspender
      BY <1>5, <1>7 DEF PInv, Kept
    <2>2. \A r \in Sig : r # s => signal_list'[r] = signal_list[r]
      BY <1>1 DEF SInv, Types
    <2> QED
      BY <1>1, <2>1, <2>2
  <1> QED
    BY <1>1, <1>2, <1>3, <1>5, <1>6, <1>7, QuietPlain

LEMMA SigactionReturnPlain ==
  ASSUME SInv, PInv, Plain, practice' = practice, SigactionReturn
  PROVE  PInv'
  <1>1. /\ stack # <<>> /\ Top.kind = "sigaction" /\ stack' = Front(stack)
        /\ pending' = pending /\ bss_count' = bss_count
    BY DEF SigactionReturn
  <1>2. /\ prev_handlers' = prev_handlers /\ current_mask' = current_mask
        /\ sigprocmask_count' = sigprocmask_count
    BY DEF SigactionReturn, mvars
  <1>3. Shape(stack)
    BY DEF PInv
  <1>4. Same(stack', stack) /\ stack'[Len(stack')].kind # "sigaction"
    BY <1>1, <1>3, PopSame
  <1>5. ASSUME Initialised
        PROVE  \A r \in Sig : prev_handlers[r] # SIG_ERR => signal_list'[r] = sig_suspender
    <2>1. \A r \in Sig : prev_handlers[r] # SIG_ERR => signal_list[r] = sig_suspender
      BY <1>1, <1>5 DEF PInv, Kept
    <2>2. prev_handlers[Top.sig] = SIG_ERR
      BY <1>1, <1>5 DEF PInv, Kept, Top
    <2>3. \A r \in Sig : r # Top.sig => signal_list'[r] = signal_list[r]
      BY DEF SInv, Types, SigactionReturn
    <2> QED
      BY <2>1, <2>2, <2>3
  <1> QED
    BY <1>1, <1>2, <1>4, <1>5, QuietPlain

LEMMA RaisePlain ==
  ASSUME SInv, PInv, Plain, practice' = practice, NEW s \in Sig, raise(s)
  PROVE  PInv'
  <1>1. /\ InCode /\ Raised(s, signal_list, pending, stack)
        /\ signal_list' = signal_list /\ bss_count' = bss_count
    BY DEF raise
  <1>2. /\ prev_handlers' = prev_handlers /\ current_mask' = current_mask
        /\ sigprocmask_count' = sigprocmask_count
    BY DEF raise, mvars
  <1>3. stack # <<>> /\ Shape(stack) /\ stack[Len(stack)].kind # "sigaction"
    BY <1>1, CodePlain
  <1>4. stack' = <<>> \/ (Same(stack', stack) /\ stack'[Len(stack')].kind # "sigaction")
    BY <1>1, <1>3, RaisedSame
  <1>5. \A r \in pending' : r \in pending \/ (r \in Sig /\ signal_list[r] = sig_suspender)
    BY <1>1, RaisedPending
  <1>6. Initialised =>
          \A r \in Sig : prev_handlers[r] # SIG_ERR => signal_list'[r] = sig_suspender
    BY <1>1, <1>3 DEF PInv, Kept
  <1> QED
    BY <1>1, <1>2, <1>3, <1>4, <1>5, <1>6, QuietPlain, EmptyKeeps

LEMMA InterruptPlain ==
  ASSUME SInv, PInv, Plain, practice' = practice, NEW s \in Sig, Interrupt(s)
  PROVE  PInv'
  <1>1. PICK st : st = Append(stack, [kind |-> "exception", sig |-> s])
    OBVIOUS
  <1>2. /\ stack # <<>> /\ Raised(s, signal_list, pending, st)
        /\ signal_list' = signal_list /\ bss_count' = bss_count
    BY <1>1 DEF Interrupt
  <1>3. /\ prev_handlers' = prev_handlers /\ current_mask' = current_mask
        /\ sigprocmask_count' = sigprocmask_count
    BY DEF Interrupt, mvars
  <1>4. PICK f \in Frame : f = [kind |-> "exception", sig |-> s] /\ f.kind = "exception"
    <2>1. [kind |-> "exception", sig |-> s] \in Frame
      BY DEF Frame
    <2> QED
      BY <2>1
  <1>5. Shape(stack)
    BY DEF PInv
  <1>6. Same(st, stack) /\ st[Len(st)] = f
    BY <1>1, <1>2, <1>4, <1>5, PushSame
  <1>7. Shape(st) /\ st # <<>> /\ st[Len(st)].kind # "sigaction"
    BY <1>4, <1>6 DEF Same
  <1>8. stack' = <<>> \/ (Same(stack', st) /\ stack'[Len(stack')].kind # "sigaction")
    BY <1>2, <1>5, <1>7, RaisedSame
  <1>9. Same(stack', st) => Same(stack', stack)
    BY <1>6 DEF Same
  <1>10. \A r \in pending' : r \in pending \/ (r \in Sig /\ signal_list[r] = sig_suspender)
    BY <1>2, RaisedPending
  <1>11. Initialised =>
           \A r \in Sig : prev_handlers[r] # SIG_ERR => signal_list'[r] = sig_suspender
    BY <1>2 DEF PInv, Kept
  <1> QED
    BY <1>2, <1>3, <1>8, <1>9, <1>10, <1>11, QuietPlain, EmptyKeeps

LEMMA HandlerReturnPlain ==
  ASSUME SInv, PInv, Plain, practice' = practice, HandlerReturn
  PROVE  PInv'
  <1>1. /\ stack # <<>> /\ Top.kind = "handler" /\ stack' = Front(stack)
        /\ pending' = pending /\ bss_count' = bss_count /\ signal_list' = signal_list
    BY DEF HandlerReturn
  <1>2. /\ prev_handlers' = prev_handlers /\ current_mask' = current_mask
        /\ sigprocmask_count' = sigprocmask_count
    BY DEF HandlerReturn, mvars
  <1>3. Shape(stack)
    BY DEF PInv
  <1>4. Same(stack', stack) /\ stack'[Len(stack')].kind # "sigaction"
    BY <1>1, <1>3, PopSame
  <1>5. Initialised =>
          \A r \in Sig : prev_handlers[r] # SIG_ERR => signal_list'[r] = sig_suspender
    BY <1>1 DEF PInv, Kept
  <1> QED
    BY <1>1, <1>2, <1>4, <1>5, QuietPlain

(* The call of sigprocmask(), from main(). *)
LEMMA SigprocmaskPlain ==
  ASSUME SInv, PInv, Plain, practice' = practice,
         NEW how \in How, NEW set \in SUBSET Sig, sigprocmask(how, set)
  PROVE  PInv'
  <1>1. InCode /\ Top.kind = "prog"
    BY PlainHabits DEF sigprocmask, InCode, IsCode
  <1>2. /\ stack # <<>> /\ Shape(stack) /\ stack \in Seq(Frame)
        /\ Len(stack) \in 1 .. Len(stack) /\ Top = stack[Len(stack)]
    BY <1>1, CodePlain, TopFrame
  <1>3. Len(stack) = 1
    BY <1>1, <1>2 DEF Shape
  <1>4. PICK f \in Frame : /\ f = [kind |-> "sigprocmask", how |-> how, set |-> set,
                                   new_mask |-> {}, signo |-> 1]
                           /\ f.kind = "sigprocmask" /\ f.new_mask = {} /\ f.signo = 1
    <2>1. {} \in SUBSET Sig /\ 1 \in Sig \cup {NSig + 1}
      BY SignalConstantsOK DEF Sig
    <2>2. [kind |-> "sigprocmask", how |-> how, set |-> set,
           new_mask |-> {}, signo |-> 1] \in Frame
      BY <2>1 DEF Frame
    <2> QED
      BY <2>2
  <1>5. stack' = Append(stack, f)
    BY <1>4 DEF sigprocmask
  <1>6. /\ stack' \in Seq(Frame) /\ Len(stack') = 2 /\ stack' # <<>>
        /\ stack'[2] = f /\ stack'[1] = stack[1]
    <2>1. /\ stack' \in Seq(Frame) /\ Len(stack') = Len(stack) + 1 /\ stack' # <<>>
          /\ stack'[Len(stack) + 1] = f /\ \A i \in 1 .. Len(stack) : stack'[i] = stack[i]
      BY <1>2, <1>5, PushFields
    <2> QED
      BY <1>3, <2>1
  <1>7. Shape(stack') /\ InCall(stack')
    <2>1. \A i \in 1 .. Len(stack') : i = 1 \/ i = 2
      BY <1>6
    <2>2. stack'[1].kind = "prog"
      BY <1>2, <1>6 DEF Shape
    <2> QED
      BY <1>4, <1>6, <2>1, <2>2 DEF Shape, InCall
  <1>8. ~InCall(stack)
    BY <1>3 DEF InCall
  <1>9. Initialised'
    BY DEF sigprocmask, Initialised, mvars
  <1>10. \A r \in Sig : ~(r < stack'[2].signo)
    BY <1>4, <1>6 DEF Sig
  <1>11. \A r \in Sig : r \in Named(stack', current_mask') <=> r \in current_mask'
    BY <1>10 DEF Named
  <1>12. Computed(stack', current_mask')
    BY <1>4, <1>6, <1>10 DEF Computed
  <1>13. /\ \A r \in Sig : prev_handlers'[r] # SIG_ERR <=>
                             r \in current_mask' /\ r # SIGKILL
         /\ \A r \in Sig : prev_handlers'[r] # SIG_ERR => signal_list'[r] = sig_suspender
         /\ \A r \in pending' : prev_handlers'[r] # SIG_ERR
    <2>1. CASE Initialised
      <3>1. /\ prev_handlers' = prev_handlers /\ current_mask' = current_mask
            /\ pending' = pending /\ signal_list' = signal_list
        BY <2>1 DEF sigprocmask, Initialised, mvars
      <3>2. Kept
        BY <1>2, <2>1 DEF PInv
      <3>3. \A r \in Sig : r \in Named(stack, current_mask) <=> r \in current_mask
        BY <1>8 DEF Named
      <3> QED
        BY <3>1, <3>2, <3>3 DEF Kept
    <2>2. CASE ~Initialised
      <3>1. /\ prev_handlers' = [r \in Sig |-> SIG_ERR] /\ current_mask' = {}
            /\ pending' = {}
        BY <2>2 DEF sigprocmask, Initialised
      <3> QED
        BY <3>1
    <2> QED
      BY <2>1, <2>2
  <1>14. stack'[Len(stack')].kind # "sigaction"
    BY <1>4, <1>6
  <1>15. Kept'
    BY <1>11, <1>12, <1>13, <1>14 DEF Kept
  <1> QED
    BY <1>7, <1>9, <1>15 DEF PInv

(* In the loop: what is known, and the stack after an iteration. *)
LEMMA LoopPlain ==
  ASSUME SInv, PInv, Plain, stack # <<>>, Top.kind = "sigprocmask"
  PROVE  /\ Len(stack) = 2 /\ stack[2] = Top /\ stack[1].kind = "prog"
         /\ Shape(stack) /\ InCall(stack) /\ Initialised /\ Kept
         /\ Top \in Frame
  <1>1. Shape(stack) /\ Len(stack) \in 1 .. Len(stack) /\ Top = stack[Len(stack)]
        /\ Top \in Frame
    BY TopFrame DEF PInv
  <1>2. Len(stack) = 2 /\ stack[1].kind = "prog"
    BY <1>1 DEF Shape
  <1>3. InCall(stack)
    BY <1>1, <1>2 DEF InCall
  <1> QED
    BY <1>1, <1>2, <1>3 DEF PInv

LEMMA AdvancedPlain ==
  ASSUME SInv, PInv, Plain, InLoop, NEW b \in BOOLEAN, NEW t, t = Advanced(b)
  PROVE  /\ Shape(t) /\ t # <<>> /\ InCall(t) /\ Len(t) = 2
         /\ t[2].kind = "sigprocmask" /\ t[2].how = Top.how /\ t[2].set = Top.set
         /\ t[2].signo = Top.signo + 1
         /\ t[2].new_mask = IF b THEN Top.new_mask \cup {Top.signo} ELSE Top.new_mask
  <1>1. Stacked
    BY DEF SInv
  <1>2. /\ Len(stack) = 2 /\ stack[1].kind = "prog"
    BY LoopPlain DEF InLoop
  <1>3. /\ t \in Seq(Frame) /\ Len(t) = 2 /\ t[2] = Iterated(b)
        /\ t[1] = stack[1]
    <2>1. /\ t \in Seq(Frame) /\ Len(t) = Len(stack) /\ t[Len(stack)] = Iterated(b)
          /\ \A i \in 1 .. Len(stack) - 1 : t[i] = stack[i]
      BY <1>1, AdvancedFields
    <2> QED
      BY <1>2, <2>1
  <1>4. PICK g : g = Iterated(b)
    OBVIOUS
  <1>5. /\ g.kind = "sigprocmask" /\ g.how = Top.how /\ g.set = Top.set
        /\ g.signo = Top.signo + 1
        /\ g.new_mask = IF b THEN Top.new_mask \cup {Top.signo} ELSE Top.new_mask
    BY <1>1, <1>4, IteratedFields
  <1>6. \A i \in 1 .. Len(t) : i = 1 \/ i = 2
    BY <1>3
  <1>7. t # <<>>
    BY <1>3, EmptySeq
  <1>8. Shape(t) /\ InCall(t)
    BY <1>2, <1>3, <1>4, <1>5, <1>6, <1>7 DEF Shape, InCall
  <1> QED
    BY <1>3, <1>4, <1>5, <1>7, <1>8

(* The iteration decides about its signal, and about no other. *)
LEMMA AdvancedNamed ==
  ASSUME SInv, PInv, Plain, InLoop, NEW b \in BOOLEAN, NEW t, t = Advanced(b),
         NEW r \in Sig
  PROVE  IF r = Top.signo THEN r \in Named(t, current_mask) <=> b
         ELSE r \in Named(t, current_mask) <=> r \in Named(stack, current_mask)
  <1>1. /\ InCall(t) /\ t[2].signo = Top.signo + 1
        /\ t[2].new_mask = IF b THEN Top.new_mask \cup {Top.signo} ELSE Top.new_mask
    BY AdvancedPlain
  <1>2. /\ stack[2] = Top /\ InCall(stack) /\ Computed(stack, current_mask)
    BY LoopPlain DEF InLoop, Kept
  <1>3. PICK k \in Sig : k = Top.signo
    BY DEF InLoop
  <1>4. k \notin Top.new_mask
    BY <1>2, <1>3 DEF Computed, Sig
  <1>5. k \in Nat /\ r \in Nat
    BY <1>3 DEF Sig
  <1>6. r \in Named(t, current_mask) <=>
          IF r < k + 1 THEN r \in t[2].new_mask ELSE r \in current_mask
    BY <1>1, <1>3 DEF Named
  <1>7. r \in Named(stack, current_mask) <=>
          IF r < k THEN r \in Top.new_mask ELSE r \in current_mask
    BY <1>2, <1>3 DEF Named
  <1>8. CASE r = k
    <2>1. r < k + 1
      BY <1>5, <1>8
    <2>2. r \in t[2].new_mask <=> b
      BY <1>1, <1>3, <1>4, <1>8
    <2> QED
      BY <1>3, <1>6, <1>8, <2>1, <2>2
  <1>9. CASE r # k
    <2>1. r < k + 1 <=> r < k
      BY <1>5, <1>9
    <2>2. r \in t[2].new_mask <=> r \in Top.new_mask
      BY <1>1, <1>3, <1>9
    <2> QED
      BY <1>3, <1>6, <1>7, <1>9, <2>1, <2>2
  <1> QED
    BY <1>8, <1>9

LEMMA AdvancedComputed ==
  ASSUME SInv, PInv, Plain, InLoop, NEW b \in BOOLEAN, NEW t, t = Advanced(b),
         Top.signo \in Requested(Top, current_mask) <=> b
  PROVE  Computed(t, current_mask)
  <1>1. /\ InCall(t) /\ t[2].how = Top.how /\ t[2].set = Top.set
        /\ t[2].signo = Top.signo + 1
        /\ t[2].new_mask = IF b THEN Top.new_mask \cup {Top.signo} ELSE Top.new_mask
    BY AdvancedPlain
  <1>2. /\ stack[2] = Top /\ InCall(stack) /\ Computed(stack, current_mask)
    BY LoopPlain DEF InLoop, Kept
  <1>3. PICK k \in Sig : k = Top.signo
    BY DEF InLoop
  <1>4. PICK R : R = Requested(Top, current_mask)
    OBVIOUS
  <1>5. Requested(t[2], current_mask) = R
    BY <1>1, <1>4 DEF Requested
  <1>6. Top.new_mask = {s \in Sig : s < k /\ s \in R}
    BY <1>2, <1>3, <1>4 DEF Computed
  <1>7. k \in R <=> b
    BY <1>3, <1>4
  <1>8. \A s \in Sig : s < k + 1 <=> s < k \/ s = k
    BY <1>3 DEF Sig
  <1>9. CASE b
    <2>1. t[2].new_mask = Top.new_mask \cup {k}
      BY <1>1, <1>3, <1>9
    <2>2. Top.new_mask \cup {k} = {s \in Sig : s < k + 1 /\ s \in R}
      BY <1>3, <1>6, <1>7, <1>8, <1>9
    <2> QED
      BY <1>1, <1>3, <1>5, <2>1, <2>2 DEF Computed
  <1>10. CASE ~b
    <2>1. t[2].new_mask = Top.new_mask
      BY <1>1, <1>10
    <2>2. Top.new_mask = {s \in Sig : s < k + 1 /\ s \in R}
      BY <1>6, <1>7, <1>8, <1>10
    <2> QED
      BY <1>1, <1>3, <1>5, <2>1, <2>2 DEF Computed
  <1> QED
    BY <1>9, <1>10

(* One iteration of the loop, with what raise() does in the middle of it. *)
LEMMA IterationPlain ==
  ASSUME SInv, PInv, Plain, practice' = practice, InLoop,
         NEW b \in BOOLEAN, NEW t, t = Advanced(b),
         Top.signo \in Requested(Top, current_mask) <=> b,
         Same(stack', t), stack'[Len(stack')].kind # "sigaction",
         current_mask' = current_mask,
         sigprocmask_count' = sigprocmask_count, bss_count' = bss_count,
         \A r \in Sig : prev_handlers'[r] # SIG_ERR <=>
                          IF r = Top.signo THEN b /\ r # SIGKILL
                          ELSE prev_handlers[r] # SIG_ERR,
         \A r \in Sig : prev_handlers'[r] # SIG_ERR => signal_list'[r] = sig_suspender,
         \A r \in pending' : prev_handlers'[r] # SIG_ERR
  PROVE  PInv'
  <1>1. Initialised /\ Kept
    BY LoopPlain DEF InLoop
  <1>2. Initialised'
    BY <1>1 DEF Initialised
  <1>3. Computed(t, current_mask)
    BY AdvancedComputed
  <1>4. /\ Named(stack', current_mask') = Named(t, current_mask)
        /\ Computed(stack', current_mask')
    BY <1>3, SameCall
  <1>5. \A r \in Sig : prev_handlers'[r] # SIG_ERR <=>
                         r \in Named(stack', current_mask') /\ r # SIGKILL
    <2> SUFFICES ASSUME NEW r \in Sig
                 PROVE  prev_handlers'[r] # SIG_ERR <=>
                          r \in Named(t, current_mask) /\ r # SIGKILL
      BY <1>4
    <2>1. CASE r = Top.signo
      <3>1. r \in Named(t, current_mask) <=> b
        BY <2>1, AdvancedNamed
      <3>2. prev_handlers'[r] # SIG_ERR <=> b /\ r # SIGKILL
        BY <2>1
      <3> QED
        BY <3>1, <3>2
    <2>2. CASE r # Top.signo
      <3>1. r \in Named(t, current_mask) <=> r \in Named(stack, current_mask)
        BY <2>2, AdvancedNamed
      <3>2. prev_handlers'[r] # SIG_ERR <=> prev_handlers[r] # SIG_ERR
        BY <2>2
      <3>3. prev_handlers[r] # SIG_ERR <=> r \in Named(stack, current_mask) /\ r # SIGKILL
        BY <1>1 DEF Kept
      <3> QED
        BY <3>1, <3>2, <3>3
    <2> QED
      BY <2>1, <2>2
  <1>6. Kept'
    BY <1>4, <1>5 DEF Kept
  <1>7. Shape(stack')
    BY DEF Same
  <1> QED
    BY <1>2, <1>6, <1>7 DEF PInv

(* A handler is kept for the signal of the iteration when the mask names it. *)
LEMMA SigNamed ==
  ASSUME SInv, PInv, Plain, InLoop
  PROVE  prev_handlers[Top.signo] # SIG_ERR <=>
           Top.signo \in current_mask /\ Top.signo # SIGKILL
  <1>1. /\ stack[2] = Top /\ Kept
    BY LoopPlain DEF InLoop
  <1>2. Top.signo \in Sig /\ ~(Top.signo < Top.signo)
    BY DEF InLoop, Sig
  <1>3. Top.signo \in Named(stack, current_mask) <=> Top.signo \in current_mask
    BY <1>1, <1>2 DEF Named
  <1> QED
    BY <1>1, <1>2, <1>3 DEF Kept

LEMMA AdvancedTop ==
  ASSUME SInv, PInv, Plain, InLoop, NEW b \in BOOLEAN, NEW t, t = Advanced(b)
  PROVE  Same(t, t) /\ t[Len(t)].kind # "sigaction"
  BY AdvancedPlain DEF Same

LEMMA LoopKeepPlain ==
  ASSUME SInv, PInv, Plain, practice' = practice, LoopKeep
  PROVE  PInv'
  <1>1. /\ InLoop /\ signal_list' = signal_list /\ pending' = pending
        /\ bss_count' = bss_count
        /\ stack' = Advanced(Top.signo \in current_mask)
    BY DEF LoopKeep
  <1>2. /\ prev_handlers' = prev_handlers /\ current_mask' = current_mask
        /\ sigprocmask_count' = sigprocmask_count
    BY DEF LoopKeep, mvars
  <1>3. Top.how \in How /\ Kept
    BY <1>1, LoopPlain, FrameFields DEF InLoop
  <1>4. /\ \A r \in Sig : prev_handlers'[r] # SIG_ERR => signal_list'[r] = sig_suspender
        /\ \A r \in pending' : prev_handlers'[r] # SIG_ERR
    BY <1>1, <1>2, <1>3 DEF Kept
  <1>5. CASE Top.signo \in current_mask
    <2>1. stack' = Advanced(TRUE)
      BY <1>1, <1>5 DEF Advanced, Iterated
    <2>2. Top.signo \in Requested(Top, current_mask)
      BY <1>3, <1>5 DEF LoopKeep, Leaving, Requested, How
    <2>3. Same(stack', stack') /\ stack'[Len(stack')].kind # "sigaction"
      BY <1>1, <2>1, AdvancedTop
    <2>4. \A r \in Sig : prev_handlers'[r] # SIG_ERR <=>
                           IF r = Top.signo THEN TRUE /\ r # SIGKILL
                           ELSE prev_handlers[r] # SIG_ERR
      BY <1>1, <1>2, <1>5, SigNamed
    <2> QED
      BY <1>1, <1>2, <1>4, <2>1, <2>2, <2>3, <2>4, IterationPlain
  <1>6. CASE Top.signo \notin current_mask
    <2>1. stack' = Advanced(FALSE)
      BY <1>1, <1>6 DEF Advanced, Iterated
    <2>2. Top.signo \notin Requested(Top, current_mask)
      BY <1>3, <1>6 DEF LoopKeep, Leaving, Requested, How
    <2>3. Same(stack', stack') /\ stack'[Len(stack')].kind # "sigaction"
      BY <1>1, <2>1, AdvancedTop
    <2>4. \A r \in Sig : prev_handlers'[r] # SIG_ERR <=>
                           IF r = Top.signo THEN FALSE /\ r # SIGKILL
                           ELSE prev_handlers[r] # SIG_ERR
      BY <1>1, <1>2, <1>6, SigNamed
    <2> QED
      BY <1>1, <1>2, <1>4, <2>1, <2>2, <2>3, <2>4, IterationPlain
  <1> QED
    BY <1>5, <1>6

LEMMA LoopBlockPlain ==
  ASSUME SInv, PInv, Plain, practice' = practice, LoopBlock
  PROVE  PInv'
  <1>1. /\ InLoop /\ stack' = Advanced(TRUE) /\ Top.signo \notin current_mask
        /\ current_mask' = current_mask /\ sigprocmask_count' = sigprocmask_count
        /\ pending' = pending /\ bss_count' = bss_count
    BY DEF LoopBlock
  <1>2. Top.how \in How /\ Kept
    BY <1>1, LoopPlain, FrameFields DEF InLoop
  <1>3. PICK k \in Sig : k = Top.signo
    BY <1>1 DEF InLoop
  <1>4. Top.signo \in Requested(Top, current_mask)
    BY <1>2 DEF LoopBlock, Requested, How
  <1>5. Same(stack', stack') /\ stack'[Len(stack')].kind # "sigaction"
    BY <1>1, AdvancedTop
  <1>6. prev_handlers[k] = SIG_ERR
    BY <1>1, <1>3, SigNamed
  <1>7. /\ signal_list \in [Sig -> Installed]
        /\ prev_handlers \in [Sig -> Installed \cup {SIG_ERR}]
    BY DEF SInv, Types
  <1>8. /\ \A r \in Sig : prev_handlers'[r] # SIG_ERR <=>
                            IF r = Top.signo THEN TRUE /\ r # SIGKILL
                            ELSE prev_handlers[r] # SIG_ERR
        /\ \A r \in Sig : prev_handlers'[r] # SIG_ERR => signal_list'[r] = sig_suspender
        /\ \A r \in Sig : prev_handlers[r] # SIG_ERR => prev_handlers'[r] # SIG_ERR
    <2>1. CASE k = SIGKILL
      <3>1. prev_handlers' = prev_handlers /\ signal_list' = signal_list
        BY <1>3, <2>1 DEF LoopBlock
      <3> QED
        BY <1>2, <1>3, <1>6, <2>1, <3>1 DEF Kept
    <2>2. CASE k # SIGKILL
      <3>1. /\ prev_handlers' = [prev_handlers EXCEPT ![k] = signal_list[k]]
            /\ signal_list' = [signal_list EXCEPT ![k] = sig_suspender]
        BY <1>3, <1>6, <2>2 DEF LoopBlock
      <3>2. signal_list[k] # SIG_ERR
        BY <1>7, NotHandlers
      <3>3. /\ prev_handlers'[k] = signal_list[k] /\ signal_list'[k] = sig_suspender
            /\ \A r \in Sig : r # k => /\ prev_handlers'[r] = prev_handlers[r]
                                       /\ signal_list'[r] = signal_list[r]
        BY <1>7, <3>1
      <3>4. \A r \in Sig : prev_handlers[r] # SIG_ERR => signal_list[r] = sig_suspender
        BY <1>2 DEF Kept
      <3> QED
        BY <1>3, <1>6, <2>2, <3>2, <3>3, <3>4
    <2> QED
      BY <2>1, <2>2
  <1>9. \A r \in pending' : prev_handlers'[r] # SIG_ERR
    <2>1. \A r \in pending : r \in Sig /\ prev_handlers[r] # SIG_ERR
      BY <1>2 DEF Kept, SInv, Types
    <2> QED
      BY <1>1, <1>8, <2>1
  <1> QED
    BY <1>1, <1>4, <1>5, <1>8, <1>9, IterationPlain

LEMMA LoopUnblockPlain ==
  ASSUME SInv, PInv, Plain, practice' = practice, LoopUnblock
  PROVE  PInv'
  <1>1. /\ InLoop /\ Top.signo \in current_mask /\ Leaving(Top)
        /\ current_mask' = current_mask /\ sigprocmask_count' = sigprocmask_count
        /\ bss_count' = bss_count /\ signal_list' = Restored
    BY DEF LoopUnblock, UnblockWith
  <1>2. Top.how \in How /\ Kept /\ Shape(stack) /\ stack # <<>>
    BY <1>1, LoopPlain, FrameFields DEF InLoop
  <1>3. PICK k \in Sig : k = Top.signo
    BY <1>1 DEF InLoop
  <1>4. Top.signo \notin Requested(Top, current_mask)
    BY <1>1, <1>2 DEF Leaving, Requested, How
  <1>5. PICK t : t = Advanced(FALSE)
    OBVIOUS
  <1>6. Same(t, t) /\ t[Len(t)].kind # "sigaction"
    BY <1>1, <1>5, AdvancedTop
  <1>7. /\ signal_list \in [Sig -> Installed]
        /\ prev_handlers \in [Sig -> Installed \cup {SIG_ERR}]
    BY DEF SInv, Types
  <1>8. /\ prev_handlers'[k] = SIG_ERR
        /\ \A r \in Sig : r # k => prev_handlers'[r] = prev_handlers[r]
    <2>1. prev_handlers' = [prev_handlers EXCEPT ![k] = SIG_ERR]
      BY <1>3 DEF LoopUnblock, UnblockWith
    <2> QED
      BY <1>7, <2>1
  <1>9. \A r \in Sig : r # k => Restored[r] = signal_list[r]
    BY <1>3, <1>7 DEF Restored
  <1>10. Restored[k] # sig_suspender
    <2>1. /\ \A r \in Sig : prev_handlers[r] # sig_suspender
          /\ signal_list[k] = sig_suspender => prev_handlers[k] # SIG_ERR
      BY PlainHabits DEF SInv, Diverted
    <2>2. CASE prev_handlers[k] # SIG_ERR
      <3>1. Restored[k] = prev_handlers[k]
        BY <1>3, <1>7, <2>2 DEF Restored
      <3> QED
        BY <2>1, <3>1
    <2>3. CASE prev_handlers[k] = SIG_ERR
      <3>1. Restored[k] = signal_list[k]
        BY <1>3, <2>3 DEF Restored
      <3> QED
        BY <2>1, <2>3, <3>1
    <2> QED
      BY <2>2, <2>3
  <1>11. /\ \A r \in Sig : prev_handlers'[r] # SIG_ERR <=>
                             IF r = Top.signo THEN FALSE /\ r # SIGKILL
                             ELSE prev_handlers[r] # SIG_ERR
         /\ \A r \in Sig : prev_handlers'[r] # SIG_ERR => signal_list'[r] = sig_suspender
    BY <1>1, <1>2, <1>3, <1>8, <1>9 DEF Kept
  <1>12. \A r \in pending : r \in Sig /\ prev_handlers[r] # SIG_ERR
    BY <1>2 DEF Kept, SInv, Types
  <1>13. CASE k \in pending
    <2>1. Raised(k, Restored, pending \ {k}, t)
      BY <1>3, <1>5, <1>13 DEF LoopUnblock, UnblockWith
    <2>2. Shape(t) /\ t # <<>>
      BY <1>6 DEF Same
    <2>3. stack' = <<>> \/ (Same(stack', t) /\ stack'[Len(stack')].kind # "sigaction")
      BY <1>2, <1>6, <2>1, <2>2, RaisedSame
    <2>4. \A r \in pending' : r \in pending \ {k} \/ (r = k /\ Restored[k] = sig_suspender)
      BY <2>1, RaisedPending
    <2>5. \A r \in pending' : prev_handlers'[r] # SIG_ERR
      BY <1>8, <1>10, <1>12, <2>4
    <2>6. CASE stack' = <<>>
      BY <2>6, EmptyKeeps
    <2>7. CASE Same(stack', t) /\ stack'[Len(stack')].kind # "sigaction"
      BY <1>1, <1>4, <1>5, <1>11, <2>5, <2>7, IterationPlain
    <2> QED
      BY <2>3, <2>6, <2>7
  <1>14. CASE k \notin pending
    <2>1. stack' = t /\ pending' = pending
      BY <1>3, <1>5, <1>14 DEF LoopUnblock, UnblockWith
    <2>2. \A r \in pending' : prev_handlers'[r] # SIG_ERR
      BY <1>8, <1>12, <1>14, <2>1
    <2>3. Same(stack', t) /\ stack'[Len(stack')].kind # "sigaction"
      BY <1>6, <2>1
    <2> QED
      BY <1>1, <1>4, <1>5, <1>11, <2>2, <2>3, IterationPlain
  <1> QED
    BY <1>13, <1>14

(* The loop has passed every signal: its mask is the one asked for. *)
LEMMA LoopDone ==
  ASSUME SInv, PInv, Plain, stack # <<>>, Top.kind = "sigprocmask", Top.signo = NSig + 1
  PROVE  /\ Top.new_mask = Requested(Top, current_mask)
         /\ \A r \in Sig : r \in Named(stack, current_mask) <=> r \in Top.new_mask
  <1>1. /\ stack[2] = Top /\ InCall(stack) /\ Kept /\ Top \in Frame
    BY LoopPlain
  <1>2. \A r \in Sig : r < Top.signo
    BY SignalConstantsOK DEF Sig
  <1>3. Top.how \in How /\ Top.set \in SUBSET Sig /\ current_mask \in SUBSET Sig
    BY <1>1, FrameFields DEF SInv, Types
  <1>4. Requested(Top, current_mask) \in SUBSET Sig
    BY <1>3 DEF Requested, How
  <1>5. Top.new_mask = {r \in Sig : r < Top.signo /\ r \in Requested(Top, current_mask)}
    BY <1>1 DEF Kept, Computed
  <1>6. Top.new_mask = Requested(Top, current_mask)
    BY <1>2, <1>4, <1>5
  <1>7. \A r \in Sig : r \in Named(stack, current_mask) <=> r \in Top.new_mask
    BY <1>1, <1>2 DEF Named
  <1> QED
    BY <1>6, <1>7

LEMMA SigprocmaskReturnPlain ==
  ASSUME SInv, PInv, Plain, practice' = practice, SigprocmaskReturn
  PROVE  PInv'
  <1>1. /\ stack # <<>> /\ Top.kind = "sigprocmask" /\ Top.signo = NSig + 1
        /\ current_mask' = Top.new_mask /\ stack' = Front(stack)
        /\ signal_list' = signal_list /\ prev_handlers' = prev_handlers
        /\ sigprocmask_count' = sigprocmask_count /\ pending' = pending
        /\ bss_count' = bss_count
    BY DEF SigprocmaskReturn
  <1>2. /\ Len(stack) = 2 /\ stack[1].kind = "prog" /\ Kept /\ Initialised
        /\ stack \in Seq(Frame)
    BY <1>1, LoopPlain, TopFrame
  <1>3. stack' = SubSeq(stack, 1, 1)
    BY <1>1, <1>2 DEF Front
  <1>4. stack' \in Seq(Frame) /\ Len(stack') = 1 /\ stack'[1] = stack[1]
    <2>1. 1 \in 0 .. Len(stack)
      BY <1>2
    <2> QED
      BY <1>2, <1>3, <2>1, PrefixFields
  <1>5. Shape(stack') /\ ~InCall(stack') /\ stack'[Len(stack')].kind # "sigaction"
    BY <1>2, <1>4 DEF Shape, InCall
  <1>6. \A r \in Sig : r \in Named(stack', current_mask') <=> r \in Top.new_mask
    BY <1>1, <1>5 DEF Named
  <1>7. \A r \in Sig : r \in Named(stack, current_mask) <=> r \in Top.new_mask
    BY <1>1, LoopDone
  <1>8. Computed(stack', current_mask')
    BY <1>5 DEF Computed
  <1>9. Kept'
    BY <1>1, <1>2, <1>5, <1>6, <1>7, <1>8 DEF Kept
  <1>10. Initialised'
    BY <1>1, <1>2 DEF Initialised
  <1> QED
    BY <1>5, <1>9, <1>10 DEF PInv

-----------------------------------------------------------------------------
LEMMA PlainInit ==
  ASSUME Init
  PROVE  PInv
  <1>1. stack = <<>> /\ Len(stack) = 0 /\ stack \in Seq(Frame)
    BY EmptySeq DEF Init
  <1>2. Shape(stack) /\ ~InCall(stack)
    BY <1>1 DEF Shape, InCall
  <1> QED
    BY <1>1, <1>2 DEF PInv

(* The practice never changes, and the program's end empties the stack. *)
LEMMA EndsPlain ==
  ASSUME SInv, PInv, Plain, exit \/ ExceptionReturn
  PROVE  PInv'
  <1>1. stack # <<>> /\ EndProgram
    BY DEF exit, ExceptionReturn, InCode
  <1>2. Shape(stack)
    BY DEF PInv
  <1> QED
    BY <1>1, <1>2, EndEmpty, EmptyKeeps

LEMMA NextPlain ==
  ASSUME SInv, PInv, [Next]_vars
  PROVE  PInv'
  <1>1. CASE UNCHANGED vars
    <2>1. Plain' <=> Plain
      BY <1>1 DEF vars, Plain
    <2>2. Initialised' <=> Initialised
      BY <1>1 DEF vars, Initialised
    <2>3. Kept' <=> Kept
      BY <1>1 DEF vars, Kept
    <2> QED
      BY <1>1, <2>1, <2>2, <2>3 DEF PInv, vars
  <1>2. ASSUME Next PROVE PInv'
    <2>1. Step /\ practice' = practice
      BY <1>2 DEF Next
    <2>2. SUFFICES ASSUME Plain PROVE PInv'
      BY <2>1 DEF PInv, Plain
    <2>3. CASE Start
      BY <2>1, <2>2, <2>3, StartPlain
    <2>4. CASE exit
      BY <2>2, <2>4, EndsPlain
    <2>5. CASE SigactionReturn
      BY <2>1, <2>2, <2>5, SigactionReturnPlain
    <2>6. CASE HandlerReturn
      BY <2>1, <2>2, <2>6, HandlerReturnPlain
    <2>7. CASE HandlerJump
      BY <2>2, <2>7, PlainHabits DEF HandlerJump
    <2>8. CASE ExceptionReturn
      BY <2>2, <2>8, EndsPlain
    <2>9. CASE Loop
      BY <2>1, <2>2, <2>9, LoopKeepPlain, LoopBlockPlain, LoopUnblockPlain,
         SigprocmaskReturnPlain DEF Loop
    <2>10. ASSUME NEW s \in Sig, raise(s) PROVE PInv'
      BY <2>1, <2>2, <2>10, RaisePlain
    <2>11. ASSUME NEW s \in Sig, Interrupt(s) PROVE PInv'
      BY <2>1, <2>2, <2>11, InterruptPlain
    <2>12. ASSUME NEW s \in Sig, NEW h, signal(s, h) PROVE PInv'
      BY <2>1, <2>2, <2>12, SignalPlain
    <2>13. ASSUME NEW s \in Sig, InCode,
                  NEW h \in Disposition(Running) \cup {signal_list[s]}, sigaction(s, h)
           PROVE  PInv'
      <3>1. stack # <<>>
        BY <2>13 DEF InCode
      <3>2. h \in Installed
        BY <2>13, <3>1, OwnHandler DEF SInv, Types
      <3> QED
        BY <2>1, <2>2, <2>13, <3>2, SigactionPlain
    <2>14. ASSUME NEW how \in How, NEW set \in SUBSET Sig, sigprocmask(how, set)
           PROVE  PInv'
      BY <2>1, <2>2, <2>14, SigprocmaskPlain
    <2> QED
      BY <2>1, <2>3, <2>4, <2>5, <2>6, <2>7, <2>8, <2>9, <2>10, <2>11,
         <2>12, <2>13, <2>14 DEF Step
  <1> QED
    BY <1>1, <1>2

(* In a plain program the loop of sigprocmask() keeps the handlers, the    *)
(* diverted signals and the recorded ones in step with the mask, through   *)
(* every handler and interrupt that comes in the middle of it.             *)
THEOREM MaskState == Spec => []PInv
  <1>1. SInv /\ PInv /\ [Next]_vars => PInv'
    BY NextPlain
  <1> QED
    BY PlainInit, SignalState, <1>1, PTL DEF Spec

(* Between calls the mask sigprocmask() reports names exactly the signals  *)
(* that are diverted, and what was unblocked has been raised.              *)
THEOREM MaskIsExact == Spec => []MaskExact
  <1>1. SInv /\ PInv => MaskExact
    <2> SUFFICES ASSUME SInv, PInv, Plain, stack # <<>>, Initialised, NoCall
                 PROVE  /\ current_mask \ {SIGKILL} = Blocked
                        /\ \A s \in Sig : signal_list[s] = sig_suspender <=> s \in Blocked
                        /\ pending \subseteq Blocked
      BY DEF MaskExact
    <2>1. Kept
      BY DEF PInv
    <2>2. ~InCall(stack)
      <3>1. DOMAIN stack = 1 .. Len(stack) /\ Len(stack) \in Nat
        BY TopFrame
      <3> QED
        BY <3>1 DEF NoCall, InCall
    <2>3. \A s \in Sig : s \in Named(stack, current_mask) <=> s \in current_mask
      BY <2>2 DEF Named
    <2>4. \A s \in Sig : s \in Blocked <=> prev_handlers[s] # SIG_ERR
      BY DEF Blocked
    <2>5. Blocked \subseteq Sig /\ current_mask \subseteq Sig /\ pending \subseteq Sig
      BY DEF Blocked, SInv, Types
    <2>6. \A s \in Sig : signal_list[s] = sig_suspender => prev_handlers[s] # SIG_ERR
      BY PlainHabits DEF SInv, Diverted
    <2>7. current_mask \ {SIGKILL} = Blocked
      BY <2>1, <2>3, <2>4, <2>5 DEF Kept
    <2>8. \A s \in Sig : signal_list[s] = sig_suspender <=> s \in Blocked
      BY <2>1, <2>4, <2>6 DEF Kept
    <2>9. pending \subseteq Blocked
      BY <2>1, <2>4, <2>5 DEF Kept
    <2> QED
      BY <2>7, <2>8, <2>9
  <1> QED
    BY <1>1, SignalState, MaskState, PTL

(* Only the end of the call takes its frame from the stack. *)
LEMMA CallReturns ==
  ASSUME SInv, PInv, Plain, Next, stack # <<>>, Top.kind = "sigprocmask",
         stack' = Front(stack)
  PROVE  SigprocmaskReturn
  <1>1. /\ Len(stack) = 2 /\ Shape(stack) /\ stack \in Seq(Frame)
    BY LoopPlain, TopFrame
  <1>2. Len(stack') = 1
    <2>1. stack' = SubSeq(stack, 1, 1) /\ 1 \in 0 .. Len(stack)
      BY <1>1 DEF Front
    <2> QED
      BY <1>1, <2>1, PrefixFields
  <1>3. ~EndProgram
    <2>1. SUFFICES ASSUME EndProgram PROVE FALSE
      OBVIOUS
    <2>2. stack' = <<>>
      BY <1>1, <2>1, EndEmpty
    <2>3. Len(stack') = 0
      BY <2>2, EmptySeq
    <2> QED
      BY <1>2, <2>3
  <1>4. \A b \in BOOLEAN : InLoop => Len(Advanced(b)) = 2 /\ Advanced(b) \in Seq(Frame)
    BY AdvancedPlain DEF Shape
  <1>5. \A f : \A st \in Seq(Frame) : Len(Append(st, f)) = Len(st) + 1 /\ Len(st) \in Nat
    OBVIOUS
  <1>6. ~InCode
    BY DEF InCode, IsCode
  <1>7. ~LoopKeep
    <2>1. SUFFICES ASSUME LoopKeep PROVE FALSE
      OBVIOUS
    <2>2. InLoop /\ stack' = Advanced(Top.signo \in current_mask)
      BY <2>1 DEF LoopKeep
    <2>3. stack' = Advanced(TRUE) \/ stack' = Advanced(FALSE)
      BY <2>2 DEF Advanced, Iterated
    <2>4. Len(Advanced(TRUE)) = 2 /\ Len(Advanced(FALSE)) = 2
      BY <1>4, <2>2
    <2>5. Len(stack') = 2
      BY <2>3, <2>4
    <2> QED
      BY <1>2, <2>5
  <1>8. ~LoopBlock
    <2>1. SUFFICES ASSUME LoopBlock PROVE FALSE
      OBVIOUS
    <2>2. InLoop /\ stack' = Advanced(TRUE)
      BY <2>1 DEF LoopBlock
    <2>3. Len(stack') = 2
      BY <1>4, <2>2
    <2> QED
      BY <1>2, <2>3
  <1>9. ~LoopUnblock
    <2>1. SUFFICES ASSUME LoopUnblock PROVE FALSE
      OBVIOUS
    <2>2. PICK t : t = Advanced(FALSE)
      OBVIOUS
    <2>3. Len(t) = 2 /\ t \in Seq(Frame)
      BY <1>4, <2>1, <2>2 DEF LoopUnblock
    <2>4. \/ stack' = t \/ EndProgram
          \/ \E f : stack' = Append(t, f)
      BY <2>1, <2>2 DEF LoopUnblock, UnblockWith, Raised
    <2>5. ASSUME NEW f PROVE Len(Append(t, f)) = 3
      <3>1. Len(Append(t, f)) = Len(t) + 1
        BY <1>5, <2>3, Zenon
      <3> QED
        BY <2>3, <3>1
    <2>6. Len(stack') = 2 \/ Len(stack') = 3
      <3>1. CASE stack' = t
        BY <2>3, <3>1
      <3>2. ASSUME NEW f, stack' = Append(t, f) PROVE Len(stack') = 3
        BY <2>5, <3>2
      <3> QED
        BY <1>3, <2>4, <3>1, <3>2
    <2> QED
      BY <1>2, <2>6
  <1>10. \A s \in Sig : ~Interrupt(s)
    <2>1. SUFFICES ASSUME NEW s \in Sig, Interrupt(s) PROVE FALSE
      OBVIOUS
    <2>2. PICK t : t = Append(stack, [kind |-> "exception", sig |-> s])
      OBVIOUS
    <2>3. [kind |-> "exception", sig |-> s] \in Frame
      BY DEF Frame
    <2>4. t \in Seq(Frame) /\ Len(t) = 3
      <3>1. PICK g \in Frame : g = [kind |-> "exception", sig |-> s]
        BY <2>3
      <3>2. t = Append(stack, g)
        BY <2>2, <3>1
      <3>3. t \in Seq(Frame) /\ Len(t) = Len(stack) + 1
        BY <1>1, <3>2, PushFields
      <3> QED
        BY <1>1, <3>3
    <2>5. \/ stack' = t \/ EndProgram
          \/ \E f : stack' = Append(t, f)
      BY <2>1, <2>2 DEF Interrupt, Raised
    <2>6. ASSUME NEW f PROVE Len(Append(t, f)) = 4
      <3>1. Len(Append(t, f)) = Len(t) + 1
        BY <1>5, <2>4, Zenon
      <3> QED
        BY <2>4, <3>1
    <2>7. Len(stack') = 3 \/ Len(stack') = 4
      <3>1. CASE stack' = t
        BY <2>4, <3>1
      <3>2. ASSUME NEW f, stack' = Append(t, f) PROVE Len(stack') = 4
        BY <2>6, <3>2
      <3> QED
        BY <1>3, <2>5, <3>1, <3>2
    <2> QED
      BY <1>2, <2>7
  <1>11. ~Start
    BY PlainHabits DEF Start
  <1>12. /\ ~exit /\ ~SigactionReturn /\ ~HandlerReturn /\ ~HandlerJump /\ ~ExceptionReturn
         /\ \A s \in Sig : ~raise(s)
         /\ \A how \in How, set \in SUBSET Sig : ~sigprocmask(how, set)
    BY <1>6 DEF exit, SigactionReturn, HandlerReturn, HandlerJump, ExceptionReturn, raise,
       sigprocmask
  <1> QED
    BY <1>6, <1>7, <1>8, <1>9, <1>10, <1>11, <1>12 DEF Next, Step, Loop

(* A call of sigprocmask() makes of the mask what it was asked to, however *)
(* many handlers and interrupts come in the middle of its loop.            *)
THEOREM MaskComputed == Spec => CallComputes
  <1> DEFINE A == \A f \in {stack[i] : i \in DOMAIN stack} :
                    /\ Plain /\ stack' = Front(stack) /\ f = Top
                    /\ f.kind = "sigprocmask"
                    => current_mask' = Requested(f, current_mask)
  <1>1. SInv /\ PInv /\ [Next]_vars => [A]_vars
    <2> SUFFICES ASSUME SInv, PInv, Next, NEW f \in {stack[i] : i \in DOMAIN stack},
                        Plain, stack' = Front(stack), f = Top, f.kind = "sigprocmask"
                 PROVE  current_mask' = Requested(f, current_mask)
      OBVIOUS
    <2>1. stack # <<>>
      <3>1. DOMAIN stack # {}
        OBVIOUS
      <3> QED
        BY <3>1
    <2>2. SigprocmaskReturn
      BY <2>1, CallReturns
    <2> QED
      BY <2>1, <2>2, LoopDone DEF SigprocmaskReturn
  <1> QED
    BY <1>1, SignalState, MaskState, PTL DEF Spec, CallComputes

-----------------------------------------------------------------------------
(***************************************************************************)
(* The signals implement SignalMask.  First the sequence of handler        *)
(* activations: a set of naturals with 0 and the successors of its         *)
(* elements up to n has them all, which is induction enough.               *)
(***************************************************************************)
LEMMA UpTo ==
  ASSUME NEW n \in Nat, NEW T, 0 \in T, \A k \in 1 .. n : k - 1 \in T => k \in T
  PROVE  \A k \in 0 .. n : k \in T
  <1> SUFFICES ASSUME (0 .. n) \ T # {} PROVE FALSE
    OBVIOUS
  <1> DEFINE R == OpToRel(<, Nat)
             M == (0 .. n) \ T
  <1>1. IsWellFoundedOn(R, Nat)
    BY NatLessThanWellFounded
  <1>2. \A x, y \in Nat : y < x => <<y, x>> \in R
    BY DEF OpToRel
  <1>3. M # {} /\ M \subseteq Nat
    OBVIOUS
  <1> HIDE DEF R, M
  <1>4. PICK x \in M : \A y \in M : ~ (<<y, x>> \in R)
    BY <1>1, <1>3, WFMin
  <1>5. x \in 1 .. n /\ x - 1 \in 0 .. n /\ x - 1 < x /\ x - 1 \in Nat /\ x \in Nat
    BY <1>4 DEF M
  <1>6. x - 1 \notin M
    BY <1>2, <1>4, <1>5, Zenon
  <1> QED
    BY <1>4, <1>5, <1>6 DEF M

(* The function that CallsOf defines. *)
Collected(st, before, i) ==
  IF st[i].kind = "handler" THEN Append(before, <<st[i].sig, st[i].fn>>) ELSE before

CallsAre(g, st, n) ==
  g = [i \in 0 .. n |-> IF i = 0 THEN <<>> ELSE Collected(st, g[i - 1], i)]

LEMMA CallsExist ==
  ASSUME NEW st, NEW n \in Nat
  PROVE  \E g : CallsAre(g, st, n)
  <1> DEFINE T == {k \in Nat : \E g : CallsAre(g, st, k)}
  <1>1. 0 \in T
    <2> DEFINE g == [k \in 0 .. 0 |-> <<>>]
    <2>1. CallsAre(g, st, 0)
      BY DEF CallsAre
    <2> QED
      BY <2>1
  <1>2. ASSUME NEW k \in 1 .. n, k - 1 \in T PROVE k \in T
    <2>1. PICK g : CallsAre(g, st, k - 1)
      BY <1>2
    <2> DEFINE h == [j \in 0 .. k |-> IF j = k THEN Collected(st, g[k - 1], k) ELSE g[j]]
    <2>2. (\A j \in 0 .. k - 1 : h[j] = g[j]) /\ h[k] = Collected(st, g[k - 1], k)
      OBVIOUS
    <2>3. \A j \in 0 .. k - 1 : g[j] = IF j = 0 THEN <<>> ELSE Collected(st, g[j - 1], j)
      BY <2>1 DEF CallsAre
    <2>4. h = [j \in 0 .. k |-> h[j]]
      OBVIOUS
    <2> HIDE DEF h
    <2>5. ASSUME NEW j \in 0 .. k
          PROVE  h[j] = IF j = 0 THEN <<>> ELSE Collected(st, h[j - 1], j)
      <3>1. CASE j = k
        <4>1. j # 0 /\ h[k - 1] = g[k - 1]
          BY <2>2, <3>1
        <4> QED
          BY <2>2, <3>1, <4>1
      <3>2. CASE j # k
        <4>1. j \in 0 .. k - 1 /\ h[j] = g[j] /\ (j # 0 => h[j - 1] = g[j - 1])
          BY <2>2, <3>2
        <4> QED
          BY <2>3, <4>1
      <3> QED
        BY <3>1, <3>2
    <2>6. CallsAre(h, st, k)
      BY <2>4, <2>5 DEF CallsAre
    <2> QED
      BY <2>6
  <1>3. \A k \in 0 .. n : k \in T
    <2> HIDE DEF T
    <2>1. \A k \in 1 .. n : k - 1 \in T => k \in T
      BY <1>2
    <2> QED
      BY <1>1, <2>1, UpTo
  <1> QED
    BY <1>3

LEMMA CallsValue ==
  ASSUME NEW st \in Seq(Frame)
  PROVE  \E g : /\ CallsOf(st) = g[Len(st)]
                /\ \A i \in 0 .. Len(st) :
                     g[i] = IF i = 0 THEN <<>> ELSE Collected(st, g[i - 1], i)
  <1> DEFINE g == CHOOSE h : CallsAre(h, st, Len(st))
  <1>0. Len(st) \in Nat
    OBVIOUS
  <1>1. CallsAre(g, st, Len(st))
    BY <1>0, CallsExist
  <1>2. CallsOf(st) = g[Len(st)]
    BY DEF CallsOf, CallsAre, Collected
  <1> HIDE DEF g
  <1>3. \A i \in 0 .. Len(st) : g[i] = IF i = 0 THEN <<>> ELSE Collected(st, g[i - 1], i)
    BY <1>1 DEF CallsAre
  <1> QED
    BY <1>2, <1>3

Activation == Sig \X Handler

LEMMA CallsEmpty == CallsOf(<<>>) = <<>>
  <1>0. <<>> \in Seq(Frame) /\ Len(<<>>) = 0
    OBVIOUS
  <1>1. PICK g : /\ CallsOf(<<>>) = g[Len(<<>>)]
                 /\ \A i \in 0 .. Len(<<>>) :
                      g[i] = IF i = 0 THEN <<>> ELSE Collected(<<>>, g[i - 1], i)
    BY <1>0, CallsValue
  <1> QED
    BY <1>0, <1>1

LEMMA CallsTyped ==
  ASSUME NEW st \in Seq(Frame)
  PROVE  CallsOf(st) \in Seq(Activation)
  <1>1. PICK g : /\ CallsOf(st) = g[Len(st)]
                 /\ \A i \in 0 .. Len(st) :
                      g[i] = IF i = 0 THEN <<>> ELSE Collected(st, g[i - 1], i)
    BY CallsValue
  <1>2. Len(st) \in Nat
    OBVIOUS
  <1> DEFINE T == {k \in Nat : g[k] \in Seq(Activation)}
  <1>3. 0 \in T
    <2>1. 0 \in 0 .. Len(st) /\ <<>> \in Seq(Activation)
      BY <1>2
    <2> QED
      BY <1>1, <2>1
  <1>4. ASSUME NEW k \in 1 .. Len(st), k - 1 \in T PROVE k \in T
    <2>1. k \in 0 .. Len(st) /\ k # 0 /\ k \in Nat
      BY <1>2
    <2>2. g[k] = Collected(st, g[k - 1], k)
      BY <1>1, <2>1
    <2>3. st[k] \in Frame
      BY ElementOfSeq
    <2>4. st[k].kind = "handler" => <<st[k].sig, st[k].fn>> \in Activation
      BY <2>3, FrameFields DEF Activation
    <2>5. g[k - 1] \in Seq(Activation)
      BY <1>4
    <2>6. Collected(st, g[k - 1], k) \in Seq(Activation)
      <3>1. CASE st[k].kind = "handler"
        <4>1. PICK a \in Activation : a = <<st[k].sig, st[k].fn>>
          BY <2>4, <3>1
        <4>2. Append(g[k - 1], a) \in Seq(Activation)
          BY <2>5
        <4> QED
          BY <3>1, <4>1, <4>2 DEF Collected
      <3>2. CASE st[k].kind # "handler"
        BY <2>5, <3>2 DEF Collected
      <3> QED
        BY <3>1, <3>2
    <2> QED
      BY <2>1, <2>2, <2>6
  <1>5. \A k \in 0 .. Len(st) : k \in T
    <2> HIDE DEF T
    <2>1. \A k \in 1 .. Len(st) : k - 1 \in T => k \in T
      BY <1>4
    <2> QED
      BY <1>2, <1>3, <2>1, UpTo
  <1>6. Len(st) \in 0 .. Len(st)
    BY <1>2
  <1>7. Len(st) \in T
    <2> HIDE DEF T
    <2> QED
      BY <1>5, <1>6
  <1> QED
    BY <1>1, <1>7

(* A frame on top: a handler is one more activation, all others are none. *)
LEMMA CallsGrow ==
  ASSUME NEW st \in Seq(Frame), NEW f \in Frame
  PROVE  CallsOf(Append(st, f)) =
           IF f.kind = "handler" THEN Append(CallsOf(st), <<f.sig, f.fn>>) ELSE CallsOf(st)
  <1>1. PICK t \in Seq(Frame) : t = Append(st, f)
    BY PushFields
  <1>2. PICK n \in Nat : n = Len(st)
    OBVIOUS
  <1>3. Len(t) = n + 1 /\ t[n + 1] = f /\ \A i \in 1 .. n : t[i] = st[i]
    BY <1>1, <1>2, PushFields
  <1>4. PICK g : /\ CallsOf(st) = g[n]
                 /\ \A i \in 0 .. n : g[i] = IF i = 0 THEN <<>> ELSE Collected(st, g[i - 1], i)
    BY <1>2, CallsValue
  <1>5. PICK h : /\ CallsOf(t) = h[n + 1]
                 /\ \A i \in 0 .. n + 1 :
                      h[i] = IF i = 0 THEN <<>> ELSE Collected(t, h[i - 1], i)
    BY <1>3, CallsValue
  <1> DEFINE T == {k \in Nat : h[k] = g[k]}
  <1>6. 0 \in T
    BY <1>4, <1>5
  <1>7. ASSUME NEW k \in 1 .. n, k - 1 \in T PROVE k \in T
    <2>1. k \in 0 .. n /\ k \in 0 .. n + 1 /\ k # 0 /\ k \in Nat
      OBVIOUS
    <2>2. h[k - 1] = g[k - 1] /\ t[k] = st[k]
      BY <1>3, <1>7
    <2>3. h[k] = Collected(t, h[k - 1], k) /\ g[k] = Collected(st, g[k - 1], k)
      BY <1>4, <1>5, <2>1
    <2>4. h[k] = g[k]
      BY <2>2, <2>3 DEF Collected
    <2> QED
      BY <2>1, <2>4
  <1>8. \A k \in 0 .. n : k \in T
    <2> HIDE DEF T
    <2>1. \A k \in 1 .. n : k - 1 \in T => k \in T
      BY <1>7
    <2> QED
      BY <1>6, <2>1, UpTo
  <1>9. h[n] = CallsOf(st)
    <2>1. n \in T
      <3> HIDE DEF T
      <3> QED
        BY <1>8
    <2> QED
      BY <1>4, <2>1
  <1>10. h[n + 1] = Collected(t, h[n], n + 1)
    <2>1. n + 1 \in 0 .. n + 1 /\ n + 1 # 0 /\ (n + 1) - 1 = n
      OBVIOUS
    <2> QED
      BY <1>5, <2>1
  <1> QED
    BY <1>1, <1>3, <1>5, <1>9, <1>10 DEF Collected

(* The frame on top is gone. *)
LEMMA CallsShrink ==
  ASSUME NEW st \in Seq(Frame), st # <<>>, NEW f, f = st[Len(st)]
  PROVE  /\ Front(st) \in Seq(Frame)
         /\ CallsOf(st) = IF f.kind = "handler" THEN Append(CallsOf(Front(st)), <<f.sig, f.fn>>)
                          ELSE CallsOf(Front(st))
  <1>1. PICK n \in Nat : n = Len(st) - 1
    BY EmptySeq
  <1>2. n \in 0 .. Len(st) /\ Len(st) = n + 1 /\ Front(st) = SubSeq(st, 1, n)
    BY <1>1 DEF Front
  <1>3. PICK t \in Seq(Frame) : t = Front(st) /\ Len(t) = n /\ \A i \in 1 .. n : t[i] = st[i]
    BY <1>2, PrefixFields
  <1>4. f \in Frame /\ f = st[n + 1]
    <2>1. Len(st) \in 1 .. Len(st)
      BY <1>2
    <2> QED
      BY <1>2, <2>1, ElementOfSeq
  <1>5. /\ Append(t, f) \in Seq(Frame) /\ Len(Append(t, f)) = n + 1
        /\ Append(t, f)[n + 1] = f /\ \A i \in 1 .. n : Append(t, f)[i] = t[i]
    BY <1>3, <1>4, PushFields
  <1>6. \A i \in 1 .. n + 1 : Append(t, f)[i] = st[i]
    <2> TAKE i \in 1 .. n + 1
    <2>1. i \in 1 .. n \/ i = n + 1
      OBVIOUS
    <2> QED
      BY <1>3, <1>4, <1>5, <2>1
  <1>7. st = Append(t, f)
    BY <1>2, <1>5, <1>6, SeqEqual
  <1> QED
    BY <1>3, <1>4, <1>7, CallsGrow

-----------------------------------------------------------------------------
(* What SignalMask sees of a plain program. *)
LEMMA MapsFrom ==
  ASSUME SInv, PInv, Plain, stack # <<>>
  PROVE  /\ Up
         /\ Mask = IF Initialised THEN {s \in Sig : prev_handlers[s] # SIG_ERR} ELSE {}
         /\ Pend = IF Initialised THEN pending ELSE {}
         /\ Pend \subseteq Mask /\ SIGKILL \notin Mask
         /\ Disp = [s \in Sig |-> IF s \in Mask THEN prev_handlers[s] ELSE signal_list[s]]
         /\ \A s \in Sig : s \in Mask <=> signal_list[s] = sig_suspender
         /\ \A s \in Sig : Disp[s] # sig_suspender
         /\ Active = CallsOf(stack) /\ stack \in Seq(Frame)
  <1>1. Up /\ Mask = Blocked /\ Active = CallsOf(stack) /\ stack \in Seq(Frame)
    BY TopFrame DEF Up, Mask, Active
  <1>2. /\ Mask = IF Initialised THEN {s \in Sig : prev_handlers[s] # SIG_ERR} ELSE {}
        /\ Pend = IF Initialised THEN pending ELSE {}
        /\ Disp = [s \in Sig |-> IF s \in Mask THEN prev_handlers[s] ELSE signal_list[s]]
    BY <1>1 DEF Blocked, Pend, Disp
  <1>3. /\ \A s \in Sig : prev_handlers[s] # sig_suspender
        /\ \A s \in Sig : signal_list[s] = sig_suspender =>
             Initialised /\ prev_handlers[s] # SIG_ERR
    BY PlainHabits DEF SInv, Diverted, Initialised
  <1>4. Initialised => /\ \A s \in Sig : prev_handlers[s] # SIG_ERR => signal_list[s] = sig_suspender
                       /\ \A s \in pending : prev_handlers[s] # SIG_ERR
                       /\ prev_handlers[SIGKILL] = SIG_ERR
    BY SignalConstantsOK DEF PInv, Kept, Sig
  <1>5. \A s \in Sig : s \in Mask <=> signal_list[s] = sig_suspender
    BY <1>2, <1>3, <1>4
  <1>6. Pend \subseteq Mask /\ SIGKILL \notin Mask
    <2>1. pending \subseteq Sig
      BY DEF SInv, Types
    <2> QED
      BY <1>2, <1>4, <2>1
  <1>7. \A s \in Sig : Disp[s] # sig_suspender
    BY <1>2, <1>3, <1>5
  <1> QED
    BY <1>1, <1>2, <1>5, <1>6, <1>7

LEMMA MapsTo ==
  ASSUME Plain, practice' = practice, stack # <<>>, stack' # <<>>,
         Initialised' <=> Initialised
  PROVE  /\ Up' = Up
         /\ Mask' = IF Initialised THEN {s \in Sig : prev_handlers'[s] # SIG_ERR} ELSE {}
         /\ Pend' = IF Initialised THEN pending' ELSE {}
         /\ Disp' = [s \in Sig |-> IF s \in Mask' THEN prev_handlers'[s] ELSE signal_list'[s]]
         /\ Active' = CallsOf(stack')
  <1>1. Plain' /\ Up' /\ Up
    BY DEF Up, Plain
  <1>2. Mask' = Blocked' /\ Active' = CallsOf(stack')
    BY <1>1 DEF Mask, Active
  <1>3. Blocked' = IF Initialised THEN {s \in Sig : prev_handlers'[s] # SIG_ERR} ELSE {}
    BY DEF Blocked
  <1>4. Pend' = IF Initialised THEN pending' ELSE {}
    BY <1>1 DEF Pend
  <1>5. Disp' = [s \in Sig |-> IF s \in Mask' THEN prev_handlers'[s] ELSE signal_list'[s]]
    BY <1>1, <1>2 DEF Disp
  <1> QED
    BY <1>1, <1>2, <1>3, <1>4, <1>5

(* The program ends. *)
LEMMA MapsEnd ==
  ASSUME Up, stack' = <<>>
  PROVE  Abs!SNext
  <1>1. ~Up'
    BY DEF Up
  <1>2. /\ Up' = FALSE /\ Disp' = [s \in Sig |-> SIG_DFL]
        /\ Mask' = {} /\ Pend' = {} /\ Active' = <<>>
    BY <1>1 DEF Disp, Mask, Pend, Active
  <1>3. Abs!Fresh(FALSE)
    BY <1>2 DEF Abs!Fresh
  <1> QED
    BY <1>3 DEF Abs!SNext

(* Nothing changes for SignalMask. *)
LEMMA MapsQuiet ==
  ASSUME Up' = Up, Disp' = Disp, Mask' = Mask, Pend' = Pend, Active' = Active
  PROVE  UNCHANGED Abs!svars
  BY DEF Abs!svars

LEMMA StartMaps ==
  ASSUME SInv, Plain, practice' = practice, Start
  PROVE  Abs!SNext
  <1>1. stack = <<>> /\ bss_count' = bss_count + 1 /\ sigprocmask_count' = sigprocmask_count
    BY PlainHabits DEF Start, mvars
  <1>2. bss_count \in Nat /\ bss_count + 1 \in Prog /\ sigprocmask_count <= bss_count
        /\ sigprocmask_count \in Int
    BY SignalConstantsOK DEF Start, SInv, Types, Prog
  <1>3. ~Initialised'
    BY <1>1, <1>2 DEF Initialised
  <1>4. PICK f \in Frame : f = [kind |-> "prog", id |-> bss_count + 1] /\ f.kind = "prog"
    <2>1. \A b \in Prog : [kind |-> "prog", id |-> b] \in Frame
      BY DEF Frame
    <2>2. [kind |-> "prog", id |-> bss_count + 1] \in Frame
      BY <1>2, <2>1
    <2> QED
      BY <2>2
  <1>5. stack' = Append(<<>>, f) /\ <<>> \in Seq(Frame)
    BY <1>1, <1>4 DEF Start, Push
  <1>6. CallsOf(stack') = <<>>
    BY <1>4, <1>5, CallsGrow, CallsEmpty
  <1>7. stack' # <<>>
    BY <1>5, PushFields
  <1>8. Up' /\ ~Up
    BY <1>1, <1>7 DEF Up, Plain
  <1>9. signal_list' = [s \in Sig |-> SIG_DFL]
    BY DEF Start, SignalSetup
  <1>10. Blocked' = {}
    BY <1>3 DEF Blocked
  <1>11. Mask' = {} /\ Pend' = {} /\ Active' = <<>> /\ Disp' = [s \in Sig |-> SIG_DFL]
    BY <1>3, <1>6, <1>8, <1>9, <1>10 DEF Mask, Pend, Active, Disp
  <1>12. Abs!Fresh(TRUE)
    <2>1. Up' = TRUE
      BY <1>8
    <2> QED
      BY <1>11, <2>1 DEF Abs!Fresh
  <1> QED
    BY <1>8, <1>12 DEF Abs!SNext

(* signal(), and the two halves of sigaction(), change one disposition. *)
LEMMA DispMaps ==
  ASSUME SInv, PInv, Plain, practice' = practice, stack # <<>>, stack' # <<>>,
         NEW s \in Sig, s # SIGKILL, s \notin Mask,
         NEW h \in Handler \cup {SIG_DFL, SIG_IGN},
         signal_list' = [signal_list EXCEPT ![s] = h],
         UNCHANGED <<mvars, pending, bss_count>>,
         CallsOf(stack') = CallsOf(stack)
  PROVE  Abs!SNext
  <1>1. /\ prev_handlers' = prev_handlers /\ pending' = pending
        /\ Initialised' <=> Initialised
    BY DEF mvars, Initialised
  <1>2. Up' = Up /\ Mask' = Mask /\ Pend' = Pend /\ Active' = Active /\ Up
    BY <1>1, MapsFrom, MapsTo
  <1>3. signal_list \in [Sig -> Installed]
    BY DEF SInv, Types
  <1>4. Disp' = [Disp EXCEPT ![s] = h]
    <2>1. Disp' = [r \in Sig |-> IF r \in Mask THEN prev_handlers[r] ELSE signal_list'[r]]
      BY <1>1, <1>2, MapsTo
    <2>2. Disp = [r \in Sig |-> IF r \in Mask THEN prev_handlers[r] ELSE signal_list[r]]
      BY MapsFrom
    <2> QED
      BY <1>3, <2>1, <2>2
  <1>5. Abs!SetDisp(s, h)
    BY <1>2, <1>4 DEF Abs!SetDisp
  <1> QED
    BY <1>5 DEF Abs!SNext

LEMMA SignalMaps ==
  ASSUME SInv, PInv, Plain, practice' = practice, NEW s \in Sig,
         NEW h \in Disposition(Running), signal(s, h)
  PROVE  Abs!SNext
  <1>1. stack # <<>> /\ s # SIGKILL /\ signal_list[s] # sig_suspender /\ stack' = stack
    BY PlainHabits DEF signal, InCode
  <1>2. s \notin Mask
    BY <1>1, MapsFrom
  <1>3. h \in Handler \cup {SIG_DFL, SIG_IGN}
    BY <1>1, OwnHandler DEF Installed
  <1> QED
    BY <1>1, <1>2, <1>3, DispMaps DEF signal

LEMMA SigactionMaps ==
  ASSUME SInv, PInv, Plain, practice' = practice, NEW s \in Sig,
         NEW h \in Disposition(Running) \cup {signal_list[s]}, sigaction(s, h)
  PROVE  Abs!SNext
  <1>1. stack # <<>> /\ s # SIGKILL /\ signal_list[s] # sig_suspender
    BY PlainHabits DEF sigaction, InCode
  <1>2. s \notin Mask /\ stack \in Seq(Frame)
    BY <1>1, MapsFrom
  <1>3. h \in Installed /\ signal_list[s] \in Installed
    BY <1>1, OwnHandler DEF SInv, Types
  <1>4. PICK f \in Frame : /\ f = [kind |-> "sigaction", sig |-> s, old |-> signal_list[s], act |-> h]
                           /\ f.kind = "sigaction"
    <2>1. s \in Sig \ {SIGKILL}
      BY <1>1
    <2>2. \A x, y \in Installed :
            [kind |-> "sigaction", sig |-> s, old |-> x, act |-> y] \in Frame
      BY <2>1 DEF Frame
    <2>3. [kind |-> "sigaction", sig |-> s, old |-> signal_list[s], act |-> h] \in Frame
      BY <1>3, <2>2
    <2> QED
      BY <2>3
  <1>5. stack' = Append(stack, f)
    BY <1>4 DEF sigaction, Push
  <1>6. stack' # <<>> /\ CallsOf(stack') = CallsOf(stack)
    BY <1>2, <1>4, <1>5, CallsGrow, PushFields
  <1> QED
    BY <1>1, <1>2, <1>6, DispMaps DEF sigaction

LEMMA SigactionReturnMaps ==
  ASSUME SInv, PInv, Plain, practice' = practice, SigactionReturn
  PROVE  Abs!SNext
  <1>1. /\ stack # <<>> /\ Top.kind = "sigaction" /\ stack' = Front(stack)
        /\ signal_list' = [signal_list EXCEPT ![Top.sig] = Top.act]
        /\ UNCHANGED <<mvars, pending, bss_count>>
    BY DEF SigactionReturn
  <1>2. PICK f \in Frame : f = Top /\ f = stack[Len(stack)] /\ stack \in Seq(Frame)
    BY <1>1, TopFrame
  <1>3. f.sig \in Sig /\ f.sig # SIGKILL /\ f.act \in Installed
    BY <1>1, <1>2, FrameFields
  <1>4. Initialised => prev_handlers[f.sig] = SIG_ERR
    BY <1>1, <1>2 DEF PInv, Kept
  <1>5. f.sig \notin Mask
    BY <1>1, <1>4, MapsFrom
  <1>6. f.act # sig_suspender
    <2>1. Installs(stack, f.act)
      BY <1>1, <1>2 DEF Installs
    <2>2. Installs(stack, sig_suspender) => Initialised /\ prev_handlers[f.sig] # SIG_ERR
      BY <1>2, PlainHabits DEF SInv, Diverted, Initialised
    <2> QED
      BY <1>4, <2>1, <2>2
  <1>7. CallsOf(stack') = CallsOf(stack)
    BY <1>1, <1>2, CallsShrink
  <1>8. stack' # <<>>
    BY <1>1, PopSame DEF PInv, Same
  <1>9. f.act \in Handler \cup {SIG_DFL, SIG_IGN}
    BY <1>3, <1>6 DEF Installed
  <1> QED
    BY <1>1, <1>2, <1>3, <1>5, <1>7, <1>8, <1>9, DispMaps

(* raise() and interrupts: st is the stack, or the stack with an exception. *)
LEMMA RaisedMaps ==
  ASSUME SInv, PInv, Plain, practice' = practice, stack # <<>>, NEW s \in Sig,
         NEW st \in Seq(Frame), st # <<>>, CallsOf(st) = CallsOf(stack),
         Raised(s, signal_list, pending, st), UNCHANGED <<signal_list, mvars, bss_count>>
  PROVE  Abs!SNext
  <1>1. /\ prev_handlers' = prev_handlers /\ signal_list' = signal_list
        /\ Initialised' <=> Initialised
    BY DEF mvars, Initialised
  <1>2. Up
    BY MapsFrom
  <1>3. ASSUME stack' # <<>>
        PROVE  /\ Up' = Up /\ Mask' = Mask /\ Disp' = Disp /\ Active' = CallsOf(stack')
               /\ Pend' = IF Initialised THEN pending' ELSE {}
               /\ pending' = pending => Pend' = Pend
    BY <1>1, <1>3, MapsFrom, MapsTo
  <1>4. s \notin Mask => Disp[s] = signal_list[s]
    BY MapsFrom
  <1>5. s \in Mask <=> signal_list[s] = sig_suspender
    BY MapsFrom
  <1>6. CASE /\ signal_list[s] = SIG_IGN \/ (s = SIGQUIT /\ signal_list[s] = SIG_DFL)
             /\ pending' = pending /\ stack' = st
    <2>1. s \notin Mask /\ Abs!Ignored(s)
      BY <1>4, <1>5, <1>6, HandlersDiffer DEF Abs!Ignored
    <2>2. Up' = Up /\ Mask' = Mask /\ Disp' = Disp /\ Active' = Active /\ Pend' = Pend
      BY <1>3, <1>6, MapsFrom
    <2>3. Abs!Raise(s)
      BY <1>2, <2>1, <2>2 DEF Abs!Raise, Abs!Deliver
    <2> QED
      BY <2>3 DEF Abs!SNext
  <1>7. CASE EndProgram
    <2>1. stack' = <<>>
      BY <1>7, EndEmpty DEF PInv
    <2> QED
      BY <1>2, <2>1, MapsEnd
  <1>8. CASE signal_list[s] = sig_suspender /\ pending' = pending \cup {s} /\ stack' = st
    <2>1. s \in Mask /\ Initialised
      BY <1>5, <1>8, MapsFrom
    <2>2. Up' = Up /\ Mask' = Mask /\ Disp' = Disp /\ Active' = Active /\ Pend' = Pend \cup {s}
      BY <1>3, <1>8, <2>1, MapsFrom
    <2>3. Abs!Raise(s)
      BY <1>2, <2>1, <2>2 DEF Abs!Raise
    <2> QED
      BY <2>3 DEF Abs!SNext
  <1>9. CASE /\ signal_list[s] \in Handler /\ pending' = pending
             /\ stack' = Append(st, [kind |-> "handler", sig |-> s, fn |-> signal_list[s]])
    <2>1. PICK f \in Frame : /\ f = [kind |-> "handler", sig |-> s, fn |-> signal_list[s]]
                             /\ f.kind = "handler" /\ f.sig = s /\ f.fn = signal_list[s]
      BY <1>9 DEF Frame
    <2>2. stack' # <<>> /\ CallsOf(stack') = Append(CallsOf(stack), <<s, signal_list[s]>>)
      BY <1>9, <2>1, CallsGrow, PushFields
    <2>3. s \notin Mask /\ Disp[s] = signal_list[s]
      BY <1>4, <1>5, <1>9, HandlersDiffer
    <2>4. /\ Up' = Up /\ Mask' = Mask /\ Disp' = Disp /\ Pend' = Pend
          /\ Active' = Append(Active, <<s, Disp[s]>>)
      BY <1>3, <1>9, <2>2, <2>3, MapsFrom
    <2>5. Abs!Raise(s)
      BY <1>2, <1>9, <2>3, <2>4 DEF Abs!Raise, Abs!Deliver
    <2> QED
      BY <2>5 DEF Abs!SNext
  <1> QED
    BY <1>6, <1>7, <1>8, <1>9 DEF Raised

LEMMA RaiseMaps ==
  ASSUME SInv, PInv, Plain, practice' = practice, NEW s \in Sig, raise(s) \/ Interrupt(s)
  PROVE  Abs!SNext
  <1>1. stack # <<>> /\ stack \in Seq(Frame) /\ UNCHANGED <<signal_list, mvars, bss_count>>
    BY TopFrame DEF raise, Interrupt, InCode
  <1>2. CASE raise(s)
    BY <1>1, <1>2, RaisedMaps DEF raise
  <1>3. CASE Interrupt(s)
    <2>1. PICK f \in Frame : f = [kind |-> "exception", sig |-> s] /\ f.kind = "exception"
      <3>1. \A r \in Sig : [kind |-> "exception", sig |-> r] \in Frame
        BY DEF Frame
      <3>2. [kind |-> "exception", sig |-> s] \in Frame
        BY <3>1
      <3> QED
        BY <3>2
    <2>2. PICK st \in Seq(Frame) : st = Append(stack, f) /\ st # <<>>
      BY <1>1, PushFields
    <2>3. CallsOf(st) = CallsOf(stack)
      BY <1>1, <2>1, <2>2, CallsGrow
    <2>4. Raised(s, signal_list, pending, st)
      BY <1>3, <2>1, <2>2 DEF Interrupt
    <2> QED
      BY <1>1, <2>2, <2>3, <2>4, RaisedMaps
  <1> QED
    BY <1>2, <1>3

LEMMA HandlerReturnMaps ==
  ASSUME SInv, PInv, Plain, practice' = practice, HandlerReturn
  PROVE  Abs!SNext
  <1>1. /\ stack # <<>> /\ Top.kind = "handler" /\ stack' = Front(stack)
        /\ prev_handlers' = prev_handlers /\ signal_list' = signal_list
        /\ pending' = pending /\ (Initialised' <=> Initialised)
    BY DEF HandlerReturn, mvars, Initialised
  <1>2. PICK f \in Frame : f = Top /\ f = stack[Len(stack)] /\ stack \in Seq(Frame)
    BY <1>1, TopFrame
  <1>3. stack' # <<>>
    BY <1>1, PopSame DEF PInv, Same
  <1>4. PICK a \in Activation : a = <<f.sig, f.fn>>
    BY <1>1, <1>2, FrameFields DEF Activation
  <1>5. PICK c \in Seq(Activation) : c = CallsOf(stack')
    BY <1>1, <1>2, CallsShrink, CallsTyped
  <1>6. CallsOf(stack) = Append(c, a)
    BY <1>1, <1>2, <1>4, <1>5, CallsShrink
  <1>7. /\ Append(c, a) \in Seq(Activation) /\ Append(c, a) # <<>>
        /\ Len(Append(c, a)) = Len(c) + 1
        /\ \A i \in 1 .. Len(c) : Append(c, a)[i] = c[i]
    BY AppendProperties
  <1>8. PICK d \in Seq(Activation) : d = Append(c, a)
    BY <1>7
  <1>9. SubSeq(d, 1, Len(d) - 1) = c
    <2>1. Len(c) \in Nat /\ Len(d) = Len(c) + 1 /\ Len(d) - 1 = Len(c) /\ Len(c) \in 0 .. Len(d)
      BY <1>7, <1>8
    <2>2. PICK e \in Seq(Activation) : /\ e = SubSeq(d, 1, Len(c)) /\ Len(e) = Len(c)
                                       /\ \A i \in 1 .. Len(c) : e[i] = d[i]
      <3>1. PICK n \in 0 .. Len(d) : n = Len(c)
        BY <2>1
      <3>2. /\ SubSeq(d, 1, n) \in Seq(Activation) /\ Len(SubSeq(d, 1, n)) = n
            /\ \A i \in 1 .. n : SubSeq(d, 1, n)[i] = d[i]
        BY PrefixFields
      <3> QED
        BY <3>1, <3>2
    <2>3. e = c
      BY <1>7, <1>8, <2>2, SeqEqual
    <2> QED
      BY <2>1, <2>2, <2>3
  <1>10. /\ Up /\ Up' = Up /\ Mask' = Mask /\ Disp' = Disp /\ Pend' = Pend
         /\ Active = d /\ Active' = c
    BY <1>1, <1>3, <1>5, <1>6, <1>8, MapsFrom, MapsTo
  <1>11. Abs!Return
    BY <1>7, <1>8, <1>9, <1>10 DEF Abs!Return
  <1> QED
    BY <1>11 DEF Abs!SNext

(* The sets are empty when sigprocmask() begins for the first time. *)
LEMMA SigprocmaskMaps ==
  ASSUME SInv, PInv, Plain, practice' = practice, NEW how \in How, NEW set \in SUBSET Sig,
         sigprocmask(how, set)
  PROVE  UNCHANGED Abs!svars
  <1>1. stack # <<>> /\ stack \in Seq(Frame) /\ signal_list' = signal_list /\ bss_count' = bss_count
    BY TopFrame DEF sigprocmask, InCode
  <1>2. PICK f \in Frame : /\ f = [kind |-> "sigprocmask", how |-> how, set |-> set,
                                   new_mask |-> {}, signo |-> 1]
                           /\ f.kind = "sigprocmask"
    <2>1. 1 \in Sig \cup {NSig + 1}
      BY SignalConstantsOK DEF Sig
    <2>2. \A m \in SUBSET Sig : \A k \in Sig \cup {NSig + 1} :
            [kind |-> "sigprocmask", how |-> how, set |-> set, new_mask |-> m, signo |-> k] \in Frame
      BY DEF Frame
    <2>3. [kind |-> "sigprocmask", how |-> how, set |-> set, new_mask |-> {}, signo |-> 1] \in Frame
      BY <2>1, <2>2
    <2> QED
      BY <2>3
  <1>3. stack' = Append(stack, f)
    BY <1>2 DEF sigprocmask
  <1>4. stack' # <<>> /\ CallsOf(stack') = CallsOf(stack)
    BY <1>1, <1>2, <1>3, CallsGrow, PushFields
  <1>5. CASE Initialised
    <2>1. prev_handlers' = prev_handlers /\ pending' = pending /\ (Initialised' <=> Initialised)
      BY <1>5 DEF sigprocmask, mvars, Initialised
    <2>2. Up' = Up /\ Mask' = Mask /\ Disp' = Disp /\ Pend' = Pend /\ Active' = Active
      BY <1>1, <1>4, <2>1, MapsFrom, MapsTo
    <2> QED
      BY <2>2, MapsQuiet
  <1>6. CASE ~Initialised
    <2>1. pending' = {} /\ \A s \in Sig : prev_handlers'[s] = SIG_ERR
      BY <1>6 DEF sigprocmask, Initialised
    <2>2. Up /\ Up' /\ Plain'
      BY <1>1, <1>4 DEF Up, Plain
    <2>3. Blocked' = {} /\ Blocked = {}
      BY <1>6, <2>1 DEF Blocked
    <2>4. Mask' = Mask /\ Pend' = Pend /\ Active' = Active
      BY <1>4, <1>6, <2>1, <2>2, <2>3 DEF Mask, Pend, Active
    <2>5. Disp' = Disp
      BY <1>1, <2>2, <2>3 DEF Disp
    <2>6. Up' = Up
      BY <2>2
    <2> QED
      BY <2>4, <2>5, <2>6, MapsQuiet
  <1> QED
    BY <1>5, <1>6

(* An iteration of the loop is no activation. *)
LEMMA LoopCalls ==
  ASSUME SInv, PInv, Plain, InLoop, NEW b \in BOOLEAN
  PROVE  /\ Advanced(b) \in Seq(Frame) /\ Advanced(b) # <<>>
         /\ CallsOf(Advanced(b)) = CallsOf(stack)
  <1>1. stack # <<>> /\ Top.kind = "sigprocmask" /\ Stacked
    BY DEF InLoop, SInv
  <1>2. stack \in Seq(Frame) /\ Top = stack[Len(stack)] /\ Len(stack) \in Nat
    BY <1>1, TopFrame
  <1>3. PICK t \in Seq(Frame) : t = Front(stack)
    BY <1>1, <1>2, CallsShrink
  <1>4. CallsOf(stack) = CallsOf(t)
    BY <1>1, <1>2, <1>3, CallsShrink
  <1>5. PICK g \in Frame : g = Iterated(b) /\ g.kind = "sigprocmask"
    BY <1>1, IteratedFields
  <1>6. Advanced(b) = Append(t, g)
    BY <1>3, <1>5 DEF Advanced
  <1> QED
    BY <1>4, <1>5, <1>6, CallsGrow, PushFields

LEMMA LoopKeepMaps ==
  ASSUME SInv, PInv, Plain, practice' = practice, LoopKeep
  PROVE  UNCHANGED Abs!svars
  <1>1. /\ InLoop /\ stack # <<>> /\ prev_handlers' = prev_handlers
        /\ signal_list' = signal_list /\ pending' = pending /\ (Initialised' <=> Initialised)
    BY DEF LoopKeep, mvars, Initialised, InLoop
  <1>2. stack' = Advanced(Top.signo \in current_mask) /\ (Top.signo \in current_mask) \in BOOLEAN
    BY DEF LoopKeep
  <1>3. stack' # <<>> /\ CallsOf(stack') = CallsOf(stack)
    BY <1>1, <1>2, LoopCalls
  <1>4. Up' = Up /\ Mask' = Mask /\ Disp' = Disp /\ Pend' = Pend /\ Active' = Active
    BY <1>1, <1>3, MapsFrom, MapsTo
  <1> QED
    BY <1>4, MapsQuiet

LEMMA LoopBlockMaps ==
  ASSUME SInv, PInv, Plain, practice' = practice, LoopBlock
  PROVE  [Abs!SNext]_(Abs!svars)
  <1>1. /\ InLoop /\ stack # <<>> /\ stack' = Advanced(TRUE) /\ pending' = pending
        /\ Initialised' <=> Initialised
    BY DEF LoopBlock, Initialised, InLoop
  <1>2. stack' # <<>> /\ CallsOf(stack') = CallsOf(stack)
    BY <1>1, LoopCalls
  <1>3. PICK s \in Sig : s = Top.signo
    BY <1>1 DEF InLoop
  <1>4. Initialised
    BY <1>1, LoopPlain DEF InLoop
  <1>5. CASE s # SIGKILL /\ prev_handlers[s] = SIG_ERR
    <2>1. /\ prev_handlers' = [prev_handlers EXCEPT ![s] = signal_list[s]]
          /\ signal_list' = [signal_list EXCEPT ![s] = sig_suspender]
      BY <1>3, <1>5 DEF LoopBlock
    <2>2. /\ prev_handlers \in [Sig -> Installed \cup {SIG_ERR}]
          /\ signal_list \in [Sig -> Installed] /\ SIG_ERR \notin Installed
      BY HandlersDiffer DEF SInv, Types, Installed
    <2>3. /\ prev_handlers'[s] = signal_list[s] /\ signal_list[s] # SIG_ERR
          /\ \A r \in Sig : r # s => /\ prev_handlers'[r] = prev_handlers[r]
                                     /\ signal_list'[r] = signal_list[r]
      BY <2>1, <2>2
    <2>4. Up /\ Up' = Up /\ Pend' = Pend /\ Active' = Active
      BY <1>1, <1>2, MapsFrom, MapsTo
    <2>5. Mask' = Mask \cup {s} /\ s \notin Mask
      <3>1. Mask = {r \in Sig : prev_handlers[r] # SIG_ERR}
        BY <1>1, <1>4, MapsFrom
      <3>2. Mask' = {r \in Sig : prev_handlers'[r] # SIG_ERR}
        BY <1>1, <1>2, <1>4, MapsTo
      <3> QED
        BY <1>5, <2>3, <3>1, <3>2
    <2>6. Disp' = Disp
      <3>1. Disp = [r \in Sig |-> IF r \in Mask THEN prev_handlers[r] ELSE signal_list[r]]
        BY <1>1, MapsFrom
      <3>2. Disp' = [r \in Sig |-> IF r \in Mask' THEN prev_handlers'[r] ELSE signal_list'[r]]
        BY <1>1, <1>2, MapsTo
      <3>3. ASSUME NEW r \in Sig
            PROVE  (IF r \in Mask' THEN prev_handlers'[r] ELSE signal_list'[r]) =
                   (IF r \in Mask THEN prev_handlers[r] ELSE signal_list[r])
        BY <2>3, <2>5
      <3> QED
        BY <3>1, <3>2, <3>3
    <2>7. Abs!Block(s)
      BY <1>5, <2>4, <2>5, <2>6 DEF Abs!Block
    <2> QED
      BY <2>7 DEF Abs!SNext
  <1>6. CASE ~(s # SIGKILL /\ prev_handlers[s] = SIG_ERR)
    <2>1. prev_handlers' = prev_handlers /\ signal_list' = signal_list
      BY <1>3, <1>6 DEF LoopBlock
    <2>2. Up' = Up /\ Mask' = Mask /\ Disp' = Disp /\ Pend' = Pend /\ Active' = Active
      BY <1>1, <1>2, <2>1, MapsFrom, MapsTo
    <2> QED
      BY <2>2, MapsQuiet
  <1> QED
    BY <1>5, <1>6

LEMMA SigprocmaskReturnMaps ==
  ASSUME SInv, PInv, Plain, practice' = practice, SigprocmaskReturn
  PROVE  UNCHANGED Abs!svars
  <1>1. /\ stack # <<>> /\ Top.kind = "sigprocmask" /\ stack' = Front(stack)
        /\ prev_handlers' = prev_handlers /\ signal_list' = signal_list
        /\ pending' = pending /\ (Initialised' <=> Initialised)
    BY DEF SigprocmaskReturn, Initialised
  <1>2. stack \in Seq(Frame) /\ Top = stack[Len(stack)] /\ Len(stack) = 2
    BY <1>1, TopFrame, LoopPlain
  <1>3. CallsOf(stack') = CallsOf(stack)
    BY <1>1, <1>2, CallsShrink
  <1>4. stack' # <<>>
    <2>1. stack' = SubSeq(stack, 1, 1) /\ 1 \in 0 .. Len(stack)
      BY <1>1, <1>2 DEF Front
    <2>2. Len(stack') = 1
      BY <1>2, <2>1, PrefixFields
    <2> QED
      BY <2>2
  <1>5. Up' = Up /\ Mask' = Mask /\ Disp' = Disp /\ Pend' = Pend /\ Active' = Active
    BY <1>1, <1>3, <1>4, MapsFrom, MapsTo
  <1> QED
    BY <1>5, MapsQuiet

(* A signal leaves the mask; if it was recorded, raise() finds the handler *)
(* that was kept for it.                                                   *)
LEMMA LoopUnblockMaps ==
  ASSUME SInv, PInv, Plain, practice' = practice, LoopUnblock
  PROVE  [Abs!SNext]_(Abs!svars)
  <1>1. /\ InLoop /\ stack # <<>> /\ Top.signo \in current_mask
        /\ signal_list' = Restored /\ (Initialised' <=> Initialised)
    BY DEF LoopUnblock, UnblockWith, Initialised, InLoop
  <1>2. PICK s \in Sig : s = Top.signo
    BY <1>1 DEF InLoop
  <1>3. Initialised /\ Kept /\ InCall(stack) /\ stack[2] = Top
    BY <1>1, LoopPlain DEF InLoop
  <1>4. /\ prev_handlers \in [Sig -> Installed \cup {SIG_ERR}]
        /\ signal_list \in [Sig -> Installed]
    BY DEF SInv, Types
  <1>5. PICK t \in Seq(Frame) : t = Advanced(FALSE) /\ t # <<>> /\ CallsOf(t) = CallsOf(stack)
    BY <1>1, LoopCalls
  <1>6. prev_handlers' = [prev_handlers EXCEPT ![s] = SIG_ERR]
    BY <1>2 DEF LoopUnblock, UnblockWith
  <1>7. /\ s \in pending => Raised(s, Restored, pending \ {s}, t)
        /\ s \notin pending => stack' = t /\ pending' = pending
    BY <1>2, <1>5 DEF LoopUnblock, UnblockWith
  <1>8. Mask = {r \in Sig : prev_handlers[r] # SIG_ERR} /\ Pend = pending /\ Up
    BY <1>1, <1>3, MapsFrom
  <1>9. CASE prev_handlers[s] = SIG_ERR
    <2>1. prev_handlers' = prev_handlers /\ signal_list' = signal_list
      BY <1>1, <1>2, <1>4, <1>6, <1>9 DEF Restored
    <2>2. s \notin pending
      BY <1>3, <1>9 DEF Kept
    <2>3. Up' = Up /\ Mask' = Mask /\ Disp' = Disp /\ Pend' = Pend /\ Active' = Active
      BY <1>1, <1>5, <1>7, <2>1, <2>2, MapsFrom, MapsTo
    <2> QED
      BY <2>3, MapsQuiet
  <1>10. CASE prev_handlers[s] # SIG_ERR
    <2>1. /\ Restored = [signal_list EXCEPT ![s] = prev_handlers[s]]
          /\ Restored[s] = prev_handlers[s] /\ s \in Mask
      BY <1>2, <1>4, <1>8, <1>10 DEF Restored
    <2>2. /\ prev_handlers'[s] = SIG_ERR /\ signal_list'[s] = prev_handlers[s]
          /\ \A r \in Sig : r # s => /\ prev_handlers'[r] = prev_handlers[r]
                                     /\ signal_list'[r] = signal_list[r]
      BY <1>1, <1>4, <1>6, <2>1
    <2>3. ASSUME stack' # <<>>
          PROVE  /\ Up' = Up /\ Mask' = Mask \ {s} /\ Disp' = Disp
                 /\ Pend' = pending' /\ Active' = CallsOf(stack')
      <3>1. /\ Up' = Up /\ Mask' = {r \in Sig : prev_handlers'[r] # SIG_ERR}
            /\ Pend' = pending' /\ Active' = CallsOf(stack')
        BY <1>1, <1>3, <2>3, MapsTo
      <3>2. Mask' = Mask \ {s}
        BY <1>8, <2>2, <3>1
      <3>3. Disp = [r \in Sig |-> IF r \in Mask THEN prev_handlers[r] ELSE signal_list[r]]
        BY <1>1, MapsFrom
      <3>4. Disp' = [r \in Sig |-> IF r \in Mask' THEN prev_handlers'[r] ELSE signal_list'[r]]
        BY <1>1, <2>3, MapsTo
      <3>5. ASSUME NEW r \in Sig
            PROVE  (IF r \in Mask' THEN prev_handlers'[r] ELSE signal_list'[r]) =
                   (IF r \in Mask THEN prev_handlers[r] ELSE signal_list[r])
        BY <2>1, <2>2, <3>2
      <3>6. Disp' = Disp
        BY <3>3, <3>4, <3>5
      <3> QED
        BY <3>1, <3>2, <3>6
    <2>4. Disp[s] = prev_handlers[s] /\ Disp[s] # sig_suspender
      BY <1>1, <2>1, MapsFrom
    <2>5. CASE s \notin pending
      <3>1. /\ Up' = Up /\ Mask' = Mask \ {s} /\ Disp' = Disp
            /\ Pend' = Pend \ {s} /\ Active' = Active
        BY <1>1, <1>5, <1>7, <1>8, <2>3, <2>5, MapsFrom
      <3>2. Abs!Unblock(s)
        BY <1>8, <2>1, <2>5, <3>1 DEF Abs!Unblock
      <3> QED
        BY <3>2 DEF Abs!SNext
    <2>6. CASE s \in pending
      <3>0. Raised(s, Restored, pending \ {s}, t)
        BY <1>7, <2>6
      <3>1. CASE /\ Restored[s] = SIG_IGN \/ (s = SIGQUIT /\ Restored[s] = SIG_DFL)
                 /\ pending' = pending \ {s} /\ stack' = t
        <4>1. Abs!Ignored(s)
          BY <2>1, <2>4, <3>1 DEF Abs!Ignored
        <4>2. /\ Up' = Up /\ Mask' = Mask \ {s} /\ Disp' = Disp
              /\ Pend' = Pend \ {s} /\ Active' = Active
          BY <1>1, <1>5, <1>8, <2>3, <3>1, MapsFrom
        <4>3. Abs!Unblock(s)
          BY <1>8, <2>1, <2>6, <4>1, <4>2 DEF Abs!Unblock, Abs!Deliver
        <4> QED
          BY <4>3 DEF Abs!SNext
      <3>2. CASE EndProgram
        <4>1. stack' = <<>>
          BY <1>1, <3>2, EndEmpty DEF PInv
        <4> QED
          BY <1>8, <4>1, MapsEnd
      <3>3. CASE /\ Restored[s] \in Handler /\ pending' = pending \ {s}
                 /\ stack' = Append(t, [kind |-> "handler", sig |-> s, fn |-> Restored[s]])
        <4>1. PICK f \in Frame : /\ f = [kind |-> "handler", sig |-> s, fn |-> Restored[s]]
                                 /\ f.kind = "handler" /\ f.sig = s /\ f.fn = Restored[s]
          BY <3>3 DEF Frame
        <4>2. stack' # <<>> /\ CallsOf(stack') = Append(CallsOf(stack), <<s, Restored[s]>>)
          BY <1>5, <3>3, <4>1, CallsGrow, PushFields
        <4>3. /\ Up' = Up /\ Mask' = Mask \ {s} /\ Disp' = Disp /\ Pend' = Pend \ {s}
              /\ Active' = Append(Active, <<s, Disp[s]>>) /\ Disp[s] \in Handler
          BY <1>1, <1>8, <2>1, <2>3, <2>4, <3>3, <4>2, MapsFrom
        <4>4. Abs!Unblock(s)
          BY <1>8, <2>1, <2>6, <4>3 DEF Abs!Unblock, Abs!Deliver
        <4> QED
          BY <4>4 DEF Abs!SNext
      <3> QED
        BY <2>1, <2>4, <3>0, <3>1, <3>2, <3>3 DEF Raised
    <2> QED
      BY <2>5, <2>6
  <1> QED
    BY <1>9, <1>10

(* The initial states correspond. *)
LEMMA SignalsMapInit ==
  ASSUME Init
  PROVE  Abs!SInit
  <1>1. ~Up
    BY DEF Up, Init
  <1>2. Up = FALSE /\ Disp = [s \in Sig |-> SIG_DFL] /\ Mask = {} /\ Pend = {} /\ Active = <<>>
    BY <1>1 DEF Disp, Mask, Pend, Active
  <1> QED
    BY <1>2 DEF Abs!SInit

(* The steps correspond. *)
LEMMA SignalsMapStep ==
  ASSUME SInv, PInv, [Next]_vars
  PROVE  [Abs!SNext]_(Abs!svars)
  <1>1. CASE UNCHANGED vars
    <2>1. Up' = Up /\ Disp' = Disp /\ Mask' = Mask /\ Pend' = Pend /\ Active' = Active
      BY <1>1 DEF vars, Up, Plain, Disp, Mask, Pend, Active, Blocked, Initialised
    <2> QED
      BY <2>1, MapsQuiet
  <1>2. CASE Next /\ ~Plain
    <2>1. ~Up /\ ~Up'
      BY <1>2 DEF Next, Up, Plain
    <2>2. Up' = Up
      BY <2>1 DEF Up
    <2>3. Mask' = Mask /\ Pend' = Pend /\ Active' = Active
      BY <2>1 DEF Mask, Pend, Active
    <2>4. Disp = [s \in Sig |-> SIG_DFL] /\ Disp' = [s \in Sig |-> SIG_DFL]
      BY <2>1 DEF Disp
    <2> QED
      BY <2>2, <2>3, <2>4, MapsQuiet
  <1>3. CASE Next /\ Plain
    <2>0. practice' = practice /\ Plain
      BY <1>3 DEF Next
    <2>1. CASE Start
      BY <2>0, <2>1, StartMaps
    <2>2. CASE exit \/ ExceptionReturn
      <3>1. stack # <<>> /\ EndProgram
        BY <2>2 DEF exit, ExceptionReturn, InCode
      <3>2. Up /\ stack' = <<>>
        BY <2>0, <3>1, MapsFrom, EndEmpty DEF PInv
      <3> QED
        BY <3>2, MapsEnd
    <2>3. CASE SigactionReturn
      BY <2>0, <2>3, SigactionReturnMaps
    <2>4. CASE HandlerReturn
      BY <2>0, <2>4, HandlerReturnMaps
    <2>5. CASE HandlerJump
      BY <2>0, <2>5, PlainHabits DEF HandlerJump
    <2>6. CASE Loop
      BY <2>0, <2>6, LoopKeepMaps, LoopBlockMaps, LoopUnblockMaps, SigprocmaskReturnMaps DEF Loop
    <2>7. ASSUME NEW s \in Sig, raise(s) \/ Interrupt(s)
          PROVE  Abs!SNext
      BY <2>0, <2>7, RaiseMaps
    <2>8. ASSUME NEW s \in Sig, NEW h \in Disposition(Running), signal(s, h)
          PROVE  Abs!SNext
      BY <2>0, <2>8, SignalMaps
    <2>9. ASSUME NEW s \in Sig, NEW h \in Disposition(Running) \cup {signal_list[s]},
                 sigaction(s, h)
          PROVE  Abs!SNext
      BY <2>0, <2>9, SigactionMaps
    <2>10. ASSUME NEW how \in How, NEW set \in SUBSET Sig, sigprocmask(how, set)
           PROVE  UNCHANGED Abs!svars
      BY <2>0, <2>10, SigprocmaskMaps
    <2>11. Step
      BY <1>3 DEF Next
    <2> QED
      BY <2>1, <2>2, <2>3, <2>4, <2>5, <2>6, <2>7, <2>8, <2>9, <2>10, <2>11 DEF Step
  <1> QED
    BY <1>1, <1>2, <1>3

(* To a plain program signal(), sigaction(), raise(), interrupts and       *)
(* sigprocmask() behave as SignalMask says: swapping handlers for          *)
(* sig_suspender records what is blocked, and every recorded signal goes   *)
(* to the handler the program has set once it is unblocked, whatever       *)
(* handlers run in the middle of the loop.                                 *)
THEOREM SignalsRefine == Spec => RefinesSignalMask
  <1>1. Init => Abs!SInit
    BY SignalsMapInit
  <1>2. SInv /\ PInv /\ [Next]_vars => [Abs!SNext]_(Abs!svars)
    BY SignalsMapStep
  <1> QED
    BY <1>1, <1>2, SignalState, MaskState, PTL DEF Spec, RefinesSignalMask, Abs!SSpec
=============================================================================
