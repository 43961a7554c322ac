---------------------------- MODULE StdioProofs ----------------------------
(***************************************************************************)
(* Proofs about a stream and its buffer, for every file, every size of a   *)
(* buffer, everything a program may read or write, and all habits of       *)
(* programs.                                                               *)
(***************************************************************************)
EXTENDS Stdio, SequenceTheorems, WellFoundedInduction, TLAPS

(***************************************************************************)
(* The inductive invariant, of a stream s of a program with the habits H:  *)
(* every function of the library keeps it.                                 *)
(***************************************************************************)
Mem == UNION {[0 .. n - 1 -> Byte \cup {0}] : n \in Nat}

FILE == [flags : SUBSET Flag, type : {"FBF", "LBF", "NBF"}, base : BOOLEAN,
         ptr : Nat, cnt : Int, bufsiz : Nat, fill : BOOLEAN, mem : Mem,
         overrun : BOOLEAN, file : Seq(Byte), off : Nat, open : BOOLEAN]

Formed(s) ==
  /\ s \in FILE
  /\ s.mem \in [0 .. s.bufsiz - 1 -> Byte \cup {0}]
  /\ s.off <= Len(s.file) /\ Len(s.file) <= MaxLen

(* Which kinds of streams there are. *)
Kinds(s) ==
  /\ ~s.open => ~s.base
  /\ s.open =>
       /\ s.base => s.type # "NBF" /\ s.bufsiz > 0
       /\ ~s.base => s.type # "LBF" /\ s.bufsiz = 0 /\ s.cnt = 0 /\ ~s.overrun
       /\ "READ" \in s.flags \/ "WRT" \in s.flags \/ "RW" \in s.flags
       /\ ~("READ" \in s.flags /\ "WRT" \in s.flags)

(* What was stored, and what was read, are bytes, and fit into the file. *)
Stored(s) ==
  /\ \A i \in 0 .. s.bufsiz - 1 : i < s.ptr => s.mem[i] # 0
  /\ "WRT" \notin s.flags => \A i \in 0 .. s.bufsiz - 1 : i < s.ptr + s.cnt => s.mem[i] # 0
  /\ "WRT" \in s.flags /\ s.base => s.off + s.ptr <= MaxLen

(* The program may write. *)
Writable(s) ==
  \/ "WRT" \in s.flags
  \/ "RW" \in s.flags /\ ("READ" \in s.flags => "EOF" \in s.flags)

(* Nothing is stored behind the buffer.  A line buffer that is written to  *)
(* has room for a byte, and counts down from 0, unless ungetc() has put a  *)
(* byte there.                                                             *)
Limited(H, s) ==
  /\ "tell_line" \notin H
  /\ "unget_unread" \in H => "line_update" \notin H /\ s.bufsiz > 1

Room(H, s) ==
  s.open /\ s.base /\ Limited(H, s) =>
    /\ ~s.overrun
    /\ s.ptr <= s.bufsiz /\ s.ptr + s.cnt <= s.bufsiz
    /\ s.cnt < 0 => s.type = "LBF" /\ s.ptr + s.cnt = 0
    /\ s.type = "LBF" /\ Writable(s) =>
         \/ s.ptr + s.cnt = 0 /\ s.ptr < s.bufsiz
         \/ /\ "unget_unread" \in H /\ "WRT" \notin s.flags
            /\ s.ptr + s.cnt = 1 /\ s.cnt >= 0

(* A stream that is only read from: the buffer is what the file holds in   *)
(* front of its position, unless ungetc() has changed it.                  *)
Reading(s) == "READ" \in s.flags /\ "RW" \notin s.flags /\ s.base

Window(H, s) ==
  Reading(s) =>
    /\ s.cnt >= 0 /\ s.ptr + s.cnt <= s.bufsiz
    /\ H \cap {"unget_unread", "flush_all"} = {} /\ "UNGETC" \notin s.flags =>
         /\ s.ptr + s.cnt <= s.off
         /\ \A i \in 0 .. s.ptr + s.cnt - 1 :
              s.mem[i] = s.file[s.off - s.ptr - s.cnt + i + 1]

Good(H, s) == Formed(s) /\ Kinds(s) /\ Stored(s) /\ Room(H, s) /\ Window(H, s)

SInv == Good(practice, f)

-----------------------------------------------------------------------------
(* The larger and the smaller of two numbers. *)
LEMMA MaxOf ==
  ASSUME NEW a \in Int, NEW b \in Int
  PROVE  Max({a, b}) = IF a >= b THEN a ELSE b
  <1>1. \E x \in {a, b} : \A y \in {a, b} : x >= y
    <2>1. a >= b \/ b >= a
      OBVIOUS
    <2> QED BY <2>1
  <1>2. Max({a, b}) \in {a, b} /\ \A y \in {a, b} : Max({a, b}) >= y
    BY <1>1 DEF Max
  <1> QED BY <1>2

LEMMA MinOf ==
  ASSUME NEW a \in Int, NEW b \in Int
  PROVE  Min({a, b}) = IF a <= b THEN a ELSE b
  <1>1. \E x \in {a, b} : \A y \in {a, b} : x <= y
    <2>1. a <= b \/ b <= a
      OBVIOUS
    <2> QED BY <2>1
  <1>2. Min({a, b}) \in {a, b} /\ \A y \in {a, b} : Min({a, b}) <= y
    BY <1>1 DEF Min
  <1> QED BY <1>2

(* The memory of a buffer. *)
LEMMA MemIs ==
  ASSUME NEW n \in Nat, NEW m \in [0 .. n - 1 -> Byte \cup {0}]
  PROVE  m \in Mem
  BY DEF Mem

LEMMA NoMem == <<>> \in [0 .. 0 - 1 -> Byte \cup {0}]
  <1>1. 0 .. 0 - 1 = {} /\ DOMAIN <<>> = {}
    OBVIOUS
  <1> QED BY <1>1

(* A sequence given by its elements. *)
LEMMA SeqIs ==
  ASSUME NEW n \in Nat, NEW q, q \in [1 .. n -> Byte]
  PROVE  q \in Seq(Byte) /\ Len(q) = n
  BY IsASeq, LenProperties

-----------------------------------------------------------------------------
(* What is in the buffer are bytes. *)
LEMMA BufferedBytes ==
  ASSUME NEW s, Formed(s), Stored(s)
  PROVE  /\ Buffered(s) \in Seq(Byte)
         /\ Len(Buffered(s)) <= s.ptr /\ Len(Buffered(s)) <= s.bufsiz
         /\ s.ptr = 0 => Buffered(s) = <<>>
  <1>0. s.ptr \in Nat /\ s.bufsiz \in Nat
    BY DEF Formed, FILE
  <1>1. PICK n \in Nat : n = Min({s.ptr, s.bufsiz}) /\ n <= s.ptr /\ n <= s.bufsiz
    BY <1>0, MinOf
  <1>2. \A i \in 1 .. n : s.mem[i - 1] \in Byte
    <2> TAKE i \in 1 .. n
    <2>1. i - 1 \in 0 .. s.bufsiz - 1 /\ i - 1 < s.ptr
      BY <1>0, <1>1
    <2> QED BY <2>1 DEF Formed, Stored
  <1>3. Buffered(s) = [i \in 1 .. n |-> s.mem[i - 1]]
    BY <1>1 DEF Buffered
  <1>4. Buffered(s) \in [1 .. n -> Byte]
    BY <1>2, <1>3
  <1>5. Buffered(s) \in Seq(Byte) /\ Len(Buffered(s)) = n
    BY <1>4, SeqIs
  <1> QED BY <1>0, <1>1, <1>5, EmptySeq

(* _write() puts the bytes into the file at the position, or fails, and    *)
(* changes nothing else.                                                   *)
Same(s, t) ==
  /\ t.type = s.type /\ (t.base <=> s.base) /\ t.ptr = s.ptr /\ t.cnt = s.cnt
  /\ t.bufsiz = s.bufsiz /\ (t.fill <=> s.fill) /\ t.mem = s.mem
  /\ (t.overrun <=> s.overrun) /\ (t.open <=> s.open)

Wrote(s, n, r) ==
  /\ Formed(r.s) /\ Same(s, r.s)
  /\ r.s.off = s.off \/ r.s.off = s.off + n
  /\ r.s.flags = s.flags \/ r.s.flags = s.flags \cup {"ERR"}
  /\ r.c = 0 \/ r.c = -1

Fits(s, n) == s.off + n <= MaxLen

LEMMA WriteIs ==
  ASSUME NEW s, Formed(s), NEW b \in Seq(Byte), Fits(s, Len(b)),
         NEW e, NEW r, r = _write(s, b, e)
  PROVE  Wrote(s, Len(b), r)
  <1>0. /\ s \in FILE /\ s.off \in Nat /\ s.file \in Seq(Byte) /\ Len(s.file) \in Nat
        /\ Len(b) \in Nat /\ MaxLen \in Nat
        /\ s.off + Len(b) <= MaxLen /\ s.off <= Len(s.file) /\ Len(s.file) <= MaxLen
        /\ s.mem \in [0 .. s.bufsiz - 1 -> Byte \cup {0}]
    BY StdioConstantsOK, LenProperties DEF Formed, FILE, Fits
  <1>1. CASE b = <<>>
    <2>1. r.s = s /\ r.c = 0
      BY <1>1 DEF _write, Result
    <2> QED BY <1>0, <2>1 DEF Same, Wrote
  <1>2. CASE b # <<>> /\ ~e.io
    <2>1. PICK fl \in SUBSET Flag : fl = s.flags \cup {"ERR"} /\ fl = (s.flags \cup {"ERR"}) \ {}
      BY <1>0 DEF FILE, Flag
    <2>2. r.s = [s EXCEPT !.flags = fl] /\ r.c = -1
      BY <1>2, <2>1 DEF _write, Result, Set
    <2>3. /\ r.s \in FILE /\ Same(s, r.s)
          /\ r.s.flags = fl /\ r.s.off = s.off /\ r.s.file = s.file
      BY <1>0, <2>2 DEF FILE, Same
    <2> QED BY <1>0, <2>1, <2>2, <2>3 DEF Formed, Same, Wrote
  <1>3. CASE b # <<>> /\ ~(~e.io)
    <2>0. PICK m \in Nat, k \in Nat : m = s.off + Len(b) /\ k = Len(s.file)
      BY <1>0
    <2>1. PICK n \in Nat : n = Max({k, m}) /\ n = IF k >= m THEN k ELSE m
      BY <2>0, MaxOf
    <2>1a. n = IF k >= m THEN k ELSE m
      BY <2>1
    <2>1b. m <= MaxLen /\ k <= MaxLen /\ s.off <= k
      BY <1>0, <2>0
    <2> DEFINE g == [i \in 1 .. n |-> IF i - s.off \in DOMAIN b THEN b[i - s.off] ELSE s.file[i]]
    <2>2. r.s = [s EXCEPT !.file = g, !.off = m] /\ r.c = 0
      BY <1>3, <2>0, <2>1 DEF _write, Result
    <2>3. \A i \in 1 .. n : g[i] \in Byte
      <3> TAKE i \in 1 .. n
      <3>1. DOMAIN b = 1 .. Len(b)
        BY LenProperties
      <3>2. CASE i - s.off \in 1 .. Len(b)
        BY <3>1, <3>2, ElementOfSeq
      <3>3. CASE ~(i - s.off \in 1 .. Len(b))
        <4>1. i \in 1 .. Len(s.file)
          <5>1. i - s.off < 1 \/ i > m
            BY <1>0, <2>0, <3>3
          <5>2. i <= k
            BY <1>0, <2>0, <2>1a, <2>1b, <5>1
          <5> QED BY <2>0, <5>2
        <4> QED BY <1>0, <3>1, <3>3, <4>1, ElementOfSeq
      <3> QED BY <3>2, <3>3
    <2>4. g \in [1 .. n -> Byte]
      BY <2>3
    <2>5. g \in Seq(Byte) /\ Len(g) = n
      <3> HIDE DEF g
      <3> QED BY <2>4, SeqIs
    <2> HIDE DEF g
    <2>6. /\ r.s \in FILE /\ Same(s, r.s)
          /\ r.s.flags = s.flags /\ r.s.off = m /\ r.s.file = g
      BY <1>0, <2>2, <2>5 DEF FILE, Same
    <2>7. m <= n /\ n <= MaxLen
      BY <1>0, <2>1a, <2>1b
    <2> QED BY <1>0, <2>0, <2>2, <2>5, <2>6, <2>7 DEF Formed, Same, Wrote
  <1> QED BY <1>1, <1>2, <1>3

(* *f->_ptr++ = c stores in the buffer, or behind it. *)
LEMMA StoreIs ==
  ASSUME NEW s, Formed(s), NEW c \in Byte, NEW t, t = Store(s, c)
  PROVE  /\ Formed(t) /\ t.ptr = s.ptr + 1
         /\ t.flags = s.flags /\ t.type = s.type /\ (t.base <=> s.base) /\ t.cnt = s.cnt
         /\ t.bufsiz = s.bufsiz /\ (t.fill <=> s.fill) /\ t.file = s.file
         /\ t.off = s.off /\ (t.open <=> s.open)
         /\ s.ptr < s.bufsiz => (t.overrun <=> s.overrun)
         /\ \A i \in 0 .. s.bufsiz - 1 : t.mem[i] = IF i = s.ptr THEN c ELSE s.mem[i]
  <1>0. /\ s \in FILE /\ s.ptr \in Nat /\ s.bufsiz \in Nat
        /\ s.mem \in [0 .. s.bufsiz - 1 -> Byte \cup {0}]
        /\ s.off <= Len(s.file) /\ Len(s.file) <= MaxLen
    BY DEF Formed, FILE
  <1>1. PICK p \in Nat : p = s.ptr + 1
    BY <1>0
  <1>2. CASE s.ptr \in 0 .. s.bufsiz - 1
    <2>1. PICK m \in [0 .. s.bufsiz - 1 -> Byte \cup {0}] : m = [s.mem EXCEPT ![s.ptr] = c]
      BY <1>0
    <2>2. m \in Mem
      BY <1>0, MemIs
    <2>3. t = [s EXCEPT !.mem = m, !.ptr = p]
      <3>1. t = [s EXCEPT !.mem[s.ptr] = c, !.ptr = @ + 1]
        BY <1>0, <1>2 DEF Store
      <3> QED BY <1>0, <1>1, <2>1, <3>1 DEF FILE
    <2>4. /\ t \in FILE /\ t.mem = m /\ t.ptr = p
          /\ t.flags = s.flags /\ t.type = s.type /\ (t.base <=> s.base) /\ t.cnt = s.cnt
          /\ t.bufsiz = s.bufsiz /\ (t.fill <=> s.fill) /\ t.file = s.file
          /\ t.off = s.off /\ (t.open <=> s.open) /\ (t.overrun <=> s.overrun)
      BY <1>0, <2>2, <2>3 DEF FILE
    <2>5. Formed(t)
      BY <1>0, <2>4 DEF Formed
    <2>6. \A i \in 0 .. s.bufsiz - 1 : m[i] = IF i = s.ptr THEN c ELSE s.mem[i]
      BY <1>0, <2>1
    <2> QED BY <1>1, <2>4, <2>5, <2>6
  <1>3. CASE s.ptr \notin 0 .. s.bufsiz - 1
    <2>1. t = [s EXCEPT !.ptr = p, !.overrun = TRUE]
      BY <1>0, <1>1, <1>3 DEF Store
    <2>2. /\ t \in FILE /\ t.mem = s.mem /\ t.ptr = p
          /\ t.flags = s.flags /\ t.type = s.type /\ (t.base <=> s.base) /\ t.cnt = s.cnt
          /\ t.bufsiz = s.bufsiz /\ (t.fill <=> s.fill) /\ t.file = s.file
          /\ t.off = s.off /\ (t.open <=> s.open)
      BY <1>0, <2>1 DEF FILE
    <2>3. Formed(t)
      BY <1>0, <2>2 DEF Formed
    <2>4. ~(s.ptr < s.bufsiz) /\ \A i \in 0 .. s.bufsiz - 1 : i # s.ptr
      BY <1>0, <1>3
    <2> QED BY <1>1, <2>2, <2>3, <2>4
  <1> QED BY <1>2, <1>3

(* Flags are set and cleared. *)
Flagged(s, on, no, t) ==
  /\ Formed(t) /\ Same(s, t) /\ t.file = s.file /\ t.off = s.off
  /\ t.flags = (s.flags \cup on) \ no

LEMMA SetIs ==
  ASSUME NEW s, Formed(s), NEW on \in SUBSET Flag, NEW no, NEW t, t = Set(s, on, no)
  PROVE  Flagged(s, on, no, t)
  <1>0. s \in FILE
    BY DEF Formed
  <1>1. PICK fl \in SUBSET Flag : fl = (s.flags \cup on) \ no
    BY <1>0 DEF FILE
  <1>2. t = [s EXCEPT !.flags = fl]
    BY <1>0, <1>1 DEF Set, FILE
  <1>3. /\ t \in FILE /\ Same(s, t) /\ t.file = s.file /\ t.off = s.off /\ t.flags = fl
    BY <1>0, <1>2 DEF FILE, Same
  <1> QED BY <1>0, <1>1, <1>3 DEF Formed, Same, Flagged

(* The two pointers into the buffer are moved. *)
Kept(s, t) ==
  /\ t.flags = s.flags /\ t.type = s.type /\ (t.base <=> s.base)
  /\ t.bufsiz = s.bufsiz /\ (t.fill <=> s.fill) /\ t.mem = s.mem
  /\ (t.overrun <=> s.overrun) /\ t.file = s.file /\ t.off = s.off /\ (t.open <=> s.open)

Move(s, p, n) == [s EXCEPT !.ptr = p, !.cnt = n]

Moved(s, p, n, t) == Formed(t) /\ Kept(s, t) /\ t.ptr = p /\ t.cnt = n

LEMMA MovedIs ==
  ASSUME NEW s, Formed(s), NEW p \in Nat, NEW n \in Int, NEW t, t = Move(s, p, n)
  PROVE  Moved(s, p, n, t)
  <1>0. s \in FILE
    BY DEF Formed
  <1>1. t \in FILE /\ Kept(s, t) /\ t.ptr = p /\ t.cnt = n
    BY <1>0 DEF FILE, Kept, Move
  <1> QED BY <1>1 DEF Formed, Kept, Moved

(* A new buffer. *)
LEMMA WithBufferIs ==
  ASSUME NEW s, Formed(s), NEW n \in Nat, NEW t, t = WithBuffer(s, n)
  PROVE  /\ Formed(t) /\ t.base /\ t.bufsiz = n
         /\ t.flags = s.flags /\ t.type = s.type /\ t.ptr = s.ptr /\ t.cnt = s.cnt
         /\ (t.fill <=> s.fill) /\ (t.overrun <=> s.overrun) /\ t.file = s.file
         /\ t.off = s.off /\ (t.open <=> s.open)
  <1>0. s \in FILE /\ s.off <= Len(s.file) /\ Len(s.file) <= MaxLen
    BY DEF Formed
  <1>1. PICK m \in [0 .. n - 1 -> Byte \cup {0}] : m = [i \in 0 .. n - 1 |-> 0]
    OBVIOUS
  <1>2. m \in Mem
    BY MemIs
  <1>3. t = [s EXCEPT !.base = TRUE, !.bufsiz = n, !.mem = m]
    BY <1>1 DEF WithBuffer
  <1>4. /\ t \in FILE /\ t.mem = m /\ t.base /\ t.bufsiz = n
        /\ t.flags = s.flags /\ t.type = s.type /\ t.ptr = s.ptr /\ t.cnt = s.cnt
        /\ (t.fill <=> s.fill) /\ (t.overrun <=> s.overrun) /\ t.file = s.file
        /\ t.off = s.off /\ (t.open <=> s.open)
    BY <1>0, <1>2, <1>3 DEF FILE
  <1> QED BY <1>0, <1>4 DEF Formed

-----------------------------------------------------------------------------
(* What is enough for a stream that is written to. *)
LEMMA GoodWriting ==
  ASSUME NEW H, NEW t, Formed(t), t.open, "WRT" \in t.flags, "READ" \notin t.flags,
         t.base => t.type # "NBF" /\ t.bufsiz > 0,
         ~t.base => t.type # "LBF" /\ t.bufsiz = 0 /\ t.cnt = 0 /\ ~t.overrun,
         \A i \in 0 .. t.bufsiz - 1 : i < t.ptr => t.mem[i] # 0,
         t.base => t.off + t.ptr <= MaxLen,
         t.base /\ Limited(H, t) =>
           /\ ~t.overrun /\ t.ptr <= t.bufsiz /\ t.ptr + t.cnt <= t.bufsiz
           /\ t.cnt < 0 => t.type = "LBF"
           /\ t.type = "LBF" => t.ptr + t.cnt = 0 /\ t.ptr < t.bufsiz
  PROVE  Good(H, t)
  <1>1. Kinds(t)
    BY DEF Kinds
  <1>2. Stored(t)
    BY DEF Stored
  <1>3. Room(H, t)
    BY DEF Room
  <1>4. Window(H, t)
    BY DEF Window, Reading
  <1> QED BY <1>1, <1>2, <1>3, <1>4 DEF Good

(* What _flsbuf() needs of the stream: _cnt may be anything. *)
Ready(H, s) ==
  /\ Formed(s) /\ s.open /\ Writable(s)
  /\ ~("READ" \in s.flags /\ "WRT" \in s.flags)
  /\ s.base => s.type # "NBF" /\ s.bufsiz > 0
  /\ ~s.base => s.type # "LBF" /\ s.bufsiz = 0 /\ ~s.overrun
  /\ \A i \in 0 .. s.bufsiz - 1 : i < s.ptr => s.mem[i] # 0
  /\ s.off + s.ptr + 1 <= MaxLen
  /\ s.base /\ Limited(H, s) =>
       ~s.overrun /\ s.ptr <= s.bufsiz /\ (s.type = "LBF" => s.ptr < s.bufsiz)

(* The stream has a buffer, or will have none. *)
WithOrWithout(H, b) ==
  /\ Ready(H, b) /\ "WRT" \in b.flags /\ "READ" \notin b.flags
  /\ ~b.base <=> b.type = "NBF"

Marked(s) == IF "RW" \in s.flags THEN Set(s, {"WRT"}, {"EOF", "READ"}) ELSE s
Provided(u, e) ==
  IF ~NeedsBuffer(u) THEN u
  ELSE IF e.mem THEN [WithBuffer(u, TbSize) EXCEPT !.cnt = TbSize, !.ptr = 0]
  ELSE [u EXCEPT !.type = "NBF"]

LEMMA FlsReady ==
  ASSUME NEW H, NEW s, Ready(H, s), NEW e, NEW b, b = Provided(Marked(s), e)
  PROVE  /\ WithOrWithout(H, b) /\ b.off = s.off /\ b.ptr <= s.ptr
         /\ b.type = "LBF" <=> s.type = "LBF"
  <1>0. /\ Formed(s) /\ s.ptr \in Nat /\ s.off \in Nat /\ s.bufsiz \in Nat
        /\ s.type \in {"FBF", "LBF", "NBF"} /\ MaxLen \in Nat
        /\ TbSize \in Nat /\ TbSize > 0
    BY StdioConstantsOK DEF Ready, Formed, FILE
  <1>0a. PICK u : u = Marked(s) /\ b = Provided(u, e)
    OBVIOUS
  <1>1. /\ Formed(u) /\ Same(s, u) /\ u.file = s.file /\ u.off = s.off
        /\ "WRT" \in u.flags /\ "READ" \notin u.flags
    <2>1. CASE "RW" \in s.flags
      <3>1. PICK on \in SUBSET Flag : on = {"WRT"}
        BY DEF Flag
      <3>2. u = Set(s, on, {"EOF", "READ"})
        BY <1>0a, <2>1, <3>1 DEF Marked
      <3>3. /\ Formed(u) /\ Same(s, u) /\ u.file = s.file /\ u.off = s.off
            /\ u.flags = (s.flags \cup on) \ {"EOF", "READ"}
        BY <1>0, <3>2, SetIs DEF Flagged
      <3> QED BY <3>1, <3>3
    <2>2. CASE "RW" \notin s.flags
      BY <1>0a, <2>2 DEF Ready, Writable, Same, Marked
    <2> QED BY <2>1, <2>2
  <1>2. Ready(H, u)
    <2>1. Writable(u)
      BY <1>1 DEF Writable
    <2> QED BY <1>1, <2>1 DEF Ready, Same, Limited
  <1>3. CASE ~NeedsBuffer(u)
    <2>1. b = u
      BY <1>0a, <1>3 DEF Provided
    <2>2. ~u.base <=> u.type = "NBF"
      BY <1>2, <1>3 DEF NeedsBuffer, Ready
    <2>3. b.ptr = s.ptr /\ b.off = s.off /\ b.type = s.type
      BY <1>1, <2>1 DEF Same
    <2> QED BY <1>0, <1>1, <1>2, <2>1, <2>2, <2>3 DEF WithOrWithout
  <1>4. CASE NeedsBuffer(u) /\ e.mem
    <2>0. PICK n \in Nat : n = TbSize /\ n > 0
      BY <1>0
    <2>1. PICK w : w = WithBuffer(u, n)
      OBVIOUS
    <2>2. /\ Formed(w) /\ w.base /\ w.bufsiz = n
          /\ w.flags = u.flags /\ w.type = u.type /\ w.ptr = u.ptr /\ w.cnt = u.cnt
          /\ (w.overrun <=> u.overrun) /\ w.file = u.file
          /\ w.off = u.off /\ (w.open <=> u.open)
      BY <1>1, <2>1, WithBufferIs
    <2>3. PICK z \in Nat : z = 0 /\ b = [w EXCEPT !.cnt = n, !.ptr = z]
      BY <1>0a, <1>4, <2>0, <2>1 DEF Provided
    <2>3a. [w EXCEPT !.cnt = n, !.ptr = z] = Move(w, z, n)
      <3>1. w \in FILE
        BY <2>2 DEF Formed
      <3> QED BY <3>1 DEF FILE, Move
    <2>3b. b = Move(w, z, n)
      BY <2>3, <2>3a, Zenon
    <2>4. Formed(b) /\ Kept(w, b) /\ b.ptr = z /\ b.cnt = n
      BY <2>2, <2>3b, MovedIs DEF Moved
    <2>5. u.type = "FBF"
      BY <1>0, <1>1, <1>2, <1>4 DEF NeedsBuffer, Ready, Same
    <2>6. Writable(b)
      BY <1>1, <2>2, <2>4 DEF Writable, Kept
    <2>7. ~u.overrun
      BY <1>2, <1>4 DEF NeedsBuffer, Ready
    <2>8. /\ b.base /\ b.type = "FBF" /\ b.bufsiz = n /\ ~b.overrun /\ b.open
          /\ b.off = s.off /\ b.ptr = 0 /\ b.flags = u.flags
      BY <1>1, <1>2, <2>2, <2>3, <2>4, <2>5, <2>7 DEF Ready, Same, Kept
    <2>9. s.off + 0 + 1 <= MaxLen
      BY <1>0 DEF Ready
    <2>10. Ready(H, b)
      BY <1>0, <1>1, <2>0, <2>4, <2>6, <2>8, <2>9 DEF Ready
    <2> QED BY <1>0, <1>1, <2>5, <2>8, <2>10 DEF WithOrWithout, Same
  <1>5. CASE NeedsBuffer(u) /\ ~e.mem
    <2>1. b = [u EXCEPT !.type = "NBF"]
      BY <1>0a, <1>5 DEF Provided
    <2>2. /\ Formed(b) /\ (b.base <=> u.base) /\ b.bufsiz = u.bufsiz
          /\ b.flags = u.flags /\ b.type = "NBF" /\ b.ptr = u.ptr /\ b.cnt = u.cnt
          /\ (b.overrun <=> u.overrun) /\ b.file = u.file /\ b.mem = u.mem
          /\ b.off = u.off /\ (b.open <=> u.open)
      BY <1>1, <2>1 DEF Formed, FILE
    <2>3. ~u.base
      BY <1>5 DEF NeedsBuffer
    <2>4. Writable(b)
      BY <1>1, <2>2 DEF Writable
    <2> QED BY <1>0, <1>1, <1>2, <2>2, <2>3, <2>4 DEF WithOrWithout, Ready, Same
  <1> QED BY <1>3, <1>4, <1>5

(* What putting a byte into the stream leaves. *)
Put(H, s, t) ==
  /\ Good(H, t) /\ t.open /\ Writable(t)
  /\ t.off + t.ptr <= s.off + s.ptr + 1
  /\ "WRT" \in s.flags => "WRT" \in t.flags
  /\ t.type = "LBF" <=> s.type = "LBF"

LEMMA FlsWritten ==
  ASSUME NEW H, NEW b, WithOrWithout(H, b), b.type = "NBF", NEW z \in Int, z = 0,
         NEW q \in Seq(Byte), Len(q) = 1, NEW t, t = [b EXCEPT !.cnt = z],
         NEW e, NEW r, r = _write(t, q, e)
  PROVE  Put(H, b, r.s)
  <1>0. /\ Formed(b) /\ b \in FILE /\ b.ptr \in Nat /\ b.off \in Nat /\ b.cnt \in Int
        /\ ~b.base /\ b.open /\ b.bufsiz = 0 /\ ~b.overrun
        /\ "WRT" \in b.flags /\ "READ" \notin b.flags
        /\ b.off + b.ptr + 1 <= MaxLen /\ MaxLen \in Nat
    BY StdioConstantsOK DEF WithOrWithout, Ready, Formed, FILE
  <1>3. /\ t \in FILE /\ Formed(t) /\ t.cnt = z /\ t.ptr = b.ptr /\ t.off = b.off
        /\ t.flags = b.flags /\ (t.base <=> b.base) /\ t.type = b.type
        /\ t.bufsiz = b.bufsiz /\ (t.overrun <=> b.overrun) /\ (t.open <=> b.open)
    BY <1>0 DEF Formed, FILE
  <1>5. Formed(t)
    BY <1>3
  <1>6. Fits(t, Len(q))
    BY <1>0, <1>3 DEF Fits
  <1>7. Wrote(t, Len(q), r)
    BY <1>5, <1>6, WriteIs
  <1>8. /\ "WRT" \in r.s.flags /\ "READ" \notin r.s.flags
        /\ ~r.s.base /\ r.s.open /\ r.s.type = "NBF" /\ r.s.bufsiz = 0
        /\ r.s.cnt = 0 /\ ~r.s.overrun /\ r.s.ptr = b.ptr
        /\ r.s.off = b.off \/ r.s.off = b.off + 1
    BY <1>0, <1>3, <1>7 DEF Same, Wrote
  <1>9. Good(H, r.s)
    BY <1>7, <1>8, GoodWriting DEF Wrote
  <1>10. r.s.off + r.s.ptr <= b.off + b.ptr + 1
    BY <1>0, <1>8
  <1> QED BY <1>8, <1>9, <1>10 DEF Put, Writable

(* A byte is stored in a stream with a buffer. *)
LEMMA FlsStored ==
  ASSUME NEW H, NEW b, WithOrWithout(H, b), b.base, NEW c \in Byte, NEW t, t = Store(b, c)
  PROVE  /\ Formed(t) /\ Stored(t) /\ t.base /\ t.open /\ t.type = b.type /\ t.off = b.off
         /\ "WRT" \in t.flags /\ "READ" \notin t.flags
         /\ t.bufsiz = b.bufsiz /\ t.bufsiz \in Nat /\ t.bufsiz > 0
         /\ t.ptr = b.ptr + 1 /\ t.ptr \in Nat
         /\ b.ptr < b.bufsiz => (t.overrun <=> b.overrun)
  <1>0. /\ Formed(b) /\ b.ptr \in Nat /\ b.off \in Nat /\ b.bufsiz \in Nat /\ b.bufsiz > 0
        /\ b.open /\ "WRT" \in b.flags /\ "READ" \notin b.flags
        /\ b.off + b.ptr + 1 <= MaxLen /\ MaxLen \in Nat
        /\ \A i \in 0 .. b.bufsiz - 1 : i < b.ptr => b.mem[i] # 0
    BY StdioConstantsOK DEF WithOrWithout, Ready, Formed, FILE
  <1>1. /\ Formed(t) /\ t.ptr = b.ptr + 1
        /\ t.flags = b.flags /\ t.type = b.type /\ (t.base <=> b.base) /\ t.bufsiz = b.bufsiz
        /\ t.off = b.off /\ (t.open <=> b.open)
        /\ b.ptr < b.bufsiz => (t.overrun <=> b.overrun)
        /\ \A i \in 0 .. b.bufsiz - 1 : t.mem[i] = IF i = b.ptr THEN c ELSE b.mem[i]
    BY <1>0, StoreIs
  <1>2. c # 0
    BY StdioConstantsOK
  <1>3. \A i \in 0 .. t.bufsiz - 1 : i < t.ptr => t.mem[i] # 0
    BY <1>0, <1>1, <1>2
  <1>4. Stored(t)
    BY <1>0, <1>1, <1>3 DEF Stored
  <1> QED BY <1>0, <1>1, <1>4

(* The buffer is emptied: what is in it is written, and _ptr and _cnt set. *)
LEMMA Emptied ==
  ASSUME NEW t, Formed(t), Stored(t), t.base, "WRT" \in t.flags,
         NEW z \in Nat, z = 0, NEW n \in Int, NEW e, NEW r,
         r = _write(Move(t, z, n), Buffered(t), e)
  PROVE  /\ Formed(r.s) /\ r.s.base /\ r.s.ptr = 0 /\ r.s.cnt = n
         /\ r.s.type = t.type /\ r.s.bufsiz = t.bufsiz /\ r.s.mem = t.mem
         /\ (r.s.overrun <=> t.overrun) /\ (r.s.open <=> t.open)
         /\ r.s.off \in Nat /\ r.s.off <= t.off + t.ptr /\ r.s.off <= MaxLen
         /\ r.s.flags \subseteq t.flags \cup {"ERR"} /\ t.flags \subseteq r.s.flags
         /\ r.c = 0 \/ r.c = -1
  <1>0. /\ t.ptr \in Nat /\ t.off \in Nat /\ MaxLen \in Nat /\ t.off + t.ptr <= MaxLen
    BY StdioConstantsOK DEF Formed, FILE, Stored
  <1>1. PICK q : q = Buffered(t) /\ q \in Seq(Byte) /\ Len(q) <= t.ptr
    BY BufferedBytes
  <1>2. PICK u : u = Move(t, z, n) /\ r = _write(u, q, e)
    BY <1>1
  <1>3. Formed(u) /\ Kept(t, u) /\ u.ptr = z /\ u.cnt = n
    BY <1>2, MovedIs DEF Moved
  <1>4. Len(q) \in Nat
    BY <1>1, LenProperties
  <1>5. Fits(u, Len(q))
    BY <1>0, <1>1, <1>3, <1>4 DEF Fits, Kept
  <1>6. Wrote(u, Len(q), r)
    BY <1>1, <1>2, <1>3, <1>5, WriteIs
  <1>7. r.s.off \in Nat /\ r.s.off <= t.off + t.ptr /\ r.s.off <= MaxLen
    BY <1>0, <1>1, <1>3, <1>4, <1>6 DEF Wrote, Kept
  <1> QED BY <1>3, <1>6, <1>7 DEF Wrote, Kept, Same

LEMMA FlsLine ==
  ASSUME NEW H, NEW b, WithOrWithout(H, b), b.type = "LBF", NEW c \in Byte,
         NEW t, t = Store(b, c), NEW z \in Nat, z = 0, NEW e, NEW r,
         r = _write(Move(t, z, z), Buffered(t), e)
  PROVE  Put(H, b, r.s)
  <1>0. /\ Formed(b) /\ b.base /\ b.ptr \in Nat /\ b.off \in Nat /\ b.bufsiz \in Nat
        /\ b.off + b.ptr + 1 <= MaxLen /\ MaxLen \in Nat
        /\ Limited(H, b) => ~b.overrun /\ b.ptr < b.bufsiz
    BY StdioConstantsOK DEF WithOrWithout, Ready, Formed, FILE
  <1>1. /\ Formed(t) /\ Stored(t) /\ t.base /\ t.open /\ t.type = b.type /\ t.off = b.off
        /\ "WRT" \in t.flags /\ "READ" \notin t.flags
        /\ t.bufsiz = b.bufsiz /\ t.bufsiz \in Nat /\ t.bufsiz > 0
        /\ t.ptr = b.ptr + 1 /\ t.ptr \in Nat
        /\ b.ptr < b.bufsiz => (t.overrun <=> b.overrun)
    BY <1>0, FlsStored
  <1>2. /\ Formed(r.s) /\ r.s.base /\ r.s.ptr = 0 /\ r.s.cnt = z
        /\ r.s.type = t.type /\ r.s.bufsiz = t.bufsiz /\ r.s.mem = t.mem
        /\ (r.s.overrun <=> t.overrun) /\ (r.s.open <=> t.open)
        /\ r.s.off \in Nat /\ r.s.off <= t.off + t.ptr /\ r.s.off <= MaxLen
        /\ r.s.flags \subseteq t.flags \cup {"ERR"} /\ t.flags \subseteq r.s.flags
    BY <1>1, Emptied
  <1>3. /\ "WRT" \in r.s.flags /\ "READ" \notin r.s.flags
        /\ r.s.ptr + r.s.cnt = 0
    BY <1>1, <1>2
  <1>4. Limited(H, r.s) => ~r.s.overrun /\ r.s.ptr < r.s.bufsiz
    BY <1>0, <1>1, <1>2 DEF Limited
  <1>5. Good(H, r.s)
    BY <1>0, <1>1, <1>2, <1>3, <1>4, GoodWriting
  <1>6. r.s.off + r.s.ptr <= b.off + b.ptr + 1
    BY <1>0, <1>1, <1>2
  <1> QED BY <1>1, <1>2, <1>3, <1>5, <1>6 DEF Put, Writable

LEMMA FlsUnfinished ==
  ASSUME NEW H, NEW b, WithOrWithout(H, b), b.type = "LBF", NEW c \in Byte,
         NEW t, t = Store(b, c), ~LineFull(t), NEW r, NEW n, n = -t.ptr,
         r = Move(t, t.ptr, n)
  PROVE  Put(H, b, r)
  <1>0. /\ Formed(b) /\ b.base /\ b.ptr \in Nat /\ b.off \in Nat /\ b.bufsiz \in Nat
        /\ b.off + b.ptr + 1 <= MaxLen /\ MaxLen \in Nat
        /\ Limited(H, b) => ~b.overrun /\ b.ptr < b.bufsiz
    BY StdioConstantsOK DEF WithOrWithout, Ready, Formed, FILE
  <1>1. /\ Formed(t) /\ Stored(t) /\ t.base /\ t.open /\ t.type = b.type /\ t.off = b.off
        /\ "WRT" \in t.flags /\ "READ" \notin t.flags
        /\ t.bufsiz = b.bufsiz /\ t.bufsiz \in Nat /\ t.bufsiz > 0
        /\ t.ptr = b.ptr + 1 /\ t.ptr \in Nat
        /\ b.ptr < b.bufsiz => (t.overrun <=> b.overrun)
    BY <1>0, FlsStored
  <1>2. n \in Int /\ t.ptr + n = 0
    BY <1>1
  <1>3. Formed(r) /\ Kept(t, r) /\ r.ptr = t.ptr /\ r.cnt = n
    <2>1. PICK p \in Nat, m \in Int : p = t.ptr /\ m = n
      BY <1>1, <1>2
    <2>2. r = Move(t, p, m) /\ Formed(t)
      BY <1>1, <2>1
    <2>3. Formed(r) /\ Kept(t, r) /\ r.ptr = p /\ r.cnt = m
      BY <2>2, MovedIs DEF Moved
    <2> QED BY <2>1, <2>3
  <1>4. t.ptr < t.bufsiz
    BY <1>1 DEF LineFull
  <1>5. Limited(H, r) => ~r.overrun
    BY <1>0, <1>1, <1>3 DEF Limited, Kept
  <1>6. Good(H, r)
    BY <1>0, <1>1, <1>2, <1>3, <1>4, <1>5, GoodWriting DEF Kept, Stored
  <1> QED BY <1>0, <1>1, <1>3, <1>6 DEF Put, Writable, Kept

LEMMA FlsFull ==
  ASSUME NEW H, NEW b, WithOrWithout(H, b), b.type = "FBF", NEW c \in Byte,
         NEW z \in Nat, z = 0, NEW e, NEW u,
         u = _write(Move(b, z, b.bufsiz), Buffered(b), e),
         NEW t, t = u.s \/ t = [Store(u.s, c) EXCEPT !.cnt = @ - 1]
  PROVE  Put(H, b, t)
  <1>0. /\ Formed(b) /\ b.base /\ b.ptr \in Nat /\ b.off \in Nat /\ b.bufsiz \in Nat
        /\ b.bufsiz > 0 /\ b.open /\ "WRT" \in b.flags /\ "READ" \notin b.flags
        /\ b.off + b.ptr + 1 <= MaxLen /\ MaxLen \in Nat
        /\ \A i \in 0 .. b.bufsiz - 1 : i < b.ptr => b.mem[i] # 0
        /\ Limited(H, b) => ~b.overrun
    BY StdioConstantsOK DEF WithOrWithout, Ready, Formed, FILE
  <1>1. Stored(b)
    BY <1>0 DEF Stored
  <1>2. PICK w : w = u.s
    OBVIOUS
  <1>3. /\ Formed(w) /\ w.base /\ w.ptr = 0 /\ w.cnt = b.bufsiz
        /\ w.type = b.type /\ w.bufsiz = b.bufsiz /\ w.mem = b.mem
        /\ (w.overrun <=> b.overrun) /\ (w.open <=> b.open)
        /\ w.off \in Nat /\ w.off <= b.off + b.ptr /\ w.off <= MaxLen
        /\ w.flags \subseteq b.flags \cup {"ERR"} /\ b.flags \subseteq w.flags
    BY <1>0, <1>1, <1>2, Emptied
  <1>4. /\ "WRT" \in w.flags /\ "READ" \notin w.flags
        /\ w.ptr + w.cnt <= w.bufsiz /\ w.ptr <= w.bufsiz
        /\ Limited(H, w) => ~w.overrun
    BY <1>0, <1>3 DEF Limited
  <1>5. CASE t = w
    <2>1. Good(H, w)
      BY <1>0, <1>3, <1>4, GoodWriting
    <2>2. w.off + w.ptr <= b.off + b.ptr + 1
      BY <1>0, <1>3
    <2> QED BY <1>0, <1>3, <1>4, <1>5, <2>1, <2>2 DEF Put, Writable
  <1>6. CASE t = [Store(w, c) EXCEPT !.cnt = @ - 1]
    <2>1. PICK x : x = Store(w, c)
      OBVIOUS
    <2>2. /\ Formed(x) /\ x.ptr = w.ptr + 1
          /\ x.flags = w.flags /\ x.type = w.type /\ (x.base <=> w.base) /\ x.cnt = w.cnt
          /\ x.bufsiz = w.bufsiz /\ x.off = w.off /\ (x.open <=> w.open)
          /\ w.ptr < w.bufsiz => (x.overrun <=> w.overrun)
          /\ \A i \in 0 .. w.bufsiz - 1 : x.mem[i] = IF i = w.ptr THEN c ELSE w.mem[i]
      BY <1>3, <2>1, StoreIs
    <2>3. PICK n \in Int : n = b.bufsiz - 1 /\ n = x.cnt - 1
      BY <1>0, <1>3, <2>2
    <2>4. /\ Formed(t) /\ t.ptr = 1 /\ t.cnt = n
          /\ t.flags = w.flags /\ t.type = w.type /\ t.base
          /\ t.bufsiz = w.bufsiz /\ t.off = w.off /\ t.open /\ t.mem = x.mem
          /\ t.overrun <=> x.overrun
      <3>1. t = [x EXCEPT !.cnt = n]
        BY <1>6, <2>1, <2>3
      <3>2. x \in FILE /\ x.ptr = 1
        BY <1>3, <2>2 DEF Formed
      <3>3. t \in FILE /\ Kept(x, t) /\ t.ptr = x.ptr /\ t.cnt = n
        BY <3>1, <3>2 DEF FILE, Kept
      <3> QED BY <1>0, <1>3, <2>2, <3>2, <3>3 DEF Kept, Formed
    <2>5. c # 0
      BY StdioConstantsOK
    <2>6. \A i \in 0 .. t.bufsiz - 1 : i < t.ptr => t.mem[i] # 0
      BY <1>0, <1>3, <2>2, <2>4, <2>5
    <2>7. /\ Limited(H, t) => ~t.overrun
          /\ t.ptr <= t.bufsiz /\ t.ptr + t.cnt <= t.bufsiz /\ t.cnt >= 0
      BY <1>0, <1>3, <1>4, <2>2, <2>3, <2>4 DEF Limited
    <2>8. t.off + t.ptr <= MaxLen /\ t.off + t.ptr <= b.off + b.ptr + 1
      BY <1>0, <1>3, <2>4
    <2>9. t.type = "FBF" /\ "WRT" \in t.flags /\ "READ" \notin t.flags /\ t.bufsiz > 0
      BY <1>0, <1>3, <1>4, <2>4
    <2>10. Good(H, t)
      BY <2>4, <2>6, <2>7, <2>8, <2>9, GoodWriting
    <2> QED BY <2>4, <2>8, <2>9, <2>10 DEF Put, Writable
  <1> QED BY <1>2, <1>5, <1>6

LEMMA FlsGood ==
  ASSUME NEW H, NEW s, Ready(H, s), NEW c \in Byte, NEW e, NEW r, r = _flsbuf(c, s, e)
  PROVE  Put(H, s, r.s)
  <1> DEFINE b == Provided(Marked(s), e)
             t == Store(b, c)
             u == _write(Move(b, 0, b.bufsiz), Buffered(b), e)
  <1>1. r = CASE b.type = "LBF" /\ (c = Nl \/ LineFull(t)) ->
                   _write(Move(t, 0, 0), Buffered(t), e)
              [] b.type = "LBF" /\ ~(c = Nl \/ LineFull(t)) ->
                   Result([t EXCEPT !.cnt = -t.ptr], c)
              [] b.type = "NBF" -> _write([b EXCEPT !.cnt = 0], <<c>>, e)
              [] OTHER -> IF u.c = -1 THEN u
                          ELSE Result([Store(u.s, c) EXCEPT !.cnt = @ - 1], c)
    BY DEF _flsbuf, Marked, Provided, Move
  <1>2. /\ WithOrWithout(H, b) /\ b.off = s.off /\ b.ptr <= s.ptr
        /\ b.type = "LBF" <=> s.type = "LBF"
    BY FlsReady
  <1>3. b.type \in {"FBF", "LBF", "NBF"} /\ b \in FILE
    BY <1>2 DEF WithOrWithout, Ready, Formed, FILE
  <1>4. t = Store(b, c) /\ u = _write(Move(b, 0, b.bufsiz), Buffered(b), e)
    OBVIOUS
  <1>5. Put(H, b, r.s)
    <2>1. CASE b.type = "LBF" /\ (c = Nl \/ LineFull(t))
      <3>1. r = _write(Move(t, 0, 0), Buffered(t), e)
        BY <1>1, <2>1
      <3> HIDE DEF b, t, u
      <3>2. PICK z \in Nat : z = 0 /\ r = _write(Move(t, z, z), Buffered(t), e)
        BY <3>1
      <3> QED BY <1>2, <1>4, <2>1, <3>2, FlsLine
    <2>2. CASE b.type = "LBF" /\ ~(c = Nl \/ LineFull(t))
      <3>1. r.s = [t EXCEPT !.cnt = -t.ptr]
        BY <1>1, <2>2 DEF Result
      <3> HIDE DEF b, t, u
      <3>2. PICK n, v : n = -t.ptr /\ v = r.s /\ v = Move(t, t.ptr, n)
        <4>1. b.base
          BY <1>2, <2>2 DEF WithOrWithout
        <4>2. t \in FILE
          BY <1>2, <1>4, <4>1, FlsStored DEF Formed
        <4>3. [t EXCEPT !.cnt = -t.ptr] = Move(t, t.ptr, -t.ptr)
          BY <4>2 DEF FILE, Move
        <4> QED BY <3>1, <4>3
      <3>3. ~LineFull(t)
        BY <2>2
      <3>4. Put(H, b, v)
        BY <1>2, <1>4, <2>2, <3>2, <3>3, FlsUnfinished
      <3> QED BY <3>2, <3>4
    <2>3. CASE b.type = "NBF"
      <3>1. r = _write([b EXCEPT !.cnt = 0], <<c>>, e)
        BY <1>1, <2>3
      <3> HIDE DEF b, t, u
      <3>2. <<c>> \in Seq(Byte) /\ Len(<<c>>) = 1
        OBVIOUS
      <3>3. PICK q : q = <<c>> /\ q \in Seq(Byte) /\ Len(q) = 1
        BY <3>2
      <3>4. PICK v : v = [b EXCEPT !.cnt = 0] /\ r = _write(v, q, e)
        BY <3>1, <3>3
      <3>5. PICK z \in Int : z = 0 /\ v = [b EXCEPT !.cnt = z]
        BY <3>4
      <3>6. q \in Seq(Byte) /\ Len(q) = 1
        BY <3>3
      <3>7. r = _write(v, q, e)
        BY <3>4
      <3> QED BY <1>2, <2>3, <3>5, <3>6, <3>7, FlsWritten
    <2>4. CASE b.type = "FBF"
      <3>1. r = IF u.c = -1 THEN u
                ELSE Result([Store(u.s, c) EXCEPT !.cnt = @ - 1], c)
        BY <1>1, <2>4
      <3> HIDE DEF b, t, u
      <3>2. r.s = u.s \/ r.s = [Store(u.s, c) EXCEPT !.cnt = @ - 1]
        BY <3>1 DEF Result
      <3>3. PICK z \in Nat : z = 0 /\ u = _write(Move(b, z, b.bufsiz), Buffered(b), e)
        BY <1>4
      <3>4. PICK v : v = r.s /\ (v = u.s \/ v = [Store(u.s, c) EXCEPT !.cnt = @ - 1])
        BY <3>2
      <3>5. Put(H, b, v)
        BY <1>2, <2>4, <3>3, <3>4, FlsFull
      <3> QED BY <3>4, <3>5
    <2> HIDE DEF b, t, u
    <2> QED BY <1>3, <2>1, <2>2, <2>3, <2>4
  <1> HIDE DEF b, t, u
  <1>6. /\ b.ptr \in Nat /\ b.off \in Nat /\ r.s.ptr \in Nat /\ r.s.off \in Nat
        /\ s.ptr \in Nat /\ "WRT" \in b.flags
    BY <1>2, <1>3, <1>5 DEF Put, Good, Formed, FILE, WithOrWithout, Ready
  <1> QED BY <1>2, <1>5, <1>6 DEF Put

-----------------------------------------------------------------------------
(* The program may write, and there is space in the file for n bytes. *)
Space(s, n) == s.open /\ Writable(s) /\ s.off + s.ptr + n <= MaxLen

(* Good() says what _flsbuf() needs, whatever _cnt is. *)
LEMMA GoodReady ==
  ASSUME NEW H, NEW s, Good(H, s), Space(s, 1)
  PROVE  Ready(H, s)
  <1>0. /\ Formed(s) /\ s \in FILE /\ s.ptr \in Nat /\ s.cnt \in Int /\ s.off \in Nat
        /\ s.bufsiz \in Nat
    BY DEF Good, Formed, FILE
  <1>3. s.base /\ Limited(H, s) /\ s.type = "LBF" => s.ptr < s.bufsiz
    BY <1>0 DEF Good, Room, Limited, Space
  <1>4. s.base /\ Limited(H, s) => ~s.overrun /\ s.ptr <= s.bufsiz
    BY DEF Good, Room, Space
  <1>5. \A i \in 0 .. s.bufsiz - 1 : i < s.ptr => s.mem[i] # 0
    BY DEF Good, Stored
  <1>6. /\ s.base => s.type # "NBF" /\ s.bufsiz > 0
        /\ ~s.base => s.type # "LBF" /\ s.bufsiz = 0 /\ ~s.overrun
        /\ ~("READ" \in s.flags /\ "WRT" \in s.flags)
    BY DEF Good, Kinds, Space
  <1> QED BY <1>0, <1>3, <1>4, <1>5, <1>6 DEF Ready, Space

LEMMA AnyCount ==
  ASSUME NEW s, Formed(s), NEW m \in Int, NEW u, u = [s EXCEPT !.cnt = m]
  PROVE  Formed(u) /\ Kept(s, u) /\ u.ptr = s.ptr /\ u.cnt = m
  <1>0. s \in FILE
    BY DEF Formed
  <1>1. u \in FILE /\ Kept(s, u) /\ u.ptr = s.ptr /\ u.cnt = m
    BY <1>0 DEF FILE, Kept
  <1> QED BY <1>1 DEF Formed, Kept

(* A byte is stored, and _cnt goes down. *)
LEMMA StoreGood ==
  ASSUME NEW H, NEW s, Good(H, s), Space(s, 1), s.base, NEW c \in Byte,
         NEW t, Formed(t), t.ptr = s.ptr + 1, t.cnt = s.cnt - 1,
         t.flags = s.flags, t.type = s.type, t.base, t.bufsiz = s.bufsiz,
         t.off = s.off, t.open,
         s.ptr < s.bufsiz => (t.overrun <=> s.overrun),
         \A i \in 0 .. s.bufsiz - 1 : t.mem[i] = IF i = s.ptr THEN c ELSE s.mem[i],
         Limited(H, s) =>
           \/ s.cnt > 0
           \/ s.type = "LBF" /\ s.ptr + s.cnt = 0 /\ s.ptr + 1 < s.bufsiz
  PROVE  Put(H, s, t)
  <1>0. /\ s.ptr \in Nat /\ s.cnt \in Int /\ s.off \in Nat /\ s.bufsiz \in Nat
        /\ s.off + s.ptr + 1 <= MaxLen /\ MaxLen \in Nat
        /\ s.type # "NBF" /\ s.bufsiz > 0
        /\ ~("READ" \in s.flags /\ "WRT" \in s.flags)
    BY StdioConstantsOK DEF Good, Formed, FILE, Space, Kinds
  <1>1. Writable(s) /\ Writable(t) /\ ~Reading(t)
    BY <1>0 DEF Space, Writable, Reading
  <1>2. c # 0
    BY StdioConstantsOK
  <1>3. Kinds(t)
    BY <1>0, <1>1 DEF Kinds, Writable
  <1>4. Stored(t)
    <2>1. \A i \in 0 .. t.bufsiz - 1 : i < t.ptr => t.mem[i] # 0
      BY <1>0, <1>2 DEF Good, Stored
    <2>2. ASSUME "WRT" \notin t.flags
          PROVE  \A i \in 0 .. t.bufsiz - 1 : i < t.ptr + t.cnt => t.mem[i] # 0
      BY <1>0, <1>2, <2>2 DEF Good, Stored
    <2> QED BY <1>0, <2>1, <2>2 DEF Stored
  <1>5. Room(H, t)
    <2>1. SUFFICES ASSUME Limited(H, t)
                   PROVE  /\ ~t.overrun
                          /\ t.ptr <= t.bufsiz /\ t.ptr + t.cnt <= t.bufsiz
                          /\ t.cnt < 0 => t.type = "LBF" /\ t.ptr + t.cnt = 0
                          /\ t.type = "LBF" =>
                               \/ t.ptr + t.cnt = 0 /\ t.ptr < t.bufsiz
                               \/ /\ "unget_unread" \in H /\ "WRT" \notin t.flags
                                  /\ t.ptr + t.cnt = 1 /\ t.cnt >= 0
      BY DEF Room
    <2>2. Limited(H, s)
      BY <2>1 DEF Limited
    <2>3. /\ ~s.overrun /\ s.ptr <= s.bufsiz /\ s.ptr + s.cnt <= s.bufsiz
          /\ s.type = "LBF" =>
               \/ s.ptr + s.cnt = 0 /\ s.ptr < s.bufsiz
               \/ /\ "unget_unread" \in H /\ "WRT" \notin s.flags
                  /\ s.ptr + s.cnt = 1 /\ s.cnt >= 0
      BY <1>1, <2>2 DEF Good, Room, Space
    <2>4. CASE s.cnt > 0
      BY <1>0, <2>3, <2>4
    <2>5. CASE s.type = "LBF" /\ s.ptr + s.cnt = 0 /\ s.ptr + 1 < s.bufsiz
      BY <1>0, <2>3, <2>5
    <2> QED BY <2>2, <2>4, <2>5
  <1>6. Good(H, t)
    BY <1>1, <1>3, <1>4, <1>5 DEF Good, Window
  <1> QED BY <1>0, <1>1, <1>6 DEF Put

(* One byte, of putc() or of fwrite(). *)
LEMMA PutcGood ==
  ASSUME NEW H, NEW s, Good(H, s), Space(s, 1), NEW c \in Byte, NEW e, NEW r,
         r = __putc(c, s, e)
  PROVE  Put(H, s, r.s)
  <1>0. Formed(s) /\ s.cnt \in Int
    BY DEF Good, Formed, FILE
  <1>1. CASE ~(s.cnt > 0)
    <2>1. r = _flsbuf(c, s, e)
      BY <1>1 DEF __putc
    <2> QED BY <2>1, GoodReady, FlsGood
  <1>2. CASE s.cnt > 0
    <2>1. PICK x : x = Store(s, c)
      OBVIOUS
    <2>2. /\ Formed(x) /\ x.ptr = s.ptr + 1
          /\ x.flags = s.flags /\ x.type = s.type /\ (x.base <=> s.base) /\ x.cnt = s.cnt
          /\ x.bufsiz = s.bufsiz /\ x.off = s.off /\ (x.open <=> s.open)
          /\ s.ptr < s.bufsiz => (x.overrun <=> s.overrun)
          /\ \A i \in 0 .. s.bufsiz - 1 : x.mem[i] = IF i = s.ptr THEN c ELSE s.mem[i]
      BY <1>0, <2>1, StoreIs
    <2>3. PICK m \in Int : m = s.cnt - 1 /\ r.s = [x EXCEPT !.cnt = m]
      <3>1. r.s = [x EXCEPT !.cnt = @ - 1]
        BY <1>2, <2>1 DEF __putc, Result
      <3>2. x \in FILE
        BY <2>2 DEF Formed
      <3>3. [x EXCEPT !.cnt = @ - 1] = [x EXCEPT !.cnt = s.cnt - 1]
        BY <2>2, <3>2 DEF FILE
      <3> QED BY <1>0, <3>1, <3>3
    <2>31. PICK t : t = [x EXCEPT !.cnt = m] /\ r.s = t
      BY <2>3
    <2>4. Formed(t) /\ Kept(x, t) /\ t.ptr = x.ptr /\ t.cnt = m
      BY <2>2, <2>31, AnyCount
    <2>5. s.open /\ s.base
      BY <1>0, <1>2 DEF Good, Kinds, Space
    <2>6. /\ Formed(t) /\ t.ptr = s.ptr + 1 /\ t.cnt = s.cnt - 1
          /\ t.flags = s.flags /\ t.type = s.type /\ t.base /\ t.bufsiz = s.bufsiz
          /\ t.off = s.off /\ t.open
          /\ s.ptr < s.bufsiz => (t.overrun <=> s.overrun)
          /\ \A i \in 0 .. s.bufsiz - 1 : t.mem[i] = IF i = s.ptr THEN c ELSE s.mem[i]
      BY <2>2, <2>3, <2>4, <2>5 DEF Kept
    <2>7. Put(H, s, t)
      BY <1>2, <2>5, <2>6, StoreGood
    <2> QED BY <2>31, <2>7
  <1> QED BY <1>1, <1>2

(* One byte of fwrite() into a line buffer. *)
LEMMA PutLineGood ==
  ASSUME NEW H, NEW s, Good(H, s), Space(s, 1), s.type = "LBF",
         "WRT" \notin s.flags => "line_update" \in H,
         NEW c \in Byte, NEW e, NEW r, r = PutLine(c, s, e)
  PROVE  Put(H, s, r.s)
  <1>0. /\ Formed(s) /\ s \in FILE /\ s.cnt \in Int /\ s.ptr \in Nat /\ s.bufsiz \in Nat
        /\ s.open /\ s.base
    BY DEF Good, Formed, FILE, Kinds, Space
  <1>0a. PICK m \in Int : m = s.cnt - 1
    BY <1>0
  <1>1. PICK u : m = s.cnt - 1 /\ u = [s EXCEPT !.cnt = m]
    BY <1>0a
  <1>2. Formed(u) /\ Kept(s, u) /\ u.ptr = s.ptr /\ u.cnt = m
    BY <1>0, <1>1, AnyCount
  <1>3. r = IF u.cnt > -u.bufsiz /\ c # Nl THEN Result(Store(u, c), c)
            ELSE Result(_flsbuf(c, u, e).s, IF c = Ff THEN -1 ELSE _flsbuf(c, u, e).c)
    <2>1. u = [s EXCEPT !.cnt = @ - 1]
      BY <1>0, <1>1 DEF FILE
    <2> QED BY <2>1 DEF PutLine
  <1>4. CASE ~(u.cnt > -u.bufsiz /\ c # Nl)
    <2>1. PICK q : q = _flsbuf(c, u, e) /\ r.s = q.s
      BY <1>3, <1>4 DEF Result
    <2>2. Ready(H, u)
      BY <1>2, GoodReady DEF Ready, Kept, Limited, Writable
    <2>3. Put(H, u, r.s)
      BY <2>1, <2>2, FlsGood
    <2> QED BY <1>2, <2>3 DEF Put, Kept
  <1>5. CASE u.cnt > -u.bufsiz /\ c # Nl
    <2>1. PICK t : t = Store(u, c) /\ r.s = t
      BY <1>3, <1>5 DEF Result
    <2>2. /\ Formed(t) /\ t.ptr = u.ptr + 1
          /\ t.flags = u.flags /\ t.type = u.type /\ (t.base <=> u.base) /\ t.cnt = u.cnt
          /\ t.bufsiz = u.bufsiz /\ t.off = u.off /\ (t.open <=> u.open)
          /\ u.ptr < u.bufsiz => (t.overrun <=> u.overrun)
          /\ \A i \in 0 .. u.bufsiz - 1 : t.mem[i] = IF i = u.ptr THEN c ELSE u.mem[i]
      BY <1>2, <2>1, StoreIs
    <2>3. ASSUME Limited(H, s) PROVE s.ptr + s.cnt = 0 /\ s.ptr + 1 < s.bufsiz
      <3>1. s.ptr + s.cnt = 0 /\ s.ptr < s.bufsiz
        BY <1>0, <2>3 DEF Good, Room, Space, Limited
      <3>2. s.cnt - 1 > -s.bufsiz
        BY <1>1, <1>2, <1>5 DEF Kept
      <3> QED BY <1>0, <3>1, <3>2
    <2>4. Put(H, s, t)
      BY <1>0, <1>1, <1>2, <2>2, <2>3, StoreGood DEF Kept
    <2> QED BY <2>1, <2>4
  <1> QED BY <1>4, <1>5

-----------------------------------------------------------------------------
(* A set with 0 and with the successors of its elements up to n. *)
LEMMA UpTo ==
  ASSUME NEW n \in Nat, NEW T, 0 \in T, \A k \in 1 .. n : k - 1 \in T => k \in T
  PROVE  \A k \in 0 .. n : k \in T
  <1> DEFINE M == (0 .. n) \ T
  <1> SUFFICES ASSUME M # {} PROVE FALSE
    OBVIOUS
  <1>1. M \in SUBSET Nat
    OBVIOUS
  <1>2. IsWellFoundedOn(OpToRel(<, Nat), Nat)
    BY NatLessThanWellFounded
  <1>3. PICK x \in M : \A y \in M : ~(<<y, x>> \in OpToRel(<, Nat))
    <2> HIDE DEF M
    <2> QED BY <1>1, <1>2, WFMin
  <1>4. x \in 1 .. n /\ x - 1 \in 0 .. n /\ x - 1 \in T
    <2>1. x \in 1 .. n /\ x - 1 \in 0 .. n
      OBVIOUS
    <2>2. <<x - 1, x>> \in OpToRel(<, Nat)
      BY <2>1 DEF OpToRel
    <2> QED BY <1>3, <2>1, <2>2
  <1> QED BY <1>4

(* The loop of fwrite(). *)
PutsAre(g, n, s, bytes, e) ==
  g = [i \in 0 .. n |-> IF i = 0 THEN Result(s, 0)
                        ELSE PutFrom(g[i - 1], bytes[i], s.type, e)]

LEMMA PutsExist ==
  ASSUME NEW s, NEW bytes, NEW e, NEW n \in Nat
  PROVE  \E g : PutsAre(g, n, s, bytes, e)
  <1> DEFINE T == {k \in Nat : \E g : PutsAre(g, k, s, bytes, e)}
  <1>1. 0 \in T
    <2> DEFINE g == [k \in 0 .. 0 |-> Result(s, 0)]
    <2>1. PutsAre(g, 0, s, bytes, e)
      BY DEF PutsAre
    <2> QED BY <2>1
  <1>2. ASSUME NEW k \in 1 .. n, k - 1 \in T PROVE k \in T
    <2>1. PICK g : PutsAre(g, k - 1, s, bytes, e)
      BY <1>2
    <2> DEFINE h == [j \in 0 .. k |-> IF j = k THEN PutFrom(g[k - 1], bytes[k], s.type, e)
                                      ELSE g[j]]
    <2>2. \A j \in 0 .. k - 1 : h[j] = g[j]
      OBVIOUS
    <2>3. \A j \in 0 .. k - 1 : g[j] = IF j = 0 THEN Result(s, 0)
                                       ELSE PutFrom(g[j - 1], bytes[j], s.type, e)
      BY <2>1 DEF PutsAre
    <2>4. ASSUME NEW j \in 0 .. k
          PROVE  h[j] = IF j = 0 THEN Result(s, 0)
                        ELSE PutFrom(h[j - 1], bytes[j], s.type, e)
      BY <2>2, <2>3
    <2>5. PutsAre(h, k, s, bytes, e)
      BY <2>4 DEF PutsAre
    <2> QED BY <2>5
  <1>3. n \in T
    <2> HIDE DEF T
    <2>1. \A k \in 1 .. n : k - 1 \in T => k \in T
      BY <1>2
    <2>2. \A k \in 0 .. n : k \in T
      BY <1>1, <2>1, UpTo
    <2> QED BY <2>2
  <1> QED BY <1>3

(* What k bytes leave. *)
Written(H, s, t, k) ==
  /\ Good(H, t) /\ t.open /\ Writable(t)
  /\ t.off + t.ptr <= s.off + s.ptr + k
  /\ "WRT" \in s.flags => "WRT" \in t.flags
  /\ t.type = "LBF" <=> s.type = "LBF"

LEMMA PutFromGood ==
  ASSUME NEW H, NEW s, Good(H, s), NEW n \in Nat, Space(s, n),
         s.type = "LBF" /\ "WRT" \notin s.flags => "line_update" \in H,
         NEW k \in 1 .. n, NEW a, Written(H, s, a.s, k - 1), NEW c \in Byte, NEW e,
         NEW r, r = PutFrom(a, c, s.type, e)
  PROVE  Written(H, s, r.s, k)
  <1>0. /\ s.ptr \in Nat /\ s.off \in Nat /\ a.s.ptr \in Nat /\ a.s.off \in Nat
        /\ MaxLen \in Nat /\ s.off + s.ptr + n <= MaxLen
    BY StdioConstantsOK DEF Good, Formed, FILE, Written, Space
  <1>1. CASE a.c = -1
    <2>1. r = a
      BY <1>1 DEF PutFrom
    <2> QED BY <1>0, <2>1 DEF Written
  <1>2. CASE a.c # -1
    <2>1. Good(H, a.s) /\ Space(a.s, 1)
      BY <1>0 DEF Written, Space
    <2>2. Put(H, a.s, r.s)
      <3>1. CASE s.type = "LBF"
        <4>1. r = PutLine(c, a.s, e)
          BY <1>2, <3>1 DEF PutFrom
        <4>2. a.s.type = "LBF" /\ ("WRT" \notin a.s.flags => "line_update" \in H)
          BY <3>1 DEF Written
        <4> QED BY <2>1, <4>1, <4>2, PutLineGood
      <3>2. CASE s.type # "LBF"
        <4>1. r = __putc(c, a.s, e)
          BY <1>2, <3>2 DEF PutFrom
        <4> QED BY <2>1, <4>1, PutcGood
      <3> QED BY <3>1, <3>2
    <2>3. r.s.ptr \in Nat /\ r.s.off \in Nat
      BY <2>2 DEF Put, Good, Formed, FILE
    <2> QED BY <1>0, <2>2, <2>3 DEF Put, Written
  <1> QED BY <1>1, <1>2

LEMMA WriteGood ==
  ASSUME NEW H, NEW s, Good(H, s), NEW bytes \in Seq(Byte), Space(s, Len(bytes)),
         s.type = "LBF" /\ "WRT" \notin s.flags => "line_update" \in H, NEW e
  PROVE  Good(H, Write(s, bytes, e).s)
  <1>0. PICK n \in Nat : n = Len(bytes)
    BY LenProperties
  <1>1. PICK h : PutsAre(h, n, s, bytes, e)
    BY PutsExist
  <1>2. PICK g : g = PutUpTo(s, bytes, e) /\ PutsAre(g, n, s, bytes, e)
    BY <1>0, <1>1 DEF PutUpTo, PutsAre
  <1>3. \A k \in 0 .. n : g[k] = IF k = 0 THEN Result(s, 0)
                                 ELSE PutFrom(g[k - 1], bytes[k], s.type, e)
    BY <1>2 DEF PutsAre
  <1> DEFINE T == {k \in Nat : Written(H, s, g[k].s, k)}
  <1>4. 0 \in T
    <2>1. g[0].s = s
      BY <1>3 DEF Result
    <2>2. s.ptr \in Nat /\ s.off \in Nat /\ s.open /\ Writable(s)
      BY DEF Good, Formed, FILE, Space
    <2> QED BY <2>1, <2>2 DEF Written
  <1>5. ASSUME NEW k \in 1 .. n, k - 1 \in T PROVE k \in T
    <2>1. PICK a : a = g[k - 1]
      OBVIOUS
    <2>2. g[k] = PutFrom(a, bytes[k], s.type, e)
      BY <1>3, <2>1
    <2>3. Written(H, s, a.s, k - 1)
      BY <1>5, <2>1
    <2>4. bytes[k] \in Byte
      BY <1>0, ElementOfSeq
    <2>5. Space(s, n)
      BY <1>0
    <2>6. Written(H, s, g[k].s, k)
      BY <2>2, <2>3, <2>4, <2>5, PutFromGood
    <2> QED BY <2>6
  <1>6. n \in T
    <2> HIDE DEF T
    <2>1. \A k \in 1 .. n : k - 1 \in T => k \in T
      BY <1>5
    <2>2. \A k \in 0 .. n : k \in T
      BY <1>4, <2>1, UpTo
    <2> QED BY <2>2
  <1> QED BY <1>0, <1>2, <1>6 DEF Write, Written

-----------------------------------------------------------------------------
(* The program may read. *)
Readable(s) ==
  s.open /\ s.cnt >= 0 /\ "WRT" \notin s.flags /\ ("READ" \in s.flags \/ "RW" \in s.flags)

(* What _filbuf() makes of the stream before it reads. *)
FilMarked(s) == IF "RW" \in s.flags THEN Set(s, {"READ"}, {}) ELSE s
FilProvided(s, e) ==
  IF ~NeedsBuffer(s) THEN s
  ELSE IF e.mem THEN [WithBuffer(s, TbSize) EXCEPT !.fill = TRUE]
  ELSE [s EXCEPT !.type = "NBF"]

Prepared(H, s, u) ==
  /\ Formed(u) /\ u.open /\ "READ" \in u.flags /\ "WRT" \notin u.flags
  /\ u.file = s.file /\ u.off = s.off
  /\ u.base => u.type # "NBF" /\ u.bufsiz > 0
  /\ ~u.base => u.type = "NBF" /\ u.bufsiz = 0 /\ ~u.overrun
  /\ u.base /\ Limited(H, u) => ~u.overrun

LEMMA FilMarks ==
  ASSUME NEW H, NEW s, Good(H, s), Readable(s), NEW t, t = FilMarked(s)
  PROVE  /\ Formed(t) /\ Same(s, t) /\ t.file = s.file /\ t.off = s.off
         /\ "READ" \in t.flags /\ "WRT" \notin t.flags
         /\ t.flags \subseteq s.flags \cup {"READ"} /\ s.flags \subseteq t.flags
         /\ "RW" \notin s.flags => t = s
  <1>0. Formed(s)
    BY DEF Good
  <1>1. CASE "RW" \in s.flags
    <2>1. PICK on \in SUBSET Flag, no \in SUBSET Flag : on = {"READ"} /\ no = {} /\ t = Set(s, on, no)
      BY <1>1 DEF FilMarked, Flag
    <2>2. /\ Formed(t) /\ Same(s, t) /\ t.file = s.file /\ t.off = s.off
          /\ t.flags = (s.flags \cup on) \ no
      <3>1. t = Set(s, on, no)
        BY <2>1
      <3>2. Flagged(s, on, no, t)
        BY <1>0, <3>1, SetIs
      <3> QED BY <3>2 DEF Flagged
    <2> QED BY <1>1, <2>1, <2>2 DEF Readable
  <1>2. CASE "RW" \notin s.flags
    BY <1>0, <1>2 DEF FilMarked, Readable, Same
  <1> QED BY <1>1, <1>2

(* At the end of the file nothing else happens. *)
LEMMA FilEnd ==
  ASSUME NEW H, NEW s, Good(H, s), Readable(s), "EOF" \in s.flags,
         NEW t, t = FilMarked(s)
  PROVE  Good(H, t) /\ Readable(t)
  <1>1. /\ Formed(t) /\ Same(s, t) /\ t.file = s.file /\ t.off = s.off
        /\ "READ" \in t.flags /\ "WRT" \notin t.flags
        /\ t.flags \subseteq s.flags \cup {"READ"} /\ s.flags \subseteq t.flags
        /\ "RW" \notin s.flags => t = s
    BY FilMarks
  <1>2. CASE "RW" \notin s.flags
    BY <1>1, <1>2
  <1>3. CASE "RW" \in s.flags
    <2>0. "RW" \in t.flags /\ "WRT" \notin s.flags
      BY <1>1, <1>3 DEF Readable
    <2>1. Kinds(t)
      BY <1>1 DEF Good, Kinds, Same
    <2>2. Stored(t)
      BY <1>1, <2>0 DEF Good, Stored, Same
    <2>3. Writable(s)
      BY <1>3 DEF Writable
    <2>4. Room(H, t)
      BY <1>1, <2>0, <2>3 DEF Good, Room, Same, Limited
    <2>5. Window(H, t)
      BY <2>0 DEF Window, Reading
    <2> QED BY <1>1, <2>1, <2>2, <2>4, <2>5 DEF Good, Readable, Same
  <1> QED BY <1>2, <1>3

LEMMA FilPrepares ==
  ASSUME NEW H, NEW s, Good(H, s), Readable(s), NEW e,
         NEW t, t = FilMarked(s), NEW b, b = FilProvided(t, e),
         NEW u, u = Set(b, {}, {"UNGETC"})
  PROVE  Prepared(H, s, u) /\ u.flags = t.flags \ {"UNGETC"}
  <1>0. /\ Formed(s) /\ s.type \in {"FBF", "LBF", "NBF"} /\ TbSize \in Nat /\ TbSize > 0
        /\ s.open
    BY StdioConstantsOK DEF Good, Formed, FILE, Readable
  <1>1. /\ Formed(t) /\ Same(s, t) /\ t.file = s.file /\ t.off = s.off
        /\ "READ" \in t.flags /\ "WRT" \notin t.flags
    BY FilMarks
  <1>2. /\ t.base => t.type # "NBF" /\ t.bufsiz > 0
        /\ ~t.base => t.type # "LBF" /\ t.bufsiz = 0 /\ ~t.overrun
        /\ t.base /\ Limited(H, t) => ~t.overrun
        /\ t.open /\ t.type \in {"FBF", "LBF", "NBF"}
    BY <1>0, <1>1 DEF Good, Kinds, Room, Same, Limited
  <1>3. Prepared(H, s, b) /\ b.flags = t.flags
    <2>1. CASE ~NeedsBuffer(t)
      <3>1. b = t
        BY <2>1 DEF FilProvided
      <3>2. ~t.base => t.type = "NBF"
        BY <2>1 DEF NeedsBuffer
      <3> QED BY <1>1, <1>2, <3>1, <3>2 DEF Prepared
    <2>2. CASE NeedsBuffer(t) /\ e.mem
      <3>0. PICK n \in Nat : n = TbSize /\ n > 0
        BY <1>0
      <3>1. PICK w : w = WithBuffer(t, n)
        OBVIOUS
      <3>2. /\ Formed(w) /\ w.base /\ w.bufsiz = n
            /\ w.flags = t.flags /\ w.type = t.type
            /\ (w.overrun <=> t.overrun) /\ w.file = t.file
            /\ w.off = t.off /\ (w.open <=> t.open)
        BY <1>1, <3>1, WithBufferIs
      <3>3. b = [w EXCEPT !.fill = TRUE]
        BY <2>2, <3>0, <3>1 DEF FilProvided
      <3>4. /\ Formed(b) /\ b.base /\ b.bufsiz = w.bufsiz
            /\ b.flags = w.flags /\ b.type = w.type
            /\ (b.overrun <=> w.overrun) /\ b.file = w.file
            /\ b.off = w.off /\ (b.open <=> w.open)
        BY <3>2, <3>3 DEF Formed, FILE
      <3>5. ~t.base /\ t.type # "NBF"
        BY <2>2 DEF NeedsBuffer
      <3> QED BY <1>1, <1>2, <3>0, <3>2, <3>4, <3>5 DEF Prepared
    <2>3. CASE NeedsBuffer(t) /\ ~e.mem
      <3>1. b = [t EXCEPT !.type = "NBF"]
        BY <2>3 DEF FilProvided
      <3>2. /\ Formed(b) /\ (b.base <=> t.base) /\ b.bufsiz = t.bufsiz
            /\ b.flags = t.flags /\ b.type = "NBF"
            /\ (b.overrun <=> t.overrun) /\ b.file = t.file
            /\ b.off = t.off /\ (b.open <=> t.open)
        BY <1>1, <3>1 DEF Formed, FILE
      <3>3. ~t.base
        BY <2>3 DEF NeedsBuffer
      <3> QED BY <1>1, <1>2, <3>2, <3>3 DEF Prepared
    <2> QED BY <2>1, <2>2, <2>3
  <1>4. /\ Formed(u) /\ Same(b, u) /\ u.file = b.file /\ u.off = b.off
        /\ u.flags = b.flags \ {"UNGETC"}
    <2>1. PICK on \in SUBSET Flag, no \in SUBSET Flag : on = {} /\ no = {"UNGETC"} /\ u = Set(b, on, no)
      BY DEF Flag
    <2>2. /\ Formed(u) /\ Same(b, u) /\ u.file = b.file /\ u.off = b.off
          /\ u.flags = (b.flags \cup on) \ no
      <3>1. Formed(b) /\ u = Set(b, on, no)
        BY <1>3, <2>1 DEF Prepared
      <3>2. Flagged(b, on, no, u)
        BY <3>1, SetIs
      <3> QED BY <3>2 DEF Flagged
    <2> QED BY <2>1, <2>2
  <1> QED BY <1>3, <1>4 DEF Prepared, Same, Limited

(* Nothing was read. *)
LEMMA FilNothing ==
  ASSUME NEW H, NEW s, NEW u, Prepared(H, s, u), NEW z \in Nat, z = 0,
         NEW on \in SUBSET Flag, "WRT" \notin on, NEW no, "RW" \notin no,
         "READ" \in no => "RW" \in u.flags,
         NEW t, t = Set(Move(u, z, z), on, no)
  PROVE  Good(H, t) /\ Readable(t)
  <1>0. /\ Formed(u) /\ u.open /\ "READ" \in u.flags /\ "WRT" \notin u.flags
        /\ u.bufsiz \in Nat /\ u.off \in Nat
        /\ u.base => u.type # "NBF" /\ u.bufsiz > 0
        /\ ~u.base => u.type = "NBF" /\ u.bufsiz = 0 /\ ~u.overrun
        /\ u.base /\ Limited(H, u) => ~u.overrun
    BY DEF Prepared, Formed, FILE
  <1>1. PICK w : w = Move(u, z, z)
    OBVIOUS
  <1>2. Formed(w) /\ Kept(u, w) /\ w.ptr = z /\ w.cnt = z
    <2>1. z \in Nat /\ z \in Int /\ Formed(u)
      BY <1>0
    <2>2. Moved(u, z, z, w)
      BY <1>1, <2>1, MovedIs
    <2> QED BY <2>2 DEF Moved
  <1>3. /\ Formed(t) /\ Same(w, t) /\ t.file = w.file /\ t.off = w.off
        /\ t.flags = (w.flags \cup on) \ no
    <2>1. Formed(w) /\ t = Set(w, on, no)
      BY <1>1, <1>2
    <2>2. Flagged(w, on, no, t)
      BY <2>1, SetIs
    <2> QED BY <2>2 DEF Flagged
  <1>4. /\ t.open /\ t.ptr = 0 /\ t.cnt = 0 /\ t.bufsiz = u.bufsiz /\ t.off = u.off
        /\ "WRT" \notin t.flags /\ ("READ" \in t.flags \/ "RW" \in t.flags)
        /\ t.base => t.type # "NBF" /\ t.bufsiz > 0
        /\ ~t.base => t.type = "NBF" /\ t.bufsiz = 0 /\ ~t.overrun
        /\ t.base /\ Limited(H, t) => ~t.overrun
    BY <1>0, <1>2, <1>3 DEF Kept, Same, Limited
  <1>5. Kinds(t)
    BY <1>4 DEF Kinds
  <1>6. Stored(t)
    BY <1>0, <1>4 DEF Stored
  <1>7. Room(H, t)
    BY <1>0, <1>4 DEF Room
  <1>8. Window(H, t)
    BY <1>0, <1>4 DEF Window
  <1> QED BY <1>3, <1>4, <1>5, <1>6, <1>7, <1>8 DEF Good, Readable

(* What _filbuf() reads: the bytes of the file at the position, at most as *)
(* many as the buffer holds.                                               *)
ReadFrom(u, bytes) ==
  /\ bytes \in Seq(Byte)
  /\ u.off + Len(bytes) <= Len(u.file)
  /\ u.base => Len(bytes) <= u.bufsiz
  /\ u.type = "NBF" => Len(bytes) <= 1
  /\ \A i \in 1 .. Len(bytes) : bytes[i] = u.file[u.off + i]

LEMMA FilSize ==
  ASSUME NEW H, NEW s, NEW u, Prepared(H, s, u), NEW k \in Int, k >= 1,
         NEW l, l = Min({k, u.bufsiz}),
         NEW size, size = IF u.type = "NBF" THEN 1 ELSE IF u.fill THEN l ELSE 0
  PROVE  size \in Nat /\ (u.base => size <= u.bufsiz) /\ (u.type = "NBF" => size = 1)
  <1>0. u.bufsiz \in Nat /\ u.bufsiz \in Int /\ (u.base => u.bufsiz > 0 /\ u.type # "NBF")
    BY DEF Prepared, Formed, FILE
  <1>1. l = IF k <= u.bufsiz THEN k ELSE u.bufsiz
    BY <1>0, MinOf
  <1> QED BY <1>0, <1>1

LEMMA FilLimit ==
  ASSUME NEW o \in Nat, NEW l \in Nat, o <= l, NEW size \in Nat,
         NEW a, a = o + size, NEW n, n = Min({a, l})
  PROVE  n \in Int /\ n <= l /\ n <= o + size /\ n >= o
  <1>1. a \in Int /\ l \in Int
    OBVIOUS
  <1>2. n = IF a <= l THEN a ELSE l
    BY <1>1, MinOf
  <1>3. CASE a <= l
    BY <1>1, <1>2, <1>3
  <1>4. CASE ~(a <= l)
    BY <1>1, <1>2, <1>4
  <1> QED BY <1>3, <1>4

LEMMA FilBytes ==
  ASSUME NEW q \in Seq(Byte), NEW o \in Nat, NEW n \in Int, n <= Len(q), n >= o,
         NEW m \in Int, m = o + 1, NEW bytes, bytes = SubSeq(q, m, n)
  PROVE  /\ bytes \in Seq(Byte) /\ Len(bytes) = n - o
         /\ \A i \in 1 .. Len(bytes) : bytes[i] = q[o + i]
  <1>0. Len(q) \in Nat
    BY LenProperties
  <1>1. \A i \in m .. n : q[i] \in Byte
    <2> TAKE i \in m .. n
    <2>1. i \in 1 .. Len(q)
      BY <1>0
    <2> QED BY <2>1, ElementOfSeq
  <1>2. /\ SubSeq(q, m, n) \in Seq(Byte)
        /\ Len(SubSeq(q, m, n)) = IF m <= n THEN n - m + 1 ELSE 0
        /\ \A i \in 1 .. n - m + 1 : SubSeq(q, m, n)[i] = q[m + i - 1]
    BY <1>1, SubSeqProperties
  <1>3. Len(bytes) = n - o /\ bytes \in Seq(Byte)
    BY <1>2
  <1>4. \A i \in 1 .. Len(bytes) : bytes[i] = q[o + i]
    <2> TAKE i \in 1 .. Len(bytes)
    <2>1. i \in 1 .. n - m + 1 /\ m + i - 1 = o + i
      BY <1>3
    <2>2. bytes[i] = q[m + i - 1]
      BY <1>2, <2>1
    <2> QED BY <2>1, <2>2
  <1> QED BY <1>3, <1>4

(* The bytes are put into the buffer. *)
LEMMA FillIs ==
  ASSUME NEW u, Formed(u), NEW bytes \in Seq(Byte), NEW l \in Nat, l = Len(bytes),
         u.off + l <= Len(u.file), NEW t, t = FillWith(u, bytes)
  PROVE  /\ Formed(t) /\ t.ptr = 1 /\ t.cnt = l - 1 /\ t.off = u.off + l
         /\ t.flags = u.flags /\ t.type = u.type /\ (t.base <=> u.base)
         /\ t.bufsiz = u.bufsiz /\ (t.overrun <=> u.overrun) /\ t.file = u.file
         /\ (t.open <=> u.open)
         /\ \A i \in 0 .. u.bufsiz - 1 : i < l => t.mem[i] = bytes[i + 1]
  <1>0. /\ u \in FILE /\ u.bufsiz \in Nat /\ u.off \in Nat /\ Len(u.file) <= MaxLen
        /\ u.mem \in [0 .. u.bufsiz - 1 -> Byte \cup {0}]
    BY DEF Formed, FILE
  <1> DEFINE m == [i \in 0 .. u.bufsiz - 1 |-> IF i < l THEN bytes[i + 1] ELSE u.mem[i]]
  <1>1. \A i \in 0 .. u.bufsiz - 1 : m[i] \in Byte \cup {0}
    <2> TAKE i \in 0 .. u.bufsiz - 1
    <2>1. CASE i < l
      <3>1. i + 1 \in 1 .. Len(bytes)
        BY <1>0, <2>1
      <3> QED BY <2>1, <3>1, ElementOfSeq
    <2>2. CASE ~(i < l)
      BY <1>0, <2>2
    <2> QED BY <2>1, <2>2
  <1>2. m \in [0 .. u.bufsiz - 1 -> Byte \cup {0}]
    BY <1>1
  <1>3. \A i \in 0 .. u.bufsiz - 1 : i < l => m[i] = bytes[i + 1]
    OBVIOUS
  <1>4. t = [u EXCEPT !.mem = m, !.ptr = 1, !.cnt = l - 1, !.off = @ + l]
    BY <1>0 DEF FillWith
  <1> HIDE DEF m
  <1>5. m \in Mem
    BY <1>0, <1>2, MemIs
  <1>6a. PICK p \in Nat : p = 1
    OBVIOUS
  <1>6b. PICK n \in Int : n = l - 1
    OBVIOUS
  <1>6c. PICK o \in Nat : o = u.off + l
    BY <1>0
  <1>6. p = 1 /\ n = l - 1 /\ o = u.off + l
    BY <1>6a, <1>6b, <1>6c
  <1>7. t = [u EXCEPT !.mem = m, !.ptr = p, !.cnt = n, !.off = o]
    BY <1>0, <1>4, <1>6
  <1>8. /\ t \in FILE /\ t.ptr = p /\ t.cnt = n /\ t.off = o /\ t.mem = m
        /\ t.flags = u.flags /\ t.type = u.type /\ (t.base <=> u.base)
        /\ t.bufsiz = u.bufsiz /\ (t.overrun <=> u.overrun) /\ t.file = u.file
        /\ (t.open <=> u.open)
    BY <1>0, <1>5, <1>7 DEF FILE
  <1>9. Formed(t)
    BY <1>0, <1>2, <1>6, <1>8 DEF Formed
  <1> QED BY <1>3, <1>6, <1>8, <1>9

LEMMA FilFills ==
  ASSUME NEW H, NEW s, NEW u, Prepared(H, s, u), NEW bytes, ReadFrom(u, bytes),
         bytes # <<>>, "EOF" \notin u.flags, NEW t, t = FillWith(u, bytes)
  PROVE  Good(H, t) /\ Readable(t)
  <1>0. /\ Formed(u) /\ u.open /\ "READ" \in u.flags /\ "WRT" \notin u.flags
        /\ u.bufsiz \in Nat /\ u.off \in Nat
        /\ u.base => u.type # "NBF" /\ u.bufsiz > 0
        /\ ~u.base => u.type = "NBF" /\ u.bufsiz = 0 /\ ~u.overrun
        /\ u.base /\ Limited(H, u) => ~u.overrun
    BY DEF Prepared, Formed, FILE
  <1>1. PICK l \in Nat : l = Len(bytes) /\ l > 0 /\ bytes \in Seq(Byte)
    <2>1. bytes \in Seq(Byte)
      BY DEF ReadFrom
    <2>2. Len(bytes) \in Nat /\ Len(bytes) > 0
      BY <2>1, LenProperties, EmptySeq
    <2> QED BY <2>1, <2>2
  <1>2. /\ u.off + l <= Len(u.file)
        /\ u.base => l <= u.bufsiz
        /\ u.type = "NBF" => l = 1
        /\ \A i \in 1 .. l : bytes[i] = u.file[u.off + i]
    BY <1>1 DEF ReadFrom
  <1>3. /\ Formed(t) /\ t.ptr = 1 /\ t.cnt = l - 1 /\ t.off = u.off + l
        /\ t.flags = u.flags /\ t.type = u.type /\ (t.base <=> u.base)
        /\ t.bufsiz = u.bufsiz /\ (t.overrun <=> u.overrun) /\ t.file = u.file
        /\ (t.open <=> u.open)
        /\ \A i \in 0 .. u.bufsiz - 1 : i < l => t.mem[i] = bytes[i + 1]
    BY <1>0, <1>1, <1>2, FillIs
  <1>4. Kinds(t)
    BY <1>0, <1>1, <1>2, <1>3 DEF Kinds
  <1>5. \A i \in 0 .. u.bufsiz - 1 : i < l => t.mem[i] # 0
    <2> TAKE i \in 0 .. u.bufsiz - 1
    <2> HAVE i < l
    <2>1. i + 1 \in 1 .. Len(bytes)
      BY <1>0, <1>1
    <2>2. bytes[i + 1] \in Byte
      BY <1>1, <2>1, ElementOfSeq
    <2>3. 0 \notin Byte
      BY StdioConstantsOK
    <2> QED BY <1>3, <2>2, <2>3
  <1>6. Stored(t)
    BY <1>0, <1>1, <1>3, <1>5 DEF Stored
  <1>7. Room(H, t)
    <2>1. ~Writable(t)
      BY <1>0, <1>3 DEF Writable
    <2>2. Limited(H, t) <=> Limited(H, u)
      BY <1>3 DEF Limited
    <2> QED BY <1>0, <1>1, <1>2, <1>3, <2>1, <2>2 DEF Room
  <1>8. Window(H, t)
    <2>1. SUFFICES ASSUME t.base
                   PROVE  /\ t.cnt >= 0 /\ t.ptr + t.cnt <= t.bufsiz /\ t.ptr + t.cnt <= t.off
                          /\ \A i \in 0 .. t.ptr + t.cnt - 1 :
                               t.mem[i] = t.file[t.off - t.ptr - t.cnt + i + 1]
      BY DEF Window, Reading
    <2>2. t.ptr + t.cnt = l /\ l <= t.bufsiz
      BY <1>0, <1>1, <1>2, <1>3, <2>1
    <2>3. t.cnt >= 0 /\ t.ptr + t.cnt <= t.off
      BY <1>0, <1>1, <1>3
    <2>4. \A i \in 0 .. t.ptr + t.cnt - 1 :
            t.mem[i] = t.file[t.off - t.ptr - t.cnt + i + 1]
      <3> TAKE i \in 0 .. t.ptr + t.cnt - 1
      <3>0. t.off = u.off + l /\ t.ptr = 1 /\ t.cnt = l - 1 /\ t.bufsiz = u.bufsiz
        BY <1>3
      <3>0a. i \in 0 .. l - 1 /\ l <= u.bufsiz /\ u.off \in Nat /\ u.bufsiz \in Nat
        BY <1>0, <2>2, <3>0
      <3>1. /\ i \in 0 .. u.bufsiz - 1 /\ i < l /\ i + 1 \in 1 .. l
            /\ t.off - t.ptr - t.cnt + i + 1 = u.off + (i + 1)
        BY <3>0, <3>0a
      <3> QED BY <1>2, <1>3, <3>1
    <2> QED BY <2>2, <2>3, <2>4
  <1> QED BY <1>0, <1>1, <1>3, <1>4, <1>6, <1>7, <1>8 DEF Good, Readable

LEMMA FilGood ==
  ASSUME NEW H, NEW s, Good(H, s), Readable(s), NEW e, e.k \in Int, e.k >= 1,
         NEW r, r = _filbuf(s, e)
  PROVE  Good(H, r.s) /\ Readable(r.s)
  <1> DEFINE t == FilMarked(s)
             b == FilProvided(t, e)
             u == Set(b, {}, {"UNGETC"})
             l == Min({e.k, u.bufsiz})
             size == IF u.type = "NBF" THEN 1 ELSE IF u.fill THEN l ELSE 0
             a == u.off + size
             n == Min({a, Len(u.file)})
             m == u.off + 1
             bytes == SubSeq(u.file, m, n)
             no == IF "RW" \in u.flags THEN {"READ"} ELSE {}
  <1>1. r = IF "EOF" \in t.flags THEN Result(t, -1)
            ELSE IF ~e.io THEN Result(Set(Move(u, 0, 0), {"ERR"}, {}), -1)
            ELSE IF bytes = <<>> THEN Result(Set(Move(u, 0, 0), {"EOF"}, no), -1)
            ELSE Result(FillWith(u, bytes), bytes[1])
    BY DEF _filbuf, FilMarked, FilProvided, Move
  <1>2. /\ Formed(t) /\ "READ" \in t.flags /\ "WRT" \notin t.flags
        /\ t.flags \subseteq s.flags \cup {"READ"} /\ s.flags \subseteq t.flags
    BY FilMarks
  <1>3. Prepared(H, s, u) /\ u.flags = t.flags \ {"UNGETC"}
    <2> HIDE DEF t
    <2>1. t = FilMarked(s)
      BY DEF t
    <2> QED BY <2>1, FilPrepares
  <1>4. ReadFrom(u, bytes)
    <2>1. l = Min({e.k, u.bufsiz})
      OBVIOUS
    <2>2. size = IF u.type = "NBF" THEN 1 ELSE IF u.fill THEN l ELSE 0
      OBVIOUS
    <2>3. a = u.off + size /\ m = u.off + 1
      OBVIOUS
    <2>4. n = Min({a, Len(u.file)})
      OBVIOUS
    <2>5. bytes = SubSeq(u.file, m, n)
      OBVIOUS
    <2> HIDE DEF t, b, u, l, size, a, n, m, bytes, no
    <2>6. size \in Nat /\ (u.base => size <= u.bufsiz) /\ (u.type = "NBF" => size = 1)
      BY <1>3, <2>1, <2>2, FilSize
    <2>7. /\ u.file \in Seq(Byte) /\ u.off \in Nat /\ Len(u.file) \in Nat
          /\ u.off <= Len(u.file)
      BY <1>3, LenProperties DEF Prepared, Formed, FILE
    <2>8. n \in Int /\ n <= Len(u.file) /\ n <= u.off + size /\ n >= u.off
      <3>1. PICK o \in Nat, x \in Nat : o = u.off /\ x = Len(u.file) /\ o <= x
        BY <2>7
      <3>2. a = o + size /\ n = Min({a, x})
        BY <2>3, <2>4, <3>1
      <3>3. n \in Int /\ n <= x /\ n <= o + size /\ n >= o
        BY <2>6, <3>1, <3>2, FilLimit
      <3> QED BY <3>1, <3>3
    <2>9. m \in Int
      BY <2>3, <2>7
    <2>10. /\ bytes \in Seq(Byte) /\ Len(bytes) = n - u.off
           /\ \A i \in 1 .. Len(bytes) : bytes[i] = u.file[u.off + i]
      <3>1. PICK q \in Seq(Byte), o \in Nat : q = u.file /\ o = u.off
        BY <2>7
      <3>2. n \in Int /\ n <= Len(q) /\ n >= o /\ m = o + 1 /\ bytes = SubSeq(q, m, n)
        BY <2>3, <2>5, <2>8, <3>1
      <3>3. /\ bytes \in Seq(Byte) /\ Len(bytes) = n - o
            /\ \A i \in 1 .. Len(bytes) : bytes[i] = q[o + i]
        BY <2>9, <3>2, FilBytes
      <3> QED BY <3>1, <3>3
    <2>11. /\ u.off + Len(bytes) <= Len(u.file)
           /\ u.base => Len(bytes) <= u.bufsiz
           /\ u.type = "NBF" => Len(bytes) <= 1
      <3>1. Len(bytes) = n - u.off /\ u.bufsiz \in Nat
        BY <1>3, <2>10 DEF Prepared, Formed, FILE
      <3> QED BY <2>6, <2>7, <2>8, <3>1
    <2> QED BY <2>10, <2>11 DEF ReadFrom
  <1>5. CASE "EOF" \in t.flags
    <2>1. r.s = t
      BY <1>1, <1>5 DEF Result
    <2>2. "EOF" \in s.flags
      BY <1>2, <1>5
    <2> QED BY <2>1, <2>2, FilEnd
  <1>6. CASE "EOF" \notin t.flags /\ ~e.io
    <2>1. r.s = Set(Move(u, 0, 0), {"ERR"}, {})
      BY <1>1, <1>6 DEF Result
    <2> HIDE DEF t, b, u, l, size, a, n, m, bytes, no
    <2>2. PICK z \in Nat, on \in SUBSET Flag, x \in SUBSET Flag :
            /\ z = 0 /\ on = {"ERR"} /\ x = {}
            /\ r.s = Set(Move(u, z, z), on, x)
      BY <2>1 DEF Flag
    <2>21. PICK v : v = r.s /\ v = Set(Move(u, z, z), on, x)
      BY <2>2
    <2>3. "WRT" \notin on /\ "RW" \notin x /\ "READ" \notin x /\ z = 0
      BY <2>2
    <2>4. v = Set(Move(u, z, z), on, x)
      BY <2>21
    <2>5. Good(H, v) /\ Readable(v)
      BY <1>3, <2>3, <2>4, FilNothing
    <2> QED BY <2>21, <2>5
  <1>7. CASE "EOF" \notin t.flags /\ e.io /\ bytes = <<>>
    <2>1. r.s = Set(Move(u, 0, 0), {"EOF"}, no)
      BY <1>1, <1>7 DEF Result
    <2>2. no = IF "RW" \in u.flags THEN {"READ"} ELSE {}
      OBVIOUS
    <2> HIDE DEF t, b, u, l, size, a, n, m, bytes, no
    <2>3. PICK z \in Nat, on \in SUBSET Flag :
            z = 0 /\ on = {"EOF"} /\ r.s = Set(Move(u, z, z), on, no)
      BY <2>1 DEF Flag
    <2>31. PICK v : v = r.s /\ v = Set(Move(u, z, z), on, no)
      BY <2>3
    <2>4. "WRT" \notin on /\ "RW" \notin no /\ ("READ" \in no => "RW" \in u.flags) /\ z = 0
      BY <2>2, <2>3
    <2>5. v = Set(Move(u, z, z), on, no)
      BY <2>31
    <2>6. Good(H, v) /\ Readable(v)
      BY <1>3, <2>4, <2>5, FilNothing
    <2> QED BY <2>31, <2>6
  <1>8. CASE "EOF" \notin t.flags /\ e.io /\ bytes # <<>>
    <2>1. r.s = FillWith(u, bytes)
      BY <1>1, <1>8 DEF Result
    <2> HIDE DEF t, b, u, l, size, a, n, m, bytes, no
    <2>2. PICK v : v = r.s /\ v = FillWith(u, bytes)
      BY <2>1
    <2>3. "EOF" \notin u.flags
      BY <1>3, <1>8
    <2>4. Good(H, v) /\ Readable(v)
      BY <1>3, <1>4, <1>8, <2>2, <2>3, FilFills
    <2> QED BY <2>2, <2>4
  <1> HIDE DEF t, b, u, l, size, a, n, m, bytes, no
  <1> QED BY <1>5, <1>6, <1>7, <1>8

-----------------------------------------------------------------------------
(* One byte, of getc() or of fread(). *)
LEMMA GetcGood ==
  ASSUME NEW H, NEW s, Good(H, s), Readable(s), NEW e, e.k \in Int, e.k >= 1,
         NEW r, r = __getc(s, e)
  PROVE  Good(H, r.s) /\ Readable(r.s)
  <1>0. /\ Formed(s) /\ s.cnt \in Int /\ s.ptr \in Nat /\ s.bufsiz \in Nat /\ s.off \in Nat
    BY DEF Good, Formed, FILE
  <1>1. CASE ~(s.cnt > 0)
    <2>1. r = _filbuf(s, e)
      BY <1>1 DEF __getc
    <2> QED BY <2>1, FilGood
  <1>2. CASE s.cnt > 0
    <2>1. PICK n \in Int : n = s.cnt - 1
      BY <1>0
    <2>2. PICK p \in Nat : p = s.ptr + 1
      BY <1>0
    <2>3. PICK t : r.s = t /\ t = Move(s, p, n)
      <3>1. s \in FILE
        BY <1>0 DEF Formed
      <3>2. r.s = [s EXCEPT !.cnt = @ - 1, !.ptr = @ + 1]
        BY <1>2 DEF __getc, Result
      <3>3. [s EXCEPT !.cnt = @ - 1, !.ptr = @ + 1] = [s EXCEPT !.cnt = n, !.ptr = p]
        BY <2>1, <2>2, <3>1 DEF FILE
      <3>4. [s EXCEPT !.cnt = n, !.ptr = p] = Move(s, p, n)
        BY <3>1 DEF FILE, Move
      <3> QED BY <3>2, <3>3, <3>4
    <2>4. Formed(t) /\ Kept(s, t) /\ t.ptr = p /\ t.cnt = n
      <3>1. Formed(s) /\ t = Move(s, p, n)
        BY <1>0, <2>3
      <3>2. Moved(s, p, n, t)
        BY <3>1, MovedIs
      <3> QED BY <3>2 DEF Moved
    <2>5. s.open /\ "WRT" \notin s.flags /\ s.base
      BY <1>0, <1>2 DEF Readable, Good, Kinds
    <2>6. t.ptr = s.ptr + 1 /\ t.cnt = s.cnt - 1 /\ t.ptr + t.cnt = s.ptr + s.cnt
      BY <1>0, <2>1, <2>2, <2>4
    <2>7. Kinds(t)
      BY <2>4, <2>5 DEF Good, Kinds, Kept
    <2>8. Stored(t)
      <3>1. \A i \in 0 .. s.bufsiz - 1 : i < s.ptr + s.cnt => s.mem[i] # 0
        BY <2>5 DEF Good, Stored
      <3>2. \A i \in 0 .. s.bufsiz - 1 : i < s.ptr + 1 => i < s.ptr + s.cnt
        BY <1>0, <1>2
      <3>3. /\ t.bufsiz = s.bufsiz /\ t.mem = s.mem /\ "WRT" \notin t.flags
        BY <2>4, <2>5 DEF Kept
      <3> QED BY <2>6, <3>1, <3>2, <3>3 DEF Stored
    <2>9. Room(H, t)
      <3>1. Limited(H, t) <=> Limited(H, s)
        BY <2>4 DEF Limited, Kept
      <3>2. Writable(t) <=> Writable(s)
        BY <2>4 DEF Writable, Kept
      <3>3. SUFFICES ASSUME Limited(H, s) PROVE Room(H, t)
        BY <3>1 DEF Room
      <3>4. /\ ~s.overrun /\ s.ptr + s.cnt <= s.bufsiz
            /\ s.type = "LBF" /\ Writable(s) =>
                 \/ s.ptr + s.cnt = 0 /\ s.ptr < s.bufsiz
                 \/ /\ "unget_unread" \in H /\ "WRT" \notin s.flags
                    /\ s.ptr + s.cnt = 1 /\ s.cnt >= 0
        BY <2>5, <3>3 DEF Good, Room
      <3>5. /\ ~t.overrun /\ t.bufsiz = s.bufsiz /\ t.type = s.type /\ t.flags = s.flags
        BY <2>4, <3>4 DEF Kept
      <3>6. /\ t.ptr <= t.bufsiz /\ t.ptr + t.cnt <= t.bufsiz /\ t.cnt >= 0
        BY <1>0, <1>2, <2>6, <3>4, <3>5
      <3>7. t.type = "LBF" /\ Writable(t) =>
              "unget_unread" \in H /\ "WRT" \notin t.flags /\ t.ptr + t.cnt = 1
        BY <1>0, <1>2, <2>6, <3>2, <3>4, <3>5
      <3> QED BY <1>0, <2>6, <3>5, <3>6, <3>7 DEF Room
    <2>10. Window(H, t)
      <3>1. Reading(t) <=> Reading(s)
        BY <2>4 DEF Reading, Kept
      <3>2. SUFFICES ASSUME Reading(t) PROVE Window(H, t)
        BY DEF Window
      <3>3. /\ t.flags = s.flags /\ t.off = s.off /\ t.mem = s.mem /\ t.file = s.file
            /\ t.bufsiz = s.bufsiz /\ t.cnt >= 0
        BY <1>0, <1>2, <2>4, <2>6 DEF Kept
      <3>4. \A i \in Int : t.off - t.ptr - t.cnt + i + 1 = s.off - s.ptr - s.cnt + i + 1
        BY <1>0, <2>6, <3>3
      <3> QED BY <1>0, <2>6, <3>1, <3>2, <3>3, <3>4 DEF Good, Window
    <2>11. Readable(t)
      BY <1>0, <1>2, <2>4, <2>6 DEF Readable, Kept
    <2> QED BY <2>3, <2>4, <2>7, <2>8, <2>9, <2>10, <2>11 DEF Good
  <1> QED BY <1>1, <1>2

(* _fillsize is set. *)
LEMMA FillSet ==
  ASSUME NEW H, NEW s, Good(H, s), NEW v \in BOOLEAN, NEW t, t = [s EXCEPT !.fill = v]
  PROVE  /\ Good(H, t) /\ t.flags = s.flags /\ t.cnt = s.cnt /\ (t.open <=> s.open)
         /\ t.ptr = s.ptr /\ t.type = s.type /\ t.off = s.off /\ t.file = s.file
         /\ (t.base <=> s.base) /\ t.bufsiz = s.bufsiz /\ t.mem = s.mem
  <1>0. Formed(s) /\ s \in FILE
    BY DEF Good, Formed
  <1>1. /\ t \in FILE
        /\ t.flags = s.flags /\ t.type = s.type /\ (t.base <=> s.base)
        /\ t.bufsiz = s.bufsiz /\ t.mem = s.mem /\ t.ptr = s.ptr /\ t.cnt = s.cnt
        /\ (t.overrun <=> s.overrun) /\ t.file = s.file /\ t.off = s.off
        /\ (t.open <=> s.open)
    BY <1>0 DEF FILE
  <1>2. Formed(t)
    BY <1>0, <1>1 DEF Formed
  <1>3. Kinds(t)
    BY <1>1 DEF Good, Kinds
  <1>4. Stored(t)
    BY <1>1 DEF Good, Stored
  <1>5. Room(H, t)
    BY <1>1 DEF Good, Room, Limited, Writable
  <1>6. Window(H, t)
    BY <1>1 DEF Good, Window, Reading
  <1> QED BY <1>1, <1>2, <1>3, <1>4, <1>5, <1>6 DEF Good

(* The loop of fread(). *)
Start(s) == Got(s, <<>>, FALSE)

GetsAre(g, n, s, e) ==
  g = [i \in 0 .. n |-> IF i = 0 THEN Start(s) ELSE GetInto(g[i - 1], e)]

LEMMA GetsExist ==
  ASSUME NEW s, NEW e, NEW n \in Nat
  PROVE  \E g : GetsAre(g, n, s, e)
  <1> DEFINE T == {k \in Nat : \E g : GetsAre(g, k, s, e)}
  <1>1. 0 \in T
    <2> DEFINE g == [k \in 0 .. 0 |-> Start(s)]
    <2>1. GetsAre(g, 0, s, e)
      BY DEF GetsAre
    <2> QED BY <2>1
  <1>2. ASSUME NEW k \in 1 .. n, k - 1 \in T PROVE k \in T
    <2>1. PICK g : GetsAre(g, k - 1, s, e)
      BY <1>2
    <2> DEFINE h == [j \in 0 .. k |-> IF j = k THEN GetInto(g[k - 1], e) ELSE g[j]]
    <2>2. \A j \in 0 .. k - 1 : h[j] = g[j]
      OBVIOUS
    <2>3. \A j \in 0 .. k - 1 : g[j] = IF j = 0 THEN Start(s) ELSE GetInto(g[j - 1], e)
      BY <2>1 DEF GetsAre
    <2>4. ASSUME NEW j \in 0 .. k
          PROVE  h[j] = IF j = 0 THEN Start(s) ELSE GetInto(h[j - 1], e)
      BY <2>2, <2>3
    <2>5. GetsAre(h, k, s, e)
      BY <2>4 DEF GetsAre
    <2> QED BY <2>5
  <1>3. n \in T
    <2> HIDE DEF T
    <2>1. \A k \in 1 .. n : k - 1 \in T => k \in T
      BY <1>2
    <2>2. \A k \in 0 .. n : k \in T
      BY <1>1, <2>1, UpTo
    <2> QED BY <2>2
  <1> QED BY <1>3

LEMMA ReadGood ==
  ASSUME NEW H, NEW w, Good(H, w), Readable(w), NEW e, e.k \in Int, e.k >= 1,
         NEW n \in Nat
  PROVE  Good(H, Read(w, n, e).s)
  <1>1. PICK v \in BOOLEAN : v = (w.fill \/ w.bufsiz > 0)
    OBVIOUS
  <1>2. PICK s : s = [w EXCEPT !.fill = v]
    OBVIOUS
  <1>3. Good(H, s) /\ s.flags = w.flags /\ s.cnt = w.cnt /\ (s.open <=> w.open)
    BY <1>2, FillSet
  <1>4. Readable(s)
    BY <1>3 DEF Readable
  <1>5. s = [w EXCEPT !.fill = @ \/ w.bufsiz > 0]
    <2>1. w \in FILE
      BY DEF Good, Formed
    <2> QED BY <1>1, <1>2, <2>1 DEF FILE
  <1>6. PICK h : GetsAre(h, n, s, e)
    BY GetsExist
  <1>7. PICK g : g = GetUpTo(s, n, e) /\ GetsAre(g, n, s, e)
    BY <1>6 DEF GetUpTo, GetsAre, Start
  <1>8. \A k \in 0 .. n : g[k] = IF k = 0 THEN Start(s) ELSE GetInto(g[k - 1], e)
    BY <1>7 DEF GetsAre
  <1> DEFINE T == {k \in Nat : Good(H, g[k].s) /\ Readable(g[k].s)}
  <1>9. 0 \in T
    <2>1. g[0].s = s
      BY <1>8 DEF Start, Got
    <2> QED BY <1>3, <1>4, <2>1
  <1>10. ASSUME NEW k \in 1 .. n, k - 1 \in T PROVE k \in T
    <2>1. PICK a : a = g[k - 1]
      OBVIOUS
    <2>2. Good(H, a.s) /\ Readable(a.s)
      BY <1>10, <2>1
    <2>3. PICK r : r = __getc(a.s, e)
      OBVIOUS
    <2>4. Good(H, r.s) /\ Readable(r.s)
      BY <2>2, <2>3, GetcGood
    <2>5. g[k] = GetInto(a, e)
      BY <1>8, <2>1
    <2>6. GetInto(a, e).s = a.s \/ GetInto(a, e).s = r.s
      BY <2>3 DEF GetInto, Got
    <2> QED BY <2>2, <2>4, <2>5, <2>6
  <1>11. n \in T
    <2> HIDE DEF T
    <2>1. \A k \in 1 .. n : k - 1 \in T => k \in T
      BY <1>10
    <2>2. \A k \in 0 .. n : k \in T
      BY <1>9, <2>1, UpTo
    <2> QED BY <2>2
  <1>12. Read(w, n, e) = IF "EOF" \in s.flags /\ s.cnt \in 1 .. n - 1
                         THEN Got(_filbuf(s, e).s, g[n].got, TRUE) ELSE g[n]
    BY <1>5, <1>7 DEF Read
  <1>13. PICK r : r = _filbuf(s, e)
    OBVIOUS
  <1>14. Good(H, r.s)
    BY <1>3, <1>4, <1>13, FilGood
  <1>15. Read(w, n, e).s = r.s \/ Read(w, n, e).s = g[n].s
    BY <1>12, <1>13 DEF Got
  <1> QED BY <1>11, <1>14, <1>15

-----------------------------------------------------------------------------
(* All of Good() but what the buffer holds. *)
Fine(H, s) == Formed(s) /\ Kinds(s) /\ Stored(s) /\ Room(H, s) /\ s.open

(* The buffer is given up. *)
LEMMA ResetGood ==
  ASSUME NEW H, NEW s, Fine(H, s), NEW z \in Nat, z = 0, NEW no,
         \/ "READ" \in s.flags \ no \/ "WRT" \in s.flags \ no \/ "RW" \in s.flags \ no,
         NEW t, t = Set(Move(s, z, z), {}, no)
  PROVE  /\ Good(H, t) /\ Fine(H, t) /\ t.flags = s.flags \ no /\ t.ptr = 0 /\ t.cnt = 0
         /\ t.off = s.off /\ t.file = s.file /\ t.type = s.type /\ (t.base <=> s.base)
  <1>0. /\ Formed(s) /\ s.open /\ s.bufsiz \in Nat /\ s.off \in Nat
        /\ s.off <= MaxLen /\ MaxLen \in Nat
        /\ s.base => s.type # "NBF" /\ s.bufsiz > 0
        /\ ~s.base => s.type # "LBF" /\ s.bufsiz = 0 /\ ~s.overrun
        /\ ~("READ" \in s.flags /\ "WRT" \in s.flags)
        /\ s.base /\ Limited(H, s) => ~s.overrun
    <2>1. s.off \in Nat /\ Len(s.file) \in Nat /\ s.off <= Len(s.file) /\ Len(s.file) <= MaxLen
      BY LenProperties DEF Fine, Formed, FILE
    <2> QED BY <2>1, StdioConstantsOK DEF Fine, Formed, FILE, Kinds, Room
  <1>1. PICK w : w = Move(s, z, z)
    OBVIOUS
  <1>2. Formed(w) /\ Kept(s, w) /\ w.ptr = z /\ w.cnt = z
    <2>1. Moved(s, z, z, w)
      BY <1>0, <1>1, MovedIs
    <2> QED BY <2>1 DEF Moved
  <1>3. /\ Formed(t) /\ Same(w, t) /\ t.file = w.file /\ t.off = w.off
        /\ t.flags = w.flags \ no
    <2>1. PICK on \in SUBSET Flag : on = {} /\ t = Set(w, on, no)
      BY <1>1
    <2>2. Flagged(w, on, no, t)
      BY <1>2, <2>1, SetIs
    <2> QED BY <2>1, <2>2 DEF Flagged
  <1>4. /\ t.open /\ t.ptr = 0 /\ t.cnt = 0 /\ t.bufsiz = s.bufsiz /\ t.off = s.off
        /\ t.flags = s.flags \ no /\ t.file = s.file
        /\ t.type = s.type /\ (t.base <=> s.base)
        /\ t.base => t.type # "NBF" /\ t.bufsiz > 0
        /\ ~t.base => t.type # "LBF" /\ t.bufsiz = 0 /\ ~t.overrun
        /\ t.base /\ Limited(H, t) => ~t.overrun
    BY <1>0, <1>2, <1>3 DEF Kept, Same, Limited
  <1>5. Kinds(t)
    BY <1>0, <1>4 DEF Kinds
  <1>6. Stored(t)
    BY <1>0, <1>4 DEF Stored
  <1>7. Room(H, t)
    BY <1>0, <1>4 DEF Room
  <1>8. Window(H, t)
    BY <1>0, <1>4 DEF Window
  <1> QED BY <1>3, <1>4, <1>5, <1>6, <1>7, <1>8 DEF Good, Fine

(* The descriptor is positioned. *)
LEMMA OffGood ==
  ASSUME NEW H, NEW s, Fine(H, s), NEW o \in Nat, o <= Len(s.file),
         "WRT" \in s.flags /\ s.base => s.ptr = 0,
         Reading(s) => s.ptr = 0 /\ s.cnt = 0,
         NEW t, t = [s EXCEPT !.off = o]
  PROVE  Good(H, t)
  <1>0. /\ Formed(s) /\ s \in FILE /\ s.ptr \in Nat /\ s.bufsiz \in Nat /\ Len(s.file) \in Nat
        /\ Len(s.file) <= MaxLen /\ MaxLen \in Nat /\ s.open
    BY StdioConstantsOK, LenProperties DEF Fine, Formed, FILE
  <1>1. /\ t \in FILE /\ t.off = o
        /\ t.flags = s.flags /\ t.type = s.type /\ (t.base <=> s.base)
        /\ t.bufsiz = s.bufsiz /\ t.mem = s.mem /\ t.ptr = s.ptr /\ t.cnt = s.cnt
        /\ (t.overrun <=> s.overrun) /\ t.file = s.file /\ (t.open <=> s.open)
    BY <1>0 DEF FILE
  <1>2. Formed(t)
    BY <1>0, <1>1 DEF Formed
  <1>3. Kinds(t)
    BY <1>1 DEF Fine, Kinds
  <1>4. Stored(t)
    BY <1>0, <1>1 DEF Fine, Stored
  <1>5. Room(H, t)
    BY <1>1 DEF Fine, Room, Limited, Writable
  <1>6. Window(H, t)
    <2>1. Reading(t) => t.ptr = 0 /\ t.cnt = 0
      BY <1>1 DEF Reading
    <2>2. SUFFICES ASSUME Reading(t) PROVE Window(H, t)
      BY DEF Window
    <2>3. t.ptr + t.cnt = 0 /\ t.cnt >= 0 /\ 0 .. t.ptr + t.cnt - 1 = {}
      BY <2>1, <2>2
    <2>4. t.ptr + t.cnt <= t.bufsiz /\ t.ptr + t.cnt <= t.off
      BY <1>0, <1>1, <2>3
    <2> QED BY <2>3, <2>4 DEF Window
  <1> QED BY <1>2, <1>3, <1>4, <1>5, <1>6 DEF Good

(* What was written is flushed. *)
FlushedTo(H, s, r) ==
  /\ Fine(H, r.s) /\ r.s.flags \subseteq s.flags \cup {"ERR"} /\ s.flags \subseteq r.s.flags
  /\ "WRT" \in s.flags /\ s.base => r.s.ptr = 0
  /\ r.s.type = s.type /\ (r.s.base <=> s.base)

LEMMA FlushWrites ==
  ASSUME NEW H, NEW s, Fine(H, s), "WRT" \in s.flags, s.base, NEW z \in Nat, z = 0,
         NEW n, n = IF s.type = "LBF" THEN z ELSE s.bufsiz, NEW e, NEW r,
         r = _write(Move(s, z, n), Buffered(s), e)
  PROVE  FlushedTo(H, s, r)
  <1>0. /\ Formed(s) /\ Stored(s) /\ s.open /\ s.bufsiz \in Nat /\ n \in Int
        /\ s.type # "NBF" /\ s.bufsiz > 0 /\ "READ" \notin s.flags
        /\ Limited(H, s) => ~s.overrun
    BY DEF Fine, Formed, FILE, Kinds, Room
  <1>1. /\ Formed(r.s) /\ r.s.base /\ r.s.ptr = 0 /\ r.s.cnt = n
        /\ r.s.type = s.type /\ r.s.bufsiz = s.bufsiz /\ r.s.mem = s.mem
        /\ (r.s.overrun <=> s.overrun) /\ (r.s.open <=> s.open)
        /\ r.s.off \in Nat /\ r.s.off <= s.off + s.ptr /\ r.s.off <= MaxLen
        /\ r.s.flags \subseteq s.flags \cup {"ERR"} /\ s.flags \subseteq r.s.flags
    BY <1>0, Emptied
  <1>2. /\ "WRT" \in r.s.flags /\ "READ" \notin r.s.flags
        /\ r.s.ptr + r.s.cnt <= r.s.bufsiz /\ r.s.cnt >= 0
        /\ r.s.type = "LBF" => r.s.ptr + r.s.cnt = 0
        /\ Limited(H, r.s) => ~r.s.overrun
    BY <1>0, <1>1 DEF Limited
  <1>3. Good(H, r.s)
    BY <1>0, <1>1, <1>2, GoodWriting
  <1> QED BY <1>0, <1>1, <1>3 DEF FlushedTo, Fine, Good

(* fflush() empties the buffer of what was written, and makes a stream for *)
(* update neither read nor written to.                                     *)
Cleared(H, s, t) ==
  /\ Fine(H, t) /\ t.flags \subseteq s.flags \cup {"ERR"}
  /\ "RW" \in s.flags <=> "RW" \in t.flags
  /\ "WRT" \in t.flags /\ t.base => t.ptr = 0
  /\ t.type = s.type /\ (t.base <=> s.base)
  /\ Reading(t) =>
       /\ Reading(s) /\ t.ptr = s.ptr /\ t.cnt = s.cnt /\ t.mem = s.mem
       /\ t.bufsiz = s.bufsiz /\ t.file = s.file /\ t.off = s.off

LEMMA FlushIs ==
  ASSUME NEW H, NEW s0, Fine(H, s0), NEW e
  PROVE  Cleared(H, s0, Flush(s0, e).s)
  <1> DEFINE s == Set(s0, {}, {"UNGETC"})
             some == "WRT" \in s.flags /\ s.type # "NBF" /\ s.base /\ s.ptr > 0
             n == IF s.type = "LBF" THEN 0 ELSE s.bufsiz
             w == _write(Move(s, 0, n), Buffered(s), e)
             r == IF some THEN w ELSE Result(s, 0)
  <1>1. Flush(s0, e) = IF r.c = -1 \/ "RW" \notin s.flags THEN r
                       ELSE Result(Set(Move(r.s, 0, 0), {}, {"WRT", "READ"}), 0)
    <2>1. Flush(s0, e) = IF r.c = -1 \/ "RW" \notin s.flags THEN r
                         ELSE Result(Set([r.s EXCEPT !.cnt = 0, !.ptr = 0], {}, {"WRT", "READ"}), 0)
      BY DEF Flush, Move
    <2>2. [r.s EXCEPT !.cnt = 0, !.ptr = 0] = Move(r.s, 0, 0)
      BY DEF Move
    <2> QED BY <2>1, <2>2
  <1>2. /\ Formed(s) /\ Same(s0, s) /\ s.file = s0.file /\ s.off = s0.off
        /\ s.flags = s0.flags \ {"UNGETC"}
    <2> HIDE DEF s
    <2>1. PICK on \in SUBSET Flag, no \in SUBSET Flag : on = {} /\ no = {"UNGETC"} /\ s = Set(s0, on, no)
      BY DEF s, Flag
    <2>2. s = Set(s0, on, no) /\ Formed(s0)
      BY <2>1 DEF Fine
    <2>3. Flagged(s0, on, no, s)
      BY <2>2, SetIs
    <2> QED BY <2>1, <2>3 DEF Flagged
  <1>3. some <=> "WRT" \in s.flags /\ s.type # "NBF" /\ s.base /\ s.ptr > 0
    OBVIOUS
  <1>4. n = IF s.type = "LBF" THEN 0 ELSE s.bufsiz
    OBVIOUS
  <1>5. w = _write(Move(s, 0, n), Buffered(s), e)
    OBVIOUS
  <1>6. r = IF some THEN w ELSE Result(s, 0)
    OBVIOUS
  <1> HIDE DEF s, some, n, w, r
  <1>7. Fine(H, s)
    <2>1. Kinds(s)
      BY <1>2 DEF Fine, Kinds, Same
    <2>2. Stored(s)
      BY <1>2 DEF Fine, Stored, Same
    <2>3. Room(H, s)
      BY <1>2 DEF Fine, Room, Same, Limited, Writable
    <2> QED BY <1>2, <2>1, <2>2, <2>3 DEF Fine, Same
  <1>8. FlushedTo(H, s, r) /\ (~some => r.s = s)
    <2>1. CASE some
      <3>1. r = w /\ "WRT" \in s.flags /\ s.base
        BY <1>3, <1>6, <2>1
      <3>2. PICK z \in Nat : z = 0
        OBVIOUS
      <3>3. n = IF s.type = "LBF" THEN z ELSE s.bufsiz
        BY <1>4, <3>2
      <3>4. r = _write(Move(s, z, n), Buffered(s), e)
        BY <1>5, <3>1, <3>2
      <3>5. FlushedTo(H, s, r)
        BY <1>7, <3>1, <3>2, <3>3, <3>4, FlushWrites
      <3> QED BY <2>1, <3>5
    <2>2. CASE ~some
      <3>1. r.s = s
        BY <1>6, <2>2 DEF Result
      <3>2. "WRT" \in s.flags /\ s.base => s.ptr = 0
        BY <1>3, <1>7, <2>2 DEF Fine, Formed, FILE, Kinds
      <3> QED BY <1>7, <3>1, <3>2 DEF FlushedTo
    <2> QED BY <2>1, <2>2
  <1>9. CASE r.c = -1 \/ "RW" \notin s.flags
    <2>1. Flush(s0, e).s = r.s
      BY <1>1, <1>9
    <2>2. /\ Fine(H, r.s) /\ r.s.flags \subseteq s0.flags \cup {"ERR"}
          /\ "RW" \in s0.flags <=> "RW" \in r.s.flags
          /\ r.s.type = s0.type /\ (r.s.base <=> s0.base)
      BY <1>2, <1>8 DEF FlushedTo, Same
    <2>3. "WRT" \in r.s.flags /\ r.s.base => r.s.ptr = 0
      <3>1. CASE some
        BY <1>3, <1>8, <3>1 DEF FlushedTo
      <3>2. CASE ~some
        BY <1>8, <3>2 DEF FlushedTo
      <3> QED BY <3>1, <3>2
    <2>4. ASSUME Reading(r.s)
          PROVE  /\ Reading(s0) /\ r.s.ptr = s0.ptr /\ r.s.cnt = s0.cnt /\ r.s.mem = s0.mem
                 /\ r.s.bufsiz = s0.bufsiz /\ r.s.file = s0.file /\ r.s.off = s0.off
      <3>1. "READ" \in s.flags
        BY <1>8, <2>4 DEF FlushedTo, Reading
      <3>2. ~some
        BY <1>3, <1>7, <3>1 DEF Fine, Kinds
      <3>3. r.s = s
        BY <1>8, <3>2
      <3> QED BY <1>2, <2>4, <3>3 DEF Reading, Same
    <2>5. Cleared(H, s0, r.s)
      BY <2>2, <2>3, <2>4 DEF Cleared
    <2> QED BY <2>1, <2>5
  <1>10. CASE r.c # -1 /\ "RW" \in s.flags
    <2>1. Flush(s0, e).s = Set(Move(r.s, 0, 0), {}, {"WRT", "READ"})
      BY <1>1, <1>10 DEF Result
    <2>2. PICK no : no = {"WRT", "READ"}
      OBVIOUS
    <2>3. PICK x : x = r.s
      OBVIOUS
    <2>4. PICK z \in Nat : z = 0
      OBVIOUS
    <2>5. PICK t : t = Flush(s0, e).s /\ t = Set(Move(x, z, z), {}, no)
      BY <2>1, <2>2, <2>3, <2>4
    <2>6. Fine(H, x) /\ x.flags \subseteq s.flags \cup {"ERR"} /\ s.flags \subseteq x.flags
      BY <1>8, <2>3 DEF FlushedTo
    <2>7. "RW" \in x.flags \ no
      BY <1>10, <2>2, <2>6
    <2>8. /\ Fine(H, t) /\ t.flags = x.flags \ no
          /\ t.type = x.type /\ (t.base <=> x.base)
      BY <2>4, <2>5, <2>6, <2>7, ResetGood
    <2>9. "RW" \in t.flags /\ "WRT" \notin t.flags /\ t.flags \subseteq s0.flags \cup {"ERR"}
      BY <1>2, <2>2, <2>6, <2>7, <2>8
    <2>10. "RW" \in s0.flags
      BY <1>2, <1>10
    <2>11. t.type = s0.type /\ (t.base <=> s0.base)
      BY <1>2, <1>8, <2>3, <2>8 DEF FlushedTo, Same
    <2>12. Cleared(H, s0, t)
      BY <2>8, <2>9, <2>10, <2>11 DEF Cleared, Reading
    <2> QED BY <2>5, <2>12
  <1> QED BY <1>9, <1>10

-----------------------------------------------------------------------------
(* An empty buffer holds what the file holds. *)
LEMMA FineGood ==
  ASSUME NEW H, NEW s, Fine(H, s), Reading(s) => s.ptr = 0 /\ s.cnt = 0
  PROVE  Good(H, s)
  <1>0. s.bufsiz \in Nat /\ s.off \in Nat
    BY DEF Fine, Formed, FILE
  <1>1. Window(H, s)
    <2>1. SUFFICES ASSUME Reading(s) PROVE Window(H, s)
      BY DEF Window
    <2>2. s.ptr + s.cnt = 0 /\ s.cnt >= 0 /\ 0 .. s.ptr + s.cnt - 1 = {}
      BY <2>1
    <2>3. s.ptr + s.cnt <= s.bufsiz /\ s.ptr + s.cnt <= s.off
      BY <1>0, <2>2
    <2> QED BY <2>2, <2>3 DEF Window
  <1> QED BY <1>1 DEF Fine, Good

LEMMA LseekGood ==
  ASSUME NEW H, NEW s, Fine(H, s), "WRT" \in s.flags /\ s.base => s.ptr = 0,
         Reading(s) => s.ptr = 0 /\ s.cnt = 0, NEW offset \in Int, NEW whence,
         NEW r, r = Lseek(s, offset, whence), r.s.off <= Len(r.s.file)
  PROVE  Good(H, r.s)
  <1>0. s.off \in Nat /\ Len(s.file) \in Nat /\ s \in FILE
    BY LenProperties DEF Fine, Formed, FILE
  <1>1. PICK to : /\ to = offset + CASE whence = "SET" -> 0 [] whence = "CUR" -> s.off
                                     [] OTHER -> Len(s.file)
                  /\ r = IF to < 0 THEN Result(s, -1)
                         ELSE Result([s EXCEPT !.off = to], to)
    BY DEF Lseek
  <1>2. to \in Int
    <2>1. CASE whence = "SET"
      BY <1>1, <2>1
    <2>2. CASE whence = "CUR"
      BY <1>0, <1>1, <2>2
    <2>3. CASE whence # "SET" /\ whence # "CUR"
      BY <1>0, <1>1, <2>3
    <2> QED BY <2>1, <2>2, <2>3
  <1>3. CASE to < 0
    <2>1. r.s = s
      BY <1>1, <1>3 DEF Result
    <2> QED BY <2>1, FineGood
  <1>4. CASE ~(to < 0)
    <2>1. r.s = [s EXCEPT !.off = to]
      BY <1>1, <1>4 DEF Result
    <2>2. to \in Nat
      BY <1>2, <1>4
    <2>3. PICK t : t = r.s /\ t = [s EXCEPT !.off = to]
      BY <2>1
    <2>4. t.off = to /\ t.file = s.file
      BY <1>0, <2>3 DEF FILE
    <2>5. to <= Len(s.file)
      BY <2>3, <2>4
    <2>6. Good(H, t)
      BY <2>2, <2>3, <2>5, OffGood
    <2> QED BY <2>3, <2>6
  <1> QED BY <1>3, <1>4

(* Seeking within the buffer. *)
LEMMA InBufferGood ==
  ASSUME NEW H, NEW s, Good(H, s), s.open, "READ" \in s.flags, s.base, NEW d \in Int,
         InBuffer(s, d), NEW p, p = s.ptr + d, NEW n, n = s.cnt - d,
         NEW t, t = Move(s, p, n)
  PROVE  Good(H, t)
  <1>0. /\ Formed(s) /\ s.ptr \in Nat /\ s.cnt \in Int /\ s.bufsiz \in Nat /\ s.off \in Nat
        /\ "RW" \notin s.flags /\ -d <= s.ptr /\ d <= s.cnt
        /\ "WRT" \notin s.flags
    BY DEF Good, Formed, FILE, InBuffer, Kinds
  <1>1. Reading(s)
    BY <1>0 DEF Reading
  <1>2. s.cnt >= 0 /\ s.ptr + s.cnt <= s.bufsiz
    BY <1>1 DEF Good, Window
  <1>3. p \in Nat /\ n \in Int /\ n >= 0 /\ p + n = s.ptr + s.cnt
    BY <1>0
  <1>4. Formed(t) /\ Kept(s, t) /\ t.ptr = p /\ t.cnt = n
    <2>1. Moved(s, p, n, t)
      BY <1>0, <1>3, MovedIs
    <2> QED BY <2>1 DEF Moved
  <1>5. /\ t.flags = s.flags /\ t.off = s.off /\ t.mem = s.mem /\ t.file = s.file
        /\ t.bufsiz = s.bufsiz /\ t.type = s.type /\ t.base /\ t.open
        /\ t.overrun <=> s.overrun
    BY <1>4 DEF Kept
  <1>6. Kinds(t)
    BY <1>5 DEF Good, Kinds
  <1>7. Stored(t)
    <2>1. \A i \in 0 .. s.bufsiz - 1 : i < s.ptr + s.cnt => s.mem[i] # 0
      BY <1>0 DEF Good, Stored
    <2>2. \A i \in 0 .. s.bufsiz - 1 : i < p => i < s.ptr + s.cnt
      BY <1>0, <1>3
    <2> QED BY <1>0, <1>3, <1>4, <1>5, <2>1, <2>2 DEF Stored
  <1>8. Room(H, t)
    <2>1. ~Writable(t)
      BY <1>0, <1>5 DEF Writable
    <2>2. Limited(H, t) => ~t.overrun
      BY <1>5 DEF Good, Room, Limited
    <2>3. t.ptr <= t.bufsiz /\ t.ptr + t.cnt <= t.bufsiz /\ t.cnt >= 0
      BY <1>0, <1>2, <1>3, <1>4, <1>5
    <2> QED BY <1>3, <1>4, <2>1, <2>2, <2>3 DEF Room
  <1>9. Window(H, t)
    <2>1. t.ptr + t.cnt = s.ptr + s.cnt /\ t.cnt >= 0
      BY <1>3, <1>4
    <2>2. \A i \in Int : t.off - t.ptr - t.cnt + i + 1 = s.off - s.ptr - s.cnt + i + 1
      BY <1>0, <1>3, <1>4, <1>5
    <2>3. ASSUME H \cap {"unget_unread", "flush_all"} = {}, "UNGETC" \notin t.flags
          PROVE  /\ t.ptr + t.cnt <= t.off
                 /\ \A i \in 0 .. t.ptr + t.cnt - 1 :
                      t.mem[i] = t.file[t.off - t.ptr - t.cnt + i + 1]
      <3>1. /\ s.ptr + s.cnt <= s.off
            /\ \A i \in 0 .. s.ptr + s.cnt - 1 :
                 s.mem[i] = s.file[s.off - s.ptr - s.cnt + i + 1]
        BY <1>1, <1>5, <2>3 DEF Good, Window
      <3>2. ASSUME NEW i \in 0 .. t.ptr + t.cnt - 1
            PROVE  t.mem[i] = t.file[t.off - t.ptr - t.cnt + i + 1]
        <4>1. i \in 0 .. s.ptr + s.cnt - 1 /\ i \in Int
          BY <1>0, <1>3, <1>4, <2>1
        <4>2. t.off - t.ptr - t.cnt + i + 1 = s.off - s.ptr - s.cnt + i + 1
          BY <2>2, <4>1
        <4> QED BY <1>5, <3>1, <4>1, <4>2
      <3> QED BY <1>5, <2>1, <3>1, <3>2
    <2>4. t.cnt >= 0 /\ t.ptr + t.cnt <= t.bufsiz
      BY <1>2, <1>5, <2>1
    <2> QED BY <2>3, <2>4 DEF Window
  <1> QED BY <1>4, <1>6, <1>7, <1>8, <1>9 DEF Good

(* fseek(). *)
LEMMA EofCleared ==
  ASSUME NEW H, NEW s0, Good(H, s0), s0.open, NEW no, no = {"EOF"},
         NEW t, t = Set(s0, {}, no)
  PROVE  Good(H, t) /\ t.open
  <1>1. /\ Formed(t) /\ Same(s0, t) /\ t.file = s0.file /\ t.off = s0.off
        /\ t.flags = s0.flags \ no
    <2>1. PICK on \in SUBSET Flag : on = {} /\ t = Set(s0, on, no)
      OBVIOUS
    <2>2. Formed(s0) /\ t = Set(s0, on, no)
      BY <2>1 DEF Good
    <2>3. Flagged(s0, on, no, t)
      BY <2>2, SetIs
    <2> QED BY <2>1, <2>3 DEF Flagged
  <1>2. Kinds(t)
    BY <1>1 DEF Good, Kinds, Same
  <1>3. Stored(t)
    BY <1>1 DEF Good, Stored, Same
  <1>4. Room(H, t)
    <2>1. Writable(t) => Writable(s0)
      BY <1>1 DEF Writable
    <2> QED BY <1>1, <2>1 DEF Good, Room, Same, Limited
  <1>5. Window(H, t)
    BY <1>1 DEF Good, Window, Reading, Same
  <1> QED BY <1>1, <1>2, <1>3, <1>4, <1>5 DEF Good, Same

LEMMA SeekGood ==
  ASSUME NEW H, NEW s0, Good(H, s0), s0.open, NEW offset \in Int, NEW whence, NEW e,
         NEW x, x = Seek(s0, offset, whence, e), x.s.off <= Len(x.s.file)
  PROVE  Good(H, x.s)
  <1> DEFINE c == Set(s0, {}, {"EOF"})
             s == [c EXCEPT !.fill = TRUE]
             buffered == s.base /\ s.type # "NBF"
             cur == buffered /\ whence = "CUR"
             o == IF cur THEN offset + Tell(s) ELSE offset
             w == IF cur THEN "SET" ELSE whence
             d == o - Tell(s)
             no == {"UNGETC"} \cup (IF "RW" \in s.flags THEN {"READ"} ELSE {})
             out == Set(Move(s, 0, 0), {}, no)
             fl == Flush(s, e)
             r == Lseek(fl.s, offset, whence)
  <1>1. x = IF "READ" \in s.flags
            THEN IF buffered /\ w = "SET" /\ InBuffer(s, d)
                 THEN Result([s EXCEPT !.ptr = @ + d, !.cnt = @ - d], 0)
                 ELSE Lseek(Set([s EXCEPT !.cnt = 0, !.ptr = 0], {}, no), o, w)
            ELSE IF fl.c = -1 THEN Result(r.s, -1) ELSE r
    BY DEF Seek
  <1>2. Good(H, c) /\ c.open
    <2> HIDE DEF c
    <2>1. PICK q : q = {"EOF"} /\ c = Set(s0, {}, q)
      BY DEF c
    <2> QED BY <2>1, EofCleared
  <1>3. Good(H, s) /\ s.open
    <2> HIDE DEF c, s
    <2>1. PICK v \in BOOLEAN : s = [c EXCEPT !.fill = v]
      BY DEF s
    <2>2. /\ Good(H, s) /\ s.flags = c.flags /\ s.cnt = c.cnt /\ (s.open <=> c.open)
      BY <1>2, <2>1, FillSet
    <2> QED BY <1>2, <2>2
  <1>4. /\ buffered <=> s.base /\ s.type # "NBF"
        /\ o = IF cur THEN offset + Tell(s) ELSE offset
        /\ d = o - Tell(s)
        /\ no = {"UNGETC"} \cup (IF "RW" \in s.flags THEN {"READ"} ELSE {})
    OBVIOUS
  <1>5. out = Set(Move(s, 0, 0), {}, no)
    OBVIOUS
  <1>6. fl = Flush(s, e) /\ r = Lseek(fl.s, offset, whence)
    OBVIOUS
  <1>7. [s EXCEPT !.cnt = 0, !.ptr = 0] = Move(s, 0, 0)
    <2>1. s \in FILE
      BY <1>3 DEF Good, Formed
    <2> HIDE DEF s
    <2> QED BY <2>1 DEF Move, FILE
  <1> HIDE DEF c, s, buffered, cur, o, w, d, no, out, fl, r
  <1>8. /\ Fine(H, s) /\ s \in FILE /\ s.ptr \in Nat /\ s.cnt \in Int
        /\ Tell(s) \in Int /\ o \in Int /\ d \in Int
    <2>1. s \in FILE /\ s.ptr \in Nat /\ s.cnt \in Int /\ s.off \in Nat /\ Fine(H, s)
      BY <1>3 DEF Good, Formed, FILE, Fine
    <2>2. Tell(s) \in Int
      BY <2>1 DEF Tell
    <2> QED BY <1>4, <2>1, <2>2
  <1>9. CASE "READ" \in s.flags /\ buffered /\ w = "SET" /\ InBuffer(s, d)
    <2>1. x.s = [s EXCEPT !.ptr = @ + d, !.cnt = @ - d]
      BY <1>1, <1>9 DEF Result
    <2>2. PICK p, n : p = s.ptr + d /\ n = s.cnt - d
      OBVIOUS
    <2>3. [s EXCEPT !.ptr = @ + d, !.cnt = @ - d] = Move(s, p, n)
      BY <1>8, <2>2 DEF FILE, Move
    <2>4. PICK t : t = x.s /\ t = Move(s, p, n)
      BY <2>1, <2>3
    <2>5. s.base /\ "READ" \in s.flags /\ InBuffer(s, d)
      BY <1>4, <1>9
    <2>6. Good(H, t)
      BY <1>3, <1>8, <2>2, <2>4, <2>5, InBufferGood
    <2> QED BY <2>4, <2>6
  <1>10. CASE "READ" \in s.flags /\ ~(buffered /\ w = "SET" /\ InBuffer(s, d))
    <2>1. x = Lseek(out, o, w)
      BY <1>1, <1>5, <1>7, <1>10
    <2>2. PICK z \in Nat : z = 0
      OBVIOUS
    <2>3. PICK t : t = out /\ t = Set(Move(s, z, z), {}, no)
      BY <1>5, <2>2
    <2>4. \/ "READ" \in s.flags \ no \/ "WRT" \in s.flags \ no \/ "RW" \in s.flags \ no
      BY <1>4, <1>10
    <2>5. Fine(H, t) /\ t.ptr = 0 /\ t.cnt = 0
      BY <1>8, <2>2, <2>3, <2>4, ResetGood
    <2>6. x = Lseek(t, o, w)
      BY <2>1, <2>3
    <2> QED BY <1>8, <2>5, <2>6, LseekGood
  <1>11. CASE "READ" \notin s.flags
    <2>1. x.s = r.s
      BY <1>1, <1>11 DEF Result
    <2>2. PICK t : t = fl.s
      OBVIOUS
    <2>3. Cleared(H, s, t)
      BY <1>6, <1>8, <2>2, FlushIs
    <2>4. ~Reading(t)
      BY <1>11, <2>3 DEF Cleared, Reading
    <2>5. Fine(H, t) /\ ("WRT" \in t.flags /\ t.base => t.ptr = 0)
      BY <2>3 DEF Cleared
    <2>6. r = Lseek(t, offset, whence) /\ r.s.off <= Len(r.s.file)
      BY <1>6, <2>1, <2>2
    <2>7. Good(H, r.s)
      BY <2>4, <2>5, <2>6, LseekGood
    <2> QED BY <2>1, <2>7
  <1> QED BY <1>9, <1>10, <1>11

-----------------------------------------------------------------------------
(* ungetc() goes back one byte, and changes it. *)
LEMMA UngetIs ==
  ASSUME NEW s, Formed(s), s.ptr > 0, NEW c \in Byte, NEW t, t = Unget(c, s)
  PROVE  /\ Formed(t) /\ t.ptr = s.ptr - 1 /\ t.cnt = s.cnt + 1
         /\ t.type = s.type /\ (t.base <=> s.base) /\ t.bufsiz = s.bufsiz
         /\ (t.overrun <=> s.overrun) /\ t.file = s.file /\ t.off = s.off
         /\ (t.open <=> s.open)
         /\ t.flags \subseteq s.flags \cup {"UNGETC"} /\ s.flags \subseteq t.flags
         /\ \A i \in 0 .. s.bufsiz - 1 : t.mem[i] = IF i = s.ptr - 1 THEN c ELSE s.mem[i]
         /\ "UNGETC" \notin t.flags => s.mem[s.ptr - 1] = c
  <1>0. /\ s \in FILE /\ s.ptr \in Nat /\ s.cnt \in Int /\ s.bufsiz \in Nat
        /\ s.mem \in [0 .. s.bufsiz - 1 -> Byte \cup {0}] /\ s.flags \subseteq Flag
        /\ s.off <= Len(s.file) /\ Len(s.file) <= MaxLen
    BY DEF Formed, FILE
  <1>1. PICK p \in Nat : p = s.ptr - 1
    BY <1>0
  <1>2. PICK n \in Int : n = s.cnt + 1
    BY <1>0
  <1>3. PICK m \in [0 .. s.bufsiz - 1 -> Byte \cup {0}] : m = [s.mem EXCEPT ![p] = c]
    BY <1>0
  <1>4. m \in Mem
    BY <1>0, MemIs
  <1>5. PICK fl \in SUBSET Flag : fl = (s.flags \cup (IF s.mem[p] = c THEN {} ELSE {"UNGETC"})) \ {}
    BY <1>0 DEF Flag
  <1>6. t = [s EXCEPT !.cnt = n, !.ptr = p, !.mem = m, !.flags = fl]
    <2>1. PICK u : u = [s EXCEPT !.cnt = @ + 1, !.ptr = @ - 1, !.mem[s.ptr - 1] = c]
      OBVIOUS
    <2>2. u = [s EXCEPT !.cnt = n, !.ptr = p, !.mem = m]
      BY <1>0, <1>1, <1>2, <1>3, <2>1 DEF FILE
    <2>3. u.flags = s.flags
      BY <1>0, <2>2 DEF FILE
    <2>4. t = [u EXCEPT !.flags = (@ \cup (IF s.mem[p] = c THEN {} ELSE {"UNGETC"})) \ {}]
      BY <1>1, <2>1 DEF Unget, Set
    <2>5. t = [u EXCEPT !.flags = fl]
      <3>1. u \in FILE
        BY <1>0, <1>4, <2>2 DEF FILE
      <3> QED BY <1>5, <2>3, <2>4, <3>1 DEF FILE
    <2> QED BY <1>0, <2>2, <2>5 DEF FILE
  <1>7. /\ t \in FILE /\ t.ptr = p /\ t.cnt = n /\ t.mem = m /\ t.flags = fl
        /\ t.type = s.type /\ (t.base <=> s.base) /\ t.bufsiz = s.bufsiz
        /\ (t.overrun <=> s.overrun) /\ t.file = s.file /\ t.off = s.off
        /\ (t.open <=> s.open)
    BY <1>0, <1>4, <1>6 DEF FILE
  <1>8. Formed(t)
    BY <1>0, <1>7 DEF Formed
  <1>9. \A i \in 0 .. s.bufsiz - 1 : m[i] = IF i = p THEN c ELSE s.mem[i]
    BY <1>0, <1>3
  <1>10. /\ fl \subseteq s.flags \cup {"UNGETC"} /\ s.flags \subseteq fl
         /\ "UNGETC" \notin fl => s.mem[p] = c
    BY <1>5
  <1> QED BY <1>1, <1>2, <1>7, <1>8, <1>9, <1>10

LEMMA UngetGood ==
  ASSUME NEW H, NEW s0, Good(H, s0), Readable(s0), s0.base,
         s0.ptr = 0 /\ s0.cnt = 0 => "unget_unread" \in H,
         NEW s, NEW p \in Nat, NEW n \in Int, Moved(s0, p, n, s), p > 0,
         \/ p = s0.ptr /\ n = s0.cnt
         \/ p = 1 /\ n = 0 /\ s0.ptr = 0 /\ s0.cnt = 0,
         NEW c \in Byte, NEW t, t = Unget(c, s)
  PROVE  Good(H, t)
  <1>0. /\ s0.ptr \in Nat /\ s0.cnt \in Int /\ s0.cnt >= 0 /\ s0.bufsiz \in Nat
        /\ s0.off \in Nat /\ s0.bufsiz > 0 /\ s0.type # "NBF"
        /\ s0.open /\ "WRT" \notin s0.flags
        /\ "READ" \in s0.flags \/ "RW" \in s0.flags
    BY DEF Good, Formed, FILE, Readable, Kinds
  <1>1. /\ Formed(s) /\ s.ptr = p /\ s.cnt = n
        /\ s.flags = s0.flags /\ s.type = s0.type /\ (s.base <=> s0.base)
        /\ s.bufsiz = s0.bufsiz /\ s.mem = s0.mem /\ (s.overrun <=> s0.overrun)
        /\ s.file = s0.file /\ s.off = s0.off /\ (s.open <=> s0.open)
    BY DEF Moved, Kept
  <1>2. /\ Formed(t) /\ t.ptr = s.ptr - 1 /\ t.cnt = s.cnt + 1
        /\ t.type = s.type /\ (t.base <=> s.base) /\ t.bufsiz = s.bufsiz
        /\ (t.overrun <=> s.overrun) /\ t.file = s.file /\ t.off = s.off
        /\ (t.open <=> s.open)
        /\ t.flags \subseteq s.flags \cup {"UNGETC"} /\ s.flags \subseteq t.flags
        /\ \A i \in 0 .. s.bufsiz - 1 : t.mem[i] = IF i = s.ptr - 1 THEN c ELSE s.mem[i]
        /\ "UNGETC" \notin t.flags => s.mem[s.ptr - 1] = c
    BY <1>1, UngetIs
  <1>3. /\ t.ptr = p - 1 /\ t.cnt = n + 1 /\ t.bufsiz = s0.bufsiz /\ t.type = s0.type
        /\ t.base /\ t.open /\ t.off = s0.off /\ t.file = s0.file
        /\ (t.overrun <=> s0.overrun)
        /\ t.flags \subseteq s0.flags \cup {"UNGETC"} /\ s0.flags \subseteq t.flags
        /\ "WRT" \notin t.flags /\ t.ptr + t.cnt = p + n /\ n >= 0
    BY <1>0, <1>1, <1>2
  <1>4. \A i \in 0 .. s0.bufsiz - 1 : t.mem[i] = IF i = p - 1 THEN c ELSE s0.mem[i]
    BY <1>1, <1>2
  <1>5. c # 0
    BY StdioConstantsOK
  <1>6. Kinds(t)
    BY <1>0, <1>3 DEF Kinds
  <1>7. Stored(t)
    <2>1. \A i \in 0 .. s0.bufsiz - 1 : i < s0.ptr + s0.cnt => s0.mem[i] # 0
      BY <1>0 DEF Good, Stored
    <2>2. \A i \in 0 .. s0.bufsiz - 1 : i < p + n => i = p - 1 \/ i < s0.ptr + s0.cnt
      BY <1>0
    <2>3. \A i \in 0 .. t.bufsiz - 1 : i < t.ptr + t.cnt => t.mem[i] # 0
      BY <1>3, <1>4, <1>5, <2>1, <2>2
    <2>4. \A i \in 0 .. t.bufsiz - 1 : i < t.ptr => i < t.ptr + t.cnt
      BY <1>0, <1>3
    <2> QED BY <1>3, <2>3, <2>4 DEF Stored
  <1>8. Room(H, t)
    <2>1. Limited(H, t) <=> Limited(H, s0)
      BY <1>3 DEF Limited
    <2>2. Writable(t) => Writable(s0)
      BY <1>3 DEF Writable
    <2>3. SUFFICES ASSUME Limited(H, s0) PROVE Room(H, t)
      BY <2>1 DEF Room
    <2>4. /\ ~s0.overrun /\ s0.ptr + s0.cnt <= s0.bufsiz
          /\ s0.type = "LBF" /\ Writable(s0) =>
               \/ s0.ptr + s0.cnt = 0 /\ s0.ptr < s0.bufsiz
               \/ "unget_unread" \in H /\ s0.ptr + s0.cnt = 1
      BY <1>0, <2>3 DEF Good, Room
    <2>5. t.ptr <= t.bufsiz /\ t.ptr + t.cnt <= t.bufsiz /\ t.cnt >= 0 /\ ~t.overrun
      BY <1>0, <1>3, <2>4
    <2>6. s0.type = "LBF" /\ Writable(s0) => "unget_unread" \in H /\ p + n = 1
      BY <1>0, <2>4
    <2> QED BY <1>3, <2>2, <2>5, <2>6 DEF Room
  <1>9. Window(H, t)
    <2>1. SUFFICES ASSUME Reading(t) PROVE Window(H, t)
      BY DEF Window
    <2>2. Reading(s0)
      BY <1>3, <2>1 DEF Reading
    <2>3. s0.ptr + s0.cnt <= s0.bufsiz
      BY <2>2 DEF Good, Window
    <2>4. t.cnt >= 0 /\ t.ptr + t.cnt <= t.bufsiz
      BY <1>0, <1>3, <2>3
    <2>5. ASSUME H \cap {"unget_unread", "flush_all"} = {}, "UNGETC" \notin t.flags
          PROVE  /\ t.ptr + t.cnt <= t.off
                 /\ \A i \in 0 .. t.ptr + t.cnt - 1 :
                      t.mem[i] = t.file[t.off - t.ptr - t.cnt + i + 1]
      <3>1. p = s0.ptr /\ n = s0.cnt
        BY <2>5
      <3>2. /\ s0.ptr + s0.cnt <= s0.off
            /\ \A i \in 0 .. s0.ptr + s0.cnt - 1 :
                 s0.mem[i] = s0.file[s0.off - s0.ptr - s0.cnt + i + 1]
        BY <1>3, <2>2, <2>5 DEF Good, Window
      <3>3. s0.mem[p - 1] = c
        BY <1>1, <1>2, <2>5
      <3>4. ASSUME NEW i \in 0 .. t.ptr + t.cnt - 1
            PROVE  t.mem[i] = t.file[t.off - t.ptr - t.cnt + i + 1]
        <4>1. i \in 0 .. s0.ptr + s0.cnt - 1 /\ i \in 0 .. s0.bufsiz - 1
          BY <1>0, <1>3, <2>3, <3>1
        <4>2. t.off - t.ptr - t.cnt + i + 1 = s0.off - s0.ptr - s0.cnt + i + 1
          BY <1>0, <1>3, <3>1, <4>1
        <4>3. t.mem[i] = s0.mem[i]
          BY <1>4, <3>3, <4>1
        <4> QED BY <1>3, <3>2, <4>1, <4>2, <4>3
      <3> QED BY <1>3, <3>1, <3>2, <3>4
    <2> QED BY <2>4, <2>5 DEF Window
  <1> QED BY <1>2, <1>6, <1>7, <1>8, <1>9 DEF Good

-----------------------------------------------------------------------------
(***************************************************************************)
(* The calls keep the invariant.                                           *)
(***************************************************************************)
LEMMA MayReadIs ==
  ASSUME SInv, MayRead
  PROVE  Readable(f)
  BY DEF SInv, Good, Kinds, MayRead, Readable

LEMMA MayWriteIs ==
  ASSUME SInv, NEW n, MayWrite(n)
  PROVE  Space(f, n)
  BY DEF MayWrite, Space, Writable

LEMMA AnswerIs ==
  ASSUME NEW e \in Answers
  PROVE  e.k \in Int /\ e.k >= 1
  BY DEF Answers, Answer

LEMMA getcKeeps ==
  ASSUME SInv, practice' = practice, NEW e \in Answers, getc(e)
  PROVE  SInv'
  <1>1. PICK r : r = __getc(f, e)
    OBVIOUS
  <1>2. f' = r.s
    BY <1>1 DEF getc, Returns, Result
  <1>3. Good(practice, r.s)
    BY <1>1, MayReadIs, AnswerIs, GetcGood DEF SInv, getc
  <1> QED BY <1>2, <1>3 DEF SInv

LEMMA freadKeeps ==
  ASSUME SInv, practice' = practice, NEW e \in Answers, NEW n \in 1 .. MaxRead, fread(n, e)
  PROVE  SInv'
  <1>1. f' = Read(f, n, e).s
    BY DEF fread, Returns, Result
  <1>2. n \in Nat
    OBVIOUS
  <1>3. Good(practice, Read(f, n, e).s)
    BY <1>2, MayReadIs, AnswerIs, ReadGood DEF SInv, fread
  <1> QED BY <1>1, <1>3 DEF SInv

LEMMA putcKeeps ==
  ASSUME SInv, practice' = practice, NEW e, NEW c \in Byte, putc(c, e)
  PROVE  SInv'
  <1>1. PICK r : r = __putc(c, f, e)
    OBVIOUS
  <1>2. f' = r.s /\ MayWrite(1)
    BY <1>1 DEF putc, Returns
  <1>3. Space(f, 1)
    BY <1>2, MayWriteIs
  <1>4. Put(practice, f, r.s)
    BY <1>1, <1>3, PutcGood DEF SInv
  <1> QED BY <1>2, <1>4 DEF SInv, Put

LEMMA fwriteKeeps ==
  ASSUME SInv, practice' = practice, NEW e, NEW bytes \in Items, fwrite(bytes, e)
  PROVE  SInv'
  <1>1. f' = Write(f, bytes, e).s /\ MayWrite(Len(bytes))
    BY DEF fwrite, Returns
  <1>2. bytes \in Seq(Byte)
    BY StdioConstantsOK
  <1>3. Space(f, Len(bytes))
    BY <1>1, MayWriteIs
  <1>4. f.type = "LBF" /\ "WRT" \notin f.flags => "line_update" \in practice
    BY DEF fwrite
  <1>5. Good(practice, Write(f, bytes, e).s)
    BY <1>2, <1>3, <1>4, WriteGood DEF SInv
  <1> QED BY <1>1, <1>5 DEF SInv

LEMMA fflushKeeps ==
  ASSUME SInv, practice' = practice, NEW e, fflush(e)
  PROVE  SInv'
  <1>0. Fine(practice, f)
    BY DEF SInv, Good, Fine, fflush
  <1>1. PICK t : t = Flush(f, e).s
    OBVIOUS
  <1>2. f' = t
    BY <1>1 DEF fflush, Returns
  <1>3. Cleared(practice, f, t)
    BY <1>0, <1>1, FlushIs
  <1>4. Window(practice, t)
    <2>1. SUFFICES ASSUME Reading(t) PROVE Window(practice, t)
      BY DEF Window
    <2>2. /\ Reading(f) /\ t.ptr = f.ptr /\ t.cnt = f.cnt /\ t.bufsiz = f.bufsiz
      BY <1>3, <2>1 DEF Cleared
    <2>3. "flush_all" \in practice
      BY <2>2 DEF Reading, fflush
    <2>4. t.cnt >= 0 /\ t.ptr + t.cnt <= t.bufsiz
      BY <2>2 DEF SInv, Good, Window
    <2> QED BY <2>3, <2>4 DEF Window
  <1>5. Good(practice, t)
    BY <1>3, <1>4 DEF Cleared, Fine, Good
  <1> QED BY <1>2, <1>5 DEF SInv

LEMMA fseekKeeps ==
  ASSUME SInv, practice' = practice, NEW e, NEW o \in -MaxLen .. MaxLen, NEW w,
         fseek(o, w, e)
  PROVE  SInv'
  <1>1. PICK r : r = Seek(f, o, w, e)
    OBVIOUS
  <1>2. f' = r.s /\ r.s.off <= Len(r.s.file) /\ f.open
    BY <1>1 DEF fseek, Returns
  <1>3. o \in Int
    BY StdioConstantsOK
  <1>4. Good(practice, r.s)
    BY <1>1, <1>2, <1>3, SeekGood DEF SInv
  <1> QED BY <1>2, <1>4 DEF SInv

LEMMA ftellKeeps ==
  ASSUME SInv, practice' = practice, ftell
  PROVE  SInv'
  <1>0. /\ Good(practice, f) /\ f \in FILE /\ f.cnt \in Int /\ f.ptr \in Nat /\ f.open
        /\ f.bufsiz \in Nat
    BY DEF SInv, Good, Formed, FILE, ftell
  <1>1. PICK n \in Int : n = Max({f.cnt, 0}) /\ n = IF f.cnt >= 0 THEN f.cnt ELSE 0
    BY <1>0, MaxOf
  <1>2. PICK t : t = [f EXCEPT !.cnt = n] /\ f' = t
    BY <1>0, <1>1 DEF ftell, Returns, Result, FILE
  <1>3. Formed(t) /\ Kept(f, t) /\ t.ptr = f.ptr /\ t.cnt = n
    BY <1>0, <1>2, AnyCount DEF Good
  <1>4. CASE f.cnt >= 0
    <2>1. t = f
      BY <1>0, <1>1, <1>2, <1>4 DEF FILE
    <2> QED BY <1>0, <1>2, <2>1 DEF SInv
  <1>5. CASE ~(f.cnt >= 0)
    <2>1. n = 0 /\ "tell_line" \in practice
      BY <1>0, <1>1, <1>5 DEF ftell
    <2>2. Kinds(t)
      BY <1>0, <1>3, <2>1 DEF Good, Kinds, Kept
    <2>3. Stored(t)
      BY <1>0, <1>3, <2>1 DEF Good, Stored, Kept
    <2>4. Room(practice, t)
      BY <2>1 DEF Room, Limited
    <2>5. Window(practice, t)
      BY <1>0, <1>3, <1>5 DEF Good, Window, Reading, Kept
    <2> QED BY <1>2, <1>3, <2>2, <2>3, <2>4, <2>5 DEF SInv, Good
  <1> QED BY <1>4, <1>5

LEMMA ungetcKeeps ==
  ASSUME SInv, practice' = practice, NEW c \in Byte, ungetc(c)
  PROVE  SInv'
  <1>0. /\ Good(practice, f) /\ Formed(f) /\ f \in FILE /\ f.cnt \in Int /\ f.ptr \in Nat
        /\ Readable(f)
    BY MayReadIs DEF SInv, Good, Formed, FILE, ungetc
  <1>1. PICK s : s = IF f.ptr = 0 /\ f.cnt = 0 THEN [f EXCEPT !.ptr = 1] ELSE f
    OBVIOUS
  <1>2. f' = IF f.base /\ s.ptr > 0 THEN Unget(c, s) ELSE f
    BY <1>1 DEF ungetc, Returns, Result
  <1>3. f.base /\ f.ptr = 0 /\ f.cnt = 0 => "unget_unread" \in practice
    BY DEF ungetc
  <1>4. CASE ~(f.base /\ s.ptr > 0)
    BY <1>0, <1>2, <1>4 DEF SInv
  <1>5. CASE f.base /\ s.ptr > 0
    <2>1. PICK t : t = Unget(c, s) /\ f' = t
      BY <1>2, <1>5
    <2>2. CASE f.ptr = 0 /\ f.cnt = 0
      <3>1. PICK p \in Nat, n \in Int : p = 1 /\ n = 0
        OBVIOUS
      <3>2. s = [f EXCEPT !.ptr = p]
        BY <1>1, <2>2, <3>1
      <3>3. s \in FILE /\ Kept(f, s) /\ s.ptr = p /\ s.cnt = f.cnt
        BY <1>0, <3>2 DEF FILE, Kept
      <3>4. Moved(f, p, n, s)
        BY <1>0, <2>2, <3>1, <3>3 DEF Moved, Formed, Kept
      <3>5. p > 0 /\ n = 0 /\ p = 1
        BY <3>1
      <3>6. Good(practice, t)
        BY <1>0, <1>3, <1>5, <2>1, <2>2, <3>4, <3>5, UngetGood
      <3> QED BY <2>1, <3>6 DEF SInv
    <2>3. CASE ~(f.ptr = 0 /\ f.cnt = 0)
      <3>1. PICK p \in Nat, n \in Int : p = f.ptr /\ n = f.cnt
        BY <1>0
      <3>2. s = f
        BY <1>1, <2>3
      <3>3. Moved(f, p, n, s)
        BY <1>0, <3>1, <3>2 DEF Moved, Kept
      <3>4. p > 0
        BY <1>5, <3>1, <3>2
      <3>5. Good(practice, t)
        BY <1>0, <1>5, <2>1, <2>3, <3>1, <3>3, <3>4, UngetGood
      <3> QED BY <2>1, <3>5 DEF SInv
    <2> QED BY <2>2, <2>3
  <1> QED BY <1>4, <1>5

LEMMA rewindKeeps ==
  ASSUME SInv, practice' = practice, NEW e, rewind(e)
  PROVE  SInv'
  <1>0. Fine(practice, f)
    BY DEF SInv, Good, Fine, rewind
  <1>1. PICK x : x = Flush(f, e).s
    OBVIOUS
  <1>2. Cleared(practice, f, x)
    BY <1>0, <1>1, FlushIs
  <1>3. Fine(practice, x) /\ x \in FILE
    BY <1>2 DEF Cleared, Fine, Formed
  <1>4. PICK s : s = [x EXCEPT !.off = 0, !.fill = TRUE, !.cnt = 0, !.ptr = 0]
    OBVIOUS
  <1>5. PICK no : no = {"ERR", "EOF"} \cup (IF "RW" \in s.flags THEN {"READ", "WRT"} ELSE {})
    OBVIOUS
  <1>6. f' = Set(s, {}, no)
    BY <1>1, <1>4, <1>5 DEF rewind, Returns, Result
  <1>7. PICK z \in Nat : z = 0
    OBVIOUS
  <1>8. PICK v \in BOOLEAN : s = [x EXCEPT !.off = z, !.fill = v, !.cnt = z, !.ptr = z]
    BY <1>4, <1>7
  <1>9. s.flags = x.flags
    BY <1>3, <1>8 DEF FILE
  <1>10. PICK y : y = Set(Move(x, z, z), {}, no)
    OBVIOUS
  <1>11. \/ "READ" \in x.flags \ no \/ "WRT" \in x.flags \ no \/ "RW" \in x.flags \ no
    <2>1. "READ" \in x.flags \/ "WRT" \in x.flags \/ "RW" \in x.flags
      BY <1>3 DEF Fine, Kinds
    <2> QED BY <1>5, <1>9, <2>1
  <1>12. /\ Fine(practice, y) /\ y.ptr = 0 /\ y.cnt = 0 /\ y.file = x.file
    BY <1>3, <1>7, <1>10, <1>11, ResetGood
  <1>13. PICK u : u = [y EXCEPT !.off = z]
    OBVIOUS
  <1>14. Good(practice, u)
    <2>1. z <= Len(y.file)
      BY <1>7, <1>12, LenProperties DEF Fine, Formed, FILE
    <2> QED BY <1>12, <1>13, <2>1, OffGood
  <1>15. PICK t : t = [u EXCEPT !.fill = v]
    OBVIOUS
  <1>16. Good(practice, t)
    BY <1>14, <1>15, FillSet
  <1>17. f' = t
    <2>1. PICK fl : fl = (x.flags \cup {}) \ no
      OBVIOUS
    <2>2. f' = [s EXCEPT !.flags = fl]
      BY <1>6, <1>9, <2>1 DEF Set
    <2>3. y = [x EXCEPT !.ptr = z, !.cnt = z, !.flags = fl]
      <3>1. PICK m : m = Move(x, z, z)
        OBVIOUS
      <3>2. m = [x EXCEPT !.ptr = z, !.cnt = z] /\ m.flags = x.flags
        BY <1>3, <3>1 DEF Move, FILE
      <3>3. y = [m EXCEPT !.flags = fl]
        BY <1>10, <2>1, <3>1, <3>2 DEF Set
      <3> QED BY <1>3, <3>2, <3>3 DEF FILE
    <2>4. t = [x EXCEPT !.ptr = z, !.cnt = z, !.flags = fl, !.off = z, !.fill = v]
      BY <1>3, <1>13, <1>15, <2>3 DEF FILE
    <2>5. f' = [x EXCEPT !.ptr = z, !.cnt = z, !.flags = fl, !.off = z, !.fill = v]
      BY <1>3, <1>8, <2>2 DEF FILE
    <2> QED BY <2>4, <2>5
  <1> QED BY <1>16, <1>17 DEF SInv

(* A new buffer given by the program. *)
LEMMA NewBufferGood ==
  ASSUME NEW H, NEW s, Fine(H, s), ~s.base, NEW n \in Nat, n > 0,
         NEW type \in {"FBF", "LBF"}, NEW w, w = WithBuffer(s, n),
         NEW v \in BOOLEAN, NEW z \in Nat, z = 0,
         NEW t, t = [w EXCEPT !.type = type, !.fill = v, !.cnt = z, !.ptr = z]
  PROVE  Good(H, t)
  <1>0. /\ Formed(s) /\ s.open /\ ~s.overrun /\ s.off \in Nat
        /\ "READ" \in s.flags \/ "WRT" \in s.flags \/ "RW" \in s.flags
        /\ ~("READ" \in s.flags /\ "WRT" \in s.flags)
        /\ s.off <= MaxLen
    <2>1. s.off \in Nat /\ Len(s.file) \in Nat /\ s.off <= Len(s.file) /\ Len(s.file) <= MaxLen
      BY LenProperties DEF Fine, Formed, FILE
    <2> QED BY <2>1, StdioConstantsOK DEF Fine, Kinds
  <1>1. /\ Formed(w) /\ w.base /\ w.bufsiz = n
        /\ w.flags = s.flags /\ (w.overrun <=> s.overrun) /\ w.file = s.file
        /\ w.off = s.off /\ (w.open <=> s.open)
    BY <1>0, WithBufferIs
  <1>2. w \in FILE /\ z \in Int
    BY <1>1 DEF Formed
  <1>3. /\ t \in FILE /\ t.type = type /\ t.cnt = z /\ t.ptr = z
        /\ t.flags = w.flags /\ (t.base <=> w.base) /\ t.bufsiz = w.bufsiz /\ t.mem = w.mem
        /\ (t.overrun <=> w.overrun) /\ t.file = w.file /\ t.off = w.off
        /\ (t.open <=> w.open)
    BY <1>2 DEF FILE
  <1>4. Formed(t)
    BY <1>1, <1>3 DEF Formed
  <1>5. /\ t.open /\ t.base /\ t.bufsiz = n /\ ~t.overrun /\ t.flags = s.flags
        /\ t.ptr = 0 /\ t.cnt = 0 /\ t.off = s.off
    BY <1>0, <1>1, <1>3
  <1>6. Kinds(t)
    BY <1>0, <1>3, <1>5 DEF Kinds
  <1>7. Stored(t)
    BY <1>0, <1>5 DEF Stored
  <1>8. Room(H, t)
    BY <1>5 DEF Room
  <1>9. Fine(H, t)
    BY <1>4, <1>5, <1>6, <1>7, <1>8 DEF Fine
  <1> QED BY <1>5, <1>9, FineGood

LEMMA setvbufKeeps ==
  ASSUME SInv, practice' = practice, NEW e, NEW type \in {"FBF", "LBF", "NBF"},
         NEW n \in Sizes, setvbuf(type, n, e)
  PROVE  SInv'
  <1>0. Fine(practice, f) /\ ~f.base
    BY DEF SInv, Good, Fine, setvbuf
  <1>1. PICK s : s = Flush(f, e).s
    OBVIOUS
  <1>2. Cleared(practice, f, s)
    BY <1>0, <1>1, FlushIs
  <1>3. Fine(practice, s) /\ s \in FILE /\ ~s.base
    BY <1>0, <1>2 DEF Cleared, Fine, Formed
  <1>4. PICK w : w = WithBuffer(s, n)
    OBVIOUS
  <1>5. PICK b : b = [w EXCEPT !.type = type, !.fill = TRUE, !.cnt = 0, !.ptr = 0]
    OBVIOUS
  <1>6. f' = (CASE type = "NBF" -> Result([s EXCEPT !.type = type, !.cnt = 0], 0)
                [] type # "NBF" /\ e.mem -> Result(b, 0)
                [] OTHER -> Result(s, -1)).s
    BY <1>1, <1>4, <1>5 DEF setvbuf, Returns
  <1>7. PICK z \in Nat : z = 0
    OBVIOUS
  <1>8. CASE type = "NBF"
    <2>1. f' = [s EXCEPT !.type = type, !.cnt = z]
      BY <1>6, <1>7, <1>8 DEF Result
    <2>2. PICK t : t = f' /\ t = [s EXCEPT !.type = type, !.cnt = z]
      BY <2>1
    <2>3. /\ t \in FILE /\ t.type = type /\ t.cnt = z /\ t.ptr = s.ptr
          /\ t.flags = s.flags /\ (t.base <=> s.base) /\ t.bufsiz = s.bufsiz /\ t.mem = s.mem
          /\ (t.overrun <=> s.overrun) /\ t.file = s.file /\ t.off = s.off
          /\ (t.open <=> s.open)
      <3>1. t = [s EXCEPT !.type = type, !.cnt = z] /\ s \in FILE /\ z \in Int
        BY <1>3, <2>2
      <3> QED BY <3>1 DEF FILE
    <2>4. Formed(t)
      BY <1>3, <2>3 DEF Fine, Formed
    <2>5. Kinds(t)
      BY <1>3, <1>7, <1>8, <2>3 DEF Fine, Kinds
    <2>6. Stored(t)
      <3>1. t.bufsiz = 0 /\ ~t.base
        BY <1>3, <2>3 DEF Fine, Kinds
      <3> QED BY <3>1 DEF Stored
    <2>7. Room(practice, t)
      BY <1>3, <2>3 DEF Room
    <2>8. Fine(practice, t) /\ ~Reading(t)
      BY <1>3, <2>3, <2>4, <2>5, <2>6, <2>7 DEF Fine, Reading
    <2>9. Good(practice, t)
      BY <2>8, FineGood
    <2> QED BY <2>2, <2>9 DEF SInv
  <1>9. CASE type # "NBF" /\ e.mem
    <2>1. f' = b
      BY <1>6, <1>9 DEF Result
    <2>2. PICK v \in BOOLEAN : b = [w EXCEPT !.type = type, !.fill = v, !.cnt = z, !.ptr = z]
      BY <1>5, <1>7
    <2>3. n \in Nat /\ n > 0
      BY StdioConstantsOK
    <2>4. type \in {"FBF", "LBF"}
      BY <1>9
    <2>5. Good(practice, b)
      BY <1>3, <1>4, <1>7, <2>2, <2>3, <2>4, NewBufferGood
    <2> QED BY <2>1, <2>5 DEF SInv
  <1>10. CASE type # "NBF" /\ ~e.mem
    <2>1. f' = s
      BY <1>6, <1>10 DEF Result
    <2>2. ~Reading(s)
      BY <1>3 DEF Reading
    <2>3. Good(practice, s)
      BY <1>3, <2>2, FineGood
    <2> QED BY <2>1, <2>3 DEF SInv
  <1> QED BY <1>8, <1>9, <1>10

LEMMA fcloseKeeps ==
  ASSUME SInv, practice' = practice, NEW e, fclose(e)
  PROVE  SInv'
  <1>0. Fine(practice, f)
    BY DEF SInv, Good, Fine, fclose
  <1>1. PICK r : r = Flush(f, e)
    OBVIOUS
  <1>2. PICK s : s = r.s
    OBVIOUS
  <1>3. Cleared(practice, f, s)
    BY <1>0, <1>1, <1>2, FlushIs
  <1>4. s \in FILE /\ Formed(s)
    BY <1>3 DEF Cleared, Fine, Formed
  <1>5. f' = [s EXCEPT !.flags = {}, !.base = FALSE, !.ptr = 0, !.cnt = 0,
                       !.bufsiz = 0, !.mem = <<>>, !.open = FALSE]
    BY <1>1, <1>2 DEF fclose, Returns, Result
  <1>6. PICK z \in Nat : z = 0
    OBVIOUS
  <1>7. PICK no \in BOOLEAN : ~no /\ no = FALSE
    OBVIOUS
  <1>8. PICK fl \in SUBSET Flag : fl = {}
    OBVIOUS
  <1>9. PICK m : m = <<>> /\ m \in [0 .. z - 1 -> Byte \cup {0}]
    BY <1>6, NoMem
  <1>10. m \in Mem
    BY <1>9, MemIs
  <1>11. PICK t : t = f' /\ t = [s EXCEPT !.flags = fl, !.base = no, !.ptr = z, !.cnt = z,
                                          !.bufsiz = z, !.mem = m, !.open = no]
    BY <1>5, <1>6, <1>7, <1>8, <1>9
  <1>12. /\ t \in FILE /\ ~t.open /\ ~t.base /\ t.bufsiz = z /\ t.mem = m /\ t.flags = fl
         /\ t.file = s.file /\ t.off = s.off
    <2>1. /\ t = [s EXCEPT !.flags = fl, !.base = no, !.ptr = z, !.cnt = z,
                           !.bufsiz = z, !.mem = m, !.open = no]
          /\ z \in Int /\ ~no
      BY <1>7, <1>11
    <2> QED BY <1>4, <1>10, <2>1 DEF FILE
  <1>13. Formed(t)
    BY <1>4, <1>9, <1>12 DEF Formed
  <1>14. Kinds(t) /\ Room(practice, t) /\ Window(practice, t)
    BY <1>12 DEF Kinds, Room, Window, Reading
  <1>15. Stored(t)
    BY <1>6, <1>12 DEF Stored
  <1> QED BY <1>11, <1>13, <1>14, <1>15 DEF SInv, Good

-----------------------------------------------------------------------------
LEMMA OpenedGood ==
  ASSUME Init
  PROVE  SInv
  <1>1. PICK mode \in Modes, contents \in Contents : f = Opened(mode, contents)
    BY DEF Init
  <1>2. PICK fl : /\ fl = CASE mode = "r" -> {"READ"} [] mode = "w" -> {"WRT"}
                            [] OTHER -> {"RW"}
                  /\ fl \in {{"READ"}, {"WRT"}, {"RW"}}
    <2>1. CASE mode = "r"
      BY <2>1
    <2>2. CASE mode = "w"
      BY <2>2
    <2>3. CASE mode = "r+"
      BY <2>3
    <2> QED BY <2>1, <2>2, <2>3 DEF Modes
  <1>3. PICK q : /\ q = (IF mode = "w" THEN <<>> ELSE contents)
                 /\ q \in Seq(Byte) /\ Len(q) \in Nat /\ Len(q) <= MaxLen
    <2>1. PICK q : q = (IF mode = "w" THEN <<>> ELSE contents)
      OBVIOUS
    <2>2. CASE mode = "w"
      <3>1. q = <<>>
        BY <2>1, <2>2
      <3>2. q \in Seq(Byte) /\ Len(q) = 0
        BY <3>1
      <3>3. 0 <= MaxLen
        BY StdioConstantsOK
      <3>4. Len(q) \in Nat /\ Len(q) <= MaxLen
        BY <3>2, <3>3
      <3> QED BY <2>1, <3>2, <3>4
    <2>3. CASE mode # "w"
      <3>1. q = contents
        BY <2>1, <2>3
      <3>2. q \in Seq(Byte) /\ Len(q) <= MaxLen
        BY <3>1, StdioConstantsOK
      <3>3. Len(q) \in Nat
        BY <3>2, LenProperties
      <3> QED BY <2>1, <3>2, <3>3
    <2> QED BY <2>2, <2>3
  <1>4. PICK m : m = <<>> /\ m \in [0 .. 0 - 1 -> Byte \cup {0}]
    BY NoMem
  <1>5. m \in Mem
    BY <1>4, MemIs
  <1>6. f = [flags |-> fl, type |-> "FBF", base |-> FALSE, ptr |-> 0, cnt |-> 0, bufsiz |-> 0,
             fill |-> FALSE, mem |-> m, overrun |-> FALSE, file |-> q, off |-> 0,
             open |-> TRUE]
    BY <1>1, <1>2, <1>3, <1>4 DEF Opened
  <1>7. fl \subseteq Flag
    BY <1>2 DEF Flag
  <1>8. /\ f \in FILE /\ f.flags = fl /\ f.type = "FBF" /\ ~f.base /\ f.ptr = 0 /\ f.cnt = 0
        /\ f.bufsiz = 0 /\ f.mem = m /\ ~f.overrun /\ f.file = q /\ f.off = 0 /\ f.open
    BY <1>3, <1>5, <1>6, <1>7 DEF FILE
  <1>9. Formed(f)
    BY <1>3, <1>4, <1>8 DEF Formed
  <1>10. Kinds(f)
    BY <1>2, <1>8 DEF Kinds
  <1>11. Stored(f) /\ Room(practice, f) /\ Window(practice, f)
    BY <1>8 DEF Stored, Room, Window, Reading
  <1> QED BY <1>9, <1>10, <1>11 DEF SInv, Good

LEMMA StepKeeps ==
  ASSUME SInv, [Next]_vars
  PROVE  SInv'
  <1>1. CASE UNCHANGED vars
    BY <1>1 DEF vars, SInv
  <1>2. ASSUME Step, practice' = practice PROVE SInv'
    <2>1. ASSUME NEW e \in Answers, getc(e) PROVE SInv'
      BY <1>2, <2>1, getcKeeps
    <2>2. ASSUME NEW e \in Answers, NEW n \in 1 .. MaxRead, fread(n, e) PROVE SInv'
      BY <1>2, <2>2, freadKeeps
    <2>3. ASSUME NEW e \in Answers, NEW c \in Chars, putc(c, e) PROVE SInv'
      BY <1>2, <2>3, StdioConstantsOK, putcKeeps
    <2>4. ASSUME NEW e \in Answers, NEW bytes \in Items, fwrite(bytes, e) PROVE SInv'
      BY <1>2, <2>4, fwriteKeeps
    <2>5. ASSUME NEW e \in Answers, NEW t \in {"FBF", "LBF", "NBF"}, NEW n \in Sizes,
                 setvbuf(t, n, e)
          PROVE  SInv'
      BY <1>2, <2>5, setvbufKeeps
    <2>6. ASSUME NEW e \in Answers, fflush(e) PROVE SInv'
      BY <1>2, <2>6, fflushKeeps
    <2>7. ASSUME NEW e \in Answers, rewind(e) PROVE SInv'
      BY <1>2, <2>7, rewindKeeps
    <2>8. ASSUME NEW e \in Answers, fclose(e) PROVE SInv'
      BY <1>2, <2>8, fcloseKeeps
    <2>9. ASSUME NEW e \in Answers, NEW o \in -MaxLen .. MaxLen,
                 NEW w \in {"SET", "CUR", "END"}, fseek(o, w, e)
          PROVE  SInv'
      BY <1>2, <2>9, fseekKeeps
    <2>10. CASE ftell
      BY <1>2, <2>10, ftellKeeps
    <2>11. ASSUME NEW c \in Chars, ungetc(c) PROVE SInv'
      BY <1>2, <2>11, StdioConstantsOK, ungetcKeeps
    <2>12. CASE Ended
      BY <1>2, <2>12 DEF Ended, SInv
    <2> QED BY <1>2, <2>1, <2>2, <2>3, <2>4, <2>5, <2>6, <2>7, <2>8, <2>9, <2>10, <2>11,
               <2>12 DEF Step
  <1> QED BY <1>1, <1>2 DEF Next

LEMMA SInvImplies ==
  ASSUME SInv
  PROVE  SeekBackSafe
  <1>0. /\ Formed(f) /\ Kinds(f) /\ Room(practice, f) /\ Window(practice, f)
        /\ f.ptr \in Nat /\ f.cnt \in Int /\ f.bufsiz \in Nat /\ f.off \in Nat
        /\ Len(f.file) \in Nat
    BY LenProperties DEF SInv, Good, Formed, FILE
  <1>1. TypeOK
    <2>1. /\ f.flags \subseteq Flag /\ f.type \in {"FBF", "LBF", "NBF"}
          /\ f.file \in Seq(Byte) /\ Len(f.file) <= MaxLen /\ f.off \in 0 .. Len(f.file)
          /\ f.mem \in [0 .. f.bufsiz - 1 -> Byte \cup {0}]
      BY <1>0 DEF Formed, FILE
    <2>2. ASSUME f.base, Bounded
          PROVE  /\ ~f.overrun
                 /\ f.ptr \in 0 .. f.bufsiz
                 /\ f.cnt \in -f.ptr .. f.bufsiz - f.ptr
                 /\ f.cnt < 0 => f.type = "LBF" /\ f.cnt = -f.ptr
      <3>1. f.open /\ Limited(practice, f)
        BY <1>0, <2>2 DEF Kinds, Bounded, Limited
      <3>2. /\ ~f.overrun
            /\ f.ptr <= f.bufsiz /\ f.ptr + f.cnt <= f.bufsiz
            /\ f.cnt < 0 => f.type = "LBF" /\ f.ptr + f.cnt = 0
        BY <1>0, <2>2, <3>1 DEF Room
      <3> QED BY <1>0, <3>2
    <2> QED BY <2>1, <2>2 DEF TypeOK
  <1>2. ASSUME practice \cap {"unget_unread", "flush_all"} = {},
               "READ" \in f.flags, f.base, InBuffer(f, 0)
        PROVE  \A i \in 0 .. f.ptr + f.cnt - 1 :
                 f.mem[i] = f.file[f.off - f.ptr - f.cnt + i + 1]
    <2>1. Reading(f) /\ "UNGETC" \notin f.flags
      BY <1>2 DEF Reading, InBuffer
    <2> QED BY <1>0, <1>2, <2>1 DEF Window
  <1> QED BY <1>1, <1>2 DEF SeekBackSafe

(* Where fseek() may move within the buffer (fseek.c:44-45), the buffer    *)
(* holds what the file holds there, and _ptr and _cnt never leave it: for  *)
(* every file, every buffer, everything the program reads and writes, and  *)
(* every habit that SeekBackSafe does not name.                            *)
THEOREM SeekSafe == Spec => []SeekBackSafe
  <1>1. Init => SInv
    BY OpenedGood
  <1>2. SInv /\ [Next]_vars => SInv'
    BY StepKeeps
  <1>3. SInv => SeekBackSafe
    BY SInvImplies
  <1> QED BY <1>1, <1>2, <1>3, PTL DEF Spec
=============================================================================
