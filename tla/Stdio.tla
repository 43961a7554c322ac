-------------------------------- MODULE Stdio --------------------------------
(***************************************************************************)
(* A binary stream of stdio (src/libc/ansi/stdio: filbuf.c, flsbuf.c,      *)
(* fread.c, fwrite.c, fflush.c, fseek.c, ftell.c, ungetc.c, rewind.c,      *)
(* setvbuf.c, fclose.c, fopen.c, and the inline functions of libc/file.h): *)
(* one FILE, the file behind its descriptor, and a program that uses it.   *)
(*                                                                         *)
(* The program keeps to the order that ISO C asks for: on a stream open    *)
(* for update it flushes or seeks between output and input, and it sets    *)
(* the buffer before anything else.  Text mode, append mode and terminals  *)
(* are left out, and so is seeking behind the end of the file.             *)
(***************************************************************************)
EXTENDS Integers, SequencesExt, FiniteSetsExt

CONSTANTS Byte,      \* what a file is made of; 0 is memory not yet written
          Nl,        \* the byte that ends a line
          Ff,        \* 0xFF, which a signed char extends to EOF
          Chars,     \* what the program gives to putc() and ungetc()
          TbSize,    \* __tb_size, the size of a buffer of the library's own
          Sizes,     \* the sizes the program gives to setvbuf()
          Contents,  \* what the file may hold when it is opened
          Items,     \* what the program writes with fwrite()
          MaxLen,    \* bound: the length of the file
          MaxRead,   \* bound: bytes asked of fread()
          Practice   \* the habits of programs to look at: see below

(* "unget_unread": ungetc() with nothing read in the buffer; "tell_line":  *)
(* ftell() with an unfinished line in a line buffer; "line_update": line   *)
(* buffering on a stream open for update; "flush_all": fflush(NULL) while  *)
(* reading; "write_first": reading after the first write and fflush() on a *)
(* stream that was never positioned; "bad_seek": fseek() before the start  *)
(* of the file; "rewind_fails": rewind() cannot write the buffer;          *)
(* "line_ff": fwrite() of the byte 0xFF to a line buffer.                  *)
ASSUME StdioConstantsOK ==
  /\ Byte \subseteq Nat \ {0} /\ IsFiniteSet(Byte)
  /\ {Nl, Ff} \cup Chars \subseteq Byte /\ Nl # Ff
  /\ TbSize \in Nat \ {0} /\ Sizes \subseteq Nat \ {0}
  /\ Contents \subseteq Seq(Byte) /\ Items \subseteq Seq(Byte)
  /\ MaxLen \in Nat /\ MaxRead \in Nat /\ \A q \in Contents : Len(q) <= MaxLen
  /\ Practice \subseteq SUBSET {"unget_unread", "tell_line", "line_update",
       "flush_all", "write_first", "bad_seek", "rewind_fails", "line_ff"}

VARIABLES
  f,        \* the FILE, and the file
  last,     \* history: the last call, what it was asked for, and what it
            \* returned: bytes read, a position, or <<-1>> if it failed
  practice  \* what the program of this behaviour does; never changes

vars == <<f, last, practice>>

Flag == {"READ", "WRT", "RW", "EOF", "ERR", "UNGETC"}
Modes == {"r", "w", "r+"}

(* fopen() *)
Opened(mode, contents) ==
  [flags |-> CASE mode = "r" -> {"READ"} [] mode = "w" -> {"WRT"} [] OTHER -> {"RW"},
   type |-> "FBF", base |-> FALSE, ptr |-> 0, cnt |-> 0, bufsiz |-> 0,
   fill |-> FALSE,      \* _fillsize is not 0
   mem |-> <<>>,        \* the buffer, from 0
   overrun |-> FALSE,   \* history: a byte was stored behind the buffer
   file |-> IF mode = "w" THEN <<>> ELSE contents,
   off |-> 0,           \* the position of the descriptor
   open |-> TRUE]

Init ==
  /\ \E mode \in Modes, contents \in Contents : f = Opened(mode, contents)
  /\ last = [call |-> "open", arg |-> <<>>, val |-> <<>>]
  /\ practice \in Practice

(* What the rest of the system answers during a call: how much _filbuf()   *)
(* asks for (_fillsize grows and shrinks between 512 and the size of the   *)
(* buffer), and whether malloc() and the descriptor work.                  *)
Answer == [k : 1 .. Max(Sizes \cup {TbSize}), mem : BOOLEAN, io : BOOLEAN]

-----------------------------------------------------------------------------
(* The functions below take a stream s and return it with a value c; -1 is *)
(* EOF.                                                                    *)
Result(s, c) == [s |-> s, c |-> c]
Set(s, on, off) == [s EXCEPT !.flags = (@ \cup on) \ off]

(* What _filbuf() and _flsbuf() do first: a buffer is allocated. *)
NeedsBuffer(s) == ~s.base /\ s.type # "NBF"
WithBuffer(s, n) == [s EXCEPT !.base = TRUE, !.bufsiz = n, !.mem = [i \in 0 .. n - 1 |-> 0]]

FillWith(s, bytes) ==
  [s EXCEPT !.mem = [i \in DOMAIN @ |-> IF i < Len(bytes) THEN bytes[i + 1] ELSE @[i]],
            !.ptr = 1, !.cnt = Len(bytes) - 1, !.off = @ + Len(bytes)]

_filbuf(s0, e) ==
  LET s == IF "RW" \in s0.flags THEN Set(s0, {"READ"}, {}) ELSE s0
      b == IF ~NeedsBuffer(s) THEN s
           ELSE IF e.mem THEN [WithBuffer(s, TbSize) EXCEPT !.fill = TRUE]
           ELSE [s EXCEPT !.type = "NBF"]
      u == Set(b, {}, {"UNGETC"})
      size == IF u.type = "NBF" THEN 1
              ELSE IF u.fill THEN Min({e.k, u.bufsiz}) ELSE 0
      bytes == SubSeq(u.file, u.off + 1, Min({u.off + size, Len(u.file)}))
      none == [u EXCEPT !.ptr = 0, !.cnt = 0]
  IN IF "EOF" \in s.flags THEN Result(s, -1)
     ELSE IF ~e.io THEN Result(Set(none, {"ERR"}, {}), -1)
     ELSE IF bytes = <<>>
       THEN Result(Set(none, {"EOF"}, IF "RW" \in u.flags THEN {"READ"} ELSE {}), -1)
     ELSE Result(FillWith(u, bytes), bytes[1])

(* What is written is written at once, or nothing is: a descriptor that    *)
(* takes a part and then fails leaves ERR too, after which nothing is      *)
(* promised.                                                               *)
_write(s, bytes, e) ==
  IF bytes = <<>> THEN Result(s, 0)
  ELSE IF ~e.io THEN Result(Set(s, {"ERR"}, {}), -1)
  ELSE Result([s EXCEPT
         !.file = [i \in 1 .. Max({Len(@), s.off + Len(bytes)}) |->
                     IF i - s.off \in DOMAIN bytes THEN bytes[i - s.off] ELSE @[i]],
         !.off = @ + Len(bytes)], 0)

(* *f->_ptr++ = c *)
Store(s, c) ==
  IF s.ptr \in DOMAIN s.mem THEN [s EXCEPT !.mem[s.ptr] = c, !.ptr = @ + 1]
                            ELSE [s EXCEPT !.ptr = @ + 1, !.overrun = TRUE]
Buffered(s) == [i \in 1 .. Min({s.ptr, s.bufsiz}) |-> s.mem[i - 1]]

LineFull(s) == s.ptr >= s.bufsiz

_flsbuf(c, s0, e) ==
  LET s == IF "RW" \in s0.flags THEN Set(s0, {"WRT"}, {"EOF", "READ"}) ELSE s0
      b == IF ~NeedsBuffer(s) THEN s
           ELSE IF e.mem THEN [WithBuffer(s, TbSize) EXCEPT !.cnt = TbSize, !.ptr = 0]
           ELSE [s EXCEPT !.type = "NBF"]
      line == Store(b, c)
      full == _write([b EXCEPT !.ptr = 0, !.cnt = b.bufsiz], Buffered(b), e)
  IN CASE b.type = "LBF" /\ (c = Nl \/ LineFull(line)) ->
            _write([line EXCEPT !.ptr = 0, !.cnt = 0], Buffered(line), e)
       [] b.type = "LBF" /\ ~(c = Nl \/ LineFull(line)) ->
            Result([line EXCEPT !.cnt = -line.ptr], c)
       [] b.type = "NBF" -> _write([b EXCEPT !.cnt = 0], <<c>>, e)
       [] OTHER -> IF full.c = -1 THEN full
                   ELSE Result([Store(full.s, c) EXCEPT !.cnt = @ - 1], c)

__getc(s, e) ==
  IF s.cnt > 0 THEN Result([s EXCEPT !.cnt = @ - 1, !.ptr = @ + 1], s.mem[s.ptr])
               ELSE _filbuf(s, e)

__putc(c, s, e) ==
  IF s.cnt > 0 THEN Result([Store(s, c) EXCEPT !.cnt = @ - 1], c)
               ELSE _flsbuf(c, s, e)

(* fread() takes what is in the buffer and calls _filbuf() for the rest.   *)
(* "filbuf clobbers _cnt & _ptr", but not if the end was reached before.   *)
Got(s, got, end) == [s |-> s, got |-> got, end |-> end]

GetInto(a, e) ==
  LET r == __getc(a.s, e)
  IN IF a.end THEN a
     ELSE IF r.c = -1 THEN Got(r.s, a.got, TRUE) ELSE Got(r.s, Append(a.got, r.c), FALSE)

GetUpTo(s, n, e) ==
  LET some[i \in 0 .. n] ==
        IF i = 0 THEN Got(s, <<>>, FALSE) ELSE GetInto(some[i - 1], e)
  IN  some

Read(s0, n, e) ==
  LET s == [s0 EXCEPT !.fill = @ \/ s0.bufsiz > 0]
      all == GetUpTo(s, n, e)[n]
  IN IF "EOF" \in s.flags /\ s.cnt \in 1 .. n - 1
     THEN Got(_filbuf(s, e).s, all.got, TRUE)
     ELSE all

(* fwrite(): with line buffering _cnt runs down to the negative size of    *)
(* the buffer.  The byte is given to _flsbuf() as a plain char, so that    *)
(* 0xFF, which is stored like any other, comes back as EOF (fwrite.c:41);  *)
(* without line buffering it is an unsigned char (fwrite.c:57).            *)
PutLine(c, s0, e) ==
  LET s == [s0 EXCEPT !.cnt = @ - 1]
      r == _flsbuf(c, s, e)
  IN IF s.cnt > -s.bufsiz /\ c # Nl THEN Result(Store(s, c), c)
     ELSE Result(r.s, IF c = Ff THEN -1 ELSE r.c)

PutFrom(a, c, type, e) ==
  IF a.c = -1 THEN a
  ELSE IF type = "LBF" THEN PutLine(c, a.s, e) ELSE __putc(c, a.s, e)

PutUpTo(s, bytes, e) ==
  LET some[i \in 0 .. Len(bytes)] ==
        IF i = 0 THEN Result(s, 0) ELSE PutFrom(some[i - 1], bytes[i], s.type, e)
  IN  some

Write(s, bytes, e) == PutUpTo(s, bytes, e)[Len(bytes)]

Flush(s0, e) ==
  LET s == Set(s0, {}, {"UNGETC"})
      some == "WRT" \in s.flags /\ s.type # "NBF" /\ s.base /\ s.ptr > 0
      w == _write([s EXCEPT !.ptr = 0, !.cnt = IF s.type = "LBF" THEN 0 ELSE s.bufsiz],
                  Buffered(s), e)
      r == IF some THEN w ELSE Result(s, 0)
  IN IF r.c = -1 \/ "RW" \notin s.flags THEN r
     ELSE Result(Set([r.s EXCEPT !.cnt = 0, !.ptr = 0], {}, {"WRT", "READ"}), 0)

Lseek(s, offset, whence) ==
  LET to == offset + CASE whence = "SET" -> 0 [] whence = "CUR" -> s.off
                       [] OTHER -> Len(s.file)
  IN IF to < 0 THEN Result(s, -1) ELSE Result([s EXCEPT !.off = to], to)

Tell(s) ==
  CASE "READ" \in s.flags -> s.off - s.cnt
    [] "WRT" \in s.flags /\ s.base /\ s.type # "NBF" -> s.off + s.ptr
    [] OTHER -> s.off

(* Seeking within the buffer: not on a stream open for update, and not     *)
(* when ungetc() has changed the buffer.                                   *)
InBuffer_Unget(s, d) ==   \* mutant: although the buffer was changed
  "RW" \notin s.flags /\ -d <= s.ptr /\ d <= s.cnt
InBuffer(s, d) ==
  s.flags \cap {"UNGETC", "RW"} = {} /\ -d <= s.ptr /\ d <= s.cnt

Seek(s0, offset, whence, e) ==
  LET s == [Set(s0, {}, {"EOF"}) EXCEPT !.fill = TRUE]
      buffered == s.base /\ s.type # "NBF"
      cur == buffered /\ whence = "CUR"
      o == IF cur THEN offset + Tell(s) ELSE offset
      w == IF cur THEN "SET" ELSE whence
      d == o - Tell(s)
      out == Set([s EXCEPT !.cnt = 0, !.ptr = 0], {},
                 {"UNGETC"} \cup (IF "RW" \in s.flags THEN {"READ"} ELSE {}))
      fl == Flush(s, e)
      r == Lseek(fl.s, offset, whence)
  IN IF "READ" \in s.flags
     THEN IF buffered /\ w = "SET" /\ InBuffer(s, d)
          THEN Result([s EXCEPT !.ptr = @ + d, !.cnt = @ - d], 0)
          ELSE Lseek(out, o, w)
     ELSE IF fl.c = -1 THEN Result(r.s, -1) ELSE r

Unget_NoFlag(c, s) ==   \* mutant: _IOUNGETC is not set
  [s EXCEPT !.cnt = @ + 1, !.ptr = @ - 1, !.mem[s.ptr - 1] = c]
Unget(c, s) ==
  Set([s EXCEPT !.cnt = @ + 1, !.ptr = @ - 1, !.mem[s.ptr - 1] = c],
      IF s.mem[s.ptr - 1] = c THEN {} ELSE {"UNGETC"}, {})

-----------------------------------------------------------------------------
(* The calls.  Input on a stream open for update may not follow output     *)
(* directly, nor output input, unless the end was met.                     *)
MayRead ==
  /\ f.open /\ ~f.overrun /\ f.cnt >= 0
  /\ "READ" \in f.flags \/ f.flags \cap {"RW", "WRT"} = {"RW"}
  /\ f.base /\ f.type # "NBF" /\ ~f.fill => "write_first" \in practice
MayWrite(n) ==
  /\ f.open /\ ~f.overrun
  /\ \/ "WRT" \in f.flags
     \/ "RW" \in f.flags /\ ("READ" \in f.flags => "EOF" \in f.flags)
  /\ f.off + f.ptr + n <= MaxLen

Returns(call, arg, r, value) ==
  /\ f' = r.s
  /\ last' = [call |-> call, arg |-> arg, val |-> IF r.c = -1 THEN <<-1>> ELSE value]

getc(e) ==
  LET r == __getc(f, e) IN
  /\ MayRead
  /\ Returns("get", <<1>>, Result(r.s, 0), IF r.c = -1 THEN <<>> ELSE <<r.c>>)

fread(n, e) ==
  LET r == Read(f, n, e) IN
  /\ MayRead
  /\ Returns("get", <<n>>, Result(r.s, 0), r.got)

putc(c, e) == MayWrite(1) /\ Returns("put", <<c>>, __putc(c, f, e), <<>>)

fwrite(bytes, e) ==
  /\ MayWrite(Len(bytes))
  /\ f.type = "LBF" /\ "WRT" \notin f.flags => "line_update" \in practice
  /\ f.type = "LBF" /\ Ff \in Range(bytes) => "line_ff" \in practice
  /\ Returns("put", bytes, Write(f, bytes, e), <<>>)

fflush(e) ==
  /\ f.open /\ ~f.overrun
  /\ "READ" \in f.flags => "flush_all" \in practice
  /\ Returns("flush", <<>>, Flush(f, e), <<>>)

(* Where a seek is to go, given what the program knows. *)
Target(offset, whence) ==
  offset + CASE whence = "SET" -> 0 [] whence = "CUR" -> Tell(f)
             [] OTHER -> Max({Len(f.file), Tell(f)})

fseek(offset, whence, e) ==
  LET to == Target(offset, whence)
      r == Seek(f, offset, whence, e)
  IN
  /\ f.open /\ ~f.overrun
  /\ to <= Target(0, "END") /\ r.s.off <= Len(r.s.file)
  /\ to < 0 => "bad_seek" \in practice
  /\ Returns("seek", <<to>>, r, <<>>)

ftell ==
  /\ f.open /\ ~f.overrun
  /\ f.cnt < 0 => "tell_line" \in practice
  /\ Returns("tell", <<>>, Result([f EXCEPT !.cnt = Max({@, 0})], 0), <<Tell(f)>>)

(* ungetc() goes back in the buffer, or makes room in an empty one. *)
ungetc(c) ==
  LET s == IF f.ptr = 0 /\ f.cnt = 0 THEN [f EXCEPT !.ptr = 1] ELSE f IN
  /\ MayRead
  /\ f.base /\ f.ptr = 0 /\ f.cnt = 0 => "unget_unread" \in practice
  /\ Returns("unget", <<c>>,
             IF f.base /\ s.ptr > 0 THEN Result(Unget(c, s), c) ELSE Result(f, -1), <<>>)

rewind(e) ==
  LET s == [Flush(f, e).s EXCEPT !.off = 0, !.fill = TRUE, !.cnt = 0, !.ptr = 0] IN
  /\ f.open /\ ~f.overrun
  /\ ~e.io => "rewind_fails" \in practice
  /\ Returns("seek", <<0>>,
       Result(Set(s, {}, {"ERR", "EOF"} \cup
                         (IF "RW" \in s.flags THEN {"READ", "WRT"} ELSE {})), 0), <<>>)

(* The first call on a stream, if any. *)
setvbuf(type, n, e) ==
  LET s == Flush(f, e).s
      b == [WithBuffer(s, n) EXCEPT !.type = type, !.fill = TRUE, !.cnt = 0, !.ptr = 0]
  IN
  /\ f.open /\ ~f.base /\ f.type = "FBF"
  /\ Returns("setvbuf", <<>>,
       CASE type = "NBF" -> Result([s EXCEPT !.type = type, !.cnt = 0], 0)
         [] type # "NBF" /\ e.mem -> Result(b, 0)
         [] OTHER -> Result(s, -1), <<>>)

fclose(e) ==
  LET r == Flush(f, e) IN
  /\ f.open /\ ~f.overrun
  /\ Returns("close", <<>>,
       Result([r.s EXCEPT !.flags = {}, !.base = FALSE, !.ptr = 0, !.cnt = 0,
                          !.bufsiz = 0, !.mem = <<>>, !.open = FALSE], r.c), <<>>)

Ended == (~f.open \/ f.overrun) /\ UNCHANGED <<f, last>>

(* What a call does not depend on is fixed: only reading asks for k bytes, *)
(* only reading, writing and setvbuf() allocate, and that once, and only   *)
(* what was written is flushed.                                            *)
Answers == {e \in Answer : (~NeedsBuffer(f) => e.mem) /\ (f.type = "NBF" => e.k = 1)}

Step ==
  \/ \E e \in Answers :
       \/ getc(e)
       \/ \E n \in 1 .. MaxRead : fread(n, e)
       \/ /\ e.k = 1
          /\ \/ \E c \in Chars : putc(c, e)
             \/ \E bytes \in Items : fwrite(bytes, e)
             \/ \E t \in {"FBF", "LBF", "NBF"}, n \in Sizes : setvbuf(t, n, e)
       \/ /\ e.k = 1 /\ e.mem /\ (e.io \/ "WRT" \in f.flags)
          /\ \/ fflush(e) \/ rewind(e) \/ fclose(e)
             \/ \E o \in -MaxLen .. MaxLen, w \in {"SET", "CUR", "END"} : fseek(o, w, e)
  \/ ftell
  \/ \E c \in Chars : ungetc(c)
  \/ Ended

Next == Step /\ UNCHANGED practice

Spec == Init /\ [][Next]_vars

-----------------------------------------------------------------------------
(* What breaks the bounds of a buffer.  ftell() forgets how far a negative *)
(* _cnt of a line buffer has come (ftell.c:26-27), and fwrite() goes on    *)
(* from there (fwrite.c:39).  It goes on in the same way from what         *)
(* ungetc() left in an empty buffer for update, and a byte that was read   *)
(* back from there fills a line buffer of one byte, which _flsbuf() does   *)
(* not expect (flsbuf.c).                                                  *)
Bounded ==
  /\ "tell_line" \notin practice
  /\ "unget_unread" \in practice => "line_update" \notin practice /\ f.bufsiz > 1

(* _ptr and _cnt stay within the buffer, whichever way it is filled and    *)
(* emptied, and nothing is stored behind it.                               *)
TypeOK ==
  /\ f.flags \subseteq Flag /\ f.type \in {"FBF", "LBF", "NBF"}
  /\ f.file \in Seq(Byte) /\ Len(f.file) <= MaxLen /\ f.off \in 0 .. Len(f.file)
  /\ f.mem \in [0 .. f.bufsiz - 1 -> Byte \cup {0}]
  /\ f.base /\ f.type # "NBF" /\ Bounded =>
       /\ ~f.overrun
       /\ f.ptr \in 0 .. f.bufsiz
       /\ f.cnt \in -f.ptr .. f.bufsiz - f.ptr
       /\ f.cnt < 0 => f.type = "LBF" /\ f.cnt = -f.ptr

(* Where fseek() may move within the buffer (fseek.c:44-45), the buffer    *)
(* holds what the file holds there.  It does not after ungetc() into an    *)
(* empty buffer, which compares with an old byte (ungetc.c:15-25), nor     *)
(* after fflush(NULL), which clears the mark of ungetc() (fflush.c:49).    *)
SeekBackSafe ==
  /\ TypeOK
  /\ /\ practice \cap {"unget_unread", "flush_all"} = {}
     /\ "READ" \in f.flags /\ f.base /\ f.type # "NBF" /\ InBuffer(f, 0)
     => \A i \in 0 .. f.ptr + f.cnt - 1 : f.mem[i] = f.file[f.off - f.ptr - f.cnt + i + 1]

(* Behind the buffers there is a sequence of bytes and a position.         *)
Dirty == IF "WRT" \in f.flags /\ f.base /\ f.type # "NBF" THEN Buffered(f) ELSE <<>>
Data == [i \in 1 .. Max({Len(f.file), f.off + Len(Dirty)}) |->
           IF i - f.off \in DOMAIN Dirty THEN Dirty[i - f.off] ELSE f.file[i]]
Unread == IF "READ" \in f.flags THEN {i \in 0 .. f.cnt - 1 :
                                        f.mem[f.ptr + i] # f.file[f.off - f.cnt + i + 1]}
                                ELSE {}
PushedBack == [p \in {f.off - f.cnt + i : i \in Unread} |-> f.mem[f.ptr + p - f.off + f.cnt]]
Failed == "ERR" \in f.flags \/ (~f.open /\ last.val = <<-1>>)
Void == practice # {} \/ Failed   \* nothing is promised

Stream == INSTANCE ByteStream WITH
  data <- Data, pos <- Tell(f), pushed <- PushedBack, open <- f.open, void <- Void

(* Every call does to the bytes what it promises, however the buffer is    *)
(* filled and emptied: reading, writing, seeking within the buffer and out *)
(* of it, pushing back, in any order that ISO C allows, with the buffers   *)
(* that could not be allocated included.  The habits that break it are     *)
(* named at Practice.                                                      *)
RefinesByteStream == Stream!BSpec
==============================================================================
