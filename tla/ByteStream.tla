----------------------------- MODULE ByteStream -----------------------------
(***************************************************************************)
(* What a binary stream promises to a program: a sequence of bytes and a   *)
(* position in it, with bytes pushed back in front of the position.        *)
(* Nothing is known of buffers.                                            *)
(***************************************************************************)
EXTENDS Integers, Sequences, FiniteSetsExt

CONSTANTS Byte

VARIABLES data,    \* the contents
          pos,     \* the position, from 0
          pushed,  \* the bytes pushed back, by position
          last,    \* the last call: its name, what it was given, and what it
                   \* returned; <<-1>> if it was refused
          open,
          void     \* nothing is promised: an error was reported, or the
                   \* program does what the promise does not cover

bvars == <<data, pos, pushed, last, open, void>>

NoCall == [call |-> "open", arg |-> <<>>, val |-> <<>>]

BInit ==
  /\ data \in Seq(Byte) /\ pos = 0 /\ pushed = <<>> /\ last = NoCall
  /\ open = TRUE /\ void \in BOOLEAN

At(p) == IF p \in DOMAIN pushed THEN pushed[p] ELSE data[p + 1]

(* Up to n bytes are read; fewer only at the end. *)
Get(n, val) ==
  LET m == Min({n, Len(data) - pos}) IN
  /\ val = [i \in 1 .. m |-> At(pos + i - 1)]
  /\ pos' = pos + m
  /\ pushed' = [p \in {q \in DOMAIN pushed : q >= pos + m} |-> pushed[p]]
  /\ UNCHANGED <<data, open>>

(* Bytes are written over what is there, or behind it. *)
Put(bytes, val) ==
  /\ data' = [i \in 1 .. Max({Len(data), pos + Len(bytes)}) |->
                IF i - pos \in DOMAIN bytes THEN bytes[i - pos] ELSE data[i]]
  /\ pos' = pos + Len(bytes)
  /\ val = <<>>
  /\ UNCHANGED <<pushed, open>>

Unget(c, val) ==
  /\ pos' = pos - 1
  /\ pushed' = [p \in (DOMAIN pushed \ {pos - 1})
                        \cup (IF c = data[pos] THEN {} ELSE {pos - 1}) |->
                  IF p = pos - 1 THEN c ELSE pushed[p]]
  /\ val = <<>>
  /\ UNCHANGED <<data, open>>

(* Seeking discards what was pushed back. *)
Seek(p, val) ==
  /\ pos' = p /\ pushed' = <<>> /\ val = <<>>
  /\ UNCHANGED <<data, open>>

Tell(val) == val = <<pos>> /\ UNCHANGED <<data, pos, pushed, open>>

(* Flushing and setting the buffer, and what is refused. *)
Nothing(val) == val = <<>> /\ UNCHANGED <<data, pos, pushed, open>>
Refuse(val) == val = <<-1>> /\ UNCHANGED <<data, pos, pushed, open>>

Close(val) == open' = FALSE /\ val = <<>> /\ UNCHANGED data

Call(name, arg, val) ==
  \/ name = "get" /\ Get(arg[1], val)
  \/ name = "put" /\ Put(arg, val)
  \/ name = "unget" /\ (Refuse(val) \/ (pos > 0 /\ Unget(arg[1], val)))
  \/ name = "seek" /\ (Refuse(val) \/ Seek(arg[1], val))
  \/ name = "tell" /\ Tell(val)
  \/ name = "flush" /\ Nothing(val)
  \/ name = "setvbuf" /\ (Refuse(val) \/ Nothing(val))
  \/ name = "close" /\ Close(val)

BNext ==
  \/ void \/ void'
  \/ open /\ UNCHANGED void /\ Call(last'.call, last'.arg, last'.val)

BSpec == BInit /\ [][BNext]_bvars
=============================================================================
