----------------------------- MODULE SignalMask -----------------------------
(***************************************************************************)
(* What signal(), raise() and sigprocmask() promise a program              *)
(* (posix/signal/sigprocm.c): the signals in the mask are recorded and not *)
(* delivered, taking a signal out of the mask delivers a recorded one to   *)
(* the disposition the program has set, and nothing else is delivered or   *)
(* lost.  A program starts with every signal at SIG_DFL, none blocked and  *)
(* none pending.                                                           *)
(***************************************************************************)
EXTENDS Naturals, Sequences

CONSTANTS Sig,       \* signal numbers
          SIGKILL,   \* cannot be caught or blocked
          SIGQUIT,   \* its default is to be ignored
          Handler,   \* functions of the program used as handlers
          SIG_DFL, SIG_IGN

VARIABLES up,        \* a program is running
          disp,      \* disposition of every signal
          mask,      \* the blocked signals
          pend,      \* signals raised while blocked
          active     \* handler activations in progress, innermost last

svars == <<up, disp, mask, pend, active>>

SInit ==
  /\ up = FALSE
  /\ disp = [s \in Sig |-> SIG_DFL]
  /\ mask = {} /\ pend = {}
  /\ active = <<>>

Ignored(s) == \/ disp[s] = SIG_IGN
              \/ s = SIGQUIT /\ disp[s] = SIG_DFL

(* A program starts, or ends for whatever reason. *)
Fresh(running) ==
  /\ up' = running
  /\ disp' = [s \in Sig |-> SIG_DFL]
  /\ mask' = {} /\ pend' = {}
  /\ active' = <<>>

(* The effect of a signal that is not blocked; mask and pend are up to the *)
(* caller.                                                                 *)
Deliver(s) ==
  \/ Ignored(s) /\ UNCHANGED <<up, disp, active>>
  \/ /\ disp[s] \in Handler
     /\ active' = Append(active, <<s, disp[s]>>)
     /\ UNCHANGED <<up, disp>>

SetDisp(s, h) ==
  /\ up /\ s # SIGKILL
  /\ disp' = [disp EXCEPT ![s] = h]
  /\ UNCHANGED <<up, mask, pend, active>>

Raise(s) ==
  /\ up
  /\ \/ s \in mask /\ pend' = pend \cup {s} /\ UNCHANGED <<up, disp, active>>
     \/ s \notin mask /\ Deliver(s) /\ UNCHANGED pend
  /\ UNCHANGED mask

Block(s) ==
  /\ up /\ s # SIGKILL
  /\ mask' = mask \cup {s}
  /\ UNCHANGED <<up, disp, pend, active>>

Unblock(s) ==
  /\ up /\ s \in mask
  /\ mask' = mask \ {s} /\ pend' = pend \ {s}
  /\ IF s \in pend THEN Deliver(s) ELSE UNCHANGED <<up, disp, active>>

Return ==
  /\ up /\ active # <<>>
  /\ active' = SubSeq(active, 1, Len(active) - 1)
  /\ UNCHANGED <<up, disp, mask, pend>>

SNext ==
  \/ ~up /\ Fresh(TRUE)
  \/ up /\ Fresh(FALSE)
  \/ Return
  \/ \E s \in Sig : \/ Raise(s) \/ Block(s) \/ Unblock(s)
                    \/ \E h \in Handler \cup {SIG_DFL, SIG_IGN} : SetDisp(s, h)

SSpec == SInit /\ [][SNext]_svars
=============================================================================
