----------------------------- MODULE LineStream -----------------------------
(***************************************************************************)
(* What read_lines() promises its caller (read-lines.h:15-21): the bytes  *)
(* a peer writes on a connection reach the handler as lines, each line    *)
(* once, in order, without its newline; the connection ends after every   *)
(* complete line was handed over (end of file) or when it is reset.       *)
(*                                                                         *)
(* The peer is part of this module: it writes bytes (a line is at most    *)
(* MaxLine bytes before its newline, as the node protocol's lines are)    *)
(* and closes the connection with a FIN or an RST.                        *)
(***************************************************************************)
EXTENDS Naturals, Sequences, SequencesExt

CONSTANTS
  Byte,     \* the bytes a peer may write (abstracted to a few values)
  NL,       \* the newline byte
  MaxSent,  \* bound on the bytes written on the connection
  MaxLine   \* the longest line, newline excluded, the peer writes

ASSUME NL \in Byte /\ MaxSent \in Nat /\ MaxLine \in Nat

VARIABLES
  sent,     \* the bytes the peer has written, in order
  peer,     \* "open", "fin" (peer closed) or "rst" (connection reset)
  handled,  \* the lines handed to the handler, in order
  ended     \* the caller has seen the end of the connection

vars == <<sent, peer, handled, ended>>

\* The positions of newlines in s[from..to], in increasing order.
NewlinesIn(s, from, to) == SetToSortSeq({i \in from..to : s[i] = NL}, <)

\* The lines of s ending at the newlines at the (increasing) positions ps.
LinesAt(s, ps) ==
  [k \in 1..Len(ps) |-> SubSeq(s, IF k = 1 THEN 1 ELSE ps[k-1] + 1, ps[k] - 1)]

\* Reference definition: every complete line of the byte string s.
CompleteLines(s) == LinesAt(s, NewlinesIn(s, 1, Len(s)))

\* The bytes after the last newline of s.
OpenLine(s) ==
  LET ps == NewlinesIn(s, 1, Len(s))
  IN  SubSeq(s, IF ps = <<>> THEN 1 ELSE Last(ps) + 1, Len(s))

Init ==
  /\ sent = <<>>
  /\ peer = "open"
  /\ handled = <<>>
  /\ ended = FALSE

\* The peer writes one byte.
Send(c) ==
  /\ peer = "open"
  /\ Len(sent) < MaxSent
  /\ c = NL \/ Len(OpenLine(sent)) < MaxLine
  /\ sent' = Append(sent, c)
  /\ UNCHANGED <<peer, handled, ended>>

\* The peer closes its end, or the connection is reset.
Close(how) ==
  /\ peer = "open"
  /\ peer' = how
  /\ UNCHANGED <<sent, handled, ended>>

\* The handler receives the next complete lines, in order.
Deliver ==
  /\ ~ended
  /\ \E k \in Len(handled) + 1 .. Len(CompleteLines(sent)) :
        handled' = SubSeq(CompleteLines(sent), 1, k)
  /\ UNCHANGED <<sent, peer, ended>>

\* The caller sees the end: after every complete line on a FIN, at any time
\* on a reset.
End ==
  /\ ~ended
  /\ \/ peer = "rst"
     \/ peer = "fin" /\ handled = CompleteLines(sent)
  /\ ended' = TRUE
  /\ UNCHANGED <<sent, peer, handled>>

Next ==
  \/ \E c \in Byte : Send(c)
  \/ \E how \in {"fin", "rst"} : Close(how)
  \/ Deliver
  \/ End

\* Every complete line written is eventually handed over, and a closed
\* connection is eventually seen to end.
Spec == Init /\ [][Next]_vars /\ WF_vars(Deliver) /\ WF_vars(End)

=============================================================================
