----------------------------- MODULE ReadLines ------------------------------
(***************************************************************************)
(* read_lines() of read-lines.c, serving one connection of the main loop  *)
(* (main.c:507-516).  Each call reads at most the free space of the       *)
(* buffer, scans the bytes for newlines, hands every line found to the    *)
(* handler and moves the unfinished rest to the front of the buffer.      *)
(* RL_END and RL_ERROR make the caller close the connection; RL_OVERFLOW  *)
(* only prints a warning.                                                  *)
(*                                                                         *)
(* The buffer is modelled by its live part, buffer[0 .. *buffer_index-1], *)
(* as a sequence (position i+1 of the sequence is buffer[i]).  The peer   *)
(* and the line stream it promises are those of LineStream.               *)
(***************************************************************************)
EXTENDS Naturals, Sequences, SequencesExt

CONSTANTS Byte, NL, MaxSent, MaxLine,
  BufSize   \* buffer_size: MAX_NODE_MESSAGE_SIZE or USER_COMMAND_BUF_SIZE

ASSUME BufSize \in Nat \ {0}

VARIABLES sent, peer, handled, ended,
  pos,       \* how many bytes of sent read() has returned
  buffer,    \* buffer[0 .. *buffer_index - 1]
  overflows  \* how many calls returned RL_OVERFLOW (history, for properties)

vars == <<sent, peer, handled, ended, pos, buffer, overflows>>

LS == INSTANCE LineStream

\* The loop of read-lines.c:16-23 looks for newlines at buffer[0 .. len-1],
\* where len is what this read() returned, and hands over the line ending at
\* each one; message_start_index ends just after the last.
Scanned(whole, len) == LS!NewlinesIn(whole, 1, len)

\* Mutant: the rest is moved from one byte too far.
Remainder_SkipNewline(whole, msi) == SubSeq(whole, msi + 2, Len(whole))

\* The incomplete message moved to the front of the buffer.
Remainder(whole, msi) == SubSeq(whole, msi + 1, Len(whole))

\* Mutant: the overflow test only fires past the end of the buffer.
Overflows_Strict(rest) == Len(rest) > BufSize

\* remainder_len == buffer_size: the rest fills the buffer.
Overflows(rest) == Len(rest) = BufSize

Init ==
  /\ LS!Init
  /\ pos = 0
  /\ buffer = <<>>     \* add_connection() sets buffer_index = 0
  /\ overflows = 0

\* One call of read_lines() on a readable socket, with the caller's reaction.
ReadLines ==
  /\ ~ended
  /\ \/ /\ peer = "rst"                          \* read() == -1: RL_ERROR
        /\ ended' = TRUE
        /\ UNCHANGED <<sent, peer, handled, pos, buffer, overflows>>
     \/ /\ peer = "fin" /\ pos = Len(sent)       \* read() == 0: RL_END
        /\ buffer' = <<>>
        /\ ended' = TRUE
        /\ UNCHANGED <<sent, peer, handled, pos, overflows>>
     \/ \E len \in 1 .. LS!Min({BufSize - Len(buffer), Len(sent) - pos}) :
          LET whole == buffer \o SubSeq(sent, pos + 1, pos + len)
              ps    == Scanned(whole, len)
              msi   == IF ps = <<>> THEN 0 ELSE Last(ps)
              rest  == Remainder(whole, msi)
          IN  /\ pos' = pos + len
              /\ handled' = handled \o LS!LinesAt(whole, ps)
              /\ IF Overflows(rest)
                   THEN buffer' = <<>> /\ overflows' = overflows + 1
                   ELSE buffer' = rest /\ overflows' = overflows
              /\ UNCHANGED <<sent, peer, ended>>

Peer ==
  /\ \/ \E c \in Byte : LS!Send(c)
     \/ \E how \in {"fin", "rst"} : LS!Close(how)
  /\ UNCHANGED <<pos, buffer, overflows>>

Next == Peer \/ ReadLines

Spec == Init /\ [][Next]_vars

\* select() reports a socket with unread bytes or an end, and the loop then
\* calls read_lines() on it (main.c:507-510).
FairSpec == Spec /\ WF_vars(ReadLines)

-----------------------------------------------------------------------------
(* Properties *)

\* Type invariant.  *buffer_index stays below buffer_size: otherwise the next
\* read() would be asked for 0 bytes, return 0, and be taken for RL_END.
TypeOK ==
  /\ sent \in Seq(Byte) /\ Len(sent) <= MaxSent
  /\ peer \in {"open", "fin", "rst"}
  /\ handled \in Seq(Seq(Byte \ {NL}))
  /\ ended \in BOOLEAN
  /\ pos \in 0 .. Len(sent)
  /\ buffer \in Seq(Byte) /\ Len(buffer) \in 0 .. BufSize - 1
  /\ overflows \in Nat

\* Until read_lines() first returns RL_OVERFLOW, no byte read is lost or
\* reordered: the lines handed over, each with its newline, followed by the
\* buffer's live part are exactly the bytes read() returned.
ReadBytesAccounted ==
  overflows = 0 /\ ~ended =>
    FlattenSeq([k \in DOMAIN handled |-> Append(handled[k], NL)]) \o buffer
      = SubSeq(sent, 1, pos)

\* read_lines() implements the line stream: every complete line reaches the
\* handler, once and in order.
Abs == INSTANCE LineStream
         WITH sent <- sent, peer <- peer, handled <- handled, ended <- ended

LineStreamSpec == Abs!Spec

=============================================================================
