--------------------------- MODULE MessageChannel ---------------------------
(***************************************************************************)
(* What a session relies on of its transport: the messages its peer wrote  *)
(* are received whole, in order and once, each as what it decodes to, and  *)
(* the end of the stream only after all of them.                           *)
(***************************************************************************)
EXTENDS Naturals, Sequences

CONSTANTS
  Frames,        \* what may be written
  Decoded(_)     \* what the receiver gets for a frame

VARIABLES
  sent,       \* the frames written whole
  closed,     \* the writer is done
  received,   \* what was received for them
  receiver    \* reading, eof (it read the end) or gone

channelVars == <<sent, closed, received, receiver>>

ChannelInit ==
  /\ sent = <<>> /\ closed = FALSE
  /\ received = <<>> /\ receiver = "reading"

Send(f) ==
  /\ ~closed
  /\ sent' = Append(sent, f)
  /\ UNCHANGED <<closed, received, receiver>>

Close ==
  /\ closed' = TRUE
  /\ UNCHANGED <<sent, received, receiver>>

Receive ==
  /\ receiver = "reading" /\ Len(received) < Len(sent)
  /\ received' = Append(received, Decoded(sent[Len(received) + 1]))
  /\ UNCHANGED <<sent, closed, receiver>>

ReceiveEnd ==
  /\ receiver = "reading" /\ closed /\ Len(received) = Len(sent)
  /\ receiver' = "eof"
  /\ UNCHANGED <<sent, closed, received>>

\* The receiver has no more use for the stream.
Leave ==
  /\ receiver = "reading"
  /\ receiver' = "gone"
  /\ UNCHANGED <<sent, closed, received>>

ChannelNext == (\E f \in Frames : Send(f)) \/ Close \/ Receive \/ ReceiveEnd \/ Leave

ChannelSpec == ChannelInit /\ [][ChannelNext]_channelVars
=============================================================================
