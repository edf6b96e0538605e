---------------------------- MODULE FramedStream ----------------------------
(***************************************************************************)
(* The two ends of a session's stream (write_message, read_frame and the   *)
(* select loop of crates/dlep-daemon/src/session.rs over MessageCodec of   *)
(* crates/dlep-net/src/framed.rs).  The kernel moves octets in chunks of   *)
(* any size and holds a bounded number of them; a frame is written and     *)
(* read in as many pieces as it takes.  A task that writes does not read.  *)
(* Either end may be another implementation, whose bodies do not decode.   *)
(***************************************************************************)
EXTENDS WireCodec

CONSTANTS
  Frames,      \* what may be written: octets with an honest header
  Capacity,    \* octets the kernel holds in each direction
  MaxFrames    \* bound on the frames each side writes: a function of the side

Side == {"router", "modem"}
Other(s) == IF s = "router" THEN "modem" ELSE "router"

ASSUME FramesHaveHonestHeaders ==
  \A f \in Frames :
    Len(f) >= MESSAGE_HEADER_LEN /\ Len(f) = 4 + get_u16(f, 3)

VARIABLES
  session,       \* of each side: select, writing, eof (it read the end), gone
  outgoing,   \* the octets write_all has not handed to the kernel yet
  wire,       \* the octets the kernel holds, by the side that wrote them
  read_buf,   \* of each side
  frames,     \* the frames each side began to write
  written,    \* those it wrote whole
  taken       \* the frames each side has decoded, in order

streamVars == <<session, outgoing, wire, read_buf, frames, written, taken>>

StreamInit ==
  /\ session = [s \in Side |-> "select"]
  /\ outgoing = [s \in Side |-> <<>>]
  /\ wire = [s \in Side |-> <<>>]
  /\ read_buf = [s \in Side |-> <<>>]
  /\ frames = [s \in Side |-> <<>>]
  /\ written = [s \in Side |-> <<>>]
  /\ taken = [s \in Side |-> <<>>]

Runs(s) == session[s] \in {"select", "writing"}
Rest(s, n) == SubSeq(s, n + 1, Len(s))

-----------------------------------------------------------------------------
(* Writing.                                                                 *)

\* Mutant: the buffer belongs to read_frame and is dropped with it.
write_message_DropsBuffer(s, f) ==
  /\ session[s] = "select" /\ Len(frames[s]) < MaxFrames[s]
  /\ session' = [session EXCEPT ![s] = "writing"]
  /\ outgoing' = [outgoing EXCEPT ![s] = f]
  /\ frames' = [frames EXCEPT ![s] = Append(@, f)]
  /\ read_buf' = [read_buf EXCEPT ![s] = <<>>]
  /\ UNCHANGED <<wire, written, taken>>

\* A branch of the select, or the answer to a message, writes one: the future
\* of read_frame is dropped, what it has read stays in read_buf.
write_message(s, f) ==
  /\ session[s] = "select" /\ Len(frames[s]) < MaxFrames[s]
  /\ session' = [session EXCEPT ![s] = "writing"]
  /\ outgoing' = [outgoing EXCEPT ![s] = f]
  /\ frames' = [frames EXCEPT ![s] = Append(@, f)]
  /\ UNCHANGED <<wire, read_buf, written, taken>>

\* write_all hands over what there is room for, and returns with the last.
WriteSome(s, n) ==
  /\ session[s] = "writing"
  /\ n \in 1 .. Len(outgoing[s]) /\ Len(wire[s]) + n <= Capacity
  /\ wire' = [wire EXCEPT ![s] = @ \o SubSeq(outgoing[s], 1, n)]
  /\ outgoing' = [outgoing EXCEPT ![s] = Rest(@, n)]
  /\ IF n = Len(outgoing[s])
     THEN /\ session' = [session EXCEPT ![s] = "select"]
          /\ written' = [written EXCEPT ![s] = Append(@, frames[s][Len(frames[s])])]
     ELSE UNCHANGED <<session, written>>
  /\ UNCHANGED <<read_buf, frames, taken>>

\* Mutant: without WRITE_TIMEOUT only a write to a closed connection fails.
WriteFails_NoTimeout(s) ==
  /\ session[s] = "writing" /\ ~Runs(Other(s))
  /\ session' = [session EXCEPT ![s] = "gone"]
  /\ outgoing' = [outgoing EXCEPT ![s] = <<>>]
  /\ UNCHANGED <<wire, read_buf, frames, written, taken>>

\* WRITE_TIMEOUT, or an error: the session ends, with part of the frame sent.
WriteFails(s) ==
  /\ session[s] = "writing"
  /\ session' = [session EXCEPT ![s] = "gone"]
  /\ outgoing' = [outgoing EXCEPT ![s] = <<>>]
  /\ UNCHANGED <<wire, read_buf, frames, written, taken>>

-----------------------------------------------------------------------------
(* Reading.                                                                 *)

\* The frame at the front of buf, empty while it is not complete.
frame_in(buf) ==
  IF Len(buf) < MESSAGE_HEADER_LEN THEN <<>>
  ELSE LET total == MESSAGE_HEADER_LEN + get_u16(buf, 3)
       IN  IF Len(buf) < total THEN <<>> ELSE SubSeq(buf, 1, total)

\* MessageCodec::decode takes the frame out of the buffer whether its body
\* decodes or not; read_frame returns what it is.
decode(s, buf) ==
  LET frame == frame_in(buf)
  IN  IF frame = <<>>
      THEN /\ read_buf' = [read_buf EXCEPT ![s] = buf]
           /\ UNCHANGED taken
      ELSE /\ read_buf' = [read_buf EXCEPT ![s] = Rest(buf, Len(frame))]
           /\ taken' = [taken EXCEPT ![s] = Append(@, frame)]

\* read_frame finds a frame in what an earlier read left over.
ReadBuffered(s) ==
  /\ session[s] = "select" /\ frame_in(read_buf[s]) # <<>>
  /\ decode(s, read_buf[s])
  /\ UNCHANGED <<session, outgoing, wire, frames, written>>

\* read_buf returns the next n octets, and the loop decodes again.
ReadSome(s, n) ==
  /\ session[s] = "select" /\ frame_in(read_buf[s]) = <<>>
  /\ n \in 1 .. Len(wire[Other(s)])
  /\ decode(s, read_buf[s] \o SubSeq(wire[Other(s)], 1, n))
  /\ wire' = [wire EXCEPT ![Other(s)] = Rest(@, n)]
  /\ UNCHANGED <<session, outgoing, frames, written>>

\* read_buf returns 0: the rest of an unfinished frame is forgotten.
ReadEof(s) ==
  /\ session[s] = "select" /\ frame_in(read_buf[s]) = <<>>
  /\ wire[Other(s)] = <<>> /\ ~Runs(Other(s))
  /\ session' = [session EXCEPT ![s] = "eof"]
  /\ UNCHANGED <<outgoing, wire, read_buf, frames, written, taken>>

\* The session ends for another reason, a read error among them.
SessionEnds(s) ==
  /\ session[s] = "select"
  /\ session' = [session EXCEPT ![s] = "gone"]
  /\ UNCHANGED <<outgoing, wire, read_buf, frames, written, taken>>

-----------------------------------------------------------------------------
StreamNext ==
  \E s \in Side :
    \/ \E f \in Frames : write_message(s, f)
    \/ \E n \in 1 .. Capacity : WriteSome(s, n) \/ ReadSome(s, n)
    \/ WriteFails(s) \/ ReadBuffered(s) \/ ReadEof(s) \/ SessionEnds(s)

StreamFairness ==
  \A s \in Side :
    /\ WF_streamVars(\E n \in 1 .. Capacity : WriteSome(s, n))
    /\ WF_streamVars(WriteFails(s))
    /\ SF_streamVars((\E n \in 1 .. Capacity : ReadSome(s, n)) \/ ReadBuffered(s) \/ ReadEof(s))

StreamFairSpec == StreamInit /\ [][StreamNext]_streamVars /\ StreamFairness

-----------------------------------------------------------------------------
(* Properties.                                                              *)

\* What read_frame returned on side s.
results(s) == [k \in DOMAIN taken[s] |-> decode_message(taken[s][k])]

AtRouter ==
  INSTANCE MessageChannel WITH
    Decoded <- decode_message,
    sent <- written["modem"], closed <- ~Runs("modem"), received <- results("router"),
    receiver <- IF Runs("router") THEN "reading" ELSE session["router"]

AtModem ==
  INSTANCE MessageChannel WITH
    Decoded <- decode_message,
    sent <- written["router"], closed <- ~Runs("router"), received <- results("modem"),
    receiver <- IF Runs("modem") THEN "reading" ELSE session["modem"]

\* However the kernel cuts the stream and whichever branches of the select
\* interrupt a read ("partial frames stay in read_buf for the next round"),
\* each side receives what the other wrote whole, in order and once; a body
\* that does not decode costs that message and no other; an unfinished frame is
\* never received.
ImplementsChannel == AtRouter!ChannelSpec /\ AtModem!ChannelSpec

\* What was written whole is received unless the receiver's session ends, also
\* when both ends write and neither reads: WRITE_TIMEOUT then ends one of them.
MessagesArrive ==
  \A s \in Side : \A k \in 1 .. MaxFrames[Other(s)] :
    Len(written[Other(s)]) >= k ~> (Len(taken[s]) >= k \/ ~Runs(s))
=============================================================================
