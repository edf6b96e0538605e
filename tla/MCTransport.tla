---------------------------- MODULE MCTransport ----------------------------
(* The wire: octets of three bits, so that lengths end at 63 and 32 and 64  *)
(* bit numbers at 2^12 and 2^24, IPv4 addresses of one octet and IPv6       *)
(* addresses of two.  An input of the codec or of the packet parser is      *)
(* picked at the start; without one, either the two ends of a stream run,   *)
(* or two accepted connections and a dialled one under their monitors.      *)
EXTENDS FramedStream, GtsmPackets, MonitoredTransport

CONSTANTS a1, a2, d1, p1

VARIABLE input

MCAccepted == {a1, a2}
MCDialed == {d1}
MCEndpoint == {p1}
MCForm == {"v4", "mapped"}

MCSignalPrefix == <<4, 5, 4, 6>>

\* A message without items, one with a Status, one whose body is cut short.
MCFrames == {<<2, 0, 0, 0>>, <<0, 6, 0, 5, 0, 1, 0, 1, 3>>, <<0, 3, 0, 1, 0>>}

MCMaxFrames == [s \in Side |-> IF s = "router" THEN 2 ELSE 1]

-----------------------------------------------------------------------------
(* The inputs of the codec: each data item with its fields at their limits  *)
(* and beyond.                                                              *)

Octets(n, octet) == [i \in 1 .. n |-> octet]
Texts == {<<>>, <<1, 6>>, Octets(U16_MAX - 1, 1), Octets(U16_MAX, 1)}
Addrs(t) == {[i \in 1 .. AddrLen(t) |-> (i + k) % 8] : k \in {0, 4}}
Around(n) == {n - 1, n, n + 1}

Numbers(t) ==
  CASE t = HEARTBEAT_INTERVAL ->
         {n * FINER + 1 : n \in Around(MIN_HEARTBEAT_INTERVAL_MS) \cup Around(U32_MAX)}
    [] t = LATENCY -> {0, 1} \cup {n * FINER + 1 : n \in Around(U64_MAX)}
    [] t \in Rates -> {0, 513, U64_MAX}
    [] t \in Percents -> Around(MAX_PERCENT)
    [] t = MTU -> {0, 12, U16_MAX}

Items ==
  {Item(STATUS, <<code, text>>) : code \in {0, 7}, text \in Texts}
  \cup UNION {{Item(t, <<tls, ip, port>>) :
                 tls \in BOOLEAN, ip \in Addrs(t), port \in {NoPort, 0, 45}} : t \in ConnectionPoints}
  \cup {Item(PEER_TYPE, <<smi, text>>) : smi \in BOOLEAN, text \in Texts}
  \cup UNION {{Item(t, <<n>>) : n \in Numbers(t)} : t \in DOMAIN Width}
  \cup {Item(EXTENSIONS_SUPPORTED, ids) :
          ids \in {<<>>, <<1>>, <<1, 62>>, Octets(31, 1), Octets(32, 1)}}
  \cup {Item(MAC_ADDRESS, Octets(n, 5)) : n \in {6, 8}}
  \cup UNION {{Item(t, <<add, ip>>) : add \in BOOLEAN, ip \in Addrs(t)} : t \in Addresses}
  \cup UNION {{Item(t, <<add, ip, prefix>>) :
                 add \in BOOLEAN, ip \in Addrs(t), prefix \in 0 .. BITS * AddrLen(t)} : t \in Subnets}
  \cup {Item(t, Octets(n, 7)) : t \in {0, 21}, n \in {0, 2, U16_MAX, U16_MAX + 1}}

\* Items to put several of into one message, up to its length and beyond.
Few ==
  {Item(STATUS, <<3, Octets(n, 1)>>) : n \in {0, 53, 54, 55}}
  \cup {Item(MTU, <<9>>), Item(IPV4_ATTACHED_SUBNET, <<TRUE, <<5>>, 1>>),
        Item(HEARTBEAT_INTERVAL, <<1>>)}

Messages == {[type |-> t, items |-> s] :
               t \in {3, 60}, s \in {<<>>} \cup {<<i>> : i \in Items} \cup TupleOf(Few, 2)}

\* Octets as they may arrive: an encoded message or signal with one octet
\* changed, cut short or with one octet more.
Arriving ==
  UNION {LET s == encode_packet(prefix, [type |-> 2, items |-> <<i>>])
         IN  IF s = Failed \/ Len(s) > 30 THEN {}
             ELSE {ReplaceAt(s, k, octet) : k \in 1 .. Len(s), octet \in Octet}
                    \cup {SubSeq(s, 1, Len(s) - 1), Append(s, 0)} :
           prefix \in {<<>>, SIGNAL_PREFIX}, i \in Items}

-----------------------------------------------------------------------------
(* The inputs of the packet parser: TCP segments over IPv4, with or without *)
(* options, and over IPv6, with extension headers, whole or damaged.        *)

Link == <<254, 128, 0, 0, 0, 0, 0, 0, 0, 0, 0, 0, 0, 0, 0, 1>>
Global == <<32, 1, 13, 184, 0, 0, 0, 0, 0, 0, 0, 0, 0, 0, 0, 2>>
Interface == 3

\* Extension headers: the kind, and the octets after the next header's kind.
Extensions ==
  {[kind |-> 0, rest |-> <<0>> \o Octets(6, 9), ok |-> TRUE],        \* hop-by-hop
   [kind |-> 60, rest |-> <<1>> \o Octets(14, 9), ok |-> TRUE],      \* destination, 16 octets
   [kind |-> 51, rest |-> <<4>> \o Octets(22, 9), ok |-> TRUE],      \* authentication
   [kind |-> 51, rest |-> <<3>> \o Octets(18, 9), ok |-> FALSE],     \* of a length it cannot have
   [kind |-> 44, rest |-> <<0, 0, 1, 0, 0, 0, 7>>, ok |-> TRUE],     \* the first fragment
   [kind |-> 44, rest |-> <<0, 0, 8, 0, 0, 0, 7>>, ok |-> FALSE],    \* a later one
   [kind |-> 59, rest |-> Octets(7, 0), ok |-> FALSE]}               \* no next header

Segments ==
  [version : {4, 6}, ttl : {0, 64, 254, 255}, options : {0, 2}, fragment : {0, 16384, 8191},
   proto : {TCP, 17}, extensions : {<<>>} \cup TupleOf(Extensions, 1) \cup TupleOf(Extensions, 2),
   data_offset : {4, 5}, damage : {"none", "padded", "cut", "short"}]

\* IPv6 has no options or fragments in its header, IPv4 no extensions.
Segment ==
  {d \in Segments :
     IF d.version = 4 THEN d.extensions = <<>>
     ELSE d.options = 0 /\ d.fragment = 0}

TcpHeader(d) ==
  <<2, 1, 3, 86>> \o Octets(8, 0) \o <<16 * d.data_offset>> \o Octets(7, 0)

\* The octets of a segment: padded on its link, cut short, or with a length
\* that ends before its TCP header does.
Segment4(d) ==
  LET total == 40 + 4 * d.options - (IF d.damage = "short" THEN 1 ELSE 0)
  IN  <<64 + 5 + d.options, 0, 0, total, 0, 0, d.fragment \div 256, d.fragment % 256,
        d.ttl, d.proto, 0, 0, 10, 0, 0, 1, 10, 0, 0, 2>>
        \o Octets(4 * d.options, 1) \o TcpHeader(d)

Segment6(d) ==
  LET kinds == [k \in DOMAIN d.extensions |-> d.extensions[k].kind] \o <<d.proto>>
      headers == FlattenSeq([k \in DOMAIN d.extensions |-> <<kinds[k + 1]>> \o d.extensions[k].rest])
      payload == Len(headers) + 20 - (IF d.damage = "short" THEN 1 ELSE 0)
  IN  <<96, 0, 0, 0, 0, payload, kinds[1], d.ttl>> \o Link \o Global \o headers \o TcpHeader(d)

PacketOf(d) ==
  LET whole == IF d.version = 4 THEN Segment4(d) ELSE Segment6(d)
  IN  CASE d.damage = "padded" -> whole \o Octets(6, 0)
        [] d.damage = "cut" -> Front(whole)
        [] OTHER -> whole

\* The connection of an undamaged TCP segment, or of its first fragment, with
\* a TTL below 255.
LowTtlConnection(d) ==
  IF \/ d.ttl = 255 \/ d.proto # TCP \/ d.data_offset < 5 \/ d.damage \in {"cut", "short"}
     \/ d.fragment % 8192 # 0 \/ \E k \in DOMAIN d.extensions : ~d.extensions[k].ok
  THEN NoConnection
  ELSE LET peer == IF d.version = 4 THEN <<10, 0, 0, 1>> ELSE Link
           local == IF d.version = 4 THEN <<10, 0, 0, 2>> ELSE Global
       IN  [local |-> [ip |-> local, port |-> 854, scope |-> 0],
            peer |-> [ip |-> peer, port |-> 513, scope |-> IF d.version = 4 THEN 0 ELSE Interface]]

-----------------------------------------------------------------------------
NoInput == [kind |-> "none"]
Inputs ==
  {[kind |-> "message", m |-> m] : m \in Messages}
    \cup {[kind |-> "octets", s |-> s] : s \in Arriving}
    \cup {[kind |-> "segment", d |-> d] : d \in Segment}

TransportInit == StreamInit /\ MonitorInit /\ input \in {NoInput} \cup Inputs

\* Accepted and dialled connections share neither a monitor nor a tuple: they
\* are checked one kind at a time.
Idle(cs) == \A c \in cs : stage[c] = "none"

TransportNext ==
  /\ input = NoInput /\ UNCHANGED input
  /\ \/ MonitorInit /\ StreamNext /\ UNCHANGED monitorVars
     \/ StreamInit /\ MonitorNext /\ UNCHANGED streamVars
        /\ (Idle(Accepted) \/ Idle(Dialed))'

\* Nothing the fairness speaks of can happen in the first state.
TransportFairSpec ==
  /\ TransportInit /\ [][TransportNext]_<<streamVars, monitorVars, input>>
  /\ StreamFairness /\ MonitorFairness

-----------------------------------------------------------------------------
(* What the wire format can carry, and what comes back.                     *)

Encodable(i) ==
  CASE i.type \in {STATUS, PEER_TYPE} -> Len(i.v[2]) < U16_MAX
    [] i.type = EXTENSIONS_SUPPORTED -> 2 * Len(i.v) <= U16_MAX
    [] i.type = HEARTBEAT_INTERVAL ->
         MIN_HEARTBEAT_INTERVAL_MS * FINER <= i.v[1] /\ i.v[1] < (U32_MAX + 1) * FINER
    [] i.type = LATENCY -> i.v[1] < (U64_MAX + 1) * FINER
    [] i.type \in Percents -> i.v[1] <= MAX_PERCENT
    [] i.type \in {0, 21} -> Len(i.v) <= U16_MAX
    [] OTHER -> TRUE

\* The bits of an address, most significant first.
Bits(ip) == FlattenSeq([i \in DOMAIN ip |-> [b \in 1 .. BITS |-> (ip[i] \div 2^(BITS - b)) % 2]])

\* j is what is left of i: host bits are zero, Durations are whole units.
Carries(i, j) ==
  /\ i.type = j.type
  /\ CASE i.type \in Subnets ->
            /\ i.v[1] = j.v[1] /\ i.v[3] = j.v[3]
            /\ \A b \in 1 .. BITS * AddrLen(i.type) :
                 Bits(j.v[2])[b] = IF b <= i.v[3] THEN Bits(i.v[2])[b] ELSE 0
       [] i.type \in Durations ->
            j.v[1] <= i.v[1] /\ i.v[1] < j.v[1] + FINER /\ j.v[1] % FINER = 0
       [] OTHER -> i.v = j.v

\* Octets of an item on the wire.
RECURSIVE BodyLength(_)
BodyLength(items) ==
  IF items = <<>> THEN 0 ELSE Len(encode_item(items[1])) + BodyLength(Tail(items))

\* From messages to octets.
WhatIsEncodedDecodes ==
  input.kind = "message" =>
    LET m == input.m
        fits == /\ \A k \in DOMAIN m.items : Encodable(m.items[k])
                /\ BodyLength(m.items) <= U16_MAX
        Same(d) == /\ d # Failed /\ d.type = m.type /\ Len(d.items) = Len(m.items)
                   /\ \A k \in DOMAIN m.items : Carries(m.items[k], d.items[k])
    IN  IF fits
        THEN /\ Same(decode_message(encode_message(m)))
             /\ Same(decode_signal(encode_signal(m)))
        ELSE encode_message(m) = Failed /\ encode_signal(m) = Failed

\* From octets to messages.
WhatIsDecodedEncodes ==
  input.kind = "octets" =>
    /\ LET m == decode_message(input.s)
       IN  m # Failed =>
             /\ encode_message(m) # Failed
             /\ Len(encode_message(m)) <= Len(input.s)
             /\ decode_message(encode_message(m)) = m
    /\ LET m == decode_signal(input.s)
       IN  m # Failed =>
             /\ encode_signal(m) # Failed
             /\ Len(encode_signal(m)) = Len(input.s)
             /\ decode_signal(encode_signal(m)) = m

\* Message::encode and Signal::encode fail exactly for messages the format has
\* no octets for, never cutting a length or a number short ("rather than
\* silently truncating, which would produce a corrupt frame"), and what they
\* return decodes to the same message, with network addresses and whole units.
\* Whatever octets arrive, a message or signal that is accepted is one the
\* format has octets for, in as many octets as arrived, and "re-encoding never
\* silently changes the value".
CodecLosesNothing == WhatIsEncodedDecodes /\ WhatIsDecodedEncodes

\* The monitor acts on exactly the TCP segments with a low TTL, for the
\* connection they belong to: the parser reads past options, extension headers
\* and padding and takes nothing else for one, and the kernel's filter lets all
\* of them through and none with a TTL of 255 ("so ordinary bulk data never
\* wakes the monitor").
LowTtlSegmentsAreSeen ==
  input.kind = "segment" =>
    LET packet == PacketOf(input.d)
        connection == low_ttl_connection(packet, Interface)
    IN  /\ connection = LowTtlConnection(input.d)
        /\ connection # NoConnection => passes_filter(packet)
        /\ input.d.ttl = 255 => ~passes_filter(packet)
=============================================================================
