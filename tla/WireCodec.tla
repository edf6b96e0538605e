----------------------------- MODULE WireCodec -----------------------------
(***************************************************************************)
(* The wire format (crates/dlep-core/src/codec.rs, data_item.rs, mac.rs):  *)
(* data items as type, length and value; messages and signals as a header  *)
(* and data items.  Octets are numbers, strings of octets are sequences.   *)
(*                                                                         *)
(* The code has octets of 8 bits, addresses of 4 and 16 octets, heartbeats *)
(* of at least 1000 ms, percentages up to 100 and Durations a million (ms) *)
(* or a thousand (us) times finer than the wire; the constants scale all   *)
(* of it down, so that every length and every limit can be reached.        *)
(***************************************************************************)
EXTENDS Naturals, Sequences, SequencesExt

CONSTANTS
  BITS, V4_OCTETS, V6_OCTETS,
  MIN_HEARTBEAT_INTERVAL_MS, MAX_PERCENT, FINER,
  SIGNAL_PREFIX,
  NoPort,    \* a connection point without a port
  Failed     \* Err(CodecError)

Octet == 0 .. 2^BITS - 1
U16_MAX == 2^(2 * BITS) - 1
U32_MAX == 2^(4 * BITS) - 1
U64_MAX == 2^(8 * BITS) - 1

STATUS == 1
IPV4_CONNECTION_POINT == 2
IPV6_CONNECTION_POINT == 3
PEER_TYPE == 4
HEARTBEAT_INTERVAL == 5
EXTENSIONS_SUPPORTED == 6
MAC_ADDRESS == 7
IPV4_ADDRESS == 8
IPV6_ADDRESS == 9
IPV4_ATTACHED_SUBNET == 10
IPV6_ATTACHED_SUBNET == 11
LATENCY == 16
MTU == 20

\* Data items that are one number, with the octets it takes.
Rates == 12 .. 15
Percents == 17 .. 19
Width ==
  [t \in Rates \cup Percents \cup {HEARTBEAT_INTERVAL, LATENCY, MTU} |->
     CASE t = HEARTBEAT_INTERVAL -> 4
       [] t \in Rates \cup {LATENCY} -> 8
       [] t \in Percents -> 1
       [] t = MTU -> 2]
Durations == {HEARTBEAT_INTERVAL, LATENCY}

ConnectionPoints == {IPV4_CONNECTION_POINT, IPV6_CONNECTION_POINT}
Addresses == {IPV4_ADDRESS, IPV6_ADDRESS}
Subnets == {IPV4_ATTACHED_SUBNET, IPV6_ATTACHED_SUBNET}
AddrLen(t) ==
  IF t \in {IPV4_CONNECTION_POINT, IPV4_ADDRESS, IPV4_ATTACHED_SUBNET}
  THEN V4_OCTETS ELSE V6_OCTETS

\* A data item is its type and the fields of its variant:
\*   Status <<code, text>>, connection points <<tls, addr, port>>, PeerType
\*   <<smi, text>>, numbers <<n>>, ExtensionsSupported ids, MacAddress octets,
\*   addresses <<add, addr>>, subnets <<add, addr, prefix>>, Unknown octets.
Item(t, v) == [type |-> t, v |-> v]

\* String::from_utf8: the highest octet is part of no UTF-8 string.
Utf8(text) == \A i \in 1 .. Len(text) : text[i] # 2^BITS - 1

-----------------------------------------------------------------------------
(* Numbers and addresses.                                                   *)

\* n in w octets, most significant first, and back.
be_bytes(n, w) == [i \in 1 .. w |-> (n \div 2^(BITS * (w - i))) % 2^BITS]
RECURSIVE from_be_bytes(_)
from_be_bytes(s) ==
  IF s = <<>> THEN 0 ELSE from_be_bytes(Front(s)) * 2^BITS + Last(s)

\* get_u16: the number at octet k.
get_u16(s, k) == s[k] * 2^BITS + s[k + 1]

\* Ipv4Net::trunc, network(): the host bits are zero.
trunc(addr, prefix) ==
  [i \in DOMAIN addr |->
     LET before == BITS * (i - 1)
         kept == IF prefix <= before THEN 0
                 ELSE IF prefix >= before + BITS THEN BITS ELSE prefix - before
     IN  addr[i] - (addr[i] % 2^(BITS - kept))]

\* u8::from(bool), validate_flags and the flag of a valid octet.
flag_byte(b) == IF b THEN 1 ELSE 0
validate_flags(octet) == octet \div 2 = 0
flag(octet) == octet % 2 = 1

\* A Duration in the unit of the wire.
wire_number(t, n) == IF t \in Durations THEN n \div FINER ELSE n

in_range(t, n) ==
  CASE t = HEARTBEAT_INTERVAL -> MIN_HEARTBEAT_INTERVAL_MS <= n /\ n <= U32_MAX
    [] t = LATENCY -> n <= U64_MAX
    [] t \in Percents -> n <= MAX_PERCENT
    [] OTHER -> TRUE

-----------------------------------------------------------------------------
(* Encoding.                                                                *)

\* The value of an item whose fields are in range.
encode_value(i) ==
  LET v == i.v
  IN  CASE i.type = STATUS -> <<v[1]>> \o v[2]
        [] i.type \in ConnectionPoints ->
             <<flag_byte(v[1])>> \o v[2] \o (IF v[3] = NoPort THEN <<>> ELSE be_bytes(v[3], 2))
        [] i.type = PEER_TYPE -> <<flag_byte(v[1])>> \o v[2]
        [] i.type \in DOMAIN Width -> be_bytes(wire_number(i.type, v[1]), Width[i.type])
        [] i.type = EXTENSIONS_SUPPORTED -> FlattenSeq([k \in DOMAIN v |-> be_bytes(v[k], 2)])
        [] i.type \in Addresses -> <<flag_byte(v[1])>> \o v[2]
        [] i.type \in Subnets -> <<flag_byte(v[1])>> \o trunc(v[2], v[3]) \o <<v[3]>>
        [] OTHER -> v

\* Mutant: the length field takes the low octets of an oversized length.
u16_length_Truncates(len) == len % (U16_MAX + 1)

u16_length(len) == IF len <= U16_MAX THEN len ELSE Failed

\* DataItem::encode; what it appended is taken back when it fails.
encode_item(i) ==
  IF i.type \in DOMAIN Width /\ ~in_range(i.type, wire_number(i.type, i.v[1])) THEN Failed
  ELSE LET value == encode_value(i)
           len == u16_length(Len(value))
       IN  IF len = Failed THEN Failed
           ELSE be_bytes(i.type, 2) \o be_bytes(len, 2) \o value

encode_body(items) ==
  LET parts == [k \in DOMAIN items |-> encode_item(items[k])]
  IN  IF \E k \in DOMAIN parts : parts[k] = Failed THEN Failed ELSE FlattenSeq(parts)

\* Message::encode and Signal::encode.
encode_packet(prefix, m) ==
  LET body == encode_body(m.items)
      len == IF body = Failed THEN Failed ELSE u16_length(Len(body))
  IN  IF len = Failed THEN Failed
      ELSE prefix \o be_bytes(m.type, 2) \o be_bytes(len, 2) \o body

encode_message(m) == encode_packet(<<>>, m)
encode_signal(m) == encode_packet(SIGNAL_PREFIX, m)

-----------------------------------------------------------------------------
(* Decoding.                                                                *)

\* DataItem::decode.
decode_item(t, v) ==
  LET len == Len(v)
      Ok(valid, fields) == IF valid THEN Item(t, fields) ELSE Failed
      From(k) == SubSeq(v, k, len)
  IN  CASE t = STATUS -> IF len < 1 THEN Failed ELSE Ok(Utf8(From(2)), <<v[1], From(2)>>)
        [] t \in ConnectionPoints ->
             IF len \notin {1 + AddrLen(t), 3 + AddrLen(t)} THEN Failed
             ELSE Ok(validate_flags(v[1]),
                     <<flag(v[1]), SubSeq(v, 2, 1 + AddrLen(t)),
                       IF len = 1 + AddrLen(t) THEN NoPort ELSE get_u16(v, len - 1)>>)
        [] t = PEER_TYPE ->
             IF len < 1 THEN Failed
             ELSE Ok(validate_flags(v[1]) /\ Utf8(From(2)), <<flag(v[1]), From(2)>>)
        [] t \in DOMAIN Width ->
             IF len # Width[t] THEN Failed
             ELSE LET n == from_be_bytes(v)
                  IN  Ok(in_range(t, n), <<IF t \in Durations THEN n * FINER ELSE n>>)
        [] t = EXTENSIONS_SUPPORTED ->
             Ok(len % 2 = 0, [k \in 1 .. len \div 2 |-> get_u16(v, 2 * k - 1)])
        [] t = MAC_ADDRESS -> Ok(len \in {6, 8}, v)
        [] t \in Addresses ->
             IF len # 1 + AddrLen(t) THEN Failed
             ELSE Ok(validate_flags(v[1]), <<flag(v[1]), From(2)>>)
        [] t \in Subnets ->
             IF len # 2 + AddrLen(t) THEN Failed
             ELSE Ok(validate_flags(v[1]) /\ v[len] <= BITS * AddrLen(t),
                     <<flag(v[1]), trunc(SubSeq(v, 2, len - 1), v[len]), v[len]>>)
        [] OTHER -> Item(t, v)

\* The loop over a body: RawDataItem::decode, then DataItem::decode.
RECURSIVE decode_body(_)
decode_body(body) ==
  IF body = <<>> THEN <<>>
  ELSE IF Len(body) < 4 THEN Failed
  ELSE LET t == get_u16(body, 1)
           len == get_u16(body, 3)
       IN  IF Len(body) - 4 < len THEN Failed
           ELSE LET first == decode_item(t, SubSeq(body, 5, 4 + len))
                    rest == decode_body(SubSeq(body, 5 + len, Len(body)))
                IN  IF first = Failed \/ rest = Failed THEN Failed ELSE <<first>> \o rest

Packet(t, items) ==
  IF items = Failed THEN Failed ELSE [type |-> t, items |-> items]

MESSAGE_HEADER_LEN == 4

\* Message::decode; octets beyond the declared length are left alone.
decode_message(s) ==
  IF Len(s) < MESSAGE_HEADER_LEN THEN Failed
  ELSE LET declared == get_u16(s, 3)
       IN  IF Len(s) - 4 < declared THEN Failed
           ELSE Packet(get_u16(s, 1), decode_body(SubSeq(s, 5, 4 + declared)))

SIGNAL_HEADER_LEN == 8

\* Mutant: octets after the signal are ignored, as those of a stream are.
decode_signal_Trailing(s) ==
  IF Len(s) < SIGNAL_HEADER_LEN \/ SubSeq(s, 1, 4) # SIGNAL_PREFIX THEN Failed
  ELSE LET declared == get_u16(s, 7)
       IN  IF Len(s) - 8 < declared THEN Failed
           ELSE Packet(get_u16(s, 5), decode_body(SubSeq(s, 9, 8 + declared)))

\* Signal::decode: a datagram holds one signal and nothing else.
decode_signal(s) ==
  IF Len(s) < SIGNAL_HEADER_LEN \/ SubSeq(s, 1, 4) # SIGNAL_PREFIX THEN Failed
  ELSE LET declared == get_u16(s, 7)
       IN  IF Len(s) - 8 # declared THEN Failed
           ELSE Packet(get_u16(s, 5), decode_body(SubSeq(s, 9, Len(s))))
=============================================================================
