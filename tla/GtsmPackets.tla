---------------------------- MODULE GtsmPackets ----------------------------
(***************************************************************************)
(* Which packets the TCP monitor acts on (crates/dlep-net/src/             *)
(* tcp_monitor.rs): the filter the kernel runs over each packet and the    *)
(* parser that finds the connection a segment with a low TTL belongs to.   *)
(* A packet is the sequence of its octets from the IP header on.           *)
(***************************************************************************)
EXTENDS Naturals, Sequences

CONSTANT NoConnection   \* low_ttl_connection returns None

\* packet[i], and whether there is one.
at(packet, i) == packet[i + 1]
has(packet, i) == i < Len(packet)
u16_at(packet, i) == at(packet, i) * 256 + at(packet, i + 1)
slice(packet, i, n) == SubSeq(packet, i + 1, i + n)

-----------------------------------------------------------------------------
(* The filter, a program of the kernel's packet filter.                     *)

ins(code, jt, jf, k) == [code |-> code, jt |-> jt, jf |-> jf, k |-> k]

\* Mutant: the IPv6 jump is one instruction short.
filter_low_ttl_Short ==
  << ins("ld", 0, 0, 0), ins("and", 0, 0, 240), ins("jeq", 0, 3, 64),
     ins("ld", 0, 0, 8), ins("jeq", 5, 0, 255), ins("ret", 0, 0, 65536),
     ins("jeq", 0, 3, 96), ins("ld", 0, 0, 7), ins("jeq", 0, 0, 255),
     ins("ret", 0, 0, 65536), ins("ret", 0, 0, 0) >>

filter_low_ttl ==
  << ins("ld", 0, 0, 0), ins("and", 0, 0, 240), ins("jeq", 0, 3, 64),
     ins("ld", 0, 0, 8), ins("jeq", 5, 0, 255), ins("ret", 0, 0, 65536),
     ins("jeq", 0, 3, 96), ins("ld", 0, 0, 7), ins("jeq", 1, 0, 255),
     ins("ret", 0, 0, 65536), ins("ret", 0, 0, 0) >>

\* The octets of a packet that reach the socket, from the instruction at pc
\* with a in the accumulator; a load beyond the packet's end drops it.
RECURSIVE run_filter(_, _, _, _)
run_filter(program, packet, pc, a) ==
  LET i == program[pc]
  IN  CASE i.code = "ret" -> i.k
        [] i.code = "ld" ->
             IF has(packet, i.k) THEN run_filter(program, packet, pc + 1, at(packet, i.k)) ELSE 0
        [] i.code = "and" -> run_filter(program, packet, pc + 1, a - (a % 16))
        [] i.code = "jeq" ->
             run_filter(program, packet, pc + 1 + (IF a = i.k THEN i.jt ELSE i.jf), a)

passes_filter(packet) == run_filter(filter_low_ttl, packet, 1, 0) > 0

-----------------------------------------------------------------------------
(* The parser.                                                              *)

TCP == 6

\* The offset of the TCP header of an IPv4 packet, 0 if there is none.
v4_offset(packet) ==
  IF Len(packet) < 20 THEN 0
  ELSE LET length == u16_at(packet, 2)
           offset == (at(packet, 0) % 16) * 4
       IN  IF \/ at(packet, 8) = 255 \/ at(packet, 9) # TCP
              \/ offset < 20 \/ length < offset + 20 \/ length > Len(packet)
              \/ u16_at(packet, 6) % 8192 # 0
           THEN 0 ELSE offset

\* The size of an IPv6 extension header at offset, 0 to give up.
extension_size(packet, kind, offset, length) ==
  CASE kind \in {0, 43, 60} ->
         IF offset + 1 >= length THEN 0 ELSE (at(packet, offset + 1) + 1) * 8
    [] kind = 51 ->
         IF offset + 1 >= length THEN 0
         ELSE LET size == (at(packet, offset + 1) + 2) * 4
              IN  IF size < 12 \/ size % 8 # 0 THEN 0 ELSE size
    [] kind = 44 ->
         IF offset + 3 >= length \/ u16_at(packet, offset + 2) \div 8 # 0 THEN 0 ELSE 8
    [] OTHER -> 0

RECURSIVE walk(_, _, _, _)
walk(packet, next, offset, length) ==
  IF next = TCP THEN offset
  ELSE IF offset >= length THEN 0
  ELSE LET size == extension_size(packet, next, offset, length)
       IN  IF size = 0 THEN 0 ELSE walk(packet, at(packet, offset), offset + size, length)

v6_offset(packet) ==
  IF Len(packet) < 40 THEN 0
  ELSE LET length == 40 + u16_at(packet, 4)
       IN  IF at(packet, 7) = 255 \/ length > Len(packet) THEN 0
           ELSE LET offset == walk(packet, at(packet, 6), 40, length)
                IN  IF offset = 0 \/ offset + 20 > length THEN 0 ELSE offset

\* SocketAddr::new; a link-local address is scoped to the interface.
is_unicast_link_local(ip) == Len(ip) = 16 /\ ip[1] = 254 /\ ip[2] \div 64 = 2
socket_addr(ip, port, interface) ==
  [ip |-> ip, port |-> port,
   scope |-> IF is_unicast_link_local(ip) THEN interface ELSE 0]

low_ttl_connection(packet, interface) ==
  IF packet = <<>> THEN NoConnection
  ELSE LET version == at(packet, 0) \div 16
           offset == CASE version = 4 -> v4_offset(packet)
                       [] version = 6 -> v6_offset(packet)
                       [] OTHER -> 0
           source == IF version = 4 THEN slice(packet, 12, 4) ELSE slice(packet, 8, 16)
           dest == IF version = 4 THEN slice(packet, 16, 4) ELSE slice(packet, 24, 16)
       IN  IF offset = 0 \/ at(packet, offset + 12) \div 16 < 5 THEN NoConnection
           ELSE [local |-> socket_addr(dest, u16_at(packet, offset + 2), interface),
                 peer |-> socket_addr(source, u16_at(packet, offset), interface)]
=============================================================================
