------------------------------ MODULE MCModem ------------------------------
(* Three things a modem consists of that share no state, each on its own   *)
(* while the others rest: discovery of one modem by one router; a daemon   *)
(* with places for two and three connections, two of them of one router;   *)
(* and the programs, from configurations that differ from a good one in    *)
(* one or two places, on three machines.                                   *)
EXTENDS Discovery, ModemDaemon, Binaries, TLC

CONSTANTS r1, m1, c1, c2, c3, a1, a2, cert, key, bundle, program, text, eth, wlan, peer

MCRouter == {r1}
MCModemTask == {m1}
MCConn == {c1, c2, c3}
MCAddress == {a1, a2}
MCrouter_address(c) == IF c = c3 THEN a2 ELSE a1

Addr(family, scope, rank) == [family |-> family, scope |-> scope, rank |-> rank]

\* The link-local address of eth, and on one machine of wlan too.
Local == Addr(6, "link", 1)
AnyV4 == Addr(4, "unspecified", 0)
AnyV6 == Addr(6, "unspecified", 0)
Global == Addr(4, "global", 1)

Entry(interface, index, address, up) ==
  [interface |-> interface, index |-> index, address |-> address, up |-> up,
   multicast |-> TRUE, loopback |-> FALSE]

\* A good machine; one without the key's certificate and with eth down; one
\* that has the link-local address twice and no program.
MCHost ==
  LET files == (cert :> "certs") @@ (key :> "key") @@ (bundle :> "certs")
                 @@ (text :> "text") @@ (program :> "program")
  IN  {[addresses |-> {Entry(eth, 1, Local, TRUE), Entry(eth, 1, Global, TRUE)},
        files |-> files],
       [addresses |-> {Entry(eth, 1, Local, FALSE)},
        files |-> [files EXCEPT ![key] = "otherKey"]],
       [addresses |-> {Entry(eth, 1, Local, TRUE), Entry(wlan, 2, Local, TRUE)},
        files |-> [p \in DOMAIN files \ {program} |-> files[p]]]}

Good ==
  [timers |-> [heartbeat |-> 1000, discovery |-> 1000, session_init |-> 1, termination |-> Absent],
   limits |-> [max_sessions |-> 1, max_discovered_peers |-> 1, peer_retention |-> 1],
   network |-> [interface |-> Absent, bind_addr |-> AnyV4, use_tls |-> FALSE],
   tls |-> [cert |-> cert, key |-> key, ca_bundle |-> bundle, require_client_cert |-> TRUE],
   metrics |-> [current |-> 1, max |-> 1, resources |-> 100],
   radio |-> Absent, mode |-> "Discovery", static_peers |-> {}]

Radio(absolute, command, timeout) ==
  [absolute |-> absolute, command |-> command, link_request_timeout |-> timeout]

Values ==
  {Good,
   [Good EXCEPT !.timers.heartbeat = 999], [Good EXCEPT !.timers.discovery = 0],
   [Good EXCEPT !.timers.session_init = 0], [Good EXCEPT !.timers.termination = 0],
   [Good EXCEPT !.limits.max_sessions = 0], [Good EXCEPT !.limits.max_sessions = MaxPermits + 1],
   [Good EXCEPT !.limits.peer_retention = 0], [Good EXCEPT !.metrics.current = 2],
   [Good EXCEPT !.metrics.resources = 101], [Good EXCEPT !.mode = "Static"]}

Links ==
  {[Good EXCEPT !.network.bind_addr = a, !.network.interface = i] :
     a \in {AnyV4, AnyV6, Global, Local}, i \in {Absent, eth, wlan}}

Material ==
  {[Good EXCEPT !.network.use_tls = TRUE, !.tls.cert = c, !.tls.key = k, !.tls.ca_bundle = b] :
     c \in {Absent, cert}, k \in {Absent, key}, b \in {Absent, bundle, text}}

Radios ==
  {[Good EXCEPT !.radio = Radio(absolute, command, timeout)] :
     absolute \in BOOLEAN, command \in {program, text}, timeout \in {0, 1}}

NoFlags ==
  [interface |-> Absent, no_tls |-> FALSE, cert |-> Absent, key |-> Absent,
   ca_bundle |-> Absent, peer |-> {}]

Flags == {NoFlags, [NoFlags EXCEPT !.no_tls = TRUE], [NoFlags EXCEPT !.key = key],
          [NoFlags EXCEPT !.interface = eth]}

MCSetup ==
  [role : {"router", "modem"}, file : Values \cup Links \cup {Failed}, cli : {NoFlags}]
    \cup [role : {"router", "modem"}, file : {Good} \cup Material, cli : Flags]
    \cup [role : {"modem"}, file : Radios, cli : {NoFlags}]
    \cup [role : {"router"}, file : {Good}, cli : {[NoFlags EXCEPT !.peer = {peer}]}]

-----------------------------------------------------------------------------

MCInit == DiscoveryInit /\ DaemonInit /\ BinaryInit

\* Of the daemon's two initial states one is enough to rest in.
DaemonRests == DaemonInit /\ discovery = "none" /\ UNCHANGED daemonVars
DiscoveryRests == DiscoveryInit /\ UNCHANGED discoveryVars
BinaryRests == BinaryInit /\ UNCHANGED binaryVars

MCNext ==
  \/ DiscoveryNext /\ DaemonRests /\ BinaryRests
  \/ DaemonNext /\ DiscoveryRests /\ BinaryRests
  \/ BinaryNext /\ DiscoveryRests /\ DaemonRests

\* No step that fairness asks for is enabled in a component that rests.
MCSpec ==
  /\ MCInit /\ [][MCNext]_<<discoveryVars, daemonVars, binaryVars>>
  /\ DiscoveryFairness /\ DaemonFairness /\ BinaryFairness
=============================================================================
