------------------------- MODULE MonitoredTransport -------------------------
(***************************************************************************)
(* TCP connections under gtsm_enforce (crates/dlep-net/src/transport.rs    *)
(* and tcp_monitor.rs): the stages of Connector::connect and of            *)
(* Acceptor::accept_pending and handshake, and the monitors that reset a   *)
(* connection on a segment with a low TTL.  The acceptor has one monitor   *)
(* for all its connections, each dialled connection one of its own.        *)
(*                                                                         *)
(* Which packets a monitor takes for such segments is the matter of        *)
(* GtsmPackets; the kernel drops the segments themselves (IP_MINTTL).      *)
(***************************************************************************)
EXTENDS Naturals, Sequences

CONSTANTS
  Accepted, Dialed,   \* connections, by how they come about
  Endpoint,           \* peers' addresses and ports, the local end with them
  Form,               \* how a socket may name them: v4, mapped, v6
  Acceptor,           \* stands for the acceptor's monitor
  None                \* no connection, no address

Conn == Accepted \cup Dialed
Monitor == {Acceptor} \cup Dialed

ASSUME TransportConstants ==
  /\ Accepted \cap Dialed = {} /\ Acceptor \notin Dialed
  /\ None \notin Conn
  /\ Form \subseteq {"v4", "mapped", "v6"} /\ ("mapped" \in Form => "v4" \in Form)

\* A connection's two ends, as its socket names them: a dual-stack listener
\* has IPv4 peers under IPv4-mapped addresses.
Tuple == Endpoint \X Form

\* As segments have them: IPv4 segments have IPv4 addresses.
OnWire(t) == <<t[1], IF t[2] = "v6" THEN "v6" ELSE "v4">>

MonitorOf(c) == IF c \in Dialed THEN c ELSE Acceptor

VARIABLES
  stage,      \* of each connection: none, connecting, backlog, handshake, session, gone
  tcp,        \* its TCP state: none, open, reset (by a monitor), closed
  addr,       \* its Tuple, once it has one
  backlog,    \* connections to accept
  listening,  \* the acceptor exists
  watcher,    \* the task of each monitor: none, running, failing, failed, aborted
  sockets,    \* of each monitor: the connection registered under a Tuple
  captured    \* of each monitor: connections with a low-TTL segment to read

monitorVars == <<stage, tcp, addr, backlog, listening, watcher, sockets, captured>>

MonitorInit ==
  /\ stage = [c \in Conn |-> "none"]
  /\ tcp = [c \in Conn |-> "none"]
  /\ addr = [c \in Conn |-> None]
  /\ backlog = <<>> /\ listening = TRUE
  /\ watcher = [m \in Monitor |-> IF m = Acceptor THEN "running" ELSE "none"]
  /\ sockets = [m \in Monitor |-> [t \in Tuple |-> None]]
  /\ captured = [m \in Monitor |-> {}]

\* The owner of a Registration, and with it of the monitor.
Registered(c) == stage[c] \in {"handshake", "session"}

\* TCP has one connection for two ends at a time.
Free(t) == \A c \in Conn : tcp[c] = "open" => OnWire(addr[c]) # OnWire(t)

\* The task of a monitor that lost its last owner is aborted, and its packet
\* socket closed.
Released(m) ==
  /\ watcher' = [watcher EXCEPT ![m] = IF @ = "running" THEN "aborted" ELSE @]
  /\ captured' = [captured EXCEPT ![m] = {}]

-----------------------------------------------------------------------------
(* Registration.                                                            *)

normalize(t) == IF t[2] = "mapped" THEN <<t[1], "v4">> ELSE t

\* Monitor::register, of a connection with the ends t.
register(c, t) ==
  /\ watcher[MonitorOf(c)] # "failed"
  /\ sockets' = [sockets EXCEPT ![MonitorOf(c)][normalize(t)] = c]

\* Mutant: whoever has the tuple now loses its place.
Unregistered_Always(c) ==
  sockets' = [sockets EXCEPT ![MonitorOf(c)][normalize(addr[c])] = None]

\* Registration::drop: the tuple may have been reused.
Unregistered(c) ==
  sockets' = [sockets EXCEPT ![MonitorOf(c)][normalize(addr[c])] = IF @ = c THEN None ELSE @]

-----------------------------------------------------------------------------
(* Connector::connect.                                                      *)

connect(c) ==
  /\ c \in Dialed /\ stage[c] = "none"
  /\ \/ /\ stage' = [stage EXCEPT ![c] = "connecting"]
        /\ watcher' = [watcher EXCEPT ![c] = "running"]
     \/ /\ stage' = [stage EXCEPT ![c] = "gone"]    \* no packet socket
        /\ UNCHANGED watcher
  /\ UNCHANGED <<tcp, addr, backlog, listening, sockets, captured>>

Connected(c, t) ==
  /\ stage[c] = "connecting" /\ Free(t)
  /\ addr' = [addr EXCEPT ![c] = t]
  /\ \/ /\ register(c, t)
        /\ stage' = [stage EXCEPT ![c] = "handshake"]
        /\ tcp' = [tcp EXCEPT ![c] = "open"]
        /\ UNCHANGED watcher
     \/ /\ watcher[c] = "failed"
        /\ stage' = [stage EXCEPT ![c] = "gone"]
        /\ tcp' = [tcp EXCEPT ![c] = "closed"]
        /\ UNCHANGED <<sockets, watcher>>
  /\ UNCHANGED <<backlog, listening, captured>>

\* CONNECT_TIMEOUT, an error, or the caller gives up.
ConnectFails(c) ==
  /\ stage[c] = "connecting"
  /\ stage' = [stage EXCEPT ![c] = "gone"]
  /\ Released(c)
  /\ UNCHANGED <<tcp, addr, backlog, listening, sockets>>

-----------------------------------------------------------------------------
(* Acceptor.                                                                *)

\* The kernel completes a connection.
Establish(c, t) ==
  /\ c \in Accepted /\ stage[c] = "none" /\ listening /\ Free(t)
  /\ addr' = [addr EXCEPT ![c] = t]
  /\ stage' = [stage EXCEPT ![c] = "backlog"]
  /\ tcp' = [tcp EXCEPT ![c] = "open"]
  /\ backlog' = Append(backlog, c)
  /\ UNCHANGED <<listening, watcher, sockets, captured>>

\* The next connection is registered, or dropped: its monitor has failed, or
\* it has lost its peer and with it the peer's address.
accept_pending ==
  /\ backlog # <<>> /\ listening
  /\ LET c == Head(backlog)
     IN  \/ /\ register(c, addr[c])
            /\ stage' = [stage EXCEPT ![c] = "handshake"]
            /\ UNCHANGED tcp
         \/ /\ watcher[Acceptor] = "failed" \/ tcp[c] # "open"
            /\ stage' = [stage EXCEPT ![c] = "gone"]
            /\ tcp' = [tcp EXCEPT ![c] = "closed"]
            /\ UNCHANGED sockets
  /\ backlog' = Tail(backlog)
  /\ UNCHANGED <<addr, listening, watcher, captured>>

\* The daemon aborts the accept loop; connections it did not accept go.
CloseListener ==
  /\ listening
  /\ listening' = FALSE
  /\ stage' = [c \in Conn |-> IF stage[c] = "backlog" THEN "gone" ELSE stage[c]]
  /\ tcp' = [c \in Conn |-> IF stage[c] = "backlog" THEN "closed" ELSE tcp[c]]
  /\ backlog' = <<>>
  /\ IF \E c \in Accepted : Registered(c) THEN UNCHANGED <<watcher, captured>> ELSE Released(Acceptor)
  /\ UNCHANGED <<addr, sockets>>

-----------------------------------------------------------------------------
(* The life of a registered connection.                                     *)

\* The TLS handshake is over, or there is none: a MonitoredTransport.
handshake(c) ==
  /\ stage[c] = "handshake"
  /\ stage' = [stage EXCEPT ![c] = "session"]
  /\ UNCHANGED <<tcp, addr, backlog, listening, watcher, sockets, captured>>

\* TLS_HANDSHAKE_TIMEOUT, a failed handshake, a cancelled task, the end of the
\* session: the stream goes, and the Registration with its copy of the socket.
Drop(c) ==
  /\ Registered(c)
  /\ stage' = [stage EXCEPT ![c] = "gone"]
  /\ tcp' = [tcp EXCEPT ![c] = IF @ = "open" THEN "closed" ELSE @]
  /\ Unregistered(c)
  /\ IF \/ c \in Dialed
        \/ ~listening /\ \A d \in Accepted \ {c} : ~Registered(d)
     THEN Released(MonitorOf(c)) ELSE UNCHANGED <<watcher, captured>>
  /\ UNCHANGED <<addr, backlog, listening>>

\* The peer closes; the tuple is free for another connection.
PeerCloses(c) ==
  /\ tcp[c] = "open"
  /\ tcp' = [tcp EXCEPT ![c] = "closed"]
  /\ UNCHANGED <<stage, addr, backlog, listening, watcher, sockets, captured>>

-----------------------------------------------------------------------------
(* The monitors' tasks.                                                     *)

\* A monitor's packet socket has a segment with a low TTL; each monitor that
\* runs gets its copy, unless its queue is full.
LowTtlSegment(m, t) ==
  /\ watcher[m] = "running"
  /\ captured' = [captured EXCEPT ![m] = @ \cup {OnWire(t)}]
  /\ UNCHANGED <<stage, tcp, addr, backlog, listening, watcher, sockets>>

reset(cs) == tcp' = [c \in Conn |-> IF c \in cs /\ tcp[c] = "open" THEN "reset" ELSE tcp[c]]

\* receive finds the connection and resets it, under the lock.
receive(m, t) ==
  /\ watcher[m] = "running" /\ t \in captured[m]
  /\ captured' = [captured EXCEPT ![m] = @ \ {t}]
  /\ reset({sockets[m][t]})
  /\ UNCHANGED <<stage, addr, backlog, listening, watcher, sockets>>

\* The packet socket fails; the task has not taken the lock yet.
ReceiveFails(m) ==
  /\ watcher[m] = "running"
  /\ watcher' = [watcher EXCEPT ![m] = "failing"]
  /\ UNCHANGED <<stage, tcp, addr, backlog, listening, sockets, captured>>

\* Mutant: the connections are left to themselves.
ResetAll_KeepsConnections(m) ==
  /\ watcher[m] = "failing"
  /\ watcher' = [watcher EXCEPT ![m] = "failed"]
  /\ captured' = [captured EXCEPT ![m] = {}]
  /\ UNCHANGED <<stage, tcp, addr, backlog, listening, sockets>>

\* "GTSM monitor failed; resetting monitored connections"
ResetAll(m) ==
  /\ watcher[m] = "failing"
  /\ watcher' = [watcher EXCEPT ![m] = "failed"]
  /\ captured' = [captured EXCEPT ![m] = {}]
  /\ reset({sockets[m][t] : t \in Tuple})
  /\ UNCHANGED <<stage, addr, backlog, listening, sockets>>

-----------------------------------------------------------------------------
MonitorNext ==
  \/ \E c \in Conn : connect(c) \/ ConnectFails(c) \/ handshake(c) \/ Drop(c) \/ PeerCloses(c)
  \/ \E c \in Conn, t \in Tuple : Connected(c, t) \/ Establish(c, t)
  \/ accept_pending \/ CloseListener
  \/ \E m \in Monitor : ReceiveFails(m) \/ ResetAll(m)
  \/ \E m \in Monitor, t \in Tuple : LowTtlSegment(m, t) \/ receive(m, t)

MonitorSpec == MonitorInit /\ [][MonitorNext]_monitorVars

\* The runtime polls the monitors' tasks.
MonitorFairness ==
  \A m \in Monitor :
    WF_monitorVars(ResetAll(m)) /\ \A t \in Tuple : WF_monitorVars(receive(m, t))

-----------------------------------------------------------------------------
(* Properties.                                                              *)

\* A connection in its handshake or session that is open has a monitor that
\* runs and that finds it by the ends its segments have: after reused tuples,
\* dropped listeners, lost handshakes and monitors that fail while connections
\* register ("Keep monitoring alive through both the TLS handshake and session
\* lifetime").
EverySessionIsMonitored ==
  \A c \in Conn :
    Registered(c) /\ tcp[c] = "open" =>
      /\ watcher[MonitorOf(c)] \in {"running", "failing"}
      /\ sockets[MonitorOf(c)][OnWire(addr[c])] = c

\* A connection whose monitor has a low-TTL segment of it does not stay open,
\* also when the monitor fails before it reads the segment.
LowTtlEndsConnections ==
  \A c \in Conn :
    (Registered(c) /\ tcp[c] = "open" /\ OnWire(addr[c]) \in captured[MonitorOf(c)])
      ~> tcp[c] # "open"
=============================================================================
