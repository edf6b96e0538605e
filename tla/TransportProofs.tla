--------------------------- MODULE TransportProofs --------------------------
(***************************************************************************)
(* Proofs about the monitored transport under the sessions, and about the  *)
(* dispatch of the commands they are given.                                *)
(***************************************************************************)
EXTENDS MonitoredTransport, CommandDispatch, FiniteSetTheorems, TLAPS

\* A leaf that names no prover is for Zenon.
USE ZenonT(60)

(***************************************************************************)
(* Proofs that every registered connection is monitored, and that monitors *)
(* keep and reset no other connections, for any number of connections,     *)
(* endpoints and monitors.                                                 *)
(***************************************************************************)

-----------------------------------------------------------------------------
(* The inductive invariant.                                                 *)

MonitorTypeOK ==
  /\ stage \in [Conn -> {"none", "connecting", "backlog", "handshake", "session", "gone"}]
  /\ tcp \in [Conn -> {"none", "open", "reset", "closed"}]
  /\ addr \in [Conn -> Tuple \cup {None}]
  /\ backlog \in Seq(Accepted)
  /\ listening \in BOOLEAN
  /\ watcher \in [Monitor -> {"none", "running", "failing", "failed", "aborted"}]
  /\ sockets \in [Monitor -> [Tuple -> Conn \cup {None}]]
  /\ captured \in [Monitor -> SUBSET Tuple]

\* The stages of a connection, its TCP state and its ends.
StagesMatch ==
  \A c \in Conn :
    /\ stage[c] = "connecting" => c \in Dialed
    /\ stage[c] = "backlog" => c \in Accepted /\ listening
    /\ stage[c] \in {"none", "connecting"} => tcp[c] = "none"
    /\ stage[c] \in {"backlog", "handshake", "session"} => tcp[c] # "none"
    /\ tcp[c] # "none" => addr[c] \in Tuple

\* TCP's rule.
EndsAreUnique ==
  \A c, d \in Conn :
    tcp[c] = "open" /\ tcp[d] = "open" /\ c # d => OnWire(addr[c]) # OnWire(addr[d])

\* A monitor's task is there as long as the monitor has an owner.
OwnersKeepMonitors ==
  LET there == {"running", "failing", "failed"}
  IN  /\ listening => watcher[Acceptor] \in there
      /\ \A c \in Conn :
           Registered(c) \/ stage[c] = "connecting" => watcher[MonitorOf(c)] \in there

\* The backlog holds exactly the connections of that stage, each once.
BacklogMatches ==
  /\ \A i \in 1 .. Len(backlog) : stage[backlog[i]] = "backlog"
  /\ \A i, j \in 1 .. Len(backlog) : backlog[i] = backlog[j] => i = j
  /\ \A c \in Conn : stage[c] = "backlog" => \E i \in 1 .. Len(backlog) : backlog[i] = c

\* Whoever uses the ends of a connection in the backlog again is behind it.
ReusersAreBehind ==
  \A i \in 1 .. Len(backlog), d \in Accepted :
    tcp[d] = "open" /\ d # backlog[i] /\ OnWire(addr[d]) = OnWire(addr[backlog[i]])
      => \E j \in (i + 1) .. Len(backlog) : backlog[j] = d

\* A monitor has a socket only while its connection is registered with it, and
\* under the ends the connection has.
SocketsAreOwned ==
  \A m \in Monitor, t \in Tuple :
    sockets[m][t] # None =>
      /\ Registered(sockets[m][t])
      /\ MonitorOf(sockets[m][t]) = m
      /\ OnWire(addr[sockets[m][t]]) = t

MonitorInv ==
  /\ MonitorTypeOK
  /\ StagesMatch /\ EndsAreUnique /\ OwnersKeepMonitors
  /\ BacklogMatches /\ ReusersAreBehind
  /\ SocketsAreOwned
  /\ EverySessionIsMonitored

\* A connection is reset only by its own monitor, and only if that has a
\* low-TTL segment with the connection's ends, or fails.
ResetIsAimed ==
  \A c \in Conn :
    tcp[c] = "open" /\ tcp'[c] = "reset" =>
      /\ Registered(c)
      /\ \/ OnWire(addr[c]) \in captured[MonitorOf(c)]
         \/ watcher[MonitorOf(c)] = "failing"

-----------------------------------------------------------------------------
(* Operators.                                                               *)

\* A tuple is registered under the ends its segments have.
LEMMA NormalizeIsOnWire ==
  ASSUME NEW t \in Tuple
  PROVE  normalize(t) \in Tuple /\ normalize(t) = OnWire(t)
  <1>1. PICK e \in Endpoint, f \in Form : t = <<e, f>>
    BY SMTT(30) DEF Tuple
  <1>2. t[1] = e /\ t[2] = f /\ f \in {"v4", "mapped", "v6"}
    BY <1>1, TransportConstants
  <1>3. CASE f = "mapped"
    <2>1. normalize(t) = <<e, "v4">> /\ OnWire(t) = <<e, "v4">>
      BY <1>2, <1>3 DEF normalize, OnWire
    <2>2. "v4" \in Form
      BY <1>3, TransportConstants
    <2>3. QED
      BY <2>1, <2>2, SMTT(30) DEF Tuple
  <1>4. CASE f # "mapped"
    <2>1. normalize(t) = t
      BY <1>2, <1>4 DEF normalize
    <2>2. OnWire(t) = <<e, f>>
      BY <1>2, <1>4 DEF OnWire
    <2>3. QED
      BY <1>1, <2>1, <2>2
  <1>5. QED
    BY <1>3, <1>4

\* Every connection has a monitor.
LEMMA MonitorOfType ==
  ASSUME NEW c \in Conn
  PROVE  /\ MonitorOf(c) \in Monitor
         /\ c \in Dialed => MonitorOf(c) = c /\ c # Acceptor
         /\ c \in Accepted => MonitorOf(c) = Acceptor
         /\ c \in Accepted <=> c \notin Dialed
         /\ c # None
  BY TransportConstants DEF MonitorOf, Monitor, Conn

\* No monitor has the socket of a connection that is not registered.
LEMMA UnregisteredSockets ==
  ASSUME MonitorInv, NEW m \in Monitor, NEW u \in Tuple
  PROVE  /\ sockets[m][u] \in Conn \cup {None}
         /\ \A c \in Conn : ~Registered(c) => sockets[m][u] # c
  <1>1. sockets[m][u] \in Conn \cup {None}
    BY DEF MonitorInv, MonitorTypeOK
  <1>2. \A c \in Conn : c # None
    BY MonitorOfType
  <1>3. QED
    BY <1>1, <1>2 DEF MonitorInv, SocketsAreOwned

\* The initial state satisfies the invariant.
LEMMA MonitorInitInv == MonitorInit => MonitorInv
  <1> SUFFICES ASSUME MonitorInit PROVE MonitorInv
    OBVIOUS
  <1> USE DEF MonitorInit
  <1>1. MonitorTypeOK
    <2>1. <<>> \in Seq(Accepted)
      BY SMTT(30)
    <2>2. QED
      BY <2>1 DEF MonitorTypeOK
  <1>2. backlog = <<>> /\ Len(backlog) = 0
    OBVIOUS
  <1>3. BacklogMatches /\ ReusersAreBehind
    BY <1>2, SMTT(30) DEF BacklogMatches, ReusersAreBehind
  <1>4. StagesMatch /\ EndsAreUnique
    BY DEF StagesMatch, EndsAreUnique
  <1>5. OwnersKeepMonitors /\ SocketsAreOwned /\ EverySessionIsMonitored
    BY DEF OwnersKeepMonitors, SocketsAreOwned, EverySessionIsMonitored, Registered, Monitor
  <1>6. QED
    BY <1>1, <1>3, <1>4, <1>5 DEF MonitorInv

-----------------------------------------------------------------------------
(* Dialling.                                                                *)

\* Dialling preserves the invariant.
LEMMA ConnectInv ==
  ASSUME MonitorInv, NEW c \in Conn, connect(c)
  PROVE  MonitorInv'
  <1> USE DEF connect, MonitorInv
  <1>0. c \in Dialed /\ MonitorOf(c) = c /\ c \in Monitor /\ c # Acceptor /\ c \notin Accepted
    BY MonitorOfType
  <1>a. /\ \A d \in Conn \ {c} : stage'[d] = stage[d]
        /\ (stage'[c] = "connecting" /\ watcher'[c] = "running") \/ stage'[c] = "gone"
        /\ \A m \in Monitor \ {c} : watcher'[m] = watcher[m]
        /\ stage[c] = "none"
    BY <1>0 DEF MonitorTypeOK
  <1>b. \A i \in 1 .. Len(backlog) : backlog[i] \in Conn \ {c}
    BY <1>0, SMTT(30) DEF MonitorTypeOK, Conn
  <1>1. MonitorTypeOK'
    BY <1>0 DEF MonitorTypeOK
  <1>2. StagesMatch' /\ EndsAreUnique'
    BY <1>0 DEF MonitorTypeOK, StagesMatch, EndsAreUnique
  <1>3. \A d \in Conn : d # c => MonitorOf(d) \in Monitor \ {c}
    BY <1>0, MonitorOfType
  <1>4. OwnersKeepMonitors'
    BY <1>0, <1>a, <1>3 DEF OwnersKeepMonitors, Registered, Monitor
  <1>5. BacklogMatches' /\ ReusersAreBehind'
    <2>1. BacklogMatches'
      BY <1>a, <1>b, SMTT(30) DEF BacklogMatches
    <2>2. QED
      BY <2>1 DEF ReusersAreBehind
  <1>6. SocketsAreOwned'
    BY SMTT(30) DEF MonitorTypeOK, SocketsAreOwned, Registered
  <1>7. EverySessionIsMonitored'
    BY <1>a, <1>3 DEF EverySessionIsMonitored, Registered
  <1>8. QED
    BY <1>1, <1>2, <1>4, <1>5, <1>6, <1>7

\* A dialled connection is registered, or dropped, when it is there.
LEMMA ConnectedInv ==
  ASSUME MonitorInv, NEW c \in Conn, NEW t \in Tuple, Connected(c, t)
  PROVE  MonitorInv'
  <1> USE DEF Connected, MonitorInv
  <1> DEFINE n == normalize(t)
  <1>0. /\ c \in Dialed /\ MonitorOf(c) = c /\ c \in Monitor /\ c # Acceptor
        /\ c \notin Accepted /\ c # None
    BY MonitorOfType DEF StagesMatch
  <1>a. n \in Tuple /\ n = OnWire(t)
    BY NormalizeIsOnWire
  <1>b. \A d \in Conn : d # c => MonitorOf(d) # c
    BY <1>0, MonitorOfType
  <1>c. tcp[c] = "none" /\ ~Registered(c)
    BY DEF StagesMatch, Registered
  <1>d. \A m \in Monitor, u \in Tuple : sockets[m][u] # c
    BY <1>c, <1>0 DEF SocketsAreOwned
  <1>1. CASE /\ register(c, t)
             /\ stage' = [stage EXCEPT ![c] = "handshake"]
             /\ tcp' = [tcp EXCEPT ![c] = "open"]
             /\ UNCHANGED watcher
    <2>1. /\ sockets' = [sockets EXCEPT ![c][n] = c] /\ watcher[c] # "failed"
          /\ watcher[c] \in {"running", "failing"}
      BY <1>1, <1>0 DEF register, OwnersKeepMonitors, MonitorTypeOK
    <2>2. MonitorTypeOK'
      BY <1>1, <1>0, <1>a, <2>1 DEF MonitorTypeOK
    <2>3. StagesMatch'
      BY <1>1, <1>0 DEF MonitorTypeOK, StagesMatch
    <2>4. EndsAreUnique'
      BY <1>1 DEF MonitorTypeOK, EndsAreUnique, Free
    <2>5. OwnersKeepMonitors'
      BY <1>1, <1>0, <1>b, <2>1 DEF MonitorTypeOK, OwnersKeepMonitors, Registered
    <2>6. BacklogMatches'
      BY <1>1, <1>0, SMTT(30) DEF MonitorTypeOK, BacklogMatches
    <2>7. ReusersAreBehind'
      BY <1>1, <1>0, SMTT(30) DEF MonitorTypeOK, ReusersAreBehind
    <2>8. SocketsAreOwned'
      <3> SUFFICES ASSUME NEW m \in Monitor, NEW u \in Tuple, sockets'[m][u] # None
                   PROVE  /\ stage'[sockets'[m][u]] \in {"handshake", "session"}
                          /\ MonitorOf(sockets'[m][u]) = m
                          /\ OnWire(addr'[sockets'[m][u]]) = u
        BY DEF SocketsAreOwned, Registered
      <3>1. CASE m = c /\ u = n
        BY <3>1, <1>1, <1>0, <1>a, <2>1 DEF MonitorTypeOK, Registered
      <3>2. CASE ~(m = c /\ u = n)
        <4>1. sockets'[m][u] = sockets[m][u]
          BY <3>2, <2>1, <1>a, SMTT(30) DEF MonitorTypeOK
        <4>2. sockets[m][u] # c /\ sockets[m][u] \in Conn
          BY <1>d, <4>1, SMTT(30) DEF MonitorTypeOK
        <4>3. QED
          BY <4>1, <4>2, <1>1 DEF MonitorTypeOK, SocketsAreOwned, Registered
      <3>3. QED
        BY <3>1, <3>2
    <2>9. EverySessionIsMonitored'
      <3> SUFFICES ASSUME NEW d \in Conn, Registered(d)', tcp'[d] = "open"
                   PROVE  /\ watcher'[MonitorOf(d)] \in {"running", "failing"}
                          /\ sockets'[MonitorOf(d)][OnWire(addr'[d])] = d
        BY DEF EverySessionIsMonitored
      <3>1. CASE d = c
        BY <3>1, <1>1, <1>0, <1>a, <2>1 DEF MonitorTypeOK
      <3>2. CASE d # c
        <4>1. Registered(d) /\ tcp[d] = "open" /\ addr'[d] = addr[d]
          BY <3>2, <1>1 DEF MonitorTypeOK, Registered
        <4>2. sockets'[MonitorOf(d)] = sockets[MonitorOf(d)]
          BY <3>2, <1>b, <2>1, MonitorOfType DEF MonitorTypeOK
        <4>3. QED
          BY <1>1, <4>1, <4>2 DEF EverySessionIsMonitored
      <3>3. QED
        BY <3>1, <3>2
    <2>10. QED
      BY <2>2, <2>3, <2>4, <2>5, <2>6, <2>7, <2>8, <2>9
  <1>2. CASE /\ watcher[c] = "failed"
             /\ stage' = [stage EXCEPT ![c] = "gone"]
             /\ tcp' = [tcp EXCEPT ![c] = "closed"]
             /\ UNCHANGED <<sockets, watcher>>
    <2>2. MonitorTypeOK'
      BY <1>2, <1>0 DEF MonitorTypeOK
    <2>3. StagesMatch' /\ EndsAreUnique'
      BY <1>2, <1>0 DEF MonitorTypeOK, StagesMatch, EndsAreUnique
    <2>5. OwnersKeepMonitors'
      BY <1>2 DEF MonitorTypeOK, OwnersKeepMonitors, Registered
    <2>6. BacklogMatches' /\ ReusersAreBehind'
      BY <1>2, <1>0, SMTT(30)
      DEF MonitorTypeOK, BacklogMatches, ReusersAreBehind
    <2>8. SocketsAreOwned'
      <3>1. \A m \in Monitor, u \in Tuple : sockets[m][u] \in Conn \cup {None}
        BY SMTT(30) DEF MonitorTypeOK
      <3>2. QED
        BY <3>1, <1>2, <1>d DEF MonitorTypeOK, SocketsAreOwned, Registered
    <2>9. EverySessionIsMonitored'
      BY <1>2 DEF MonitorTypeOK, EverySessionIsMonitored, Registered
    <2>10. QED
      BY <2>2, <2>3, <2>5, <2>6, <2>8, <2>9
  <1>3. QED
    BY <1>1, <1>2

\* A connection that fails takes its monitor with it.
LEMMA ConnectFailsInv ==
  ASSUME MonitorInv, NEW c \in Conn, ConnectFails(c)
  PROVE  MonitorInv'
  <1> USE DEF ConnectFails, Released, MonitorInv
  <1>0. /\ c \in Dialed /\ MonitorOf(c) = c /\ c \in Monitor /\ c # Acceptor
        /\ c \notin Accepted /\ c # None
    BY MonitorOfType DEF StagesMatch
  <1>b. \A d \in Conn : d # c => MonitorOf(d) # c
    BY <1>0, MonitorOfType
  <1>1. MonitorTypeOK'
    BY <1>0 DEF MonitorTypeOK
  <1>2. StagesMatch' /\ EndsAreUnique'
    BY <1>0 DEF MonitorTypeOK, StagesMatch, EndsAreUnique
  <1>4. OwnersKeepMonitors'
    BY <1>0, <1>b, MonitorOfType, SMTT(30)
    DEF MonitorTypeOK, OwnersKeepMonitors, Registered
  <1>5. BacklogMatches' /\ ReusersAreBehind'
    BY <1>0, SMTT(30) DEF MonitorTypeOK, BacklogMatches, ReusersAreBehind
  <1>6. SocketsAreOwned'
    <2>1. \A m \in Monitor, u \in Tuple : sockets[m][u] \in Conn \cup {None}
      BY DEF MonitorTypeOK
    <2>2. QED
      BY <2>1 DEF MonitorTypeOK, SocketsAreOwned, Registered
  <1>7. EverySessionIsMonitored'
    BY <1>b, MonitorOfType DEF MonitorTypeOK, EverySessionIsMonitored, Registered
  <1>8. QED
    BY <1>1, <1>2, <1>4, <1>5, <1>6, <1>7

-----------------------------------------------------------------------------
(* Accepting.                                                               *)

\* A new connection goes to the end of the backlog, behind those whose ends it
\* uses again.
LEMMA EstablishInv ==
  ASSUME MonitorInv, NEW c \in Conn, NEW t \in Tuple, Establish(c, t)
  PROVE  MonitorInv'
  <1> USE DEF Establish, MonitorInv
  <1>0. c \in Accepted /\ c \notin Dialed /\ c # None /\ stage[c] = "none" /\ tcp[c] = "none"
    BY MonitorOfType DEF StagesMatch
  <1>a. /\ \A d \in Conn \ {c} : stage'[d] = stage[d] /\ tcp'[d] = tcp[d] /\ addr'[d] = addr[d]
        /\ stage'[c] = "backlog" /\ tcp'[c] = "open" /\ addr'[c] = t
    BY DEF MonitorTypeOK
  <1>b. /\ Len(backlog') = Len(backlog) + 1 /\ Len(backlog) \in Nat
        /\ \A i \in 1 .. Len(backlog) : backlog'[i] = backlog[i] /\ backlog[i] \in Conn \ {c}
        /\ backlog'[Len(backlog) + 1] = c
    <2>1. backlog \in Seq(Accepted)
      BY DEF MonitorTypeOK
    <2>2. \A i \in 1 .. Len(backlog) : backlog[i] \in Conn /\ stage[backlog[i]] = "backlog"
      BY <2>1, SMTT(30) DEF BacklogMatches, Conn
    <2>3. QED
      BY <1>0, <2>1, <2>2, SMTT(30)
  <1>1. MonitorTypeOK'
    <2>1. backlog' \in Seq(Accepted)
      BY <1>0, SMTT(30) DEF MonitorTypeOK
    <2>2. QED
      BY <2>1 DEF MonitorTypeOK
  <1>2. StagesMatch'
    BY <1>0, <1>a DEF StagesMatch
  <1>3. EndsAreUnique'
    BY <1>a, SMTT(30) DEF EndsAreUnique, Free
  <1>4. OwnersKeepMonitors'
    BY <1>a DEF OwnersKeepMonitors, Registered
  <1>5. BacklogMatches'
    <2>1. \A i \in 1 .. Len(backlog') : i \in 1 .. Len(backlog) \/ i = Len(backlog) + 1
      BY <1>b, SMTT(30)
    <2>2. \A i \in 1 .. Len(backlog') : stage'[backlog'[i]] = "backlog"
      BY <1>a, <1>b, <2>1, SMTT(30) DEF BacklogMatches
    <2>3. \A i, j \in 1 .. Len(backlog') : backlog'[i] = backlog'[j] => i = j
      BY <1>b, <2>1, SMTT(30) DEF BacklogMatches
    <2>4. \A d \in Conn : stage'[d] = "backlog" => \E i \in 1 .. Len(backlog') : backlog'[i] = d
      <3> SUFFICES ASSUME NEW d \in Conn, stage'[d] = "backlog"
                   PROVE  \E i \in 1 .. Len(backlog') : backlog'[i] = d
        OBVIOUS
      <3>1. CASE d = c
        BY <3>1, <1>b, SMTT(30)
      <3>2. CASE d # c
        <4>1. PICK i \in 1 .. Len(backlog) : backlog[i] = d
          BY <3>2, <1>a DEF BacklogMatches
        <4>2. i \in 1 .. Len(backlog')
          BY <1>b, SMTT(30)
        <4>3. QED
          BY <4>1, <4>2, <1>b
      <3>3. QED
        BY <3>1, <3>2
    <2>5. QED
      BY <2>2, <2>3, <2>4 DEF BacklogMatches
  <1>6. ReusersAreBehind'
    <2> SUFFICES ASSUME NEW i \in 1 .. Len(backlog'), NEW d \in Accepted,
                        tcp'[d] = "open", d # backlog'[i],
                        OnWire(addr'[d]) = OnWire(addr'[backlog'[i]])
                 PROVE  \E j \in (i + 1) .. Len(backlog') : backlog'[j] = d
      BY DEF ReusersAreBehind
    <2>0. d \in Conn
      BY DEF Conn
    <2>1. CASE i = Len(backlog) + 1
      BY <2>0, <2>1, <1>a, <1>b, SMTT(30) DEF Free
    <2>2. CASE i \in 1 .. Len(backlog) /\ d = c
      BY <2>2, <1>b, SMTT(30)
    <2>3. CASE i \in 1 .. Len(backlog) /\ d # c
      <3>1. PICK j \in (i + 1) .. Len(backlog) : backlog[j] = d
        BY <2>0, <2>3, <1>a, <1>b, SMTT(30) DEF ReusersAreBehind
      <3>2. j \in 1 .. Len(backlog) /\ j \in (i + 1) .. Len(backlog')
        BY <1>b, SMTT(30)
      <3>3. QED
        BY <3>1, <3>2, <1>b
    <2>4. QED
      BY <2>1, <2>2, <2>3, <1>b, SMTT(30)
  <1>7. SocketsAreOwned'
    <2>1. \A m \in Monitor, u \in Tuple :
            sockets[m][u] # None => sockets[m][u] \in Conn \ {c}
      BY <1>0, UnregisteredSockets DEF Registered
    <2>2. QED
      BY <2>1, <1>a, SMTT(30) DEF SocketsAreOwned, Registered
  <1>8. EverySessionIsMonitored'
    BY <1>a, SMTT(30) DEF EverySessionIsMonitored, Registered
  <1>9. QED
    BY <1>1, <1>2, <1>3, <1>4, <1>5, <1>6, <1>7, <1>8

\* What is left of a backlog without its first connection.
LEMMA TailOfBacklog ==
  ASSUME NEW s \in Seq(Accepted), s # <<>>
  PROVE  /\ Len(s) \in Nat \ {0} /\ Head(s) = s[1] /\ s[1] \in Accepted
         /\ Tail(s) \in Seq(Accepted) /\ Len(Tail(s)) = Len(s) - 1
         /\ \A i \in 1 .. Len(Tail(s)) :
              /\ Tail(s)[i] = s[i + 1] /\ i + 1 \in 2 .. Len(s)
              /\ i + 1 \in 1 .. Len(s) /\ Tail(s)[i] \in Accepted
  BY SMTT(30)

\* Taking a connection out of the backlog leaves the order of the others.
LEMMA AcceptBacklog ==
  ASSUME MonitorInv, accept_pending, NEW c \in Conn, c = Head(backlog),
         \A d \in Conn \ {c} : stage'[d] = stage[d] /\ (tcp'[d] = tcp[d]),
         stage'[c] # "backlog", tcp'[c] = "open" => tcp[c] = "open"
  PROVE  /\ backlog \in Seq(Accepted) /\ backlog # <<>>
         /\ c \in Accepted /\ stage[c] = "backlog"
         /\ backlog' \in Seq(Accepted)
         /\ BacklogMatches'
         /\ ReusersAreBehind'
  <1> USE DEF MonitorInv
  <1>1. backlog \in Seq(Accepted) /\ backlog # <<>> /\ backlog' = Tail(backlog) /\ addr' = addr
    BY DEF accept_pending, MonitorTypeOK
  <1>2. /\ Len(backlog) \in Nat \ {0} /\ c = backlog[1] /\ c \in Accepted
        /\ backlog' \in Seq(Accepted) /\ Len(backlog') = Len(backlog) - 1
        /\ \A i \in 1 .. Len(backlog') :
             /\ backlog'[i] = backlog[i + 1] /\ i + 1 \in 2 .. Len(backlog)
             /\ i + 1 \in 1 .. Len(backlog) /\ backlog'[i] \in Accepted
    BY <1>1, TailOfBacklog
  <1>3. 1 \in 1 .. Len(backlog) /\ stage[c] = "backlog"
    BY <1>2, SMTT(30) DEF BacklogMatches
  <1>4. \A i \in 1 .. Len(backlog') : backlog'[i] \in Conn \ {c}
    <2> SUFFICES ASSUME NEW i \in 1 .. Len(backlog') PROVE backlog'[i] \in Conn \ {c}
      OBVIOUS
    <2>1. i + 1 # 1 /\ i + 1 \in 1 .. Len(backlog) /\ backlog'[i] = backlog[i + 1]
      BY <1>2, SMTT(30)
    <2>2. backlog[i + 1] # backlog[1]
      BY <2>1, <1>3 DEF BacklogMatches
    <2>3. QED
      BY <2>1, <2>2, <1>2 DEF Conn
  <1>5. BacklogMatches'
    <2>1. \A i \in 1 .. Len(backlog') : stage'[backlog'[i]] = "backlog"
      BY <1>2, <1>4, SMTT(30) DEF BacklogMatches
    <2>2. \A i, j \in 1 .. Len(backlog') : backlog'[i] = backlog'[j] => i = j
      <3> SUFFICES ASSUME NEW i \in 1 .. Len(backlog'), NEW j \in 1 .. Len(backlog'),
                          backlog'[i] = backlog'[j]
                   PROVE  i = j
        OBVIOUS
      <3>1. i + 1 = j + 1
        BY <1>2, SMTT(30) DEF BacklogMatches
      <3>2. QED
        BY <3>1, SMTT(30)
    <2>3. \A d \in Conn : stage'[d] = "backlog" => \E i \in 1 .. Len(backlog') : backlog'[i] = d
      <3> SUFFICES ASSUME NEW d \in Conn, stage'[d] = "backlog"
                   PROVE  \E i \in 1 .. Len(backlog') : backlog'[i] = d
        OBVIOUS
      <3>1. d # c /\ stage[d] = "backlog"
        OBVIOUS
      <3>2. PICK k \in 1 .. Len(backlog) : backlog[k] = d
        BY <3>1 DEF BacklogMatches
      <3>3. k # 1
        BY <3>1, <3>2, <1>2
      <3>4. k - 1 \in 1 .. Len(backlog') /\ (k - 1) + 1 = k
        BY <3>3, <1>2, SMTT(30)
      <3>5. backlog'[k - 1] = backlog[k]
        BY <3>4, <1>2
      <3>6. QED
        BY <3>2, <3>4, <3>5
    <2>4. QED
      BY <2>1, <2>2, <2>3 DEF BacklogMatches
  <1>6. ReusersAreBehind'
    <2> SUFFICES ASSUME NEW i \in 1 .. Len(backlog'), NEW d \in Accepted,
                        tcp'[d] = "open", d # backlog'[i],
                        OnWire(addr'[d]) = OnWire(addr'[backlog'[i]])
                 PROVE  \E j \in (i + 1) .. Len(backlog') : backlog'[j] = d
      BY DEF ReusersAreBehind
    <2>1. tcp[d] = "open"
      BY DEF Conn
    <2>2. /\ i + 1 \in 1 .. Len(backlog) /\ backlog'[i] = backlog[i + 1]
          /\ OnWire(addr[d]) = OnWire(addr[backlog[i + 1]])
      BY <1>1, <1>2
    <2>3. PICK k \in ((i + 1) + 1) .. Len(backlog) : backlog[k] = d
      BY <2>1, <2>2 DEF ReusersAreBehind
    <2>4. k - 1 \in (i + 1) .. Len(backlog') /\ k - 1 \in 1 .. Len(backlog') /\ (k - 1) + 1 = k
      BY <1>2, <2>2, SMTT(30)
    <2>5. backlog'[k - 1] = backlog[k]
      BY <2>4, <1>2
    <2>6. QED
      BY <2>3, <2>4, <2>5
  <1>7. QED
    BY <1>1, <1>2, <1>3, <1>5, <1>6

\* The first connection of the backlog is registered, or dropped.
LEMMA AcceptInv ==
  ASSUME MonitorInv, accept_pending
  PROVE  MonitorInv'
  <1> DEFINE c == Head(backlog)
  <1> USE DEF MonitorInv
  <1>0. /\ backlog \in Seq(Accepted) /\ backlog # <<>> /\ listening
        /\ backlog' = Tail(backlog)
        /\ UNCHANGED <<addr, listening, watcher, captured>>
    BY DEF accept_pending, MonitorTypeOK
  <1>c. /\ c \in Accepted /\ c \in Conn /\ c # None /\ c \notin Dialed
        /\ MonitorOf(c) = Acceptor /\ Acceptor \in Monitor
    BY <1>0, TailOfBacklog, MonitorOfType DEF Conn, Monitor
  <1>d. 1 \in 1 .. Len(backlog) /\ c = backlog[1]
    BY <1>0, TailOfBacklog, SMTT(30)
  <1>e. stage[c] = "backlog" /\ ~Registered(c) /\ addr[c] \in Tuple /\ tcp[c] # "none"
    BY <1>c, <1>d, SMTT(30) DEF BacklogMatches, Registered, StagesMatch
  <1>f. \A m \in Monitor, u \in Tuple : sockets[m][u] # c /\ sockets[m][u] \in Conn \cup {None}
    BY <1>c, <1>e, UnregisteredSockets
  <1>1. CASE /\ register(c, addr[c])
             /\ stage' = [stage EXCEPT ![c] = "handshake"]
             /\ UNCHANGED tcp
    <2> DEFINE n == normalize(addr[c])
    <2>n. n \in Tuple /\ n = OnWire(addr[c])
      BY <1>e, NormalizeIsOnWire
    <2>a. /\ \A d \in Conn \ {c} : stage'[d] = stage[d]
          /\ stage'[c] = "handshake"
      BY <1>1, <1>c DEF MonitorTypeOK
    <2>s. /\ watcher[Acceptor] \in {"running", "failing"}
          /\ sockets' = [sockets EXCEPT ![Acceptor][n] = c]
      BY <1>0, <1>1, <1>c DEF register, OwnersKeepMonitors
    <2>t. /\ sockets'[Acceptor][n] = c
          /\ \A m \in Monitor, u \in Tuple : m # Acceptor \/ u # n => sockets'[m][u] = sockets[m][u]
      BY <2>s, <2>n, <1>c DEF MonitorTypeOK
    <2>b. backlog' \in Seq(Accepted) /\ BacklogMatches' /\ ReusersAreBehind'
      BY <1>1, <1>c, <2>a, AcceptBacklog
    <2>1. MonitorTypeOK'
      <3>1. sockets' \in [Monitor -> [Tuple -> Conn \cup {None}]]
        BY <2>s, <2>n, <1>c DEF MonitorTypeOK
      <3>2. QED
        BY <3>1, <1>0, <1>1, <1>c, <2>b DEF MonitorTypeOK
    <2>2. StagesMatch' /\ EndsAreUnique'
      BY <1>0, <1>1, <1>e, <2>a DEF StagesMatch, EndsAreUnique
    <2>3. OwnersKeepMonitors'
      BY <1>0, <1>c, <2>a, <2>s DEF OwnersKeepMonitors, Registered
    <2>4. SocketsAreOwned'
      <3> SUFFICES ASSUME NEW m \in Monitor, NEW u \in Tuple, sockets'[m][u] # None
                   PROVE  /\ stage'[sockets'[m][u]] \in {"handshake", "session"}
                          /\ MonitorOf(sockets'[m][u]) = m
                          /\ OnWire(addr'[sockets'[m][u]]) = u
        BY DEF SocketsAreOwned, Registered
      <3>1. CASE m = Acceptor /\ u = n
        BY <3>1, <1>0, <1>c, <2>a, <2>n, <2>t
      <3>2. CASE m # Acceptor \/ u # n
        <4>1. sockets'[m][u] = sockets[m][u] /\ sockets[m][u] \in Conn \ {c}
          BY <3>2, <2>t, <1>f
        <4>2. QED
          BY <4>1, <2>a, <1>0 DEF SocketsAreOwned, Registered
      <3>3. QED
        BY <3>1, <3>2
    <2>5. EverySessionIsMonitored'
      <3> SUFFICES ASSUME NEW d \in Conn, stage'[d] \in {"handshake", "session"}, tcp'[d] = "open"
                   PROVE  /\ watcher'[MonitorOf(d)] \in {"running", "failing"}
                          /\ sockets'[MonitorOf(d)][OnWire(addr'[d])] = d
        BY DEF EverySessionIsMonitored, Registered
      <3>1. CASE d = c
        BY <3>1, <1>0, <1>c, <2>s, <2>t, <2>n
      <3>2. CASE d # c
        <4>1. /\ Registered(d) /\ tcp[d] = "open" /\ addr'[d] = addr[d]
              /\ MonitorOf(d) \in Monitor /\ addr[d] \in Tuple /\ OnWire(addr[d]) \in Tuple
          BY <3>2, <1>0, <1>1, <2>a, MonitorOfType, NormalizeIsOnWire DEF Registered, StagesMatch
        <4>2. /\ watcher[MonitorOf(d)] \in {"running", "failing"}
              /\ sockets[MonitorOf(d)][OnWire(addr[d])] = d
          BY <4>1 DEF EverySessionIsMonitored
        <4>3. ~(MonitorOf(d) = Acceptor /\ OnWire(addr[d]) = n)
          <5> SUFFICES ASSUME MonitorOf(d) = Acceptor, OnWire(addr[d]) = n
                       PROVE  FALSE
            OBVIOUS
          <5>1. d \in Accepted
            BY MonitorOfType
          <5>2. PICK j \in 2 .. Len(backlog) : backlog[j] = d
            BY <5>1, <3>2, <4>1, <1>d, <2>n, SMTT(30) DEF ReusersAreBehind
          <5>3. j \in 1 .. Len(backlog)
            BY <5>2, <1>0, TailOfBacklog, SMTT(30)
          <5>4. stage[d] = "backlog"
            BY <5>2, <5>3 DEF BacklogMatches
          <5>5. QED
            BY <5>4, <4>1 DEF Registered
        <4>4. sockets'[MonitorOf(d)][OnWire(addr[d])] = d
          BY <4>1, <4>2, <4>3, <2>t
        <4>5. QED
          BY <1>0, <4>1, <4>2, <4>4
      <3>3. QED
        BY <3>1, <3>2
    <2>6. QED
      BY <2>1, <2>2, <2>3, <2>4, <2>5, <2>b
  <1>2. CASE /\ watcher[Acceptor] = "failed" \/ tcp[c] # "open"
             /\ stage' = [stage EXCEPT ![c] = "gone"]
             /\ tcp' = [tcp EXCEPT ![c] = "closed"]
             /\ UNCHANGED sockets
    <2>a. /\ \A d \in Conn \ {c} : stage'[d] = stage[d] /\ tcp'[d] = tcp[d]
          /\ stage'[c] = "gone" /\ tcp'[c] = "closed"
      BY <1>2, <1>c DEF MonitorTypeOK
    <2>b. backlog' \in Seq(Accepted) /\ BacklogMatches' /\ ReusersAreBehind'
      BY <1>c, <2>a, AcceptBacklog
    <2>1. MonitorTypeOK'
      BY <1>0, <1>2, <1>c, <2>b DEF MonitorTypeOK
    <2>2. StagesMatch' /\ EndsAreUnique'
      BY <1>0, <1>e, <2>a DEF StagesMatch, EndsAreUnique
    <2>3. OwnersKeepMonitors'
      BY <1>0, <2>a DEF OwnersKeepMonitors, Registered
    <2>4. SocketsAreOwned'
      BY <1>0, <1>2, <1>f, <2>a, SMTT(30) DEF SocketsAreOwned, Registered
    <2>5. EverySessionIsMonitored'
      BY <1>0, <1>2, <2>a DEF EverySessionIsMonitored, Registered
    <2>6. QED
      BY <2>1, <2>2, <2>3, <2>4, <2>5, <2>b
  <1>3. QED
    BY <1>1, <1>2 DEF accept_pending

\* The listener takes the backlog with it, and its monitor if nobody else has it.
LEMMA CloseListenerInv ==
  ASSUME MonitorInv, CloseListener
  PROVE  MonitorInv'
  <1> USE DEF CloseListener, MonitorInv
  <1>a. /\ \A c \in Conn : IF stage[c] = "backlog" THEN stage'[c] = "gone" /\ tcp'[c] = "closed"
                           ELSE stage'[c] = stage[c] /\ tcp'[c] = tcp[c]
        /\ \A c \in Conn : Registered(c)' <=> Registered(c)
    BY DEF Registered
  <1>b. backlog' = <<>> /\ backlog' \in Seq(Accepted) /\ Len(backlog') = 0
    BY SMTT(30)
  <1>c. /\ watcher' \in [Monitor -> {"none", "running", "failing", "failed", "aborted"}]
        /\ captured' \in [Monitor -> SUBSET Tuple]
        /\ \A m \in Monitor \ {Acceptor} : watcher'[m] = watcher[m]
        /\ (\E c \in Accepted : Registered(c)) => watcher' = watcher
    BY DEF Released, MonitorTypeOK
  <1>1. MonitorTypeOK'
    BY <1>b, <1>c DEF MonitorTypeOK
  <1>2. StagesMatch' /\ EndsAreUnique'
    BY <1>a DEF StagesMatch, EndsAreUnique
  <1>3. \A c \in Conn : Registered(c) \/ stage[c] = "connecting" =>
          watcher'[MonitorOf(c)] = watcher[MonitorOf(c)]
    BY <1>c, MonitorOfType DEF StagesMatch
  <1>4. OwnersKeepMonitors'
    BY <1>a, <1>3 DEF OwnersKeepMonitors
  <1>5. BacklogMatches' /\ ReusersAreBehind'
    BY <1>a, <1>b, SMTT(30) DEF BacklogMatches, ReusersAreBehind
  <1>6. SocketsAreOwned'
    BY <1>a, UnregisteredSockets DEF SocketsAreOwned
  <1>7. EverySessionIsMonitored'
    BY <1>a, <1>3 DEF EverySessionIsMonitored
  <1>8. QED
    BY <1>1, <1>2, <1>4, <1>5, <1>6, <1>7

-----------------------------------------------------------------------------
(* Registered connections and monitors.                                     *)

\* A connection that becomes a session stays registered.
LEMMA HandshakeInv ==
  ASSUME MonitorInv, NEW c \in Conn, handshake(c)
  PROVE  MonitorInv'
  <1> USE DEF handshake, MonitorInv
  <1>a. /\ \A d \in Conn : Registered(d)' <=> Registered(d)
        /\ \A d \in Conn : stage'[d] \in {"none", "connecting", "backlog", "gone"} \/
                           stage[d] \in {"none", "connecting", "backlog", "gone"}
                             => stage'[d] = stage[d]
    BY DEF Registered, MonitorTypeOK
  <1>1. MonitorTypeOK'
    BY DEF MonitorTypeOK
  <1>2. StagesMatch' /\ EndsAreUnique' /\ OwnersKeepMonitors'
    BY <1>a DEF MonitorTypeOK, StagesMatch, EndsAreUnique, OwnersKeepMonitors
  <1>3. BacklogMatches' /\ ReusersAreBehind'
    <2>1. \A i \in 1 .. Len(backlog) : backlog[i] \in Conn
      BY SMTT(30) DEF MonitorTypeOK, Conn
    <2>2. BacklogMatches'
      BY <2>1, <1>a DEF BacklogMatches
    <2>3. ReusersAreBehind'
      BY <2>1, <1>a, SMTT(30) DEF ReusersAreBehind
    <2>4. QED
      BY <2>2, <2>3
  <1>4. SocketsAreOwned'
    BY <1>a, UnregisteredSockets DEF SocketsAreOwned
  <1>5. EverySessionIsMonitored'
    BY <1>a DEF EverySessionIsMonitored
  <1>6. QED
    BY <1>1, <1>2, <1>3, <1>4, <1>5

\* A connection that goes takes only its own registration with it, and the
\* monitor only if it was the last to have it.
LEMMA DropInv ==
  ASSUME MonitorInv, NEW c \in Conn, Drop(c)
  PROVE  MonitorInv'
  <1> USE DEF Drop, MonitorInv
  <1> DEFINE m == MonitorOf(c)
             n == normalize(addr[c])
  <1>0. m \in Monitor /\ addr[c] \in Tuple /\ n \in Tuple /\ n = OnWire(addr[c]) /\ c # None
    BY MonitorOfType, NormalizeIsOnWire DEF StagesMatch, Registered
  <1>a. /\ \A d \in Conn \ {c} : stage'[d] = stage[d] /\ tcp'[d] = tcp[d]
        /\ stage'[c] = "gone" /\ stage[c] \in {"handshake", "session"}
        /\ tcp'[c] \in {"none", "reset", "closed"} /\ tcp'[c] # "open"
        /\ tcp[c] # "none"
    BY DEF MonitorTypeOK, Registered, StagesMatch
  <1>s. /\ sockets' \in [Monitor -> [Tuple -> Conn \cup {None}]]
        /\ \A k \in Monitor, u \in Tuple :
             sockets'[k][u] = IF k = m /\ u = n /\ sockets[k][u] = c THEN None ELSE sockets[k][u]
    BY <1>0 DEF Unregistered, MonitorTypeOK
  <1>w. /\ watcher' \in [Monitor -> {"none", "running", "failing", "failed", "aborted"}]
        /\ captured' \in [Monitor -> SUBSET Tuple]
        /\ \A k \in Monitor \ {m} : watcher'[k] = watcher[k]
        /\ watcher' = watcher \/ c \in Dialed \/
             (~listening /\ \A d \in Accepted \ {c} : ~Registered(d))
    BY <1>0 DEF Released, MonitorTypeOK
  <1>1. MonitorTypeOK'
    BY <1>a, <1>s, <1>w DEF MonitorTypeOK
  <1>2. StagesMatch' /\ EndsAreUnique'
    <2>1. StagesMatch'
      BY <1>0, <1>a DEF StagesMatch
    <2>2. EndsAreUnique'
      BY <1>0, <1>a, SMTT(30) DEF EndsAreUnique
    <2>3. QED
      BY <2>1, <2>2
  <1>3. \A d \in Conn \ {c} : Registered(d) \/ stage[d] = "connecting" =>
          watcher'[MonitorOf(d)] = watcher[MonitorOf(d)]
    BY <1>w, MonitorOfType DEF StagesMatch
  <1>4. OwnersKeepMonitors'
    <2>1. listening => watcher'[Acceptor] = watcher[Acceptor]
      BY <1>w, MonitorOfType DEF Monitor
    <2>2. QED
      BY <1>a, <1>3, <2>1 DEF OwnersKeepMonitors, Registered
  <1>5. BacklogMatches' /\ ReusersAreBehind'
    <2>1. \A i \in 1 .. Len(backlog) : backlog[i] \in Conn \ {c}
      BY <1>a, SMTT(30) DEF MonitorTypeOK, Conn, BacklogMatches
    <2>2. \A d \in Accepted : tcp'[d] = "open" => tcp[d] = "open"
      BY <1>a DEF Conn
    <2>3. BacklogMatches'
      BY <2>1, <1>a DEF BacklogMatches
    <2>4. ReusersAreBehind'
      BY <2>2 DEF ReusersAreBehind
    <2>5. QED
      BY <2>3, <2>4
  <1>6. SocketsAreOwned'
    <2> SUFFICES ASSUME NEW k \in Monitor, NEW u \in Tuple, sockets'[k][u] # None
                 PROVE  /\ stage'[sockets'[k][u]] \in {"handshake", "session"}
                        /\ MonitorOf(sockets'[k][u]) = k
                        /\ OnWire(addr'[sockets'[k][u]]) = u
      BY DEF SocketsAreOwned, Registered
    <2>1. sockets'[k][u] = sockets[k][u] /\ sockets[k][u] \in Conn
      BY <1>s, UnregisteredSockets
    <2>2. MonitorOf(sockets[k][u]) = k /\ OnWire(addr[sockets[k][u]]) = u
      BY <2>1 DEF SocketsAreOwned
    <2>3. sockets[k][u] # c
      BY <2>1, <2>2, <1>0, <1>s, SMTT(30)
    <2>4. QED
      BY <2>1, <2>2, <2>3, <1>a, SMTT(30) DEF SocketsAreOwned, Registered
  <1>7. EverySessionIsMonitored'
    <2> SUFFICES ASSUME NEW d \in Conn, stage'[d] \in {"handshake", "session"}, tcp'[d] = "open"
                 PROVE  /\ watcher'[MonitorOf(d)] \in {"running", "failing"}
                        /\ sockets'[MonitorOf(d)][OnWire(addr'[d])] = d
      BY DEF EverySessionIsMonitored, Registered
    <2>1. d # c /\ Registered(d) /\ tcp[d] = "open"
      BY <1>a DEF Registered
    <2>2. MonitorOf(d) \in Monitor /\ OnWire(addr[d]) \in Tuple
      BY <2>1, MonitorOfType, NormalizeIsOnWire DEF StagesMatch
    <2>3. QED
      BY <2>1, <2>2, <1>3, <1>s, SMTT(30) DEF EverySessionIsMonitored
  <1>8. QED
    BY <1>1, <1>2, <1>4, <1>5, <1>6, <1>7

\* A step that only ends TCP connections preserves what is not about monitors.
LEMMA TcpEndsInv ==
  ASSUME MonitorInv, UNCHANGED <<stage, addr, backlog, listening, sockets>>,
         tcp' \in [Conn -> {"none", "open", "reset", "closed"}],
         \A c \in Conn : /\ tcp'[c] = "open" => tcp[c] = "open"
                         /\ tcp'[c] = "none" <=> tcp[c] = "none",
         watcher' \in [Monitor -> {"none", "running", "failing", "failed", "aborted"}],
         captured' \in [Monitor -> SUBSET Tuple],
         \A m \in Monitor : \/ watcher'[m] = watcher[m]
                            \/ watcher[m] = "running" /\ watcher'[m] = "failing"
                            \/ /\ watcher[m] = "failing" /\ watcher'[m] = "failed"
                               /\ \A t \in Tuple : sockets[m][t] # None => tcp'[sockets[m][t]] # "open"
  PROVE  MonitorInv'
  <1> USE DEF MonitorInv
  <1>1. MonitorTypeOK'
    BY DEF MonitorTypeOK
  <1>2. StagesMatch' /\ EndsAreUnique'
    BY DEF StagesMatch, EndsAreUnique
  <1>3. OwnersKeepMonitors'
    BY MonitorOfType DEF OwnersKeepMonitors, Registered, Monitor
  <1>4. BacklogMatches' /\ ReusersAreBehind'
    BY SMTT(30) DEF BacklogMatches, ReusersAreBehind, Conn
  <1>5. SocketsAreOwned'
    BY DEF SocketsAreOwned, Registered
  <1>6. EverySessionIsMonitored'
    <2> SUFFICES ASSUME NEW d \in Conn, Registered(d), tcp'[d] = "open"
                 PROVE  /\ watcher'[MonitorOf(d)] \in {"running", "failing"}
                        /\ sockets[MonitorOf(d)][OnWire(addr[d])] = d
      BY DEF EverySessionIsMonitored, Registered
    <2>1. /\ watcher[MonitorOf(d)] \in {"running", "failing"}
          /\ sockets[MonitorOf(d)][OnWire(addr[d])] = d
      BY DEF EverySessionIsMonitored
    <2>2. MonitorOf(d) \in Monitor /\ OnWire(addr[d]) \in Tuple /\ d # None
      BY MonitorOfType, NormalizeIsOnWire, SMTT(30) DEF StagesMatch
    <2>3. QED
      BY <2>1, <2>2, SMTT(30)
  <1>7. QED
    BY <1>1, <1>2, <1>3, <1>4, <1>5, <1>6

\* What reset does to the TCP states.
LEMMA ResetEffect ==
  ASSUME MonitorInv, NEW cs, reset(cs)
  PROVE  /\ tcp' \in [Conn -> {"none", "open", "reset", "closed"}]
         /\ \A c \in Conn : /\ tcp'[c] = "open" => tcp[c] = "open" /\ c \notin cs
                            /\ tcp'[c] = "none" <=> tcp[c] = "none"
                            /\ tcp[c] = "open" /\ tcp'[c] = "reset" => c \in cs
  BY DEF reset, MonitorInv, MonitorTypeOK

\* The monitors' steps, and the peer's, preserve the invariant.
LEMMA MonitorStepInv ==
  ASSUME MonitorInv,
         \/ \E c \in Conn : PeerCloses(c)
         \/ \E m \in Monitor : ReceiveFails(m) \/ ResetAll(m)
         \/ \E m \in Monitor, t \in Tuple : LowTtlSegment(m, t) \/ receive(m, t)
  PROVE  MonitorInv'
  <1>0. /\ tcp \in [Conn -> {"none", "open", "reset", "closed"}]
        /\ watcher \in [Monitor -> {"none", "running", "failing", "failed", "aborted"}]
        /\ captured \in [Monitor -> SUBSET Tuple]
    BY DEF MonitorInv, MonitorTypeOK
  <1>1. ASSUME NEW c \in Conn, PeerCloses(c)
        PROVE  MonitorInv'
    BY <1>0, <1>1, TcpEndsInv DEF PeerCloses
  <1>2. ASSUME NEW m \in Monitor, ReceiveFails(m)
        PROVE  MonitorInv'
    BY <1>0, <1>2, TcpEndsInv DEF ReceiveFails
  <1>3. ASSUME NEW m \in Monitor, ResetAll(m)
        PROVE  MonitorInv'
    <2> DEFINE known == {sockets[m][t] : t \in Tuple}
    <2>1. reset(known) /\ watcher[m] = "failing"
      BY <1>3 DEF ResetAll
    <2>2. \A t \in Tuple : sockets[m][t] \in Conn \cup {None} /\ sockets[m][t] \in known
      BY UnregisteredSockets
    <2>3. UNCHANGED <<stage, addr, backlog, listening, sockets>>
      BY <1>3 DEF ResetAll
    <2>4. /\ watcher' \in [Monitor -> {"none", "running", "failing", "failed", "aborted"}]
          /\ captured' \in [Monitor -> SUBSET Tuple]
          /\ watcher'[m] = "failed"
          /\ \A k \in Monitor \ {m} : watcher'[k] = watcher[k]
      BY <1>0, <1>3 DEF ResetAll
    <2> HIDE DEF known
    <2>5. /\ tcp' \in [Conn -> {"none", "open", "reset", "closed"}]
          /\ \A c \in Conn : /\ tcp'[c] = "open" => tcp[c] = "open" /\ c \notin known
                             /\ tcp'[c] = "none" <=> tcp[c] = "none"
      BY <2>1, ResetEffect
    <2>6. \A t \in Tuple : sockets[m][t] # None => tcp'[sockets[m][t]] # "open"
      BY <2>2, <2>5
    <2>7. \A k \in Monitor :
            \/ watcher'[k] = watcher[k]
            \/ /\ watcher[k] = "failing" /\ watcher'[k] = "failed"
               /\ \A t \in Tuple : sockets[k][t] # None => tcp'[sockets[k][t]] # "open"
      BY <2>1, <2>4, <2>6
    <2>8. QED
      BY <2>3, <2>4, <2>5, <2>7, TcpEndsInv
  <1>4. ASSUME NEW m \in Monitor, NEW t \in Tuple, LowTtlSegment(m, t)
        PROVE  MonitorInv'
    <2>1. captured' \in [Monitor -> SUBSET Tuple]
      BY <1>0, <1>4, NormalizeIsOnWire DEF LowTtlSegment
    <2>2. QED
      BY <1>0, <1>4, <2>1, TcpEndsInv DEF LowTtlSegment
  <1>5. ASSUME NEW m \in Monitor, NEW t \in Tuple, receive(m, t)
        PROVE  MonitorInv'
    <2>1. captured' \in [Monitor -> SUBSET Tuple]
      BY <1>0, <1>5 DEF receive
    <2>2. QED
      BY <1>0, <1>5, <2>1, ResetEffect, TcpEndsInv DEF receive
  <1>6. QED
    BY <1>1, <1>2, <1>3, <1>4, <1>5

-----------------------------------------------------------------------------
(* The theorems.                                                            *)

\* The invariant is inductive.
LEMMA MonitorNextInv == MonitorInv /\ [MonitorNext]_monitorVars => MonitorInv'
  <1> SUFFICES ASSUME MonitorInv, [MonitorNext]_monitorVars PROVE MonitorInv'
    OBVIOUS
  <1>1. CASE UNCHANGED monitorVars
    BY <1>1, SMTT(30)
    DEF monitorVars, MonitorInv, MonitorTypeOK, StagesMatch, EndsAreUnique,
        OwnersKeepMonitors, BacklogMatches, ReusersAreBehind, SocketsAreOwned,
        EverySessionIsMonitored, Registered
  <1>2. CASE MonitorNext
    BY <1>2, ConnectInv, ConnectedInv, ConnectFailsInv, EstablishInv, AcceptInv,
       CloseListenerInv, HandshakeInv, DropInv, MonitorStepInv
       DEF MonitorNext
  <1>3. QED
    BY <1>1, <1>2

\* The invariant always holds.
LEMMA MonitorInvariant == MonitorSpec => []MonitorInv
  BY MonitorInitInv, MonitorNextInv, PTL DEF MonitorSpec

\* Every open connection in its handshake or session is registered, under the
\* ends its segments have, with a monitor whose task is there: for any number of
\* connections, whatever is dropped, reused or fails.
THEOREM SessionsAreMonitored == MonitorSpec => []EverySessionIsMonitored
  <1>1. MonitorInv => EverySessionIsMonitored
    BY DEF MonitorInv
  <1>2. QED
    BY <1>1, MonitorInvariant, PTL

\* Registration::drop leaves nothing behind: a monitor keeps a copy of a socket
\* only while its connection is registered.
THEOREM SocketsAreNotKept == MonitorSpec => []SocketsAreOwned
  <1>1. MonitorInv => SocketsAreOwned
    BY DEF MonitorInv
  <1>2. QED
    BY <1>1, MonitorInvariant, PTL

\* receive resets the connection a segment belongs to and no other; all others
\* are reset only when the monitor fails.
THEOREM ResetsAreAimed == MonitorSpec => [][ResetIsAimed]_monitorVars
  <1>1. MonitorInv /\ [MonitorNext]_monitorVars => [ResetIsAimed]_monitorVars
    <2> SUFFICES ASSUME MonitorInv, MonitorNext, NEW c \in Conn,
                        tcp[c] = "open", tcp'[c] = "reset"
                 PROVE  /\ Registered(c)
                        /\ \/ OnWire(addr[c]) \in captured[MonitorOf(c)]
                           \/ watcher[MonitorOf(c)] = "failing"
      BY DEF ResetIsAimed
    <2>0. tcp \in [Conn -> {"none", "open", "reset", "closed"}] /\ c # None
      BY MonitorOfType DEF MonitorInv, MonitorTypeOK
    <2>1. \/ \E m \in Monitor : ResetAll(m)
          \/ \E m \in Monitor, t \in Tuple : receive(m, t)
      <3>1. ASSUME NEW d \in Conn, connect(d) \/ ConnectFails(d) \/ handshake(d) PROVE FALSE
        BY <3>1 DEF connect, ConnectFails, handshake
      <3>2. ASSUME NEW d \in Conn, Drop(d) \/ PeerCloses(d) PROVE FALSE
        BY <3>2, <2>0 DEF Drop, PeerCloses
      <3>3. ASSUME NEW d \in Conn, NEW t \in Tuple, Connected(d, t) \/ Establish(d, t) PROVE FALSE
        BY <3>3, <2>0 DEF Connected, Establish
      <3>4. ~accept_pending /\ ~CloseListener
        BY <2>0 DEF accept_pending, CloseListener
      <3>5. ASSUME NEW m \in Monitor, NEW t \in Tuple, ReceiveFails(m) \/ LowTtlSegment(m, t)
            PROVE  FALSE
        BY <3>5 DEF ReceiveFails, LowTtlSegment
      <3>6. ASSUME NEW m \in Monitor, ReceiveFails(m) PROVE FALSE
        BY <3>6 DEF ReceiveFails
      <3>7. QED
        BY <3>1, <3>2, <3>3, <3>4, <3>5, <3>6 DEF MonitorNext
    <2>2. ASSUME NEW m \in Monitor, ResetAll(m)
          PROVE  Registered(c) /\ watcher[MonitorOf(c)] = "failing"
      <3>1. c \in {sockets[m][t] : t \in Tuple} /\ watcher[m] = "failing"
        BY <2>2, ResetEffect DEF ResetAll
      <3>2. QED
        BY <3>1, <2>0 DEF MonitorInv, SocketsAreOwned
    <2>3. ASSUME NEW m \in Monitor, NEW t \in Tuple, receive(m, t)
          PROVE  Registered(c) /\ OnWire(addr[c]) \in captured[MonitorOf(c)]
      <3>1. c = sockets[m][t] /\ t \in captured[m]
        BY <2>3, ResetEffect, SMTT(30) DEF receive
      <3>2. QED
        BY <3>1, <2>0 DEF MonitorInv, SocketsAreOwned
    <2>4. QED
      BY <2>1, <2>2, <2>3
  <1>2. QED
    BY <1>1, MonitorInvariant, PTL DEF MonitorSpec

(***************************************************************************)
(* Proof about CommandDispatch, for any sessions, calls and capacity of a  *)
(* channel: the answer of a call is true.                                  *)
(***************************************************************************)

-----------------------------------------------------------------------------
(* The inductive invariant.                                                 *)

In(seq) == {seq[i] : i \in DOMAIN seq}

Distinct(seq) == \A i, j \in DOMAIN seq : seq[i] = seq[j] => i = j

Receipt == {"none", "waiting", "accepted", "rejected", "elsewhere", "dropped"}

Report == [accepted : SUBSET Session, rejected : SUBSET Session,
           undelivered : Nat, unknown : Nat]

Answers == {"Ok", "CommandRejected", "NoMatchingSession", "Config"}

DispatchTypeOK ==
  /\ alive \subseteq Session /\ born \subseteq Session
  /\ session_cmds \in Seq(Session)
  /\ queue \in [Session -> Seq(Call)]
  /\ serving \in [Session -> Call \cup {NoCall}]
  /\ executed \subseteq Call \X Session
  /\ pc \in [Call -> {"idle", "sending", "returned"}]
  /\ target \in [Call -> Session \cup {NoSession}]
  /\ senders \in [Call -> Seq(Session)]
  /\ sentTo \in [Call -> Seq(Session)]
  /\ receipts \in [Call -> [Session -> Receipt]]
  /\ report \in [Call -> Report]
  /\ result \in [Call -> Answers \cup {"none"}]
  /\ asked \in [Call -> SUBSET Session]

\* Every live session is in the list, once.
ListInv ==
  /\ Distinct(session_cmds)
  /\ alive \subseteq In(session_cmds) /\ In(session_cmds) \subseteq born

\* A receipt waits exactly as long as its command is in the session's channel,
\* once, or is being carried out; a session that has ended holds none.
HeldInv(s) ==
  /\ Distinct(queue[s])
  /\ serving[s] \notin In(queue[s])
  /\ s \notin alive => queue[s] = <<>> /\ serving[s] = NoCall
  /\ serving[s] # NoCall => target[serving[s]] \in {NoSession, s}
  /\ \A c \in Call : receipts[c][s] = "waiting" <=> c \in In(queue[s]) \cup {serving[s]}

\* What a receipt says of the command's effect.
EffectInv(c, s) ==
  /\ <<c, s>> \in executed =>
       /\ target[c] \in {NoSession, s}
       /\ \/ receipts[c][s] \in {"accepted", "dropped"}
          \/ receipts[c][s] = "waiting" /\ serving[s] = c
  /\ receipts[c][s] = "accepted" => <<c, s>> \in executed
  /\ receipts[c][s] = "elsewhere" => target[c] \notin {NoSession, s}

\* Sessions of a call by what has become of its command there.
Answered(c, how) == {s \in Session : receipts[c][s] = how /\ s \notin In(sentTo[c])}

Lost(c) == {s \in asked[c] : receipts[c][s] = "none" /\ s \notin In(senders[c])}

Fresh(c) ==
  /\ senders[c] = <<>> /\ sentTo[c] = <<>>
  /\ \A s \in Session : receipts[c][s] = "none"
  /\ report[c] = EmptyReport /\ result[c] = "none" /\ asked[c] = {}

\* Each session that was asked is still to be sent to, or was lost, or has a
\* receipt; and the report counts the receipts that were read.
UnderWay(c) ==
  /\ Distinct(senders[c]) /\ Distinct(sentTo[c])
  /\ In(senders[c]) \subseteq asked[c]
  /\ \A s \in Session :
       /\ s \in In(senders[c]) => receipts[c][s] = "none"
       /\ s \in In(sentTo[c]) => receipts[c][s] # "none"
       /\ receipts[c][s] = "waiting" => s \in In(sentTo[c])
       /\ receipts[c][s] # "none" => s \in asked[c]
  /\ result[c] = "none"
  /\ report[c].accepted = Answered(c, "accepted")
  /\ report[c].rejected = Answered(c, "rejected")
  /\ report[c].unknown = Cardinality(Answered(c, "dropped"))
  /\ report[c].undelivered = Cardinality(Lost(c))

ResultIsTrue(c) ==
  /\ result[c] = "Ok" =>
       IF target[c] = NoSession THEN asked[c] \subseteq Executed(c) /\ asked[c] # {}
       ELSE target[c] \in Executed(c)
  /\ result[c] \in {"NoMatchingSession", "Config"} => Executed(c) = {}
  /\ target[c] = NoSession /\ result[c] # "Config" =>
       /\ Cardinality(report[c].accepted) + Cardinality(report[c].rejected)
            + report[c].undelivered + report[c].unknown = Cardinality(asked[c])
       /\ Cardinality(Executed(c) \ report[c].accepted) <= report[c].unknown

\* A call that has returned leaves no receipt behind, and its answer is true.
Over(c) ==
  /\ senders[c] = <<>> /\ sentTo[c] = <<>>
  /\ \A s \in Session : receipts[c][s] # "waiting"
  /\ report[c].accepted = Answered(c, "accepted")
  /\ report[c].rejected = Answered(c, "rejected")
  /\ ResultIsTrue(c)

CallInv(c) ==
  /\ pc[c] = "idle" => Fresh(c)
  /\ pc[c] = "sending" => UnderWay(c)
  /\ pc[c] = "returned" => Over(c)

DispatchInv ==
  /\ DispatchTypeOK
  /\ ListInv
  /\ \A s \in Session : HeldInv(s)
  /\ \A c \in Call, s \in Session : EffectInv(c, s)
  /\ \A c \in Call : CallInv(c)

-----------------------------------------------------------------------------
(* Sequences.                                                               *)

\* Appending a value that is not there, and taking the head off, keep a
\* sequence without repetitions and change its values by that one.
LEMMA AppendIn ==
  ASSUME NEW S, NEW seq \in Seq(S), NEW x \in S
  PROVE  /\ Append(seq, x) \in Seq(S)
         /\ In(Append(seq, x)) = In(seq) \cup {x}
         /\ Distinct(seq) /\ x \notin In(seq) => Distinct(Append(seq, x))
  <1> DEFINE n == Len(seq)  longer == Append(seq, x)
  <1>1. /\ n \in Nat /\ DOMAIN seq = 1..n /\ longer \in Seq(S)
        /\ DOMAIN longer = 1..(n + 1) /\ longer[n + 1] = x
        /\ \A i \in 1..n : longer[i] = seq[i]
    BY SMTT(30)
  <1> HIDE DEF n, longer
  <1>2. In(longer) = In(seq) \cup {x}
    <2>1. 1..(n + 1) = 1..n \cup {n + 1}
      BY <1>1, SMTT(30)
    <2>2. In(longer) \subseteq In(seq) \cup {x}
      BY <1>1, <2>1 DEF In
    <2>3. In(seq) \cup {x} \subseteq In(longer)
      BY <1>1, <2>1 DEF In
    <2>4. QED
      BY <2>2, <2>3
  <1>3. Distinct(seq) /\ x \notin In(seq) => Distinct(longer)
    BY <1>1, SMTT(30) DEF Distinct, In
  <1>4. QED
    BY <1>1, <1>2, <1>3 DEF longer

\* Taking the head off a sequence without repetitions.
LEMMA TailIn ==
  ASSUME NEW S, NEW seq \in Seq(S), seq # <<>>
  PROVE  /\ Head(seq) \in S /\ Tail(seq) \in Seq(S)
         /\ In(seq) = {Head(seq)} \cup In(Tail(seq))
         /\ Distinct(seq) => Distinct(Tail(seq)) /\ Head(seq) \notin In(Tail(seq))
  <1> DEFINE n == Len(seq)  rest == Tail(seq)  h == Head(seq)
  <1>1. /\ n \in Nat \ {0} /\ DOMAIN seq = 1..n /\ rest \in Seq(S) /\ h \in S
        /\ DOMAIN rest = 1..(n - 1) /\ h = seq[1]
        /\ \A i \in 1..(n - 1) : rest[i] = seq[i + 1]
    BY SMTT(30)
  <1> HIDE DEF n, rest, h
  <1>2. In(seq) = {h} \cup In(rest)
    <2>1. \A i \in 1..n : i = 1 \/ \E j \in 1..(n - 1) : i = j + 1
      <3> SUFFICES ASSUME NEW i \in 1..n, i # 1
                   PROVE  \E j \in 1..(n - 1) : i = j + 1
        OBVIOUS
      <3>1. i - 1 \in 1..(n - 1) /\ i = (i - 1) + 1
        BY <1>1, SMTT(30)
      <3>2. QED
        BY <3>1
    <2>2. In(seq) \subseteq {h} \cup In(rest)
      <3> SUFFICES ASSUME NEW i \in 1..n
                   PROVE  seq[i] \in {h} \cup In(rest)
        BY <1>1 DEF In
      <3>1. CASE i = 1
        BY <1>1, <3>1
      <3>2. CASE i # 1
        <4>1. PICK j \in 1..(n - 1) : i = j + 1
          BY <2>1, <3>2
        <4>2. QED
          BY <1>1, <4>1 DEF In
      <3>3. QED
        BY <3>1, <3>2
    <2>3. {h} \cup In(rest) \subseteq In(seq)
      <3>1. 1 \in 1..n /\ \A i \in 1..(n - 1) : i + 1 \in 1..n
        BY <1>1, SMTT(30)
      <3>2. QED
        BY <1>1, <3>1 DEF In
    <2>4. QED
      BY <2>2, <2>3
  <1>3. Distinct(seq) => Distinct(rest) /\ h \notin In(rest)
    <2>1. 1 \in 1..n /\ \A i \in 1..(n - 1) : i + 1 \in 1..n /\ i + 1 # 1
      BY <1>1, SMTT(30)
    <2>2. \A i, j \in 1..(n - 1) : i + 1 = j + 1 => i = j
      BY <1>1, SMTT(30)
    <2>3. Distinct(seq) => Distinct(rest)
      <3> SUFFICES ASSUME Distinct(seq), NEW i \in 1..(n - 1), NEW j \in 1..(n - 1),
                          rest[i] = rest[j]
                   PROVE  i = j
        BY <1>1 DEF Distinct
      <3>1. seq[i + 1] = seq[j + 1]
        BY <1>1
      <3>2. QED
        BY <1>1, <2>1, <2>2, <3>1 DEF Distinct
    <2>4. Distinct(seq) => h \notin In(rest)
      <3> SUFFICES ASSUME Distinct(seq), NEW i \in 1..(n - 1), rest[i] = h
                   PROVE  FALSE
        BY <1>1 DEF In
      <3>1. seq[i + 1] = seq[1]
        BY <1>1
      <3>2. QED
        BY <1>1, <2>1, <3>1 DEF Distinct
    <2>5. QED
      BY <2>3, <2>4
  <1>4. QED
    BY <1>1, <1>2, <1>3 DEF rest, h

\* The empty sequence.
LEMMA EmptyIn ==
  /\ \A S : <<>> \in Seq(S)
  /\ In(<<>>) = {} /\ Distinct(<<>>)
  BY SMTT(30) DEF In, Distinct

\* retain keeps the senders of live sessions, each as often as it was there.
LEMMA RetainedIn ==
  ASSUME session_cmds \in Seq(Session), ListInv
  PROVE  /\ Retained \in Seq(Session)
         /\ In(Retained) = alive
         /\ Distinct(Retained)
  <1> DEFINE kept == {i \in DOMAIN session_cmds : session_cmds[i] \in alive}
             Before(i) == {j \in kept : j <= i}
             rank == [i \in kept |-> Cardinality(Before(i))]
             n == Cardinality(kept)
             Nth(k) == CHOOSE i \in kept : Cardinality(Before(i)) = k
  <1>1. /\ kept \in SUBSET (1..Len(session_cmds)) /\ kept \in SUBSET Nat
        /\ IsFiniteSet(1..Len(session_cmds))
    BY FS_Interval, SMTT(30)
  <1>2. IsFiniteSet(kept) /\ n \in Nat
    BY <1>1, FS_Subset, FS_CardinalityType
  <1>3. \A i \in kept : IsFiniteSet(Before(i)) /\ Cardinality(Before(i)) \in 1..n
    <2> SUFFICES ASSUME NEW i \in kept
                 PROVE  IsFiniteSet(Before(i)) /\ Cardinality(Before(i)) \in 1..n
      OBVIOUS
    <2>1. Before(i) \in SUBSET kept
      OBVIOUS
    <2>2. IsFiniteSet(Before(i)) /\ Cardinality(Before(i)) <= n
      BY <1>2, <2>1, FS_Subset
    <2>3. Cardinality(Before(i)) \in Nat
      BY <2>2, FS_CardinalityType
    <2>4. i \in Before(i)
      BY <1>1, SMTT(30)
    <2>5. Cardinality(Before(i)) # 0
      BY <2>2, <2>4, FS_EmptySet
    <2> HIDE DEF Before, n
    <2>6. QED
      BY <1>2, <2>2, <2>3, <2>5, SMTT(30)
  <1>4. \A i, j \in kept : Cardinality(Before(i)) = Cardinality(Before(j)) => i = j
    <2>1. \A i, j \in kept : i < j => Cardinality(Before(i)) # Cardinality(Before(j))
      <3> SUFFICES ASSUME NEW i \in kept, NEW j \in kept, i < j
                   PROVE  Cardinality(Before(i)) # Cardinality(Before(j))
        OBVIOUS
      <3>1. /\ Before(i) \in SUBSET Before(j) /\ j \in Before(j) /\ j \notin Before(i)
        BY <1>1, SMTT(30)
      <3>2. Before(j) # Before(i)
        BY <3>1
      <3>3. IsFiniteSet(Before(j))
        BY <1>3
      <3> HIDE DEF Before
      <3>4. QED
        BY <3>1, <3>2, <3>3, FS_Subset
    <2> HIDE DEF Before, kept
    <2>2. \A i, j \in kept : i = j \/ i < j \/ j < i
      BY <1>1, SMTT(30)
    <2>3. QED
      BY <2>1, <2>2
  <1>5. \A k \in 1..n : Nth(k) \in kept /\ Cardinality(Before(Nth(k))) = k
    <2>1. rank \in Injection(kept, 1..n)
      <3>1. rank \in [kept -> 1..n]
        BY <1>3
      <3>2. \A i, j \in kept : rank[i] = rank[j] => i = j
        BY <1>4
      <3>3. QED
        BY <3>1, <3>2 DEF Injection, IsInjective
    <2>2. IsFiniteSet(1..n) /\ Cardinality(1..n) = n
      BY <1>2, FS_Interval, SMTT(30)
    <2>3. rank \in Surjection(kept, 1..n)
      BY <2>1, <2>2, FS_Injection
    <2>4. \A k \in 1..n : \E i \in kept : Cardinality(Before(i)) = k
      BY <2>3 DEF Surjection
    <2>5. QED
      BY <2>4
  <1>6. Retained = [k \in 1..n |-> session_cmds[Nth(k)]]
    BY DEF Retained
  <1>a. \A i \in DOMAIN session_cmds :
          /\ session_cmds[i] \in Session
          /\ i \in kept <=> session_cmds[i] \in alive
    BY SMTT(30)
  <1>b. kept \subseteq DOMAIN session_cmds
    OBVIOUS
  <1> HIDE DEF Nth, n, kept, Before
  <1>7. DOMAIN Retained = 1..n /\ \A k \in 1..n : Retained[k] = session_cmds[Nth(k)]
    BY <1>6
  <1>8. Retained \in Seq(Session)
    <2>1. \A k \in 1..n : session_cmds[Nth(k)] \in Session
      BY <1>5, <1>a, <1>b
    <2>2. QED
      BY <1>2, <1>6, <2>1, SMTT(30)
  <1>9. In(Retained) \subseteq alive
    BY <1>5, <1>7, <1>a, <1>b DEF In
  <1>10. alive \subseteq In(Retained)
    <2> SUFFICES ASSUME NEW s \in alive
                 PROVE  s \in In(Retained)
      OBVIOUS
    <2>1. PICK i \in DOMAIN session_cmds : session_cmds[i] = s
      BY DEF ListInv, In
    <2>2. i \in kept
      BY <2>1, <1>a
    <2>3. /\ Cardinality(Before(i)) \in 1..n
          /\ Nth(Cardinality(Before(i))) = i
      BY <1>3, <1>4, <1>5, <2>2
    <2>4. QED
      BY <1>7, <2>1, <2>3 DEF In
  <1>11. Distinct(Retained)
    <2> SUFFICES ASSUME NEW k \in 1..n, NEW l \in 1..n, Retained[k] = Retained[l]
                 PROVE  k = l
      BY <1>7 DEF Distinct
    <2>1. Nth(k) = Nth(l)
      BY <1>5, <1>7, <1>b DEF ListInv, Distinct
    <2>2. QED
      BY <1>5, <2>1
  <1>12. QED
    BY <1>8, <1>9, <1>10, <1>11

-----------------------------------------------------------------------------
(* What a step leaves to a call.                                            *)

\* The call itself takes no step.
SameCall(c) ==
  /\ pc'[c] = pc[c] /\ target'[c] = target[c]
  /\ senders'[c] = senders[c] /\ sentTo'[c] = sentTo[c]
  /\ report'[c] = report[c] /\ result'[c] = result[c] /\ asked'[c] = asked[c]

\* At most receipts that wait are answered.
OnlyAnswers(c) ==
  \A s \in Session :
    \/ receipts'[c][s] = receipts[c][s]
    \/ /\ receipts[c][s] = "waiting"
       /\ receipts'[c][s] \in {"accepted", "rejected", "elsewhere", "dropped"}

\* A call is not disturbed by answers to its open receipts.
LEMMA AnswersKeepCall ==
  ASSUME NEW c \in Call, CallInv(c), SameCall(c), OnlyAnswers(c),
         pc[c] \in {"idle", "sending", "returned"}, asked[c] \subseteq Session,
         pc[c] = "returned" => Executed(c)' = Executed(c)
  PROVE  CallInv(c)'
  <1>1. CASE pc[c] = "idle"
    <2>1. Fresh(c)'
      BY <1>1 DEF CallInv, Fresh, SameCall, OnlyAnswers
    <2>2. QED
      BY <1>1, <2>1 DEF CallInv, SameCall
  <1>2. CASE pc[c] = "sending"
    <2>1. /\ In(senders'[c]) = In(senders[c]) /\ In(sentTo'[c]) = In(sentTo[c])
          /\ Distinct(senders'[c]) /\ Distinct(sentTo'[c])
          /\ In(senders'[c]) \subseteq asked'[c]
          /\ result'[c] = "none"
      BY <1>2 DEF CallInv, UnderWay, SameCall
    <2>2. \A s \in Session :
            /\ s \in In(senders'[c]) => receipts'[c][s] = "none"
            /\ s \in In(sentTo'[c]) => receipts'[c][s] # "none"
            /\ receipts'[c][s] = "waiting" => s \in In(sentTo'[c])
            /\ receipts'[c][s] # "none" => s \in asked'[c]
      BY <1>2, <2>1 DEF CallInv, UnderWay, SameCall, OnlyAnswers
    <2>3. \A how \in {"accepted", "rejected", "dropped"} : Answered(c, how)' = Answered(c, how)
      BY <1>2, <2>1 DEF CallInv, UnderWay, OnlyAnswers, Answered
    <2>4. Lost(c)' = Lost(c)
      BY <2>1 DEF SameCall, OnlyAnswers, Lost
    <2>5. UnderWay(c)'
      BY <1>2, <2>1, <2>2, <2>3, <2>4 DEF CallInv, UnderWay, SameCall
    <2>6. QED
      BY <1>2, <2>5 DEF CallInv, SameCall
  <1>3. CASE pc[c] = "returned"
    <2>1. \A s \in Session : receipts'[c][s] = receipts[c][s]
      BY <1>3 DEF CallInv, Over, OnlyAnswers
    <2>2. \A how : Answered(c, how)' = Answered(c, how)
      BY <2>1 DEF Answered, SameCall
    <2>3. ResultIsTrue(c)'
      BY <1>3 DEF CallInv, Over, ResultIsTrue, SameCall
    <2>4. Over(c)'
      BY <1>3, <2>1, <2>2, <2>3 DEF CallInv, Over, SameCall
    <2>5. QED
      BY <1>3, <2>4 DEF CallInv, SameCall
  <1>4. QED
    BY <1>1, <1>2, <1>3

\* An open receipt is that of a call under way, and of a session it was sent to.
LEMMA WaitingIsSent ==
  ASSUME DispatchInv, NEW c \in Call, NEW s \in Session, receipts[c][s] = "waiting"
  PROVE  /\ pc[c] = "sending"
         /\ s \in In(sentTo[c])
         /\ <<c, s>> \in executed => serving[s] = c
  <1>1. pc[c] \in {"idle", "sending", "returned"} /\ CallInv(c) /\ EffectInv(c, s)
    BY DEF DispatchInv, DispatchTypeOK
  <1>2. pc[c] = "sending"
    BY <1>1 DEF CallInv, Fresh, Over
  <1>3. QED
    BY <1>1, <1>2 DEF CallInv, UnderWay, EffectInv

\* A session that keeps its commands and their receipts.
LEMMA HeldKept ==
  ASSUME NEW q \in Session, HeldInv(q), queue'[q] = queue[q], serving'[q] = serving[q],
         q \in alive <=> q \in alive',
         serving[q] # NoCall => target'[serving[q]] = target[serving[q]],
         \A d \in Call : receipts'[d][q] = receipts[d][q]
  PROVE  HeldInv(q)'
  BY DEF HeldInv

\* A receipt that is not written.
LEMMA EffectKept ==
  ASSUME NEW d \in Call, NEW q \in Session, EffectInv(d, q), target'[d] = target[d],
         receipts'[d][q] = receipts[d][q],
         <<d, q>> \in executed' <=> <<d, q>> \in executed,
         serving[q] = d => serving'[q] = d
  PROVE  EffectInv(d, q)'
  BY DEF EffectInv

\* An answer writes one receipt.
LEMMA AnswerWrites ==
  ASSUME receipts \in [Call -> [Session -> Receipt]],
         NEW c \in Call, NEW s \in Session, NEW how \in Receipt, Answer(c, s, how)
  PROVE  /\ receipts' \in [Call -> [Session -> Receipt]]
         /\ receipts'[c][s] = how
         /\ \A d \in Call, q \in Session : d # c \/ q # s => receipts'[d][q] = receipts[d][q]
  <1> DEFINE row == [receipts[c] EXCEPT ![s] = how]
  <1>1. receipts[c] \in [Session -> Receipt]
    OBVIOUS
  <1>2. /\ row \in [Session -> Receipt] /\ row[s] = how
        /\ \A q \in Session \ {s} : row[q] = receipts[c][q]
    BY <1>1
  <1>3. receipts' = [receipts EXCEPT ![c] = row]
    BY DEF Answer
  <1> HIDE DEF row
  <1>4. /\ receipts' \in [Call -> [Session -> Receipt]] /\ receipts'[c] = row
        /\ \A d \in Call \ {c} : receipts'[d] = receipts[d]
    BY <1>2, <1>3
  <1>5. QED
    BY <1>2, <1>4

-----------------------------------------------------------------------------
(* Steps of the sessions.                                                   *)

\* A session starts: its sender joins the list and closed ones leave it.
LEMMA StartSessionKeeps ==
  ASSUME DispatchInv, NEW s \in Session, StartSession(s)
  PROVE  DispatchInv'
  <1>1. /\ Retained \in Seq(Session) /\ In(Retained) = alive /\ Distinct(Retained)
    BY RetainedIn DEF DispatchInv, DispatchTypeOK
  <1>2. /\ session_cmds' = Append(Retained, s) /\ alive' = alive \cup {s}
        /\ born' = born \cup {s} /\ s \notin born
        /\ queue' = queue /\ serving' = serving /\ executed' = executed
        /\ receipts' = receipts /\ pc' = pc /\ target' = target /\ senders' = senders
        /\ sentTo' = sentTo /\ report' = report /\ result' = result /\ asked' = asked
    BY DEF StartSession, calls
  <1>3. s \notin alive
    BY <1>2 DEF DispatchInv, ListInv
  <1>4. /\ session_cmds' \in Seq(Session) /\ In(session_cmds') = alive' /\ Distinct(session_cmds')
    BY <1>1, <1>2, <1>3, AppendIn
  <1>5. DispatchTypeOK'
    BY <1>2, <1>4 DEF DispatchInv, DispatchTypeOK
  <1>6. ListInv'
    BY <1>2, <1>4 DEF DispatchInv, ListInv
  <1>7. ASSUME NEW q \in Session
        PROVE  HeldInv(q)'
    BY <1>2, <1>3 DEF DispatchInv, HeldInv
  <1>8. ASSUME NEW c \in Call, NEW q \in Session
        PROVE  EffectInv(c, q)'
    BY <1>2, SMTT(30) DEF DispatchInv, EffectInv
  <1>9. ASSUME NEW c \in Call
        PROVE  CallInv(c)'
    <2>1. SameCall(c) /\ OnlyAnswers(c) /\ Executed(c)' = Executed(c)
      BY <1>2 DEF SameCall, OnlyAnswers, Executed
    <2>2. CallInv(c) /\ pc[c] \in {"idle", "sending", "returned"} /\ asked[c] \subseteq Session
      BY DEF DispatchInv, DispatchTypeOK
    <2>3. QED
      BY <2>1, <2>2, AnswersKeepCall
  <1>10. QED
    BY <1>5, <1>6, <1>7, <1>8, <1>9 DEF DispatchInv

\* What remains of a session's channel when its first command is taken.
LEMMA TakeKeeps ==
  ASSUME DispatchInv, NEW s \in Session, TakeCommand(s)
  PROVE  DispatchInv'
  <1> DEFINE c == Head(queue[s])
  <1>1. /\ s \in alive /\ serving[s] = NoCall /\ queue[s] # <<>> /\ queue[s] \in Seq(Call)
        /\ NoCall \notin Call
    BY CommandDispatchConstants DEF TakeCommand, DispatchInv, DispatchTypeOK
  <1>2. /\ c \in Call /\ Tail(queue[s]) \in Seq(Call)
        /\ In(queue[s]) = {c} \cup In(Tail(queue[s]))
        /\ Distinct(Tail(queue[s])) /\ c \notin In(Tail(queue[s]))
    BY <1>1, TailIn DEF DispatchInv, HeldInv
  <1> HIDE DEF c
  <1>3. receipts[c][s] = "waiting"
    BY <1>2 DEF DispatchInv, HeldInv
  <1>4. pc[c] = "sending" /\ s \in In(sentTo[c]) /\ <<c, s>> \notin executed
    BY <1>1, <1>2, <1>3, WaitingIsSent
  <1>5. /\ alive' = alive /\ born' = born /\ executed' = executed /\ session_cmds' = session_cmds
        /\ queue' = [queue EXCEPT ![s] = Tail(@)]
        /\ pc' = pc /\ target' = target /\ senders' = senders
        /\ sentTo' = sentTo /\ report' = report /\ result' = result /\ asked' = asked
        /\ \/ /\ target[c] \in {NoSession, s} /\ serving' = [serving EXCEPT ![s] = c]
              /\ receipts' = receipts
           \/ /\ target[c] \notin {NoSession, s} /\ serving' = serving
              /\ Answer(c, s, "elsewhere")
    BY DEF TakeCommand, calls, c
  <1>6. /\ queue' \in [Session -> Seq(Call)] /\ queue'[s] = Tail(queue[s])
        /\ \A q \in Session \ {s} : queue'[q] = queue[q]
    BY <1>2, <1>5 DEF DispatchInv, DispatchTypeOK
  <1>7. /\ serving' \in [Session -> Call \cup {NoCall}]
        /\ \A q \in Session \ {s} : serving'[q] = serving[q]
        /\ serving'[s] = IF target[c] \in {NoSession, s} THEN c ELSE NoCall
    BY <1>1, <1>2, <1>5 DEF DispatchInv, DispatchTypeOK
  <1>8. /\ receipts' \in [Call -> [Session -> Receipt]]
        /\ \A d \in Call, q \in Session : d # c \/ q # s => receipts'[d][q] = receipts[d][q]
        /\ receipts'[c][s] = IF target[c] \in {NoSession, s} THEN "waiting" ELSE "elsewhere"
    <2>1. receipts \in [Call -> [Session -> Receipt]] /\ "elsewhere" \in Receipt
      BY DEF DispatchInv, DispatchTypeOK, Receipt
    <2>2. CASE target[c] \in {NoSession, s}
      BY <1>3, <1>5, <2>1, <2>2
    <2>3. CASE target[c] \notin {NoSession, s}
      BY <1>2, <1>5, <2>1, <2>3, AnswerWrites
    <2>4. QED
      BY <2>2, <2>3
  <1>9. DispatchTypeOK'
    BY <1>5, <1>6, <1>7, <1>8 DEF DispatchInv, DispatchTypeOK
  <1>10. ListInv'
    BY <1>5 DEF DispatchInv, ListInv
  <1>11. ASSUME NEW q \in Session
         PROVE  HeldInv(q)'
    <2>0. HeldInv(q) /\ HeldInv(s)
      BY DEF DispatchInv
    <2>1. CASE q = s
      <3>1. \A d \in Call : receipts[d][s] = "waiting" <=> d \in In(queue[s])
        BY <1>1, <2>0 DEF HeldInv
      <3>2. \A d \in Call \ {c} : receipts'[d][s] = "waiting" <=> d \in In(queue'[s])
        BY <1>2, <1>6, <1>8, <3>1
      <3>3. /\ receipts'[c][s] = "waiting" <=> serving'[s] = c
            /\ c \notin In(queue'[s]) /\ serving'[s] \in {c, NoCall}
        BY <1>1, <1>2, <1>6, <1>7, <1>8
      <3>4. In(queue'[s]) \subseteq Call
        BY <1>6, SMTT(30) DEF In
      <3>5. \A d \in Call : receipts'[d][s] = "waiting"
                              <=> d \in In(queue'[s]) \cup {serving'[s]}
        BY <1>1, <3>2, <3>3
      <3>6. serving'[s] \notin In(queue'[s]) /\ Distinct(queue'[s])
        BY <1>1, <1>2, <1>6, <3>3, <3>4
      <3>7. serving'[s] # NoCall => target'[serving'[s]] \in {NoSession, s}
        BY <1>1, <1>2, <1>5, <1>7
      <3>8. QED
        BY <1>1, <1>5, <2>1, <3>5, <3>6, <3>7 DEF HeldInv
    <2>2. CASE q # s
      <3>1. \A d \in Call : receipts'[d][q] = receipts[d][q]
        BY <1>8, <2>2
      <3>2. queue'[q] = queue[q] /\ serving'[q] = serving[q]
        BY <1>6, <1>7, <2>2
      <3>3. QED
        BY <1>5, <2>0, <3>1, <3>2, HeldKept
    <2>3. QED
      BY <2>1, <2>2
  <1>12. ASSUME NEW d \in Call, NEW q \in Session
         PROVE  EffectInv(d, q)'
    <2>0. EffectInv(d, q)
      BY DEF DispatchInv
    <2>1. CASE d = c /\ q = s
      BY <1>3, <1>4, <1>5, <1>8, <2>0, <2>1 DEF EffectInv
    <2>2. CASE ~(d = c /\ q = s)
      <3>1. serving[q] = d => serving'[q] = d
        BY <1>1, <1>7
      <3>2. QED
        BY <1>5, <1>8, <2>0, <2>2, <3>1, EffectKept
    <2>3. QED
      BY <2>1, <2>2
  <1>13. ASSUME NEW d \in Call
         PROVE  CallInv(d)'
    <2>1. SameCall(d) /\ Executed(d)' = Executed(d)
      BY <1>5 DEF SameCall, Executed
    <2>2. OnlyAnswers(d)
      BY <1>3, <1>8 DEF OnlyAnswers
    <2>3. CallInv(d) /\ pc[d] \in {"idle", "sending", "returned"} /\ asked[d] \subseteq Session
      BY DEF DispatchInv, DispatchTypeOK
    <2>4. QED
      BY <2>1, <2>2, <2>3, AnswersKeepCall
  <1>14. QED
    BY <1>9, <1>10, <1>11, <1>12, <1>13 DEF DispatchInv

\* The command a session is carrying out has an effect: its receipt still waits.
LEMMA CarryOutKeeps ==
  ASSUME DispatchInv, NEW s \in Session, CarryOut(s)
  PROVE  DispatchInv'
  <1> DEFINE c == serving[s]
  <1>1. /\ c \in Call
        /\ executed' = executed \cup {<<c, s>>}
        /\ alive' = alive /\ born' = born /\ session_cmds' = session_cmds
        /\ queue' = queue /\ serving' = serving /\ receipts' = receipts
        /\ pc' = pc /\ target' = target /\ senders' = senders
        /\ sentTo' = sentTo /\ report' = report /\ result' = result /\ asked' = asked
    BY DEF CarryOut, calls, DispatchInv, DispatchTypeOK
  <1>2. receipts[c][s] = "waiting" /\ target[c] \in {NoSession, s}
    <2>1. HeldInv(s) /\ c # NoCall
      BY <1>1, CommandDispatchConstants DEF DispatchInv
    <2>2. QED
      BY <1>1, <2>1 DEF HeldInv
  <1>3. pc[c] = "sending"
    BY <1>1, <1>2, WaitingIsSent
  <1> HIDE DEF c
  <1>4. DispatchTypeOK'
    BY <1>1, SMTT(30) DEF DispatchInv, DispatchTypeOK
  <1>5. ListInv'
    BY <1>1 DEF DispatchInv, ListInv
  <1>6. ASSUME NEW q \in Session
        PROVE  HeldInv(q)'
    BY <1>1 DEF DispatchInv, HeldInv
  <1>7. ASSUME NEW d \in Call, NEW q \in Session
        PROVE  EffectInv(d, q)'
    <2>1. EffectInv(d, q)
      BY DEF DispatchInv
    <2>2. CASE d = c /\ q = s
      BY <1>1, <1>2, <2>1, <2>2 DEF EffectInv, c
    <2>3. CASE ~(d = c /\ q = s)
      <3>1. <<d, q>> \in executed' <=> <<d, q>> \in executed
        BY <1>1, <2>3
      <3>2. QED
        BY <1>1, <2>1, <3>1, EffectKept
    <2>4. QED
      BY <2>2, <2>3
  <1>8. ASSUME NEW d \in Call
        PROVE  CallInv(d)'
    <2>1. SameCall(d) /\ OnlyAnswers(d)
      BY <1>1 DEF SameCall, OnlyAnswers
    <2>2. pc[d] = "returned" => Executed(d)' = Executed(d)
      BY <1>1, <1>3 DEF Executed
    <2>3. CallInv(d) /\ pc[d] \in {"idle", "sending", "returned"} /\ asked[d] \subseteq Session
      BY DEF DispatchInv, DispatchTypeOK
    <2>4. QED
      BY <2>1, <2>2, <2>3, AnswersKeepCall
  <1>9. QED
    BY <1>4, <1>5, <1>6, <1>7, <1>8 DEF DispatchInv

\* The receipt of that command is answered as its effect was.
LEMMA AnswerCommandKeeps ==
  ASSUME DispatchInv, NEW s \in Session, AnswerCommand(s)
  PROVE  DispatchInv'
  <1> DEFINE c == serving[s]
             how == IF <<c, s>> \in executed THEN "accepted" ELSE "rejected"
  <1>1. /\ c \in Call /\ Answer(c, s, how)
        /\ serving' = [serving EXCEPT ![s] = NoCall]
        /\ alive' = alive /\ born' = born /\ session_cmds' = session_cmds
        /\ queue' = queue /\ executed' = executed
        /\ pc' = pc /\ target' = target /\ senders' = senders
        /\ sentTo' = sentTo /\ report' = report /\ result' = result /\ asked' = asked
    BY DEF AnswerCommand, calls, DispatchInv, DispatchTypeOK
  <1>2. /\ receipts[c][s] = "waiting" /\ HeldInv(s)
        /\ NoCall \notin Call
    BY <1>1, CommandDispatchConstants DEF DispatchInv, HeldInv
  <1>3. /\ serving' \in [Session -> Call \cup {NoCall}] /\ serving'[s] = NoCall
        /\ \A q \in Session \ {s} : serving'[q] = serving[q]
    BY <1>1 DEF DispatchInv, DispatchTypeOK
  <1>4. /\ receipts' \in [Call -> [Session -> Receipt]] /\ receipts'[c][s] = how
        /\ \A d \in Call, q \in Session : d # c \/ q # s => receipts'[d][q] = receipts[d][q]
    <2>1. receipts \in [Call -> [Session -> Receipt]] /\ how \in Receipt
      BY DEF DispatchInv, DispatchTypeOK, Receipt
    <2> HIDE DEF how, c
    <2>2. QED
      BY <1>1, <2>1, AnswerWrites
  <1> HIDE DEF c
  <1>5. DispatchTypeOK'
    BY <1>1, <1>3, <1>4 DEF DispatchInv, DispatchTypeOK
  <1>6. ListInv'
    BY <1>1 DEF DispatchInv, ListInv
  <1>7. ASSUME NEW q \in Session
        PROVE  HeldInv(q)'
    <2>0. HeldInv(q)
      BY DEF DispatchInv
    <2>1. CASE q = s
      <3>1. \A d \in Call \ {c} : receipts[d][s] = "waiting" <=> d \in In(queue[s])
        BY <1>2 DEF HeldInv, c
      <3>2. c \notin In(queue[s]) /\ receipts'[c][s] # "waiting" /\ In(queue[s]) \subseteq Call
        BY <1>2, <1>4, SMTT(30)
        DEF HeldInv, c, DispatchInv, DispatchTypeOK, In
      <3>3. \A d \in Call : receipts'[d][s] = "waiting"
                              <=> d \in In(queue'[s]) \cup {serving'[s]}
        <4>1. \A d \in Call \ {c} : receipts'[d][s] = receipts[d][s]
          BY <1>4
        <4>2. \A d \in Call : d \in In(queue'[s]) \cup {serving'[s]} <=> d \in In(queue[s])
          BY <1>1, <1>2, <1>3
        <4>3. QED
          BY <3>1, <3>2, <4>1, <4>2
      <3>4. serving'[s] \notin In(queue'[s]) /\ Distinct(queue'[s])
        BY <1>1, <1>2, <1>3, <3>2 DEF HeldInv
      <3>5. s \notin alive' => queue'[s] = <<>> /\ serving'[s] = NoCall
        BY <1>1, <1>2, <1>3 DEF HeldInv
      <3>6. QED
        BY <1>3, <2>1, <3>3, <3>4, <3>5 DEF HeldInv
    <2>2. CASE q # s
      <3>1. \A d \in Call : receipts'[d][q] = receipts[d][q]
        BY <1>4, <2>2
      <3>2. queue'[q] = queue[q] /\ serving'[q] = serving[q]
        BY <1>1, <1>3, <2>2
      <3>3. QED
        BY <1>1, <2>0, <3>1, <3>2, HeldKept
    <2>3. QED
      BY <2>1, <2>2
  <1>8. ASSUME NEW d \in Call, NEW q \in Session
        PROVE  EffectInv(d, q)'
    <2>1. EffectInv(d, q)
      BY DEF DispatchInv
    <2>2. CASE d = c /\ q = s
      BY <1>1, <1>2, <1>4, <2>1, <2>2 DEF EffectInv
    <2>3. CASE ~(d = c /\ q = s)
      <3>1. serving[q] = d => serving'[q] = d
        BY <1>3, <2>3 DEF c
      <3>2. QED
        BY <1>1, <1>4, <2>1, <2>3, <3>1, EffectKept
    <2>4. QED
      BY <2>2, <2>3
  <1>9. ASSUME NEW d \in Call
        PROVE  CallInv(d)'
    <2>1. SameCall(d) /\ Executed(d)' = Executed(d)
      BY <1>1 DEF SameCall, Executed
    <2>2. OnlyAnswers(d)
      BY <1>2, <1>4 DEF OnlyAnswers
    <2>3. CallInv(d) /\ pc[d] \in {"idle", "sending", "returned"} /\ asked[d] \subseteq Session
      BY DEF DispatchInv, DispatchTypeOK
    <2>4. QED
      BY <2>1, <2>2, <2>3, AnswersKeepCall
  <1>10. QED
    BY <1>5, <1>6, <1>7, <1>8, <1>9 DEF DispatchInv

\* A session ends: the receipts it held, and only those, are dropped.
LEMMA EndSessionKeeps ==
  ASSUME DispatchInv, NEW s \in Session, EndSession(s)
  PROVE  DispatchInv'
  <1> DEFINE held == In(queue[s]) \cup {serving[s]}
  <1>1. /\ alive' = alive \ {s}
        /\ receipts' = [c \in Call |-> IF c \in held THEN [receipts[c] EXCEPT ![s] = "dropped"]
                                       ELSE receipts[c]]
        /\ queue' = [queue EXCEPT ![s] = <<>>]
        /\ serving' = [serving EXCEPT ![s] = NoCall]
        /\ born' = born /\ session_cmds' = session_cmds /\ executed' = executed
        /\ pc' = pc /\ target' = target /\ senders' = senders
        /\ sentTo' = sentTo /\ report' = report /\ result' = result /\ asked' = asked
    BY DEF EndSession, calls, In
  <1>2. /\ \A c \in Call : receipts[c][s] = "waiting" <=> c \in held
        /\ NoCall \notin Call
    BY CommandDispatchConstants DEF DispatchInv, HeldInv
  <1> HIDE DEF held
  <1>3. /\ serving' \in [Session -> Call \cup {NoCall}] /\ serving'[s] = NoCall
        /\ \A q \in Session \ {s} : serving'[q] = serving[q]
    BY <1>1 DEF DispatchInv, DispatchTypeOK
  <1>4. /\ queue' \in [Session -> Seq(Call)] /\ queue'[s] = <<>>
        /\ \A q \in Session \ {s} : queue'[q] = queue[q]
    <2>1. <<>> \in Seq(Call)
      BY EmptyIn
    <2>2. QED
      BY <1>1, <2>1 DEF DispatchInv, DispatchTypeOK
  <1>5. /\ receipts' \in [Call -> [Session -> Receipt]]
        /\ \A d \in Call : d \in held => receipts'[d][s] = "dropped"
        /\ \A d \in Call, q \in Session : d \notin held \/ q # s => receipts'[d][q] = receipts[d][q]
    <2>1. receipts \in [Call -> [Session -> Receipt]] /\ "dropped" \in Receipt
      BY DEF DispatchInv, DispatchTypeOK, Receipt
    <2>2. ASSUME NEW d \in Call
          PROVE  /\ receipts'[d] \in [Session -> Receipt]
                 /\ d \in held => receipts'[d][s] = "dropped"
                 /\ \A q \in Session : d \notin held \/ q # s => receipts'[d][q] = receipts[d][q]
      <3>1. receipts'[d] = IF d \in held THEN [receipts[d] EXCEPT ![s] = "dropped"] ELSE receipts[d]
        BY <1>1
      <3>2. receipts[d] \in [Session -> Receipt]
        BY <2>1
      <3>3. QED
        BY <2>1, <3>1, <3>2
    <2>3. receipts' \in [Call -> [Session -> Receipt]]
      BY <1>1, <2>2
    <2>4. QED
      BY <2>2, <2>3
  <1>6. DispatchTypeOK'
    BY <1>1, <1>3, <1>4, <1>5 DEF DispatchInv, DispatchTypeOK
  <1>7. ListInv'
    BY <1>1 DEF DispatchInv, ListInv
  <1>8. ASSUME NEW q \in Session
        PROVE  HeldInv(q)'
    <2>0. HeldInv(q)
      BY DEF DispatchInv
    <2>1. CASE q = s
      <3>1. \A d \in Call : receipts'[d][s] # "waiting"
        BY <1>2, <1>5
      <3>2. In(queue'[s]) = {} /\ Distinct(queue'[s])
        BY <1>4, EmptyIn
      <3>3. QED
        BY <1>2, <1>3, <1>4, <2>1, <3>1, <3>2 DEF HeldInv
    <2>2. CASE q # s
      <3>1. \A d \in Call : receipts'[d][q] = receipts[d][q]
        BY <1>5, <2>2
      <3>2. queue'[q] = queue[q] /\ serving'[q] = serving[q] /\ (q \in alive <=> q \in alive')
        BY <1>1, <1>3, <1>4, <2>2
      <3>3. QED
        BY <1>1, <2>0, <3>1, <3>2, HeldKept
    <2>3. QED
      BY <2>1, <2>2
  <1>9. ASSUME NEW d \in Call, NEW q \in Session
        PROVE  EffectInv(d, q)'
    <2>1. EffectInv(d, q)
      BY DEF DispatchInv
    <2>2. CASE d \in held /\ q = s
      BY <1>1, <1>2, <1>5, <2>1, <2>2 DEF EffectInv
    <2>3. CASE ~(d \in held /\ q = s)
      <3>1. serving[q] = d => serving'[q] = d
        BY <1>3, <2>3 DEF held
      <3>2. QED
        BY <1>1, <1>5, <2>1, <2>3, <3>1, EffectKept
    <2>4. QED
      BY <2>2, <2>3
  <1>10. ASSUME NEW d \in Call
         PROVE  CallInv(d)'
    <2>1. SameCall(d) /\ Executed(d)' = Executed(d)
      BY <1>1 DEF SameCall, Executed
    <2>2. OnlyAnswers(d)
      BY <1>2, <1>5 DEF OnlyAnswers
    <2>3. CallInv(d) /\ pc[d] \in {"idle", "sending", "returned"} /\ asked[d] \subseteq Session
      BY DEF DispatchInv, DispatchTypeOK
    <2>4. QED
      BY <2>1, <2>2, <2>3, AnswersKeepCall
  <1>11. QED
    BY <1>6, <1>7, <1>8, <1>9, <1>10 DEF DispatchInv

-----------------------------------------------------------------------------
(* Steps of a call.                                                         *)

\* A step of one call that touches no session leaves the others alone.  Only a
\* call not yet made, which has no effect anywhere, is given its target.
LEMMA CallAlone ==
  ASSUME DispatchInv, NEW c \in Call, UNCHANGED <<sessions, receipts>>,
         \A d \in Call \ {c} : SameCall(d),
         pc[c] = "idle" \/ target'[c] = target[c],
         DispatchTypeOK', ListInv', CallInv(c)'
  PROVE  DispatchInv'
  <1>1. /\ alive' = alive /\ queue' = queue /\ serving' = serving /\ executed' = executed
        /\ receipts' = receipts
    BY DEF sessions
  <1>2. ASSUME NEW d \in Call, NEW q \in Session, receipts[d][q] # "none"
        PROVE  target'[d] = target[d]
    <2>1. CASE d = c
      <3>1. pc[c] # "idle"
        BY <1>2, <2>1 DEF DispatchInv, CallInv, Fresh
      <3>2. QED
        BY <2>1, <3>1
    <2>2. CASE d # c
      BY <2>2 DEF SameCall
    <2>3. QED
      BY <2>1, <2>2
  <1>3. ASSUME NEW q \in Session
        PROVE  HeldInv(q)'
    <2>1. HeldInv(q) /\ serving[q] \in Call \cup {NoCall}
      BY DEF DispatchInv, DispatchTypeOK
    <2>2. ASSUME serving[q] # NoCall
          PROVE  target'[serving[q]] = target[serving[q]]
      <3>1. serving[q] \in Call /\ receipts[serving[q]][q] = "waiting"
        BY <2>1, <2>2 DEF HeldInv
      <3>2. receipts[serving[q]][q] # "none"
        BY <3>1
      <3>3. QED
        BY <1>2, <3>1, <3>2
    <2>3. QED
      BY <1>1, <2>1, <2>2, HeldKept
  <1>4. ASSUME NEW d \in Call, NEW q \in Session
        PROVE  EffectInv(d, q)'
    <2>1. EffectInv(d, q)
      BY DEF DispatchInv
    <2>2. CASE receipts[d][q] = "none"
      BY <1>1, <2>1, <2>2 DEF EffectInv
    <2>3. CASE receipts[d][q] # "none"
      <3>1. target'[d] = target[d]
        BY <1>2, <2>3
      <3>2. QED
        BY <1>1, <2>1, <3>1, EffectKept
    <2>4. QED
      BY <2>2, <2>3
  <1>5. ASSUME NEW d \in Call \ {c}
        PROVE  CallInv(d)'
    <2>1. OnlyAnswers(d) /\ Executed(d)' = Executed(d)
      BY <1>1 DEF OnlyAnswers, Executed
    <2>2. CallInv(d) /\ pc[d] \in {"idle", "sending", "returned"} /\ asked[d] \subseteq Session
      BY DEF DispatchInv, DispatchTypeOK
    <2>3. QED
      BY <2>1, <2>2, AnswersKeepCall
  <1>6. QED
    BY <1>3, <1>4, <1>5 DEF DispatchInv

\* A call that was not made has had no effect.
LEMMA FreshHasNoEffect ==
  ASSUME DispatchInv, NEW c \in Call, pc[c] = "idle"
  PROVE  Fresh(c) /\ Executed(c) = {}
  <1>1. Fresh(c)
    BY DEF DispatchInv, CallInv
  <1>2. QED
    BY <1>1, SMTT(30) DEF DispatchInv, EffectInv, Executed, Fresh

\* retain leaves the live sessions in the list.
LEMMA RetainKeepsList ==
  ASSUME DispatchInv, session_cmds' = Retained, alive' = alive, born' = born
  PROVE  ListInv' /\ session_cmds' \in Seq(Session)
  <1>1. /\ Retained \in Seq(Session) /\ In(Retained) = alive /\ Distinct(Retained)
    BY RetainedIn DEF DispatchInv, DispatchTypeOK
  <1>2. QED
    BY <1>1 DEF DispatchInv, ListInv

\* A call is refused before anything is sent: it has no effect anywhere.
LEMMA ConflictingIdsKeeps ==
  ASSUME DispatchInv, NEW c \in Call, ConflictingIds(c)
  PROVE  DispatchInv'
  <1>1. /\ pc[c] = "idle" /\ pc' = [pc EXCEPT ![c] = "returned"]
        /\ result' = [result EXCEPT ![c] = "Config"] /\ session_cmds' = Retained
        /\ alive' = alive /\ born' = born /\ UNCHANGED <<sessions, receipts>>
        /\ target' = target /\ senders' = senders /\ sentTo' = sentTo
        /\ report' = report /\ asked' = asked /\ executed' = executed /\ receipts' = receipts
    BY DEF ConflictingIds, sessions
  <1>2. Fresh(c) /\ Executed(c) = {}
    BY <1>1, FreshHasNoEffect
  <1>3. ListInv' /\ session_cmds' \in Seq(Session)
    BY <1>1, RetainKeepsList
  <1>4. /\ pc' \in [Call -> {"idle", "sending", "returned"}] /\ pc'[c] = "returned"
        /\ result' \in [Call -> Answers \cup {"none"}] /\ result'[c] = "Config"
        /\ \A d \in Call \ {c} : pc'[d] = pc[d] /\ result'[d] = result[d]
    BY <1>1 DEF DispatchInv, DispatchTypeOK, Answers
  <1>5. DispatchTypeOK'
    BY <1>1, <1>3, <1>4 DEF DispatchInv, DispatchTypeOK, sessions
  <1>6. CallInv(c)'
    <2>1. \A how \in {"accepted", "rejected"} : Answered(c, how)' = {}
      BY <1>1, <1>2 DEF Answered, Fresh
    <2>2. report'[c].accepted = {} /\ report'[c].rejected = {}
      BY <1>1, <1>2, SMTT(30) DEF Fresh, EmptyReport
    <2>3. ResultIsTrue(c)'
      BY <1>1, <1>2, <1>4 DEF ResultIsTrue, Executed
    <2>4. \A s \in Session : receipts'[c][s] # "waiting"
      BY <1>1, <1>2 DEF Fresh
    <2>5. Over(c)'
      BY <1>1, <1>2, <2>1, <2>2, <2>3, <2>4 DEF Over, Fresh
    <2>6. QED
      BY <1>4, <2>5 DEF CallInv
  <1>7. \A d \in Call \ {c} : SameCall(d)
    BY <1>1, <1>4 DEF SameCall
  <1>8. QED
    BY <1>1, <1>3, <1>5, <1>6, <1>7, CallAlone

\* A call is made: it has every live session still to ask, once.
LEMMA DispatchKeeps ==
  ASSUME DispatchInv, NEW c \in Call, NEW wanted \in Session \cup {NoSession},
         dispatch(c, wanted)
  PROVE  DispatchInv'
  <1>1. /\ pc[c] = "idle" /\ pc' = [pc EXCEPT ![c] = "sending"]
        /\ session_cmds' = Retained
        /\ target' = [target EXCEPT ![c] = wanted]
        /\ senders' = [senders EXCEPT ![c] = Retained]
        /\ asked' = [asked EXCEPT ![c] = alive]
        /\ alive' = alive /\ born' = born /\ UNCHANGED <<sessions, receipts>>
        /\ sentTo' = sentTo /\ result' = result
        /\ report' = report /\ executed' = executed /\ receipts' = receipts
    BY DEF dispatch, sessions
  <1>2. Fresh(c) /\ Executed(c) = {}
    BY <1>1, FreshHasNoEffect
  <1>3. ListInv' /\ session_cmds' \in Seq(Session)
    BY <1>1, RetainKeepsList
  <1>4. /\ Retained \in Seq(Session) /\ In(Retained) = alive /\ Distinct(Retained)
        /\ alive \in SUBSET Session
    BY RetainedIn DEF DispatchInv, DispatchTypeOK
  <1>5. /\ pc' \in [Call -> {"idle", "sending", "returned"}] /\ pc'[c] = "sending"
        /\ target' \in [Call -> Session \cup {NoSession}]
        /\ senders' \in [Call -> Seq(Session)] /\ senders'[c] = Retained
        /\ asked' \in [Call -> SUBSET Session] /\ asked'[c] = alive
        /\ \A d \in Call \ {c} : /\ pc'[d] = pc[d] /\ target'[d] = target[d]
                                 /\ senders'[d] = senders[d] /\ asked'[d] = asked[d]
    BY <1>1, <1>4 DEF DispatchInv, DispatchTypeOK
  <1>6. DispatchTypeOK'
    BY <1>1, <1>3, <1>5 DEF DispatchInv, DispatchTypeOK, sessions
  <1>7. CallInv(c)'
    <2>1. \A s \in Session : receipts'[c][s] = "none"
      BY <1>1, <1>2 DEF Fresh
    <2>2. \A how \in {"accepted", "rejected", "dropped"} : Answered(c, how)' = {}
      BY <2>1 DEF Answered
    <2>3. Lost(c)' = {}
      BY <1>4, <1>5 DEF Lost
    <2>4. sentTo'[c] = <<>> /\ result'[c] = "none" /\ report'[c] = EmptyReport
      BY <1>1, <1>2 DEF Fresh
    <2>5. /\ report'[c].accepted = {} /\ report'[c].rejected = {}
          /\ report'[c].undelivered = 0 /\ report'[c].unknown = 0
      BY <2>4, SMTT(30) DEF EmptyReport
    <2>6. In(sentTo'[c]) = {} /\ Distinct(sentTo'[c]) /\ Cardinality({}) = 0
      BY <2>4, EmptyIn, FS_EmptySet
    <2>7. UnderWay(c)'
      BY <1>4, <1>5, <2>1, <2>2, <2>3, <2>4, <2>5, <2>6 DEF UnderWay
    <2>8. QED
      BY <1>5, <2>7 DEF CallInv
  <1>8. \A d \in Call \ {c} : SameCall(d)
    BY <1>1, <1>5 DEF SameCall
  <1>9. QED
    BY <1>1, <1>3, <1>6, <1>7, <1>8, CallAlone

\* The sets a report counts are finite.
LEMMA CountedIsFinite ==
  ASSUME DispatchInv, NEW c \in Call
  PROVE  /\ \A how : IsFiniteSet(Answered(c, how)) /\ Cardinality(Answered(c, how)) \in Nat
         /\ IsFiniteSet(Lost(c)) /\ Cardinality(Lost(c)) \in Nat
         /\ IsFiniteSet(asked[c])
  <1>1. IsFiniteSet(Session) /\ asked[c] \in SUBSET Session
    BY CommandDispatchConstants DEF DispatchInv, DispatchTypeOK
  <1>2. Lost(c) \in SUBSET Session /\ \A how : Answered(c, how) \in SUBSET Session
    BY <1>1 DEF Lost, Answered
  <1>3. QED
    BY <1>1, <1>2, FS_Subset, FS_CardinalityType

\* A command goes into a channel it is not in, and its receipt begins to wait.
LEMMA SendOneKeeps ==
  ASSUME DispatchInv, NEW c \in Call, SendOne(c)
  PROVE  DispatchInv'
  <1> DEFINE s == Head(senders[c])
  <1>1. /\ pc[c] = "sending" /\ senders[c] # <<>> /\ senders[c] \in Seq(Session)
        /\ sentTo[c] \in Seq(Session) /\ UnderWay(c)
    BY DEF SendOne, NextSender, DispatchInv, DispatchTypeOK, CallInv
  <1>2. /\ s \in Session /\ Tail(senders[c]) \in Seq(Session)
        /\ In(senders[c]) = {s} \cup In(Tail(senders[c]))
        /\ Distinct(Tail(senders[c])) /\ s \notin In(Tail(senders[c]))
    BY <1>1, TailIn DEF UnderWay
  <1>3. /\ s \in alive /\ queue' = [queue EXCEPT ![s] = Append(@, c)]
        /\ Answer(c, s, "waiting")
        /\ sentTo' = [sentTo EXCEPT ![c] = Append(@, s)]
        /\ senders' = [senders EXCEPT ![c] = Tail(@)]
        /\ alive' = alive /\ born' = born /\ serving' = serving /\ executed' = executed
        /\ session_cmds' = session_cmds /\ pc' = pc /\ target' = target /\ report' = report
        /\ result' = result /\ asked' = asked
    BY DEF SendOne
  <1> HIDE DEF s
  <1>4. receipts[c][s] = "none" /\ s \in asked[c] /\ s \notin In(sentTo[c])
    BY <1>1, <1>2 DEF UnderWay
  <1>5. /\ receipts' \in [Call -> [Session -> Receipt]] /\ receipts'[c][s] = "waiting"
        /\ \A d \in Call, q \in Session : d # c \/ q # s => receipts'[d][q] = receipts[d][q]
    <2>1. receipts \in [Call -> [Session -> Receipt]] /\ "waiting" \in Receipt
      BY DEF DispatchInv, DispatchTypeOK, Receipt
    <2>2. QED
      BY <1>2, <1>3, <2>1, AnswerWrites, SMTT(30)
  <1>6. HeldInv(s) /\ queue[s] \in Seq(Call) /\ NoCall \notin Call
    BY <1>2, CommandDispatchConstants DEF DispatchInv, DispatchTypeOK
  <1>7. c \notin In(queue[s]) /\ serving[s] # c
    BY <1>4, <1>6 DEF HeldInv
  <1>8. /\ Append(queue[s], c) \in Seq(Call) /\ In(Append(queue[s], c)) = In(queue[s]) \cup {c}
        /\ Distinct(Append(queue[s], c))
    BY <1>6, <1>7, AppendIn, SMTT(30) DEF HeldInv
  <1>9. /\ queue' \in [Session -> Seq(Call)] /\ queue'[s] = Append(queue[s], c)
        /\ \A q \in Session \ {s} : queue'[q] = queue[q]
    BY <1>2, <1>3, <1>8 DEF DispatchInv, DispatchTypeOK
  <1>10. /\ Append(sentTo[c], s) \in Seq(Session)
         /\ In(Append(sentTo[c], s)) = In(sentTo[c]) \cup {s}
         /\ Distinct(Append(sentTo[c], s))
    BY <1>1, <1>2, <1>4, AppendIn, SMTT(30) DEF UnderWay
  <1>11. /\ sentTo' \in [Call -> Seq(Session)] /\ sentTo'[c] = Append(sentTo[c], s)
         /\ senders' \in [Call -> Seq(Session)] /\ senders'[c] = Tail(senders[c])
         /\ \A d \in Call \ {c} : sentTo'[d] = sentTo[d] /\ senders'[d] = senders[d]
    BY <1>2, <1>3, <1>10 DEF DispatchInv, DispatchTypeOK
  <1>12. DispatchTypeOK'
    BY <1>3, <1>5, <1>9, <1>11 DEF DispatchInv, DispatchTypeOK
  <1>13. ListInv'
    BY <1>3 DEF DispatchInv, ListInv
  <1>14. ASSUME NEW q \in Session
         PROVE  HeldInv(q)'
    <2>0. HeldInv(q)
      BY DEF DispatchInv
    <2>1. CASE q = s
      <3>1. \A d \in Call : receipts[d][s] = "waiting" <=> d \in In(queue[s]) \cup {serving[s]}
        BY <1>6 DEF HeldInv
      <3>2. \A d \in Call \ {c} : receipts'[d][s] = receipts[d][s]
        BY <1>2, <1>5
      <3>3. \A d \in Call : receipts'[d][s] = "waiting"
                              <=> d \in In(queue'[s]) \cup {serving'[s]}
        <4>1. In(queue'[s]) = In(queue[s]) \cup {c} /\ serving'[s] = serving[s]
          BY <1>3, <1>8, <1>9
        <4>2. \A d \in Call \ {c} : receipts'[d][s] = "waiting"
                                    <=> d \in In(queue'[s]) \cup {serving'[s]}
          BY <3>1, <3>2, <4>1
        <4>3. c \in In(queue'[s])
          BY <4>1
        <4>4. QED
          BY <1>5, <4>2, <4>3
      <3>4. /\ Distinct(queue'[s]) /\ serving'[s] \notin In(queue'[s])
            /\ s \in alive'
            /\ serving'[s] # NoCall => target'[serving'[s]] \in {NoSession, s}
        BY <1>3, <1>6, <1>7, <1>8, <1>9 DEF HeldInv
      <3>5. QED
        BY <2>1, <3>3, <3>4 DEF HeldInv
    <2>2. CASE q # s
      <3>1. \A d \in Call : receipts'[d][q] = receipts[d][q]
        BY <1>5, <2>2
      <3>2. queue'[q] = queue[q] /\ serving'[q] = serving[q]
        BY <1>3, <1>9, <2>2
      <3>3. QED
        BY <1>3, <2>0, <3>1, <3>2, HeldKept
    <2>3. QED
      BY <2>1, <2>2
  <1>15. ASSUME NEW d \in Call, NEW q \in Session
         PROVE  EffectInv(d, q)'
    <2>1. EffectInv(d, q)
      BY DEF DispatchInv
    <2>2. CASE d = c /\ q = s
      BY <1>3, <1>4, <1>5, <2>1, <2>2 DEF EffectInv
    <2>3. CASE ~(d = c /\ q = s)
      BY <1>3, <1>5, <2>1, <2>3, EffectKept
    <2>4. QED
      BY <2>2, <2>3
  <1>16. CallInv(c)'
    <2>1. /\ In(senders'[c]) = In(Tail(senders[c])) /\ Distinct(senders'[c])
          /\ In(sentTo'[c]) = In(sentTo[c]) \cup {s} /\ Distinct(sentTo'[c])
      BY <1>2, <1>10, <1>11
    <2>2. \A q \in Session \ {s} : receipts'[c][q] = receipts[c][q]
      BY <1>5
    <2>3. In(senders'[c]) \subseteq asked'[c]
      BY <1>1, <1>2, <1>3, <2>1 DEF UnderWay
    <2>4. ASSUME NEW q \in Session
          PROVE  /\ q \in In(senders'[c]) => receipts'[c][q] = "none"
                 /\ q \in In(sentTo'[c]) => receipts'[c][q] # "none"
                 /\ receipts'[c][q] = "waiting" => q \in In(sentTo'[c])
                 /\ receipts'[c][q] # "none" => q \in asked'[c]
      <3>1. CASE q = s
        BY <1>2, <1>3, <1>4, <1>5, <2>1, <3>1
      <3>2. CASE q # s
        BY <1>1, <1>2, <1>3, <2>1, <2>2, <3>2 DEF UnderWay
      <3>3. QED
        BY <3>1, <3>2
    <2>5. \A how \in {"accepted", "rejected", "dropped"} : Answered(c, how)' = Answered(c, how)
      <3> SUFFICES ASSUME NEW how \in {"accepted", "rejected", "dropped"}, NEW q \in Session
                   PROVE  receipts'[c][q] = how /\ q \notin In(sentTo'[c])
                            <=> receipts[c][q] = how /\ q \notin In(sentTo[c])
        BY DEF Answered
      <3>1. CASE q = s
        BY <1>4, <1>5, <3>1
      <3>2. CASE q # s
        BY <2>1, <2>2, <3>2
      <3>3. QED
        BY <3>1, <3>2
    <2>6. Lost(c)' = Lost(c)
      <3> SUFFICES ASSUME NEW q \in asked[c]
                   PROVE  receipts'[c][q] = "none" /\ q \notin In(senders'[c])
                            <=> receipts[c][q] = "none" /\ q \notin In(senders[c])
        BY <1>3 DEF Lost
      <3>1. q \in Session
        BY DEF DispatchInv, DispatchTypeOK
      <3>2. CASE q = s
        BY <1>2, <1>5, <3>2
      <3>3. CASE q # s
        BY <1>2, <2>1, <2>2, <3>1, <3>3
      <3>4. QED
        BY <3>2, <3>3
    <2>7. UnderWay(c)'
      BY <1>1, <1>3, <2>1, <2>3, <2>4, <2>5, <2>6 DEF UnderWay
    <2>8. QED
      BY <1>1, <1>3, <2>7 DEF CallInv
  <1>17. ASSUME NEW d \in Call \ {c}
         PROVE  CallInv(d)'
    <2>1. SameCall(d) /\ OnlyAnswers(d) /\ Executed(d)' = Executed(d)
      BY <1>3, <1>5, <1>11 DEF SameCall, OnlyAnswers, Executed
    <2>2. CallInv(d) /\ pc[d] \in {"idle", "sending", "returned"} /\ asked[d] \subseteq Session
      BY DEF DispatchInv, DispatchTypeOK
    <2>3. QED
      BY <2>1, <2>2, AnswersKeepCall
  <1>18. QED
    BY <1>12, <1>13, <1>14, <1>15, <1>16, <1>17 DEF DispatchInv

\* A command for a session that has ended is counted as undelivered.
LEMMA SendFailsKeeps ==
  ASSUME DispatchInv, NEW c \in Call, SendFails(c)
  PROVE  DispatchInv'
  <1> DEFINE s == Head(senders[c])
  <1>1. /\ pc[c] = "sending" /\ senders[c] # <<>> /\ senders[c] \in Seq(Session) /\ UnderWay(c)
        /\ report[c] \in Report /\ asked[c] \in SUBSET Session
    BY DEF SendFails, NextSender, DispatchInv, DispatchTypeOK, CallInv
  <1>2. /\ s \in Session /\ Tail(senders[c]) \in Seq(Session)
        /\ In(senders[c]) = {s} \cup In(Tail(senders[c]))
        /\ Distinct(Tail(senders[c])) /\ s \notin In(Tail(senders[c]))
    BY <1>1, TailIn DEF UnderWay
  <1>3. /\ report' = [report EXCEPT ![c].undelivered = @ + 1]
        /\ senders' = [senders EXCEPT ![c] = Tail(@)]
        /\ UNCHANGED <<sessions, receipts>> /\ alive' = alive /\ born' = born
        /\ executed' = executed /\ receipts' = receipts
        /\ session_cmds' = session_cmds /\ pc' = pc /\ target' = target /\ sentTo' = sentTo
        /\ result' = result /\ asked' = asked
    BY DEF SendFails, sessions
  <1> HIDE DEF s
  <1>4. /\ report' \in [Call -> Report]
        /\ report'[c] = [report[c] EXCEPT !.undelivered = @ + 1]
        /\ \A d \in Call \ {c} : report'[d] = report[d]
    <2>1. [report[c] EXCEPT !.undelivered = @ + 1] \in Report
      BY <1>1, SMTT(30) DEF Report
    <2>2. report' = [report EXCEPT ![c] = [report[c] EXCEPT !.undelivered = @ + 1]]
      BY <1>3
    <2>3. QED
      BY <2>1, <2>2 DEF DispatchInv, DispatchTypeOK
  <1>5. /\ report'[c].accepted = report[c].accepted /\ report'[c].rejected = report[c].rejected
        /\ report'[c].unknown = report[c].unknown
        /\ report'[c].undelivered = report[c].undelivered + 1
    BY <1>1, <1>4 DEF Report
  <1>6. /\ senders' \in [Call -> Seq(Session)] /\ senders'[c] = Tail(senders[c])
        /\ \A d \in Call \ {c} : senders'[d] = senders[d]
    BY <1>2, <1>3 DEF DispatchInv, DispatchTypeOK
  <1>7. DispatchTypeOK'
    BY <1>3, <1>4, <1>6 DEF DispatchInv, DispatchTypeOK, sessions
  <1>8. ListInv'
    BY <1>3 DEF DispatchInv, ListInv
  <1>9. CallInv(c)'
    <2>1. \A how : Answered(c, how)' = Answered(c, how)
      BY <1>3 DEF Answered
    <2>2. Lost(c)' = Lost(c) \cup {s} /\ s \notin Lost(c)
      BY <1>1, <1>2, <1>3, <1>6 DEF Lost, UnderWay
    <2>3. Cardinality(Lost(c)') = Cardinality(Lost(c)) + 1
      <3>1. IsFiniteSet(Lost(c))
        BY CountedIsFinite
      <3>2. QED
        BY <2>2, <3>1, FS_AddElement
    <2>4. /\ Distinct(senders'[c]) /\ In(senders'[c]) \subseteq asked'[c]
          /\ \A q \in Session : q \in In(senders'[c]) => receipts'[c][q] = "none"
      BY <1>1, <1>2, <1>3, <1>6 DEF UnderWay
    <2>5. UnderWay(c)'
      BY <1>1, <1>3, <1>5, <2>1, <2>3, <2>4 DEF UnderWay
    <2>6. QED
      BY <1>1, <1>3, <2>5 DEF CallInv
  <1>10. \A d \in Call \ {c} : SameCall(d)
    BY <1>3, <1>4, <1>6 DEF SameCall
  <1>11. QED
    BY <1>3, <1>7, <1>8, <1>9, <1>10, CallAlone

\* A receipt that was answered or dropped is read into the report.
LEMMA ReadReceiptKeeps ==
  ASSUME DispatchInv, NEW c \in Call, ReadReceipt(c)
  PROVE  DispatchInv'
  <1> DEFINE s == Head(sentTo[c])  how == receipts[c][s]
  <1>1. /\ pc[c] = "sending" /\ senders[c] = <<>> /\ sentTo[c] # <<>>
        /\ sentTo[c] \in Seq(Session) /\ UnderWay(c)
        /\ report[c] \in Report /\ asked[c] \in SUBSET Session
    BY DEF ReadReceipt, DispatchInv, DispatchTypeOK, CallInv
  <1>2. /\ s \in Session /\ Tail(sentTo[c]) \in Seq(Session)
        /\ In(sentTo[c]) = {s} \cup In(Tail(sentTo[c]))
        /\ Distinct(Tail(sentTo[c])) /\ s \notin In(Tail(sentTo[c]))
    BY <1>1, TailIn DEF UnderWay
  <1>3. /\ how # "waiting"
        /\ report' = [report EXCEPT ![c] = Added(report[c], s, how)]
        /\ sentTo' = [sentTo EXCEPT ![c] = Tail(@)]
        /\ UNCHANGED <<sessions, receipts>> /\ alive' = alive /\ born' = born
        /\ executed' = executed /\ receipts' = receipts
        /\ session_cmds' = session_cmds /\ pc' = pc /\ target' = target /\ senders' = senders
        /\ result' = result /\ asked' = asked
    BY DEF ReadReceipt, sessions
  <1>0. how # "none" /\ how \in Receipt
    <2>1. receipts \in [Call -> [Session -> Receipt]]
      BY DEF DispatchInv, DispatchTypeOK
    <2>2. \A q \in Session : q \in In(sentTo[c]) => receipts[c][q] # "none"
      BY <1>1 DEF UnderWay
    <2>3. s \in Session /\ s \in In(sentTo[c])
      BY <1>2
    <2> HIDE DEF s
    <2>4. QED
      BY <2>1, <2>2, <2>3
  <1> HIDE DEF s, how
  <1>4. \A kind : Answered(c, kind)' = IF kind = how THEN Answered(c, kind) \cup {s}
                                       ELSE Answered(c, kind)
    <2> SUFFICES ASSUME NEW kind, NEW q \in Session
                 PROVE  receipts'[c][q] = kind /\ q \notin In(sentTo'[c])
                          <=> \/ receipts[c][q] = kind /\ q \notin In(sentTo[c])
                              \/ kind = how /\ q = s
      BY <1>2, SMTT(30) DEF Answered
    <2>1. sentTo'[c] = Tail(sentTo[c]) /\ receipts'[c][q] = receipts[c][q]
      BY <1>3 DEF DispatchInv, DispatchTypeOK
    <2>2. QED
      BY <1>2, <2>1 DEF how
  <1>5. s \notin Answered(c, how)
    BY <1>2 DEF Answered
  <1>6. Lost(c)' = Lost(c)
    BY <1>3 DEF Lost
  <1>7. Cardinality(Answered(c, how) \cup {s}) = Cardinality(Answered(c, how)) + 1
    <2>1. IsFiniteSet(Answered(c, how))
      BY CountedIsFinite
    <2>2. QED
      BY <1>5, <2>1, FS_AddElement
  <1> DEFINE r == Added(report[c], s, how)
  <1>8. /\ r \in Report
        /\ r.accepted = Answered(c, "accepted")'
        /\ r.rejected = Answered(c, "rejected")'
        /\ r.unknown = Cardinality(Answered(c, "dropped")')
        /\ r.undelivered = Cardinality(Lost(c)')
    <2>1. /\ report[c].accepted = Answered(c, "accepted")
          /\ report[c].rejected = Answered(c, "rejected")
          /\ report[c].unknown = Cardinality(Answered(c, "dropped"))
          /\ report[c].undelivered = Cardinality(Lost(c))
      BY <1>1 DEF UnderWay
    <2>2. how \in {"accepted", "rejected", "dropped", "elsewhere"}
      BY <1>0, <1>3 DEF Receipt
    <2>3. CASE how = "accepted"
      <3>1. r = [report[c] EXCEPT !.accepted = @ \cup {s}]
        BY <2>3 DEF Added
      <3>2. /\ r \in Report /\ r.accepted = report[c].accepted \cup {s}
            /\ r.rejected = report[c].rejected /\ r.unknown = report[c].unknown
            /\ r.undelivered = report[c].undelivered
        BY <1>1, <1>2, <3>1, SMTT(30) DEF Report
      <3>3. /\ Answered(c, "accepted")' = Answered(c, "accepted") \cup {s}
            /\ Answered(c, "rejected")' = Answered(c, "rejected")
            /\ Answered(c, "dropped")' = Answered(c, "dropped")
        BY <1>4, <2>3
      <3>4. QED
        BY <1>6, <2>1, <3>2, <3>3
    <2>4. CASE how = "rejected"
      <3>1. r = [report[c] EXCEPT !.rejected = @ \cup {s}]
        BY <2>4 DEF Added
      <3>2. /\ r \in Report /\ r.rejected = report[c].rejected \cup {s}
            /\ r.accepted = report[c].accepted /\ r.unknown = report[c].unknown
            /\ r.undelivered = report[c].undelivered
        BY <1>1, <1>2, <3>1, SMTT(30) DEF Report
      <3>3. /\ Answered(c, "accepted")' = Answered(c, "accepted")
            /\ Answered(c, "rejected")' = Answered(c, "rejected") \cup {s}
            /\ Answered(c, "dropped")' = Answered(c, "dropped")
        BY <1>4, <2>4
      <3>4. QED
        BY <1>6, <2>1, <3>2, <3>3
    <2>5. CASE how = "dropped"
      <3>1. r = [report[c] EXCEPT !.unknown = @ + 1]
        BY <2>5 DEF Added
      <3>2. /\ r \in Report /\ r.unknown = report[c].unknown + 1
            /\ r.accepted = report[c].accepted /\ r.rejected = report[c].rejected
            /\ r.undelivered = report[c].undelivered
        BY <1>1, <3>1, SMTT(30) DEF Report
      <3>3. /\ Answered(c, "accepted")' = Answered(c, "accepted")
            /\ Answered(c, "rejected")' = Answered(c, "rejected")
            /\ Answered(c, "dropped")' = Answered(c, "dropped") \cup {s}
        BY <1>4, <2>5
      <3>4. Cardinality(Answered(c, "dropped")') = Cardinality(Answered(c, "dropped")) + 1
        BY <1>7, <2>5, <3>3
      <3>5. QED
        BY <1>6, <2>1, <3>2, <3>3, <3>4
    <2>6. CASE how = "elsewhere"
      <3>1. r = report[c]
        BY <2>6 DEF Added
      <3>2. QED
        BY <1>1, <1>4, <1>6, <2>1, <2>6, <3>1 DEF Report
    <2>7. QED
      BY <2>2, <2>3, <2>4, <2>5, <2>6
  <1> HIDE DEF r
  <1>9. /\ report' \in [Call -> Report] /\ report'[c] = r
        /\ \A d \in Call \ {c} : report'[d] = report[d]
    BY <1>3, <1>8 DEF r, DispatchInv, DispatchTypeOK
  <1>10. /\ sentTo' \in [Call -> Seq(Session)] /\ sentTo'[c] = Tail(sentTo[c])
         /\ \A d \in Call \ {c} : sentTo'[d] = sentTo[d]
    BY <1>2, <1>3 DEF DispatchInv, DispatchTypeOK
  <1>11. DispatchTypeOK'
    BY <1>3, <1>9, <1>10 DEF DispatchInv, DispatchTypeOK, sessions
  <1>12. ListInv'
    BY <1>3 DEF DispatchInv, ListInv
  <1>13. CallInv(c)'
    <2>1. /\ Distinct(sentTo'[c])
          /\ \A q \in Session : q \in In(sentTo'[c]) => receipts'[c][q] # "none"
          /\ \A q \in Session : receipts'[c][q] = "waiting" => q \in In(sentTo'[c])
      BY <1>1, <1>2, <1>3, <1>10 DEF UnderWay, how
    <2>2. UnderWay(c)'
      BY <1>1, <1>3, <1>8, <1>9, <2>1 DEF UnderWay
    <2>3. QED
      BY <1>1, <1>3, <2>2 DEF CallInv
  <1>14. \A d \in Call \ {c} : SameCall(d)
    BY <1>3, <1>9, <1>10 DEF SameCall
  <1>15. QED
    BY <1>3, <1>11, <1>12, <1>13, <1>14, CallAlone

\* A call that has read every receipt: where the command was executed, its
\* receipt was accepted or dropped; and for a broadcast the four kinds of
\* outcome divide the sessions that were asked among themselves.
LEMMA ReceiptsAccount ==
  ASSUME DispatchInv, NEW c \in Call,
         pc[c] = "sending", senders[c] = <<>>, sentTo[c] = <<>>
  PROVE  /\ \A s \in Session : receipts[c][s] # "waiting"
         /\ Answered(c, "accepted") \subseteq Executed(c)
         /\ Answered(c, "accepted") \subseteq asked[c]
         /\ Executed(c) \subseteq Answered(c, "accepted") \cup Answered(c, "dropped")
         /\ target[c] # NoSession => Executed(c) \subseteq {target[c]}
         /\ target[c] = NoSession =>
              asked[c] = Answered(c, "accepted") \cup Answered(c, "rejected")
                           \cup Answered(c, "dropped") \cup Lost(c)
  <1>1. In(senders[c]) = {} /\ In(sentTo[c]) = {}
    BY EmptyIn
  <1>2. UnderWay(c) /\ asked[c] \subseteq Session
    BY DEF DispatchInv, DispatchTypeOK, CallInv
  <1>3. \A s \in Session : receipts[c][s] # "waiting" /\ EffectInv(c, s)
    BY <1>1, <1>2 DEF UnderWay, DispatchInv
  <1>4. /\ Answered(c, "accepted") = {s \in Session : receipts[c][s] = "accepted"}
        /\ Answered(c, "rejected") = {s \in Session : receipts[c][s] = "rejected"}
        /\ Answered(c, "dropped") = {s \in Session : receipts[c][s] = "dropped"}
    BY <1>1 DEF Answered
  <1>5. Lost(c) = {s \in asked[c] : receipts[c][s] = "none"}
    BY <1>1 DEF Lost
  <1>6. \A s \in Session : /\ receipts[c][s] = "accepted" => <<c, s>> \in executed
                           /\ <<c, s>> \in executed => /\ receipts[c][s] \in {"accepted", "dropped"}
                                                       /\ target[c] \in {NoSession, s}
                           /\ receipts[c][s] = "elsewhere" => target[c] # NoSession
                           /\ receipts[c][s] # "none" => s \in asked[c]
                           /\ receipts[c][s] \in Receipt
    <2>1. receipts \in [Call -> [Session -> Receipt]]
      BY DEF DispatchInv, DispatchTypeOK
    <2>2. \A s \in Session : receipts[c][s] # "none" => s \in asked[c]
      BY <1>2 DEF UnderWay
    <2>3. \A s \in Session :
            /\ receipts[c][s] = "accepted" => <<c, s>> \in executed
            /\ <<c, s>> \in executed => /\ receipts[c][s] \in {"accepted", "dropped"}
                                        /\ target[c] \in {NoSession, s}
            /\ receipts[c][s] = "elsewhere" => target[c] # NoSession
      BY <1>3 DEF EffectInv
    <2>4. QED
      BY <2>1, <2>2, <2>3
  <1>7. target[c] = NoSession =>
          asked[c] = Answered(c, "accepted") \cup Answered(c, "rejected")
                       \cup Answered(c, "dropped") \cup Lost(c)
    <2> SUFFICES ASSUME target[c] = NoSession, NEW s \in Session
                 PROVE  s \in asked[c] <=>
                          \/ receipts[c][s] \in {"accepted", "rejected", "dropped"}
                          \/ s \in asked[c] /\ receipts[c][s] = "none"
      BY <1>2, <1>4, <1>5
    <2>1. receipts[c][s] \in {"none", "accepted", "rejected", "elsewhere", "dropped"}
      BY <1>3, <1>6 DEF Receipt
    <2>2. receipts[c][s] # "elsewhere" /\ (receipts[c][s] # "none" => s \in asked[c])
      BY <1>6
    <2>3. QED
      BY <2>1, <2>2
  <1>8. /\ Answered(c, "accepted") \subseteq Executed(c)
        /\ Answered(c, "accepted") \subseteq asked[c]
    BY <1>4, <1>6 DEF Executed
  <1>9. Executed(c) \subseteq Answered(c, "accepted") \cup Answered(c, "dropped")
    BY <1>4, <1>6 DEF Executed
  <1>10. target[c] # NoSession => Executed(c) \subseteq {target[c]}
    BY <1>6 DEF Executed
  <1>11. QED
    BY <1>3, <1>7, <1>8, <1>9, <1>10

\* Disjoint finite sets add up.
LEMMA DisjointUnion ==
  ASSUME NEW S, IsFiniteSet(S), NEW T, IsFiniteSet(T), S \cap T = {}
  PROVE  /\ IsFiniteSet(S \cup T)
         /\ Cardinality(S \cup T) = Cardinality(S) + Cardinality(T)
  <1>1. /\ IsFiniteSet(S \cup T)
        /\ Cardinality(S \cup T) = Cardinality(S) + Cardinality(T) - Cardinality(S \cap T)
    BY FS_Union
  <1>2. Cardinality(S \cap T) = 0
    BY FS_EmptySet
  <1>3. Cardinality(S) \in Nat /\ Cardinality(T) \in Nat
    BY FS_CardinalityType
  <1>4. QED
    BY <1>1, <1>2, <1>3, SMTT(30)

\* The call returns: every receipt was read, so its answer is true.
LEMMA ReturnKeeps ==
  ASSUME DispatchInv, NEW c \in Call, Return(c)
  PROVE  DispatchInv'
  <1> DEFINE r == Selected(c)  A == Answered(c, "accepted")  R == Answered(c, "rejected")
             D == Answered(c, "dropped")  L == Lost(c)
  <1>1. /\ pc[c] = "sending" /\ senders[c] = <<>> /\ sentTo[c] = <<>> /\ UnderWay(c)
        /\ report[c] \in Report /\ target[c] \in Session \cup {NoSession}
        /\ report' = [report EXCEPT ![c] = r] /\ result' = [result EXCEPT ![c] = Outcome(r)]
        /\ pc' = [pc EXCEPT ![c] = "returned"]
        /\ UNCHANGED <<sessions, receipts>> /\ alive' = alive /\ born' = born
        /\ executed' = executed /\ receipts' = receipts
        /\ session_cmds' = session_cmds /\ sentTo' = sentTo /\ target' = target
        /\ senders' = senders /\ asked' = asked
    BY DEF Return, sessions, DispatchInv, DispatchTypeOK, CallInv
  <1>2. /\ report[c].accepted = A /\ report[c].rejected = R
        /\ report[c].unknown = Cardinality(D) /\ report[c].undelivered = Cardinality(L)
    BY <1>1 DEF UnderWay
  <1>3. /\ r \in Report /\ r.accepted = A /\ r.rejected = R
        /\ (target[c] # NoSession /\ A \cup R # {}) \/ r = report[c]
    <2>1. CASE target[c] # NoSession /\ A \cup R # {}
      <3>1. r = [report[c] EXCEPT !.undelivered = 0, !.unknown = 0]
        BY <1>2, <2>1 DEF Selected
      <3>2. /\ r \in Report /\ r.accepted = report[c].accepted
            /\ r.rejected = report[c].rejected
        <4> DEFINE old == report[c]
        <4>1. old \in Report
          BY <1>1
        <4> HIDE DEF old
        <4>2. /\ [old EXCEPT !.undelivered = 0, !.unknown = 0] \in Report
              /\ [old EXCEPT !.undelivered = 0, !.unknown = 0].accepted = old.accepted
              /\ [old EXCEPT !.undelivered = 0, !.unknown = 0].rejected = old.rejected
          BY <4>1 DEF Report
        <4>3. QED
          BY <3>1, <4>2 DEF old
      <3>3. QED
        BY <1>2, <2>1, <3>2
    <2>2. CASE ~(target[c] # NoSession /\ A \cup R # {})
      <3>1. r = report[c]
        BY <1>2, <2>2 DEF Selected
      <3>2. QED
        BY <1>1, <1>2, <3>1
    <2>3. QED
      BY <2>1, <2>2
  <1>4. /\ \A s \in Session : receipts[c][s] # "waiting"
        /\ A \subseteq Executed(c) /\ A \subseteq asked[c] /\ Executed(c) \subseteq A \cup D
        /\ target[c] # NoSession => Executed(c) \subseteq {target[c]}
        /\ target[c] = NoSession => asked[c] = A \cup R \cup D \cup L
    BY <1>1, ReceiptsAccount
  <1>5. /\ IsFiniteSet(A) /\ IsFiniteSet(R) /\ IsFiniteSet(D) /\ IsFiniteSet(L)
        /\ Cardinality(A) \in Nat /\ Cardinality(R) \in Nat
        /\ Cardinality(D) \in Nat /\ Cardinality(L) \in Nat
    BY CountedIsFinite
  <1>6. A \cap R = {} /\ (A \cup R) \cap D = {} /\ (A \cup R \cup D) \cap L = {}
    BY DEF Answered, Lost
  <1>7. Outcome(r) \in Answers /\ Outcome(r) # "Config"
    BY DEF Outcome, Answers
  <1>8. Outcome(r) \in {"Ok", "NoMatchingSession"} =>
          R = {} /\ r.unknown = 0 /\ r.undelivered = 0 /\ (Outcome(r) = "Ok" <=> A # {})
    BY <1>3 DEF Outcome
  <1>9. /\ Cardinality(D) = 0 => D = {}
        /\ Cardinality(L) = 0 => L = {}
    BY <1>5, FS_EmptySet
  <1> HIDE DEF r, A, R, D, L
  <1>10. Cardinality(A \cup R \cup D \cup L)
           = Cardinality(A) + Cardinality(R) + Cardinality(D) + Cardinality(L)
    <2>1. IsFiniteSet(A \cup R) /\ Cardinality(A \cup R) = Cardinality(A) + Cardinality(R)
      BY <1>5, <1>6, DisjointUnion
    <2>2. /\ IsFiniteSet(A \cup R \cup D)
          /\ Cardinality(A \cup R \cup D) = Cardinality(A \cup R) + Cardinality(D)
      BY <1>5, <1>6, <2>1, DisjointUnion
    <2>3. Cardinality(A \cup R \cup D \cup L) = Cardinality(A \cup R \cup D) + Cardinality(L)
      BY <1>5, <1>6, <2>2, DisjointUnion
    <2>4. QED
      BY <2>1, <2>2, <2>3
  <1>11. Cardinality(Executed(c) \ A) <= Cardinality(D)
    <2>1. Executed(c) \ A \in SUBSET D
      BY <1>4
    <2>2. QED
      BY <1>5, <2>1, FS_Subset
  <1>12. /\ report' \in [Call -> Report] /\ report'[c] = r
         /\ result' \in [Call -> Answers \cup {"none"}] /\ result'[c] = Outcome(r)
         /\ pc' \in [Call -> {"idle", "sending", "returned"}] /\ pc'[c] = "returned"
         /\ \A d \in Call \ {c} : report'[d] = report[d] /\ result'[d] = result[d] /\ pc'[d] = pc[d]
    BY <1>1, <1>3, <1>7 DEF DispatchInv, DispatchTypeOK
  <1>13. DispatchTypeOK'
    BY <1>1, <1>12 DEF DispatchInv, DispatchTypeOK, sessions
  <1>14. ListInv'
    BY <1>1 DEF DispatchInv, ListInv
  <1>15. ResultIsTrue(c)'
    <2>0. Executed(c)' = Executed(c) /\ target'[c] = target[c] /\ asked'[c] = asked[c]
      BY <1>1 DEF Executed
    <2>1. CASE target[c] = NoSession
      <3>1. /\ r = report[c] /\ r.unknown = Cardinality(D) /\ r.undelivered = Cardinality(L)
        BY <1>2, <1>3, <2>1
      <3>2. Outcome(r) = "Ok" => asked[c] \subseteq Executed(c) /\ asked[c] # {}
        BY <1>4, <1>8, <1>9, <2>1, <3>1
      <3>3. Outcome(r) = "NoMatchingSession" => Executed(c) = {}
        BY <1>4, <1>8, <1>9, <3>1
      <3>4. Cardinality(r.accepted) + Cardinality(r.rejected) + r.undelivered + r.unknown
              = Cardinality(asked[c])
        <4>1. Cardinality(asked[c])
                = Cardinality(A) + Cardinality(R) + Cardinality(D) + Cardinality(L)
          BY <1>4, <1>10, <2>1
        <4>2. Cardinality(r.accepted) + Cardinality(r.rejected) + r.undelivered + r.unknown
                = Cardinality(A) + Cardinality(R) + Cardinality(L) + Cardinality(D)
          BY <1>3, <3>1
        <4>3. QED
          BY <1>5, <4>1, <4>2, SMTT(30)
      <3>5. Cardinality(Executed(c) \ r.accepted) <= r.unknown
        BY <1>3, <1>11, <3>1
      <3>6. QED
        BY <1>7, <1>12, <2>0, <2>1, <3>2, <3>3, <3>4, <3>5 DEF ResultIsTrue
    <2>2. CASE target[c] # NoSession
      <3>1. Outcome(r) = "Ok" => target[c] \in Executed(c)
        BY <1>4, <1>8, <2>2
      <3>2. Outcome(r) = "NoMatchingSession" => Executed(c) = {}
        <4>1. CASE r = report[c]
          BY <1>2, <1>4, <1>8, <1>9, <4>1
        <4>2. CASE A \cup R # {}
          BY <1>8, <4>2
        <4>3. QED
          BY <1>3, <4>1, <4>2
      <3>3. QED
        BY <1>7, <1>12, <2>0, <2>2, <3>1, <3>2 DEF ResultIsTrue
    <2>3. QED
      BY <2>1, <2>2
  <1>16. CallInv(c)'
    <2>1. /\ Answered(c, "accepted")' = A /\ Answered(c, "rejected")' = R
      BY <1>1 DEF A, R, Answered
    <2>2. Over(c)'
      <3>1. senders'[c] = <<>> /\ sentTo'[c] = <<>>
        BY <1>1
      <3>2. \A s \in Session : receipts'[c][s] # "waiting"
        BY <1>1, <1>4
      <3>3. report'[c].accepted = A /\ report'[c].rejected = R
        BY <1>3, <1>12
      <3>4. QED
        BY <1>15, <2>1, <3>1, <3>2, <3>3 DEF Over
    <2>3. QED
      BY <1>12, <2>2 DEF CallInv
  <1>17. \A d \in Call \ {c} : SameCall(d)
    BY <1>1, <1>12 DEF SameCall
  <1>18. QED
    BY <1>1, <1>13, <1>14, <1>16, <1>17, CallAlone

\* DispatchInv is an inductive invariant: it holds when the daemon starts and
\* every step of a session or of a call keeps it.
LEMMA DispatchInvCorrect ==
  DispatchSpec => []DispatchInv
  <1>1. DispatchInit => DispatchInv
    <2> SUFFICES ASSUME DispatchInit
                 PROVE  DispatchInv
      OBVIOUS
    <2>1. /\ In(<<>>) = {} /\ Distinct(<<>>) /\ NoCall \notin Call
      BY EmptyIn, CommandDispatchConstants DEF Distinct
    <2>2. EmptyReport \in Report
      BY DEF EmptyReport, Report
    <2>3. DispatchTypeOK
      BY <2>2, SMTT(30) DEF DispatchInit, DispatchTypeOK, Receipt
    <2>4. ListInv
      BY <2>1 DEF DispatchInit, ListInv
    <2>5. ASSUME NEW s \in Session
          PROVE  HeldInv(s)
      BY <2>1 DEF DispatchInit, HeldInv
    <2>6. ASSUME NEW c \in Call, NEW s \in Session
          PROVE  EffectInv(c, s)
      BY DEF DispatchInit, EffectInv
    <2>7. ASSUME NEW c \in Call
          PROVE  CallInv(c)
      BY DEF DispatchInit, CallInv, Fresh
    <2>8. QED
      BY <2>3, <2>4, <2>5, <2>6, <2>7 DEF DispatchInv
  <1>2. DispatchInv /\ [DispatchNext]_dispatchVars => DispatchInv'
    <2> SUFFICES ASSUME DispatchInv, [DispatchNext]_dispatchVars
                 PROVE  DispatchInv'
      OBVIOUS
    <2>1. ASSUME NEW s \in Session, StartSession(s) PROVE DispatchInv'
      BY <2>1, StartSessionKeeps
    <2>2. ASSUME NEW s \in Session, TakeCommand(s) PROVE DispatchInv'
      BY <2>2, TakeKeeps
    <2>3. ASSUME NEW s \in Session, AnswerCommand(s) PROVE DispatchInv'
      BY <2>3, AnswerCommandKeeps
    <2>4. ASSUME NEW s \in Session, CarryOut(s) PROVE DispatchInv'
      BY <2>4, CarryOutKeeps
    <2>5. ASSUME NEW s \in Session, EndSession(s) PROVE DispatchInv'
      BY <2>5, EndSessionKeeps
    <2>6. ASSUME NEW c \in Call, ConflictingIds(c) PROVE DispatchInv'
      BY <2>6, ConflictingIdsKeeps
    <2>7. ASSUME NEW c \in Call, NEW wanted \in Session \cup {NoSession}, dispatch(c, wanted)
          PROVE  DispatchInv'
      BY <2>7, DispatchKeeps
    <2>8. ASSUME NEW c \in Call, SendOne(c) PROVE DispatchInv'
      BY <2>8, SendOneKeeps
    <2>9. ASSUME NEW c \in Call, SendFails(c) PROVE DispatchInv'
      BY <2>9, SendFailsKeeps
    <2>10. ASSUME NEW c \in Call, ReadReceipt(c) PROVE DispatchInv'
      BY <2>10, ReadReceiptKeeps
    <2>11. ASSUME NEW c \in Call, Return(c) PROVE DispatchInv'
      BY <2>11, ReturnKeeps
    <2>12. CASE UNCHANGED dispatchVars
      <3>1. /\ alive' = alive /\ born' = born /\ queue' = queue /\ serving' = serving
            /\ executed' = executed /\ session_cmds' = session_cmds /\ receipts' = receipts
            /\ pc' = pc /\ target' = target /\ senders' = senders /\ sentTo' = sentTo
            /\ report' = report /\ result' = result /\ asked' = asked
        BY <2>12 DEF dispatchVars, sessions, calls
      <3>2. DispatchTypeOK' /\ ListInv'
        BY <3>1 DEF DispatchInv, DispatchTypeOK, ListInv
      <3>3. \A s \in Session : HeldInv(s)'
        BY <3>1, HeldKept DEF DispatchInv
      <3>4. \A c \in Call, s \in Session : EffectInv(c, s)'
        BY <3>1, EffectKept DEF DispatchInv
      <3>5. ASSUME NEW c \in Call
            PROVE  CallInv(c)'
        <4>1. SameCall(c) /\ OnlyAnswers(c) /\ Executed(c)' = Executed(c)
          BY <3>1 DEF SameCall, OnlyAnswers, Executed
        <4>2. /\ CallInv(c) /\ pc[c] \in {"idle", "sending", "returned"}
              /\ asked[c] \subseteq Session
          BY DEF DispatchInv, DispatchTypeOK
        <4>3. QED
          BY <4>1, <4>2, AnswersKeepCall
      <3>6. QED
        BY <3>2, <3>3, <3>4, <3>5 DEF DispatchInv
    <2>13. QED
      BY <2>1, <2>2, <2>3, <2>4, <2>5, <2>6, <2>7, <2>8, <2>9, <2>10, <2>11,
         <2>12
      DEF DispatchNext, Serve, Proceed
  <1>3. QED
    BY <1>1, <1>2, PTL DEF DispatchSpec

\* For any number of sessions, calls and places in a channel, the answer of a
\* call tells what its command did: AnswersAreTrue holds in every reachable
\* state.
THEOREM AnswersCorrect ==
  DispatchSpec => []AnswersAreTrue
  <1>1. DispatchInv => AnswersAreTrue
    <2> SUFFICES ASSUME DispatchInv, NEW c \in Call
                 PROVE  /\ result[c] = "Ok" =>
                             IF target[c] = NoSession
                             THEN asked[c] \subseteq Executed(c) /\ asked[c] # {}
                             ELSE target[c] \in Executed(c)
                        /\ target[c] # NoSession => Executed(c) \subseteq {target[c]}
                        /\ result[c] \in {"NoMatchingSession", "Config"} => Executed(c) = {}
                        /\ report[c].rejected \cap Executed(c) = {}
                        /\ (pc[c] = "returned" /\ target[c] = NoSession /\ result[c] # "Config") =>
                             /\ Cardinality(report[c].accepted) + Cardinality(report[c].rejected)
                                  + report[c].undelivered + report[c].unknown
                                  = Cardinality(asked[c])
                             /\ report[c].accepted \subseteq Executed(c)
                             /\ Cardinality(Executed(c) \ report[c].accepted)
                                  <= report[c].unknown
      BY DEF AnswersAreTrue, OkMeansEverywhere, NoHiddenEffect
    <2>1. CallInv(c) /\ \A s \in Session : EffectInv(c, s)
      BY DEF DispatchInv
    <2>2. target[c] # NoSession => Executed(c) \subseteq {target[c]}
      BY <2>1 DEF EffectInv, Executed
    <2>3. /\ Answered(c, "accepted") \subseteq Executed(c)
          /\ Answered(c, "rejected") \cap Executed(c) = {}
      BY <2>1 DEF EffectInv, Executed, Answered
    <2>4. CASE pc[c] = "idle"
      <3>1. result[c] = "none" /\ report[c].rejected = {}
        BY <2>1, <2>4, SMTT(30) DEF CallInv, Fresh, EmptyReport
      <3>2. QED
        BY <2>2, <2>4, <3>1
    <2>5. CASE pc[c] = "sending"
      <3>1. result[c] = "none" /\ report[c].rejected = Answered(c, "rejected")
        BY <2>1, <2>5 DEF CallInv, UnderWay
      <3>2. QED
        BY <2>2, <2>3, <2>5, <3>1
    <2>6. CASE pc[c] = "returned"
      <3>1. /\ report[c].accepted = Answered(c, "accepted")
            /\ report[c].rejected = Answered(c, "rejected") /\ ResultIsTrue(c)
        BY <2>1, <2>6 DEF CallInv, Over
      <3>2. QED
        BY <2>2, <2>3, <3>1 DEF ResultIsTrue
    <2>7. pc[c] \in {"idle", "sending", "returned"}
      BY DEF DispatchInv, DispatchTypeOK
    <2>8. QED
      BY <2>4, <2>5, <2>6, <2>7
  <1>2. QED
    BY <1>1, DispatchInvCorrect, PTL
=============================================================================
