----------------------------- MODULE Discovery -----------------------------
(***************************************************************************)
(* Discovery (crates/dlep-fsm/src/discovery_router.rs, discovery_modem.rs  *)
(* and crates/dlep-daemon/src/discovery.rs): routers probe the multicast   *)
(* group periodically, modems answer with offers, unless the router has a  *)
(* TCP connection to them already.  Datagrams are lost, duplicated and     *)
(* delayed, sockets fail, junk arrives, and tasks are stopped at any time. *)
(*                                                                         *)
(* What an offer says is the matter of OfferEndpoints.                     *)
(***************************************************************************)
EXTENDS Naturals, FiniteSets

CONSTANTS
  Router, Modem,
  Capacity   \* of the timer channel

ASSUME DiscoveryConstants ==
  /\ Router \cap Modem = {}
  /\ Capacity \in Nat \ {0}

VARIABLES
  state,      \* of each discovery machine
  running,    \* discovery tasks that run
  asked,      \* those whose shutdown channel has a message or is closed
  handles,    \* routers whose DiscoveryTimers has an entry
  timer,      \* the periodic task of each router: none, sleeping, ringing
  timer_rx,   \* the expiries in each router's timer channel
  backoff,    \* tasks that wait before they receive again
  net,        \* datagrams on their way
  connected,  \* <<router, modem>> with a TCP connection (ConnectedRouters)
  offered     \* modems whose PeerDiscovered the router's driver has not read

machines == <<state, running, asked, handles, timer, timer_rx, backoff>>
discoveryVars == <<machines, net, connected, offered>>

Task == Router \cup Modem

\* Datagrams for a task: junk came from off the link, is malformed, fails
\* valid_signal, or arrives without the kernel's account of it.
Datagram ==
  {[kind |-> "PeerDiscovery", from |-> r, to |-> m] : r \in Router, m \in Modem}
    \cup {[kind |-> "PeerOffer", from |-> m, to |-> r] : r \in Router, m \in Modem}
    \cup {[kind |-> "junk", from |-> t, to |-> t] : t \in Task}

DiscoveryInit ==
  /\ state = [t \in Task |-> IF t \in Router THEN "Idle" ELSE "Listening"]
  /\ running = Modem /\ asked = {}
  /\ handles = {}
  /\ timer = [r \in Router |-> "none"]
  /\ timer_rx = [r \in Router |-> 0]
  /\ backoff = {} /\ net = {} /\ connected = {}
  /\ offered = [r \in Router |-> {}]

\* Routers do not join the group; a send that fails is a datagram lost.
send_to_group(r) ==
  net' = net \cup {[kind |-> "PeerDiscovery", from |-> r, to |-> m] : m \in Modem}

-----------------------------------------------------------------------------
(* The machines' timers.                                                    *)

AppStartDiscovery(r) ==
  /\ r \notin running /\ r \notin asked
  /\ running' = running \cup {r}
  /\ state' = [state EXCEPT ![r] = "Probing"]
  /\ send_to_group(r)
  /\ handles' = handles \cup {r}
  /\ timer' = [timer EXCEPT ![r] = "sleeping"]
  /\ UNCHANGED <<asked, timer_rx, backoff, connected, offered>>

Wake(r) ==
  /\ timer[r] = "sleeping"
  /\ timer' = [timer EXCEPT ![r] = "ringing"]
  /\ UNCHANGED <<state, running, asked, handles, timer_rx, backoff, net, connected, offered>>

\* A send to a channel that is gone ends the periodic task.
Ring(r) ==
  /\ timer[r] = "ringing"
  /\ r \in running => timer_rx[r] < Capacity
  /\ timer' = [timer EXCEPT ![r] = IF r \in running THEN "sleeping" ELSE "none"]
  /\ timer_rx' = [timer_rx EXCEPT ![r] = IF r \in running THEN @ + 1 ELSE 0]
  /\ UNCHANGED <<state, running, asked, handles, backoff, net, connected, offered>>

TimerExpired(r) ==
  /\ r \in running /\ timer_rx[r] > 0
  /\ timer_rx' = [timer_rx EXCEPT ![r] = @ - 1]
  /\ IF state[r] = "Probing" THEN send_to_group(r) ELSE UNCHANGED net
  /\ UNCHANGED <<state, running, asked, handles, timer, backoff, connected, offered>>

-----------------------------------------------------------------------------
(* Receiving.  The network may keep a copy of what it delivers.             *)

Deliver(t, d) ==
  /\ t \in running /\ t \notin backoff
  /\ d \in net /\ d.to = t
  /\ UNCHANGED <<running, asked, handles, timer, timer_rx, connected>>

Gone(d) == {net, net \ {d}}

\* Mutant: the router stops when it has an offer.
RecvOffer_Stops(r, d) ==
  /\ Deliver(r, d) /\ d.kind = "PeerOffer"
  /\ net' \in Gone(d)
  /\ IF state[r] = "Probing"
     THEN /\ offered' = [offered EXCEPT ![r] = @ \cup {d.from}]
          /\ state' = [state EXCEPT ![r] = "OfferReceived"]
     ELSE UNCHANGED <<state, offered>>
  /\ UNCHANGED backoff

\* The router goes on probing.
RecvOffer(r, d) ==
  /\ Deliver(r, d) /\ d.kind = "PeerOffer"
  /\ net' \in Gone(d)
  /\ offered' = IF state[r] = "Probing" THEN [offered EXCEPT ![r] = @ \cup {d.from}]
                ELSE offered
  /\ UNCHANGED <<state, backoff>>

\* Mutant: a connected router is answered too.
RecvDiscovery_Always(m, d) ==
  /\ Deliver(m, d) /\ d.kind = "PeerDiscovery"
  /\ \E left \in Gone(d) :
       /\ net' = left \cup {[kind |-> "PeerOffer", from |-> m, to |-> d.from]}
       /\ state' = [state EXCEPT ![m] = "OfferBurst"]
  /\ UNCHANGED <<offered, backoff>>

RecvDiscovery(m, d) ==
  /\ Deliver(m, d) /\ d.kind = "PeerDiscovery"
  /\ \E left \in Gone(d) :
       IF <<d.from, m>> \in connected
       THEN net' = left /\ UNCHANGED state
       ELSE /\ net' = left \cup {[kind |-> "PeerOffer", from |-> m, to |-> d.from]}
            /\ state' = [state EXCEPT ![m] = "OfferBurst"]
  /\ UNCHANGED <<offered, backoff>>

\* What the kernel says of a datagram, and whether it decodes.
Packet ==
  [whole : BOOLEAN, interface : {"ours", "other", "unknown"},
   hops : {"255", "fewer", "unknown"}, decodes : BOOLEAN]

\* Another link and another hop are passed over before the bytes are looked at.
recv_with_metadata(p) ==
  IF ~p.whole THEN "InvalidData"
  ELSE IF p.interface = "unknown" THEN "error"
  ELSE IF p.interface = "other" THEN "skipped"
  ELSE IF p.hops = "unknown" THEN "error"
  ELSE IF p.hops = "fewer" THEN "skipped"
  ELSE IF ~p.decodes THEN "InvalidData"
  ELSE "signal"

\* What is skipped, malformed or no valid signal delays nobody.
RecvJunk(t, d) ==
  /\ Deliver(t, d) /\ d.kind = "junk"
  /\ net' \in Gone(d)
  /\ \E p \in Packet :
       backoff' = IF recv_with_metadata(p) = "error" THEN backoff \cup {t} ELSE backoff
  /\ UNCHANGED <<state, offered>>

RecvFails(t) ==
  /\ t \in running /\ t \notin backoff
  /\ backoff' = backoff \cup {t}
  /\ UNCHANGED <<state, running, asked, handles, timer, timer_rx, net, connected, offered>>

BackoffEnds(t) ==
  /\ t \in backoff
  /\ backoff' = backoff \ {t}
  /\ UNCHANGED <<state, running, asked, handles, timer, timer_rx, net, connected, offered>>

-----------------------------------------------------------------------------
(* Stopping.                                                                *)

\* shutdown asks, or the last owner of the shutdown channel goes away.
AskToStop(t) ==
  /\ t \notin asked
  /\ asked' = asked \cup {t}
  /\ UNCHANGED <<state, running, handles, timer, timer_rx, backoff, net, connected, offered>>

\* The timer task: aborted while it sleeps; one that has woken may send first.
Aborted(r) ==
  IF timer[r] = "ringing" THEN timer' \in {timer, [timer EXCEPT ![r] = "none"]}
  ELSE timer' = [timer EXCEPT ![r] = "none"]

\* Mutant: the shutdown channel is only read while the socket is quiet.
AppShutdown_WhenQuiet(t) ==
  /\ t \in running /\ t \in asked
  /\ \A d \in net : d.to # t
  /\ running' = running \ {t}
  /\ IF t \in Router
     THEN /\ state' = [state EXCEPT ![t] = "Idle"]
          /\ handles' = handles \ {t}
          /\ Aborted(t)
          /\ timer_rx' = [timer_rx EXCEPT ![t] = 0]
     ELSE /\ state' = [state EXCEPT ![t] = "Listening"]
          /\ UNCHANGED <<handles, timer, timer_rx>>
  /\ backoff' = backoff \ {t}
  /\ UNCHANGED <<asked, net, connected, offered>>

\* The machine cancels its timer, the task returns.
AppShutdown(t) ==
  /\ t \in running /\ t \in asked
  /\ running' = running \ {t}
  /\ IF t \in Router
     THEN /\ state' = [state EXCEPT ![t] = "Idle"]
          /\ handles' = handles \ {t}
          /\ Aborted(t)
          /\ timer_rx' = [timer_rx EXCEPT ![t] = 0]
     ELSE /\ state' = [state EXCEPT ![t] = "Listening"]
          /\ UNCHANGED <<handles, timer, timer_rx>>
  /\ backoff' = backoff \ {t}
  /\ UNCHANGED <<asked, net, connected, offered>>

-----------------------------------------------------------------------------
(* The surroundings: the network, TCP connections, the router's driver.     *)

\* While a task backs off its socket keeps what arrives.
Lose(d) ==
  /\ d \in net /\ d.to \notin backoff
  /\ net' = net \ {d}
  /\ UNCHANGED <<machines, connected, offered>>

Junk(d) ==
  /\ d.kind = "junk" /\ d \notin net
  /\ net' = net \cup {d}
  /\ UNCHANGED <<machines, connected, offered>>

Connect(r, m) ==
  /\ connected' = connected \cup {<<r, m>>}
  /\ UNCHANGED <<machines, net, offered>>

Disconnect(r, m) ==
  /\ connected' = connected \ {<<r, m>>}
  /\ UNCHANGED <<machines, net, offered>>

ReadEvent(r, m) ==
  /\ m \in offered[r]
  /\ offered' = [offered EXCEPT ![r] = @ \ {m}]
  /\ UNCHANGED <<machines, net, connected>>

Recv(d) ==
  \/ d.to \in Router /\ RecvOffer(d.to, d)
  \/ d.to \in Modem /\ RecvDiscovery(d.to, d)
  \/ RecvJunk(d.to, d)

DiscoveryNext ==
  \/ \E r \in Router : AppStartDiscovery(r) \/ Wake(r) \/ Ring(r) \/ TimerExpired(r)
  \/ \E d \in Datagram : Recv(d) \/ Lose(d) \/ Junk(d)
  \/ \E t \in Task : RecvFails(t) \/ BackoffEnds(t) \/ AskToStop(t) \/ AppShutdown(t)
  \/ \E r \in Router, m \in Modem : Connect(r, m) \/ Disconnect(r, m) \/ ReadEvent(r, m)

DiscoverySpec == DiscoveryInit /\ [][DiscoveryNext]_discoveryVars

\* select! takes each branch that is ready again and again; sleeps end; a
\* datagram that is sent again and again arrives in the end.
DiscoveryFairness ==
  /\ \A r \in Router :
       /\ WF_discoveryVars(Wake(r)) /\ SF_discoveryVars(Ring(r))
       /\ SF_discoveryVars(TimerExpired(r))
  /\ \A d \in Datagram : SF_discoveryVars(Recv(d))
  /\ \A t \in Task : WF_discoveryVars(BackoffEnds(t)) /\ WF_discoveryVars(AppShutdown(t))

DiscoveryFairSpec == DiscoverySpec /\ DiscoveryFairness

-----------------------------------------------------------------------------
(* Properties.                                                              *)

\* A router with a TCP connection to a modem is not answered: no new offer to
\* it appears while the connection is there (RFC 8175 7.1, "an existing TCP
\* connection suppresses discovery").
ConnectedRoutersAreIgnored ==
  [][\A r \in Router, m \in Modem :
       LET offer == [kind |-> "PeerOffer", from |-> m, to |-> r]
       IN  <<r, m>> \in connected /\ offer \notin net => offer \notin net']_discoveryVars

\* Also after offers it has had, connections that came and went, lost and
\* malformed datagrams and failing sockets: a probing router is told of each
\* modem that runs and that it is not connected to ("Remain probing: later
\* offers may describe other modems or a modem that restarted").
ModemsAreFound ==
  \A r \in Router, m \in Modem :
    (r \in running /\ m \in running) ~>
      (r \notin running \/ m \notin running \/ <<r, m>> \in connected \/ m \in offered[r])

\* A discovery task that is asked to stop, or whose owner is gone, ends, also
\* while junk keeps its socket readable or it backs off, and its probe timer
\* with it ("otherwise the receive loop and periodic probe task outlive the last
\* shutdown sender").
DiscoveryStops ==
  /\ \A t \in Task : t \in asked ~> t \notin running
  /\ \A r \in Router : r \in asked ~> timer[r] = "none"
=============================================================================
