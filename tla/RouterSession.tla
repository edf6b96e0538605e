--------------------------- MODULE RouterSession ---------------------------
(***************************************************************************)
(* The router's session state machine, RouterSessionFsm::step              *)
(* (crates/dlep-fsm/src/session_router.rs): one action per arm.            *)
(*                                                                         *)
(* An arm returns a list of FsmActions.  SendMessage appends to toModem;   *)
(* StartTimer, CancelTimer and ResetHeartbeat change rTimers, the timers   *)
(* the runtime has armed; Emit(SessionDown) sets rDown; CloseTcp is the    *)
(* move to "Terminated", after which the runtime drops the socket.  No arm *)
(* sends more than one message.                                            *)
(*                                                                         *)
(* A command check_command refuses changes nothing but an event            *)
(* (CommandRejected), so refusals are the commands' guards.                *)
(*                                                                         *)
(* RouterAnyPeer runs the machine against a peer that may send any message *)
(* at any time; DlepSession composes it with the modem's machine.          *)
(***************************************************************************)
EXTENDS DlepMessages

VARIABLES
  rState,           \* RouterSessionState
  rReason,          \* termination_reason
  rTimers,          \* the timers the runtime has armed for this session
  rDown,            \* the status of the emitted SessionDown, or NoStatus
  rTxSession,       \* tx.session_pending
  rTxDest,          \* tx.per_destination
  rUp,              \* the keys of destinations (every entry has up: true)
  rMetrics,         \* their metrics, NoMetrics outside rUp
  rAddrs,           \* their addresses, {} outside rUp
  rSessionMetrics,  \* session_metrics (initialization sets every item)
  rMetricTypes,     \* session_metric_types
  rPeerAddrs,       \* peer_addresses
  rLocalAddrs,      \* local_addresses
  toModem           \* messages sent and not yet read by the peer

rControl == <<rState, rReason, rTimers, rDown>>
rTx == <<rTxSession, rTxDest>>
rDests == <<rUp, rMetrics, rAddrs>>
rPeer == <<rSessionMetrics, rMetricTypes, rPeerAddrs>>
routerVars == <<rControl, rTx, rDests, rPeer, rLocalAddrs, toModem>>

RouterState ==
  {"Closed", "SessionInitPending", "InSession", "Terminating", "Terminated"}

\* The state of RouterSession, of its transactions and of what the router's
\* application knows.
RouterTypeOK ==
  /\ rState \in RouterState
  /\ rReason \in Status
  /\ rTimers \subseteq Timer
  /\ rDown \in MaybeStatus
  /\ rTxSession \in SessionSlot
  /\ rTxDest \in [MAC -> DestSlot]
  /\ rUp \subseteq MAC
  /\ rMetrics \in [MAC -> Metrics]
  /\ rAddrs \in [MAC -> SUBSET Addr]
  /\ rSessionMetrics \in Metrics
  /\ rMetricTypes \subseteq MetricItem
  /\ rPeerAddrs \subseteq Addr
  /\ rLocalAddrs \subseteq Addr
  /\ toModem \in Seq(Message)

RouterInit ==
  /\ rState = "Closed"
  /\ rReason = "SUCCESS"
  /\ rTimers = {}
  /\ rDown = NoStatus
  /\ rTxSession = Idle
  /\ rTxDest = [m \in MAC |-> Idle]
  /\ rUp = {}
  /\ rMetrics = [m \in MAC |-> NoMetrics]
  /\ rAddrs = [m \in MAC |-> {}]
  /\ rSessionMetrics = NoMetrics
  /\ rMetricTypes = {}
  /\ rPeerAddrs = {}
  /\ rLocalAddrs = {}
  /\ toModem = <<>>

-----------------------------------------------------------------------------
(* Steps that several arms share.                                           *)

RouterSend(msg) == toModem' = Append(toModem, msg)

RouterHeartbeatReset == rTimers' = rTimers \cup {"HeartbeatMissed"}

RouterTerminated(status) ==
  /\ rState' = "Terminated"
  /\ rDown' = status
  /\ UNCHANGED <<rReason, rTx, rDests, rPeer, rLocalAddrs>>

\* Mutant: the timers of the session are not cancelled.
RouterTerminating_KeepsTimers(reason, cancelled) ==
  /\ rState' = "Terminating"
  /\ rReason' = reason
  /\ rTimers' = rTimers \cup {"Termination"}
  /\ RouterSend(Termination(reason))
  /\ UNCHANGED <<rDown, rTx, rDests, rPeer, rLocalAddrs>>

RouterTerminating(reason, cancelled) ==
  /\ rState' = "Terminating"
  /\ rReason' = reason
  /\ rTimers' = (rTimers \ cancelled) \cup {"Termination"}
  /\ RouterSend(Termination(reason))
  /\ UNCHANGED <<rDown, rTx, rDests, rPeer, rLocalAddrs>>

\* Mutant: an error while terminating starts another termination.
RouterProtocolError_Again(code) ==
  /\ rState # "Terminated"
  /\ RouterTerminating(code, {"SessionInit", "Heartbeat", "HeartbeatMissed"})

RouterProtocolError(code) ==
  /\ rState \notin {"Terminating", "Terminated"}
  /\ RouterTerminating(code, {"SessionInit", "Heartbeat", "HeartbeatMissed"})

\* Mutant: only the peer's own addresses are protected.
destination_address_changes_PeerOnly(mac, ch) ==
  [ch EXCEPT !.added = {a \in ch.added : a \in ch.removed \/ a \notin rPeerAddrs}]

\* A destination may not claim an address of the peer or of another
\* destination, unless the message also removes it (then it has no effect).
destination_address_changes(mac, ch) ==
  [ch EXCEPT !.added =
     {a \in ch.added :
        \/ a \in ch.removed
        \/ /\ a \notin rPeerAddrs
           /\ \A other \in rUp \ {mac} : a \notin rAddrs[other]}]

RouterInsert(mac, msg) ==
  /\ rUp' = rUp \cup {mac}
  /\ rMetrics' = [rMetrics EXCEPT
       ![mac] = merge_link_metrics(msg.metrics, rSessionMetrics)]
  /\ rAddrs' = [rAddrs EXCEPT
       ![mac] = apply_lenient({}, destination_address_changes(mac, msg.addrs))]

RouterRemove(mac) ==
  /\ rUp' = rUp \ {mac}
  /\ rMetrics' = [rMetrics EXCEPT ![mac] = NoMetrics]
  /\ rAddrs' = [rAddrs EXCEPT ![mac] = {}]

-----------------------------------------------------------------------------
(* The checks at the start of step, in their order.  "SUCCESS" lets the     *)
(* message reach its arm; any other result goes to protocol_error.          *)

RouterVerdict(msg) ==
  LET initializing == rState = "SessionInitPending"
      slot == IF msg.mac = NoMac THEN Idle ELSE rTxDest[msg.mac]
      items == validate_message(msg, TRUE, initializing)
  IN  IF msg.type # "SESSION_TERMINATION" /\ terminates_session(msg.status)
      THEN msg.status
      ELSE IF items # "SUCCESS"
      THEN items
      ELSE IF /\ initializing \/ msg.type = "SESSION_UPDATE"
              /\ ~StrictOk(rPeerAddrs, msg.addrs)
      THEN "INVALID_DATA"
      ELSE IF initializing
      THEN "SUCCESS"
      ELSE IF \/ ~(Supplied(msg.metrics) \subseteq rMetricTypes)
              \/ /\ msg.type = "LINK_CHARACTERISTICS_RESPONSE"
                 /\ Supplied(msg.metrics) # rMetricTypes
      THEN "INVALID_DATA"
      ELSE validate_transaction(msg, rTxSession, slot, msg.mac \in rUp)

RouterAccepts(type, msg) ==
  /\ rState = "InSession"
  /\ msg.type = type
  /\ RouterVerdict(msg) = "SUCCESS"

RouterRecvInvalid(msg) ==
  /\ rState \in {"SessionInitPending", "InSession"}
  /\ RouterVerdict(msg) # "SUCCESS"
  /\ RouterProtocolError(RouterVerdict(msg))

RouterDecodeError == rState # "Closed" /\ RouterProtocolError("INVALID_DATA")

-----------------------------------------------------------------------------
(* Session establishment.                                                   *)

RouterTcpConnected ==
  /\ rState = "Closed"
  /\ rState' = "SessionInitPending"
  /\ rTimers' = rTimers \cup {"SessionInit"}
  /\ RouterSend(Bare("SESSION_INITIALIZATION"))
  /\ UNCHANGED <<rReason, rDown, rTx, rDests, rPeer, rLocalAddrs>>

RouterRecvInitResponse(msg) ==
  /\ rState = "SessionInitPending"
  /\ RouterVerdict(msg) = "SUCCESS"
  /\ msg.status = "SUCCESS"
  /\ rPeerAddrs' = msg.addrs.added
  /\ rSessionMetrics' = merge_link_metrics(msg.metrics, rSessionMetrics)
  /\ rMetricTypes' = Supplied(msg.metrics)
  /\ rState' = "InSession"
  /\ rTimers' = (rTimers \ {"SessionInit"}) \cup {"Heartbeat", "HeartbeatMissed"}
  /\ UNCHANGED <<rReason, rDown, rTx, rDests, rLocalAddrs, toModem>>

RouterRecvInitRefused(msg) ==
  /\ rState = "SessionInitPending"
  /\ RouterVerdict(msg) = "SUCCESS"
  /\ msg.status # "SUCCESS"
  /\ RouterProtocolError("UNEXPECTED_MESSAGE")

-----------------------------------------------------------------------------
(* Messages in session.                                                     *)

\* Mutant: a termination by the peer counts as a lost peer.
RouterRecvTermination_TimesOut(msg) ==
  /\ RouterAccepts("SESSION_TERMINATION", msg)
  /\ rTimers' = rTimers \ {"Heartbeat", "HeartbeatMissed"}
  /\ RouterSend(Bare("SESSION_TERMINATION_RESPONSE"))
  /\ RouterTerminated("TIMED_OUT")

RouterRecvTermination(msg) ==
  /\ RouterAccepts("SESSION_TERMINATION", msg)
  /\ rTimers' = rTimers \ {"Heartbeat", "HeartbeatMissed"}
  /\ RouterSend(Bare("SESSION_TERMINATION_RESPONSE"))
  /\ RouterTerminated(msg.status)

RouterRecvDestinationUp(msg) ==
  /\ RouterAccepts("DESTINATION_UP", msg)
  /\ RouterInsert(msg.mac, msg)
  /\ RouterSend(DestMsg("DESTINATION_UP_RESPONSE", msg.mac, "SUCCESS"))
  /\ RouterHeartbeatReset
  /\ UNCHANGED <<rState, rReason, rDown, rTx, rPeer, rLocalAddrs>>

RouterRecvDestinationUpdate(msg) ==
  /\ RouterAccepts("DESTINATION_UPDATE", msg)
  /\ rMetrics' = [rMetrics EXCEPT ![msg.mac] = merge_link_metrics(msg.metrics, @)]
  /\ rAddrs' = [rAddrs EXCEPT
       ![msg.mac] = apply_lenient(@, destination_address_changes(msg.mac, msg.addrs))]
  /\ RouterHeartbeatReset
  /\ UNCHANGED <<rState, rReason, rDown, rTx, rUp, rPeer, rLocalAddrs, toModem>>

RouterRecvDestinationDown(msg) ==
  /\ RouterAccepts("DESTINATION_DOWN", msg)
  /\ RouterRemove(msg.mac)
  /\ RouterSend(DestMsg("DESTINATION_DOWN_RESPONSE", msg.mac, "SUCCESS"))
  /\ RouterHeartbeatReset
  /\ UNCHANGED <<rState, rReason, rDown, rTx, rPeer, rLocalAddrs>>

RouterRecvDownResponse(msg) ==
  /\ RouterAccepts("DESTINATION_DOWN_RESPONSE", msg)
  /\ rTxDest' = [rTxDest EXCEPT ![msg.mac] = Idle]
  /\ RouterRemove(msg.mac)
  /\ RouterHeartbeatReset
  /\ UNCHANGED <<rState, rReason, rDown, rTxSession, rPeer, rLocalAddrs, toModem>>

RouterRecvSessionUpdate(msg) ==
  /\ RouterAccepts("SESSION_UPDATE", msg)
  /\ RouterSend(SessionMsg("SESSION_UPDATE_RESPONSE", "SUCCESS", NoMetrics, NoChanges))
  /\ rPeerAddrs' = apply_lenient(rPeerAddrs, msg.addrs)
  /\ rSessionMetrics' = merge_link_metrics(msg.metrics, rSessionMetrics)
  /\ rMetrics' = [m \in MAC |-> IF m \in rUp
                                THEN merge_link_metrics(msg.metrics, rMetrics[m])
                                ELSE rMetrics[m]]
  /\ RouterHeartbeatReset
  /\ UNCHANGED <<rState, rReason, rDown, rTx, rUp, rAddrs, rMetricTypes, rLocalAddrs>>

RouterRecvSessionUpdateResponse(msg) ==
  /\ RouterAccepts("SESSION_UPDATE_RESPONSE", msg)
  /\ rTxSession' = Idle
  /\ RouterHeartbeatReset
  /\ UNCHANGED <<rState, rReason, rDown, rTxDest, rDests, rPeer, rLocalAddrs, toModem>>

\* Mutant: a refused Announce leaves its request open.
RouterRecvAnnounceResponse_Leaks(msg) ==
  /\ RouterAccepts("DESTINATION_ANNOUNCE_RESPONSE", msg)
  /\ IF msg.status = "SUCCESS"
     THEN RouterInsert(msg.mac, msg) /\ rTxDest' = [rTxDest EXCEPT ![msg.mac] = Idle]
     ELSE UNCHANGED <<rDests, rTxDest>>
  /\ RouterHeartbeatReset
  /\ UNCHANGED <<rState, rReason, rDown, rTxSession, rPeer, rLocalAddrs, toModem>>

RouterRecvAnnounceResponse(msg) ==
  /\ RouterAccepts("DESTINATION_ANNOUNCE_RESPONSE", msg)
  /\ rTxDest' = [rTxDest EXCEPT ![msg.mac] = Idle]
  /\ IF msg.status = "SUCCESS" THEN RouterInsert(msg.mac, msg) ELSE UNCHANGED rDests
  /\ RouterHeartbeatReset
  /\ UNCHANGED <<rState, rReason, rDown, rTxSession, rPeer, rLocalAddrs, toModem>>

RouterRecvLinkResponse(msg) ==
  /\ RouterAccepts("LINK_CHARACTERISTICS_RESPONSE", msg)
  /\ rMetrics' = [rMetrics EXCEPT ![msg.mac] = merge_link_metrics(msg.metrics, @)]
  /\ rTxDest' = [rTxDest EXCEPT ![msg.mac] = Idle]
  /\ RouterHeartbeatReset
  /\ UNCHANGED <<rState, rReason, rDown, rTxSession, rUp, rAddrs, rPeer,
                 rLocalAddrs, toModem>>

RouterRecvHeartbeat(msg) ==
  /\ RouterAccepts("HEARTBEAT", msg)
  /\ RouterHeartbeatReset
  /\ UNCHANGED <<rState, rReason, rDown, rTx, rDests, rPeer, rLocalAddrs, toModem>>

-----------------------------------------------------------------------------
(* Application commands: check_command, then the arm.                       *)

RouterCommandReady(mac) == rState = "InSession" /\ rTxDest[mac] = Idle

RouterOpen(mac, kind, request) ==
  /\ rTxDest' = [rTxDest EXCEPT ![mac] = kind]
  /\ RouterSend(DestMsg(request, mac, NoStatus))
  /\ UNCHANGED <<rControl, rTxSession, rDests, rPeer, rLocalAddrs>>

RouterAppDropDestination(mac) ==
  /\ RouterCommandReady(mac)
  /\ mac \in rUp
  /\ RouterOpen(mac, "DestinationDown", "DESTINATION_DOWN")

RouterAppAnnounceDestination(mac) ==
  /\ RouterCommandReady(mac)
  /\ mac \notin rUp
  /\ RouterOpen(mac, "DestinationAnnounce", "DESTINATION_ANNOUNCE")

RouterAppRequestLinkCharacteristics(mac) ==
  /\ RouterCommandReady(mac)
  /\ mac \in rUp
  /\ RouterOpen(mac, "LinkCharacteristics", "LINK_CHARACTERISTICS_REQUEST")

RouterAppSessionAddresses(ch) ==
  LET desired == apply_lenient(rLocalAddrs, ch)
      effective == between(rLocalAddrs, desired)
  IN  /\ rState = "InSession"
      /\ rTxSession = Idle
      /\ validate(ch)
      /\ effective # NoChanges
      /\ rTxSession' = "SessionUpdate"
      /\ rLocalAddrs' = desired
      /\ RouterSend(SessionMsg("SESSION_UPDATE", NoStatus, NoMetrics, effective))
      /\ UNCHANGED <<rControl, rTxDest, rDests, rPeer>>

RouterAppShutdown(reason) ==
  \/ /\ rState = "Closed"
     /\ rState' = "Terminated"
     /\ UNCHANGED <<rReason, rTimers, rDown, rTx, rDests, rPeer, rLocalAddrs, toModem>>
  \/ /\ rState = "SessionInitPending"
     /\ rTimers' = rTimers \ {"SessionInit"}
     /\ RouterTerminated(reason)
     /\ UNCHANGED toModem
  \/ /\ rState = "InSession"
     /\ RouterTerminating(reason, {"Heartbeat", "HeartbeatMissed"})

-----------------------------------------------------------------------------
(* Timers.  The runtime forgets a one-shot timer when it fires; the         *)
(* heartbeat timer is periodic and stays armed.                             *)

RouterSessionInitTimeout ==
  /\ rState = "SessionInitPending"
  /\ "SessionInit" \in rTimers
  /\ rTimers' = rTimers \ {"SessionInit"}
  /\ RouterTerminated("TIMED_OUT")
  /\ UNCHANGED toModem

RouterHeartbeatTick ==
  /\ rState = "InSession"
  /\ "Heartbeat" \in rTimers
  /\ RouterSend(Bare("HEARTBEAT"))
  /\ UNCHANGED <<rControl, rTx, rDests, rPeer, rLocalAddrs>>

RouterHeartbeatMissed ==
  /\ rState = "InSession"
  /\ "HeartbeatMissed" \in rTimers
  /\ RouterTerminating("TIMED_OUT", {"Heartbeat", "HeartbeatMissed"})

RouterTerminationTimeout ==
  /\ rState = "Terminating"
  /\ "Termination" \in rTimers
  /\ rTimers' = rTimers \ {"Termination"}
  /\ RouterTerminated("TIMED_OUT")
  /\ UNCHANGED toModem

-----------------------------------------------------------------------------
(* The end of the session.                                                  *)

RouterRecvTerminationResponse(msg) ==
  /\ rState = "Terminating"
  /\ msg.type = "SESSION_TERMINATION_RESPONSE"
  /\ rTimers' = rTimers \ {"Termination"}
  /\ RouterTerminated(rReason)
  /\ UNCHANGED toModem

\* Everything else is ignored while terminating, a Termination of the peer's
\* included.
RouterIgnore(msg) ==
  /\ rState = "Terminating"
  /\ msg.type # "SESSION_TERMINATION_RESPONSE"
  /\ UNCHANGED routerVars

RouterClosedWhileTerminating ==
  /\ rState = "Terminating"
  /\ rTimers' = rTimers \ {"Termination"}
  /\ RouterTerminated(rReason)
  /\ UNCHANGED toModem

RouterTcpClosed ==
  \/ /\ rState = "Closed"
     /\ rState' = "Terminated"
     /\ UNCHANGED <<rReason, rTimers, rDown, rTx, rDests, rPeer, rLocalAddrs, toModem>>
  \/ /\ rState = "SessionInitPending"
     /\ RouterTerminated("TIMED_OUT")
     /\ UNCHANGED <<rTimers, toModem>>
  \/ /\ rState = "InSession"
     /\ rTimers' = rTimers \ {"Heartbeat", "HeartbeatMissed"}
     /\ RouterTerminated("TIMED_OUT")
     /\ UNCHANGED toModem
  \/ RouterClosedWhileTerminating

RouterRecv(msg) ==
  \/ RouterRecvInvalid(msg)
  \/ RouterRecvInitResponse(msg)
  \/ RouterRecvInitRefused(msg)
  \/ RouterRecvTermination(msg)
  \/ RouterRecvDestinationUp(msg)
  \/ RouterRecvDestinationUpdate(msg)
  \/ RouterRecvDestinationDown(msg)
  \/ RouterRecvDownResponse(msg)
  \/ RouterRecvSessionUpdate(msg)
  \/ RouterRecvSessionUpdateResponse(msg)
  \/ RouterRecvAnnounceResponse(msg)
  \/ RouterRecvLinkResponse(msg)
  \/ RouterRecvHeartbeat(msg)
  \/ RouterRecvTerminationResponse(msg)
  \/ RouterIgnore(msg)

RouterDestCommand(mac) ==
  \/ RouterAppDropDestination(mac)
  \/ RouterAppAnnounceDestination(mac)
  \/ RouterAppRequestLinkCharacteristics(mac)

RouterDeadline ==
  \/ RouterSessionInitTimeout
  \/ RouterHeartbeatMissed
  \/ RouterTerminationTimeout

-----------------------------------------------------------------------------
(* Properties.                                                              *)

\* Every state that waits for the peer has exactly the deadline that ends
\* the wait, and no timer of an earlier state survives into a later one.
\* (Arming and cancelling are spread over twelve arms of step.)
RouterTimersMatchState ==
  /\ rState = "Closed" => rTimers = {}
  /\ rState = "SessionInitPending" => rTimers = {"SessionInit"}
  /\ rState = "InSession" => rTimers = {"Heartbeat", "HeartbeatMissed"}
  /\ rState = "Terminating" => rTimers = {"Termination"}

\* What the expect calls of the arms rely on: while a Down or a link request
\* is open its destination exists ("pending destination"), and an Announce is
\* only open for one that does not, whatever the peer sends meanwhile.
RouterRequestsMatchDestinations ==
  \A m \in MAC :
    /\ rTxDest[m] \in {"DestinationDown", "LinkCharacteristics"} => m \in rUp
    /\ rTxDest[m] = "DestinationAnnounce" => m \notin rUp
    /\ rTxDest[m] # "DestinationUp"

\* No address belongs to two destinations: destination_address_changes never
\* lets a destination take over an address another one holds.
RouterAddressesHaveOneOwner ==
  \A m, n \in rUp : m # n => rAddrs[m] \cap rAddrs[n] = {}

\* A session starts with no destination and no metric.  In session, the
\* session and every destination hold a value for exactly the metrics the
\* modem declared in its initialization response; only then is a link
\* characteristics answer, which must carry exactly those, a complete one.
RouterMetricsAreDeclared ==
  /\ rState \in {"Closed", "SessionInitPending"} =>
       rUp = {} /\ Supplied(rSessionMetrics) = {}
  /\ rState = "InSession" =>
       /\ Mandatory \subseteq rMetricTypes
       /\ Supplied(rSessionMetrics) = rMetricTypes
       /\ \A m \in rUp : Supplied(rMetrics[m]) = rMetricTypes

\* Once it has sent a Session Termination, or has ended, the router sends
\* nothing more (terminating sessions ignore messages), and a session that
\* has ended stays ended with the reason it reported.
RouterQuietAfterTermination ==
  [][/\ rState \in {"Terminating", "Terminated"} => Len(toModem') <= Len(toModem)
     /\ rState = "Terminated" => rState' = rState /\ rDown' = rDown]_routerVars
=============================================================================
