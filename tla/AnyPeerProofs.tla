---------------------------- MODULE AnyPeerProofs ---------------------------
(***************************************************************************)
(* Proofs that the invariants of RouterSession and of ModemSession hold for*)
(* every set of destinations, addresses and metrics, and for every peer;   *)
(* and what each of the two sends.                                         *)
(***************************************************************************)
EXTENDS AnyPeer, SessionMessages, TLAPS

\* A leaf that names no prover is for Zenon.
USE ZenonT(60)

-----------------------------------------------------------------------------
(* Messages.                                                                *)

\* A message may carry no metrics and no address changes.
LEMMA NoDataTypes == NoMetrics \in Metrics /\ NoChanges \in AddressChanges
  BY DEF NoMetrics, Metrics, NoChanges, AddressChanges

\* What the router sends is a message.
LEMMA SentMessages ==
  /\ \A type \in MessageType : Bare(type) \in Message
  /\ \A status \in MaybeStatus : Termination(status) \in Message
  /\ \A type \in MessageType, mac \in MAC, status \in MaybeStatus :
       DestMsg(type, mac, status) \in Message
  /\ \A type \in MessageType, status \in MaybeStatus, ch \in AddressChanges :
       SessionMsg(type, status, NoMetrics, ch) \in Message
  <1>1. /\ NoStatus \in MaybeStatus
        /\ "SESSION_TERMINATION" \in MessageType
    BY DEF MaybeStatus, MessageType, SessionTypes
  <1>2. QED
    BY <1>1, NoDataTypes DEF Bare, Termination, DestMsg, SessionMsg, Msg, Message

\* merge_link_metrics yields metrics, those that either operand supplies.
LEMMA MergeType ==
  ASSUME NEW x \in Metrics, NEW y \in Metrics
  PROVE  /\ merge_link_metrics(x, y) \in Metrics
         /\ Supplied(merge_link_metrics(x, y)) = Supplied(x) \cup Supplied(y)
  BY DEF merge_link_metrics, Metrics, Supplied

\* Merging declared metrics into a set that has them adds none, and merging
\* into an empty set leaves what was supplied.
LEMMA MergeSupplied ==
  ASSUME NEW x \in Metrics, NEW y \in Metrics
  PROVE  /\ Supplied(x) \subseteq Supplied(y)
              => Supplied(merge_link_metrics(x, y)) = Supplied(y)
         /\ Supplied(y) = {} => Supplied(merge_link_metrics(x, y)) = Supplied(x)
  <1>1. Supplied(merge_link_metrics(x, y)) = Supplied(x) \cup Supplied(y)
    BY MergeType
  <1>2. QED
    BY <1>1

\* apply_lenient yields addresses.
LEMMA ApplyType ==
  ASSUME NEW ch \in AddressChanges, NEW addrs \in SUBSET Addr
  PROVE  apply_lenient(addrs, ch) \in SUBSET Addr
  BY DEF apply_lenient, AddressChanges

\* The difference of two address sets is a change of addresses.
LEMMA BetweenType ==
  ASSUME NEW old \in SUBSET Addr, NEW new \in SUBSET Addr
  PROVE  between(old, new) \in AddressChanges
  BY DEF between, AddressChanges

\* A message of a destination type that passes validate_message has a MAC.
LEMMA DestinationMessagesHaveMac ==
  ASSUME NEW msg \in Message, msg.type \in RouterTypes,
         validate_message(msg, TRUE, FALSE) = "SUCCESS"
  PROVE  msg.mac \in MAC
  <1>1. WellFormed(msg, TRUE, FALSE)
    BY DEF validate_message, Expected, RouterTypes
  <1>2. "mac" \in Required(msg.type)
    BY DEF Required, RouterTypes
  <1>3. "mac" \in Items(msg)
    BY <1>1, <1>2 DEF WellFormed
  <1>4. QED
    BY <1>3 DEF Items, Message

\* What an accepted message satisfies, from the checks at the start of step.
LEMMA AcceptedMessage ==
  ASSUME NEW msg \in Message, RouterTypeOK, rState = "InSession",
         RouterVerdict(msg) = "SUCCESS"
  PROVE  /\ msg.type \in SessionTypes \cup RouterTypes
         /\ msg.type \in RouterTypes => msg.mac \in MAC
         /\ Supplied(msg.metrics) \subseteq rMetricTypes
         /\ msg.type = "LINK_CHARACTERISTICS_RESPONSE"
              => Supplied(msg.metrics) = rMetricTypes
         /\ msg.type \in RouterTypes =>
              validate_transaction(msg, rTxSession, rTxDest[msg.mac],
                                   msg.mac \in rUp) = "SUCCESS"
  <1> DEFINE slot == IF msg.mac = NoMac THEN Idle ELSE rTxDest[msg.mac]
  <1>1. /\ validate_message(msg, TRUE, FALSE) = "SUCCESS"
        /\ Supplied(msg.metrics) \subseteq rMetricTypes
        /\ msg.type = "LINK_CHARACTERISTICS_RESPONSE"
             => Supplied(msg.metrics) = rMetricTypes
        /\ validate_transaction(msg, rTxSession, slot, msg.mac \in rUp) = "SUCCESS"
    BY DEF RouterVerdict, terminates_session, FatalStatus
  <1>2. msg.type \in SessionTypes \cup RouterTypes
    BY <1>1 DEF validate_message, Expected
  <1>3. msg.type \in RouterTypes => msg.mac \in MAC
    BY <1>1, DestinationMessagesHaveMac
  <1>4. msg.mac \in MAC => slot = rTxDest[msg.mac]
    BY MessageConstants
  <1>5. QED
    BY <1>1, <1>2, <1>3, <1>4

\* What validate_transaction establishes for each destination message.
LEMMA AcceptedDestinationMessage ==
  ASSUME NEW msg \in Message, RouterTypeOK, rState = "InSession",
         RouterVerdict(msg) = "SUCCESS", msg.type \in RouterTypes
  PROVE  /\ msg.type = "DESTINATION_UP"
              => msg.mac \notin rUp /\ rTxDest[msg.mac] = Idle
         /\ msg.type = "DESTINATION_UPDATE" => msg.mac \in rUp
         /\ msg.type = "DESTINATION_DOWN"
              => msg.mac \in rUp /\ rTxDest[msg.mac] = Idle
         /\ msg.type = "DESTINATION_DOWN_RESPONSE"
              => rTxDest[msg.mac] = "DestinationDown"
         /\ msg.type = "DESTINATION_ANNOUNCE_RESPONSE"
              => rTxDest[msg.mac] = "DestinationAnnounce"
         /\ msg.type = "LINK_CHARACTERISTICS_RESPONSE"
              => rTxDest[msg.mac] = "LinkCharacteristics"
  <1>1. validate_transaction(msg, rTxSession, rTxDest[msg.mac], msg.mac \in rUp)
          = "SUCCESS"
    BY AcceptedMessage
  <1>2. ~SlotConflict(msg, rTxSession, rTxDest[msg.mac])
    BY <1>1 DEF validate_transaction
  <1>3. /\ msg.type \in NeedsUp => msg.mac \in rUp
        /\ msg.type \in NeedsDown => msg.mac \notin rUp
    BY <1>1, <1>2 DEF validate_transaction
  <1>4. /\ RequestKindOf(msg.type) \in {Idle, rTxDest[msg.mac]}
        /\ msg.type \in ExclusiveRequest => rTxDest[msg.mac] = Idle
    BY <1>2 DEF SlotConflict
  <1>5. QED
    BY <1>3, <1>4 DEF NeedsUp, NeedsDown, ExclusiveRequest, RequestKindOf, Idle

-----------------------------------------------------------------------------
(* Type correctness.                                                        *)

\* Sending a message keeps the outbound queue one of messages.
LEMMA SendType ==
  ASSUME toModem \in Seq(Message), NEW msg \in Message, RouterSend(msg)
  PROVE  toModem' \in Seq(Message)
  BY SMTT(30) DEF RouterSend

\* Recording a destination keeps the types of the destinations.
LEMMA InsertType ==
  ASSUME RouterTypeOK, NEW msg \in Message, NEW mac \in MAC, RouterInsert(mac, msg)
  PROVE  /\ rUp' \subseteq MAC
         /\ rMetrics' \in [MAC -> Metrics]
         /\ rAddrs' \in [MAC -> SUBSET Addr]
  <1>1. merge_link_metrics(msg.metrics, rSessionMetrics) \in Metrics
    BY MergeType DEF Message, RouterTypeOK
  <1>2. destination_address_changes(mac, msg.addrs) \in AddressChanges
    BY DEF destination_address_changes, Message, AddressChanges
  <1>3. apply_lenient({}, destination_address_changes(mac, msg.addrs)) \in SUBSET Addr
    BY <1>2, ApplyType
  <1>4. QED
    BY <1>1, <1>3 DEF RouterInsert, RouterTypeOK

\* Removing one does too.
LEMMA RemoveType ==
  ASSUME RouterTypeOK, NEW mac \in MAC, RouterRemove(mac)
  PROVE  /\ rUp' \subseteq MAC
         /\ rMetrics' \in [MAC -> Metrics]
         /\ rAddrs' \in [MAC -> SUBSET Addr]
  BY NoDataTypes DEF RouterRemove, RouterTypeOK

\* Starting a termination keeps the types.
LEMMA TerminatingType ==
  ASSUME RouterTypeOK, NEW reason \in Status, NEW cancelled \in SUBSET Timer,
         RouterTerminating(reason, cancelled)
  PROVE  RouterTypeOK'
  <1>1. Termination(reason) \in Message
    BY SentMessages DEF MaybeStatus
  <1>2. toModem' \in Seq(Message)
    BY <1>1, SendType DEF RouterTerminating, RouterTypeOK
  <1>3. QED
    BY <1>2 DEF RouterTerminating, RouterTypeOK, RouterState, Timer, rTx, rDests, rPeer

\* So does protocol_error, which starts one.
LEMMA ProtocolErrorType ==
  ASSUME RouterTypeOK, NEW code \in Status, RouterProtocolError(code)
  PROVE  RouterTypeOK'
  <1>1. {"SessionInit", "Heartbeat", "HeartbeatMissed"} \in SUBSET Timer
    BY DEF Timer
  <1>2. QED
    BY <1>1, TerminatingType DEF RouterProtocolError

\* So does the end of the session.
LEMMA TerminatedType ==
  ASSUME RouterTypeOK, NEW status \in MaybeStatus, RouterTerminated(status),
         rTimers' \subseteq rTimers, toModem' \in Seq(Message)
  PROVE  RouterTypeOK'
  BY DEF RouterTerminated, RouterTypeOK, RouterState, rTx, rDests, rPeer

\* The result of the checks is a status code.
LEMMA VerdictType ==
  ASSUME RouterTypeOK, NEW msg \in Message
  PROVE  RouterVerdict(msg) \in Status
  <1>1. \A init \in BOOLEAN : validate_message(msg, TRUE, init) \in Status
    BY DEF validate_message, Status, FatalStatus
  <1>2. \A slot : validate_transaction(msg, rTxSession, slot, msg.mac \in rUp) \in Status
    BY DEF validate_transaction, Status, FatalStatus
  <1>3. "INVALID_DATA" \in Status /\ "SUCCESS" \in Status
    BY DEF Status, FatalStatus
  <1>4. terminates_session(msg.status) => msg.status \in Status
    BY DEF terminates_session, Status
  <1>5. QED
    BY <1>1, <1>2, <1>3, <1>4 DEF RouterVerdict

\* Every message keeps the types.
LEMMA RecvType ==
  ASSUME RouterTypeOK, NEW msg \in Message, RouterRecv(msg)
  PROVE  RouterTypeOK'
  <1> USE DEF RouterState, Timer, rTx, rDests, rPeer
  <1>1. CASE RouterRecvInvalid(msg)
    BY <1>1, VerdictType, ProtocolErrorType DEF RouterRecvInvalid
  <1>2. CASE RouterRecvInitResponse(msg)
    <2>1. /\ msg.addrs.added \subseteq Addr
          /\ merge_link_metrics(msg.metrics, rSessionMetrics) \in Metrics
          /\ Supplied(msg.metrics) \subseteq MetricItem
      BY MergeType DEF Message, AddressChanges, RouterTypeOK, Supplied
    <2>2. QED
      BY <1>2, <2>1 DEF RouterRecvInitResponse, RouterTypeOK
  <1>3. CASE RouterRecvInitRefused(msg)
    <2>1. "UNEXPECTED_MESSAGE" \in Status
      BY DEF Status, FatalStatus
    <2>2. QED
      BY <1>3, <2>1, ProtocolErrorType DEF RouterRecvInitRefused
  <1>4. CASE RouterRecvTermination(msg)
    <2>1. Bare("SESSION_TERMINATION_RESPONSE") \in Message
      BY SentMessages DEF MessageType
    <2>2. toModem' \in Seq(Message)
      BY <1>4, <2>1, SendType DEF RouterRecvTermination, RouterTypeOK
    <2>3. msg.status \in MaybeStatus
      BY DEF Message
    <2>4. QED
      BY <1>4, <2>2, <2>3, TerminatedType DEF RouterRecvTermination
  <1>5. CASE RouterRecvDestinationUp(msg)
    <2>1. msg.mac \in MAC
      BY <1>5, AcceptedMessage DEF RouterRecvDestinationUp, RouterAccepts, RouterTypes
    <2>2. DestMsg("DESTINATION_UP_RESPONSE", msg.mac, "SUCCESS") \in Message
      BY <2>1, SentMessages DEF MessageType, ModemTypes, MaybeStatus, Status
    <2>3. toModem' \in Seq(Message)
      BY <1>5, <2>2, SendType DEF RouterRecvDestinationUp, RouterTypeOK
    <2>4. /\ rUp' \subseteq MAC
          /\ rMetrics' \in [MAC -> Metrics]
          /\ rAddrs' \in [MAC -> SUBSET Addr]
      BY <1>5, <2>1, InsertType DEF RouterRecvDestinationUp
    <2>5. QED
      BY <1>5, <2>3, <2>4
      DEF RouterRecvDestinationUp, RouterHeartbeatReset, RouterTypeOK
  <1>6. CASE RouterRecvDestinationUpdate(msg)
    <2>1. destination_address_changes(msg.mac, msg.addrs) \in AddressChanges
      BY DEF destination_address_changes, Message, AddressChanges
    <2>2. /\ \A x \in Metrics : merge_link_metrics(msg.metrics, x) \in Metrics
          /\ \A x \in SUBSET Addr :
               apply_lenient(x, destination_address_changes(msg.mac, msg.addrs))
                 \in SUBSET Addr
      BY <2>1, MergeType, ApplyType DEF Message
    <2>3. QED
      BY <1>6, <2>2 DEF RouterRecvDestinationUpdate, RouterHeartbeatReset, RouterTypeOK
  <1>7. CASE RouterRecvDestinationDown(msg)
    <2>1. msg.mac \in MAC
      BY <1>7, AcceptedMessage DEF RouterRecvDestinationDown, RouterAccepts, RouterTypes
    <2>2. DestMsg("DESTINATION_DOWN_RESPONSE", msg.mac, "SUCCESS") \in Message
      BY <2>1, SentMessages DEF MessageType, ModemTypes, MaybeStatus, Status
    <2>3. toModem' \in Seq(Message)
      BY <1>7, <2>2, SendType DEF RouterRecvDestinationDown, RouterTypeOK
    <2>4. /\ rUp' \subseteq MAC
          /\ rMetrics' \in [MAC -> Metrics]
          /\ rAddrs' \in [MAC -> SUBSET Addr]
      BY <1>7, <2>1, RemoveType DEF RouterRecvDestinationDown
    <2>5. QED
      BY <1>7, <2>3, <2>4
      DEF RouterRecvDestinationDown, RouterHeartbeatReset, RouterTypeOK
  <1>8. CASE RouterRecvDownResponse(msg)
    <2>1. msg.mac \in MAC
      BY <1>8, AcceptedMessage DEF RouterRecvDownResponse, RouterAccepts, RouterTypes
    <2>2. /\ rUp' \subseteq MAC
          /\ rMetrics' \in [MAC -> Metrics]
          /\ rAddrs' \in [MAC -> SUBSET Addr]
      BY <1>8, <2>1, RemoveType DEF RouterRecvDownResponse
    <2>3. QED
      BY <1>8, <2>2
      DEF RouterRecvDownResponse, RouterHeartbeatReset, RouterTypeOK, DestSlot, Idle
  <1>9. CASE RouterRecvSessionUpdate(msg)
    <2>1. SessionMsg("SESSION_UPDATE_RESPONSE", "SUCCESS", NoMetrics, NoChanges)
            \in Message
      BY SentMessages, NoDataTypes DEF MessageType, SessionTypes, MaybeStatus, Status
    <2>2. toModem' \in Seq(Message)
      BY <1>9, <2>1, SendType DEF RouterRecvSessionUpdate, RouterTypeOK
    <2>3. /\ \A x \in Metrics : merge_link_metrics(msg.metrics, x) \in Metrics
          /\ apply_lenient(rPeerAddrs, msg.addrs) \in SUBSET Addr
      BY MergeType, ApplyType DEF Message, RouterTypeOK
    <2>4. rMetrics' \in [MAC -> Metrics]
      BY <1>9, <2>3 DEF RouterRecvSessionUpdate, RouterTypeOK
    <2>5. QED
      BY <1>9, <2>2, <2>3, <2>4
      DEF RouterRecvSessionUpdate, RouterHeartbeatReset, RouterTypeOK
  <1>10. CASE RouterRecvSessionUpdateResponse(msg)
    BY <1>10 DEF RouterRecvSessionUpdateResponse, RouterHeartbeatReset, RouterTypeOK,
                 SessionSlot, Idle
  <1>11. CASE RouterRecvAnnounceResponse(msg)
    <2>1. msg.mac \in MAC
      BY <1>11, AcceptedMessage DEF RouterRecvAnnounceResponse, RouterAccepts, RouterTypes
    <2>2. /\ rUp' \subseteq MAC
          /\ rMetrics' \in [MAC -> Metrics]
          /\ rAddrs' \in [MAC -> SUBSET Addr]
      <3>1. CASE msg.status = "SUCCESS"
        BY <1>11, <2>1, <3>1, InsertType DEF RouterRecvAnnounceResponse
      <3>2. CASE msg.status # "SUCCESS"
        BY <1>11, <3>2 DEF RouterRecvAnnounceResponse, RouterTypeOK
      <3>3. QED
        BY <3>1, <3>2
    <2>3. QED
      BY <1>11, <2>2
      DEF RouterRecvAnnounceResponse, RouterHeartbeatReset, RouterTypeOK, DestSlot, Idle
  <1>12. CASE RouterRecvLinkResponse(msg)
    <2>1. \A x \in Metrics : merge_link_metrics(msg.metrics, x) \in Metrics
      BY MergeType DEF Message
    <2>2. QED
      BY <1>12, <2>1
      DEF RouterRecvLinkResponse, RouterHeartbeatReset, RouterTypeOK, DestSlot, Idle
  <1>13. CASE RouterRecvHeartbeat(msg)
    BY <1>13 DEF RouterRecvHeartbeat, RouterHeartbeatReset, RouterTypeOK
  <1>14. CASE RouterRecvTerminationResponse(msg)
    <2>1. rReason \in MaybeStatus /\ toModem \in Seq(Message)
      BY DEF RouterTypeOK, MaybeStatus
    <2>2. QED
      BY <1>14, <2>1, TerminatedType DEF RouterRecvTerminationResponse
  <1>15. CASE RouterIgnore(msg)
    BY <1>15 DEF RouterIgnore, RouterTypeOK, routerVars, rControl
  <1>16. QED
    BY <1>1, <1>2, <1>3, <1>4, <1>5, <1>6, <1>7, <1>8, <1>9, <1>10, <1>11, <1>12,
       <1>13, <1>14, <1>15 DEF RouterRecv

\* Every command keeps the types.
LEMMA AppType ==
  ASSUME RouterTypeOK, RouterApp
  PROVE  RouterTypeOK'
  <1> USE DEF RouterState, rTx, rDests, rPeer, rControl
  <1>1. ASSUME NEW mac \in MAC, RouterDestCommand(mac)
        PROVE  RouterTypeOK'
    <2>1. ASSUME NEW kind \in DestSlot, NEW request \in MessageType,
                 RouterOpen(mac, kind, request)
          PROVE  RouterTypeOK'
      <3>1. DestMsg(request, mac, NoStatus) \in Message
        BY SentMessages DEF MaybeStatus
      <3>2. toModem' \in Seq(Message)
        BY <2>1, <3>1, SendType DEF RouterOpen, RouterTypeOK
      <3>3. QED
        BY <2>1, <3>2 DEF RouterOpen, RouterTypeOK
    <2>2. /\ {"DestinationDown", "DestinationAnnounce", "LinkCharacteristics"}
               \subseteq DestSlot
          /\ {"DESTINATION_DOWN", "DESTINATION_ANNOUNCE", "LINK_CHARACTERISTICS_REQUEST"}
               \subseteq MessageType
      BY DEF DestSlot, MessageType, ModemTypes
    <2>3. QED
      BY <1>1, <2>1, <2>2
      DEF RouterDestCommand, RouterAppDropDestination, RouterAppAnnounceDestination,
          RouterAppRequestLinkCharacteristics
  <1>2. ASSUME NEW ch \in AddressChanges, RouterAppSessionAddresses(ch)
        PROVE  RouterTypeOK'
    <2> DEFINE desired == apply_lenient(rLocalAddrs, ch)
               effective == between(rLocalAddrs, desired)
    <2>1. desired \in SUBSET Addr
      BY ApplyType DEF RouterTypeOK
    <2>2. effective \in AddressChanges
      BY <2>1, BetweenType DEF RouterTypeOK
    <2>3. SessionMsg("SESSION_UPDATE", NoStatus, NoMetrics, effective) \in Message
      BY <2>2, SentMessages DEF MessageType, SessionTypes, MaybeStatus
    <2>4. toModem' \in Seq(Message)
      BY <1>2, <2>3, SendType DEF RouterAppSessionAddresses, RouterTypeOK
    <2>5. QED
      BY <1>2, <2>1, <2>4 DEF RouterAppSessionAddresses, RouterTypeOK, SessionSlot
  <1>3. CASE RouterAppShutdown("SHUTTING_DOWN")
    <2>1. "SHUTTING_DOWN" \in Status /\ "SHUTTING_DOWN" \in MaybeStatus
      BY DEF Status, FatalStatus, MaybeStatus
    <2>2. {"Heartbeat", "HeartbeatMissed"} \in SUBSET Timer
      BY DEF Timer
    <2>3. CASE rState = "Closed"
      BY <1>3, <2>3 DEF RouterAppShutdown, RouterTypeOK
    <2>4. CASE rState = "SessionInitPending"
      <3>1. toModem' \in Seq(Message) /\ rTimers' \subseteq rTimers
        BY <1>3, <2>4 DEF RouterAppShutdown, RouterTypeOK
      <3>2. QED
        BY <1>3, <2>1, <2>4, <3>1, TerminatedType DEF RouterAppShutdown
    <2>5. CASE rState = "InSession"
      BY <1>3, <2>1, <2>2, <2>5, TerminatingType DEF RouterAppShutdown
    <2>6. QED
      BY <1>3, <2>3, <2>4, <2>5 DEF RouterAppShutdown
  <1>4. QED
    BY <1>1, <1>2, <1>3 DEF RouterApp

\* The peer's end, the timers and the transport keep the types.
LEMMA EnvironmentType ==
  ASSUME RouterTypeOK,
         \/ RouterTcpConnected \/ RouterDecodeError \/ RouterHeartbeatTick
         \/ RouterDeadline \/ RouterTcpClosed \/ RouterPeerReads
  PROVE  RouterTypeOK'
  <1> USE DEF RouterState, rTx, rDests, rPeer, rControl
  <1>1. /\ {"TIMED_OUT", "INVALID_DATA"} \subseteq Status
        /\ Status \subseteq MaybeStatus
    BY DEF Status, FatalStatus, MaybeStatus
  <1>2. Bare("SESSION_INITIALIZATION") \in Message /\ Bare("HEARTBEAT") \in Message
    BY SentMessages DEF MessageType, SessionTypes
  <1>3. CASE RouterTcpConnected
    <2>1. toModem' \in Seq(Message)
      BY <1>2, <1>3, SendType DEF RouterTcpConnected, RouterTypeOK
    <2>2. QED
      BY <1>3, <2>1 DEF RouterTcpConnected, RouterTypeOK, Timer
  <1>4. CASE RouterDecodeError
    BY <1>1, <1>4, ProtocolErrorType DEF RouterDecodeError
  <1>5. CASE RouterHeartbeatTick
    <2>1. toModem' \in Seq(Message)
      BY <1>2, <1>5, SendType DEF RouterHeartbeatTick, RouterTypeOK
    <2>2. QED
      BY <1>5, <2>1 DEF RouterHeartbeatTick, RouterTypeOK
  <1>6. CASE RouterDeadline
    <2>1. CASE RouterHeartbeatMissed
      <3>1. {"Heartbeat", "HeartbeatMissed"} \in SUBSET Timer
        BY DEF Timer
      <3>2. QED
        BY <1>1, <2>1, <3>1, TerminatingType DEF RouterHeartbeatMissed
    <2>2. CASE RouterSessionInitTimeout \/ RouterTerminationTimeout
      <3>1. toModem' \in Seq(Message) /\ rTimers' \subseteq rTimers
        BY <2>2 DEF RouterSessionInitTimeout, RouterTerminationTimeout, RouterTypeOK
      <3>2. QED
        BY <1>1, <2>2, <3>1, TerminatedType
        DEF RouterSessionInitTimeout, RouterTerminationTimeout
    <2>3. QED
      BY <1>6, <2>1, <2>2 DEF RouterDeadline
  <1>7. CASE RouterTcpClosed
    <2>1. CASE rState = "Closed"
      BY <1>7, <2>1 DEF RouterTcpClosed, RouterClosedWhileTerminating, RouterTypeOK
    <2>2. CASE rState # "Closed"
      <3>1. toModem' \in Seq(Message) /\ rTimers' \subseteq rTimers
        BY <1>7, <2>2 DEF RouterTcpClosed, RouterClosedWhileTerminating, RouterTypeOK
      <3>2. rReason \in MaybeStatus
        BY <1>1 DEF RouterTypeOK
      <3>3. QED
        BY <1>1, <1>7, <2>2, <3>1, <3>2, TerminatedType
        DEF RouterTcpClosed, RouterClosedWhileTerminating
    <2>3. QED
      BY <2>1, <2>2
  <1>8. CASE RouterPeerReads
    <2>1. toModem' \in Seq(Message)
      BY <1>8, SMTT(30) DEF RouterPeerReads, RouterTypeOK
    <2>2. QED
      BY <1>8, <2>1 DEF RouterPeerReads, RouterTypeOK
  <1>9. QED
    BY <1>3, <1>4, <1>5, <1>6, <1>7, <1>8

\* Every variable of the router keeps its type in every behaviour.
THEOREM RouterTypeCorrect == RouterSpec => []RouterTypeOK
  <1>1. RouterInit => RouterTypeOK
    BY NoDataTypes, SMTT(30)
    DEF RouterInit, RouterTypeOK, RouterState, Status, MaybeStatus,
        SessionSlot, DestSlot, Idle
  <1>2. RouterTypeOK /\ [RouterNext]_routerVars => RouterTypeOK'
    <2> SUFFICES ASSUME RouterTypeOK, [RouterNext]_routerVars PROVE RouterTypeOK'
      OBVIOUS
    <2>1. CASE UNCHANGED routerVars
      BY <2>1 DEF RouterTypeOK, routerVars, rControl, rTx, rDests, rPeer
    <2>2. CASE RouterNext
      BY <2>2, RecvType, AppType, EnvironmentType, RouterPeer DEF RouterNext
    <2>3. QED
      BY <2>1, <2>2
  <1>3. QED
    BY <1>1, <1>2, PTL DEF RouterSpec

-----------------------------------------------------------------------------
(* Timers.  The property is inductive given the types.                      *)

\* Handlers that stay in session re-arm HeartbeatMissed or leave the timers
\* alone; every other handler moves to a state whose timer it arms.
LEMMA RecvTimers ==
  ASSUME RouterTimersMatchState, NEW msg \in Message, RouterRecv(msg)
  PROVE  RouterTimersMatchState'
  <1> USE DEF RouterTimersMatchState
  <1>1. CASE RouterRecvInvalid(msg) \/ RouterRecvInitRefused(msg)
    BY <1>1 DEF RouterRecvInvalid, RouterRecvInitRefused, RouterProtocolError,
                RouterTerminating
  <1>2. CASE RouterRecvInitResponse(msg)
    BY <1>2 DEF RouterRecvInitResponse
  <1>3. CASE RouterRecvTermination(msg) \/ RouterRecvTerminationResponse(msg)
    BY <1>3 DEF RouterRecvTermination, RouterRecvTerminationResponse, RouterTerminated
  <1>4. CASE \/ RouterRecvDestinationUp(msg) \/ RouterRecvDestinationUpdate(msg)
             \/ RouterRecvDestinationDown(msg) \/ RouterRecvDownResponse(msg)
             \/ RouterRecvSessionUpdate(msg) \/ RouterRecvSessionUpdateResponse(msg)
             \/ RouterRecvAnnounceResponse(msg) \/ RouterRecvLinkResponse(msg)
             \/ RouterRecvHeartbeat(msg)
    <2>1. rState = "InSession" /\ rState' = rState /\ RouterHeartbeatReset
      BY <1>4 DEF RouterAccepts, RouterRecvDestinationUp, RouterRecvDestinationUpdate,
                  RouterRecvDestinationDown, RouterRecvDownResponse,
                  RouterRecvSessionUpdate, RouterRecvSessionUpdateResponse,
                  RouterRecvAnnounceResponse, RouterRecvLinkResponse, RouterRecvHeartbeat
    <2>2. QED
      BY <2>1 DEF RouterHeartbeatReset
  <1>5. CASE RouterIgnore(msg)
    BY <1>5 DEF RouterIgnore, routerVars, rControl
  <1>6. QED
    BY <1>1, <1>2, <1>3, <1>4, <1>5 DEF RouterRecv

\* Commands, timers and the transport keep the timers in step as well.
LEMMA OtherTimers ==
  ASSUME RouterTypeOK, RouterTimersMatchState,
         \/ RouterTcpConnected \/ RouterDecodeError \/ RouterApp \/ RouterHeartbeatTick
         \/ RouterDeadline \/ RouterTcpClosed \/ RouterPeerReads
  PROVE  RouterTimersMatchState'
  <1> USE DEF RouterTimersMatchState
  <1>1. CASE RouterTcpConnected \/ RouterHeartbeatTick \/ RouterPeerReads
    BY <1>1 DEF RouterTcpConnected, RouterHeartbeatTick, RouterPeerReads, rControl
  <1>2. CASE RouterDecodeError
    BY <1>2 DEF RouterDecodeError, RouterProtocolError, RouterTerminating, RouterTypeOK,
                RouterState
  <1>3. CASE RouterApp
    <2>1. ASSUME NEW mac \in MAC, RouterDestCommand(mac)
          PROVE  UNCHANGED rControl
      BY <2>1 DEF RouterDestCommand, RouterAppDropDestination,
                  RouterAppAnnounceDestination, RouterAppRequestLinkCharacteristics,
                  RouterOpen
    <2>2. ASSUME NEW ch \in AddressChanges, RouterAppSessionAddresses(ch)
          PROVE  UNCHANGED rControl
      BY <2>2 DEF RouterAppSessionAddresses
    <2>3. CASE RouterAppShutdown("SHUTTING_DOWN")
      BY <2>3 DEF RouterAppShutdown, RouterTerminated, RouterTerminating
    <2>4. QED
      BY <1>3, <2>1, <2>2, <2>3 DEF RouterApp, rControl
  <1>4. CASE RouterDeadline
    BY <1>4 DEF RouterDeadline, RouterSessionInitTimeout, RouterHeartbeatMissed,
                RouterTerminationTimeout, RouterTerminated, RouterTerminating
  <1>5. CASE RouterTcpClosed
    BY <1>5 DEF RouterTcpClosed, RouterClosedWhileTerminating, RouterTerminated
  <1>6. QED
    BY <1>1, <1>2, <1>3, <1>4, <1>5

\* In every state the router waits in, exactly the deadline that ends the wait
\* is armed, whatever the peer does (RouterTimersMatchState).
THEOREM RouterTimersCorrect == RouterSpec => []RouterTimersMatchState
  <1>1. RouterInit => RouterTimersMatchState
    BY DEF RouterInit, RouterTimersMatchState
  <1>2. RouterTypeOK /\ RouterTimersMatchState /\ [RouterNext]_routerVars
          => RouterTimersMatchState'
    <2> SUFFICES ASSUME RouterTypeOK, RouterTimersMatchState, [RouterNext]_routerVars
                 PROVE  RouterTimersMatchState'
      OBVIOUS
    <2>1. CASE UNCHANGED routerVars
      BY <2>1 DEF RouterTimersMatchState, routerVars, rControl
    <2>2. CASE RouterNext
      BY <2>2, RecvTimers, OtherTimers, RouterPeer DEF RouterNext
    <2>3. QED
      BY <2>1, <2>2
  <1>3. QED
    BY <1>1, <1>2, RouterTypeCorrect, PTL DEF RouterSpec

-----------------------------------------------------------------------------
(* Requests and destinations.                                               *)

\* Handlers outside the table of destinations leave requests and destinations
\* alone; each of the others changes one destination, in a way that fits the
\* request open for it, which validate_transaction has looked up.
LEMMA RecvRequests ==
  ASSUME RouterTypeOK, RouterRequestsMatchDestinations, NEW msg \in Message,
         RouterRecv(msg)
  PROVE  RouterRequestsMatchDestinations'
  <1> USE DEF RouterRequestsMatchDestinations, rTx, rDests
  <1>1. CASE \/ RouterRecvInvalid(msg) \/ RouterRecvInitResponse(msg)
             \/ RouterRecvInitRefused(msg) \/ RouterRecvTermination(msg)
             \/ RouterRecvDestinationUpdate(msg) \/ RouterRecvSessionUpdate(msg)
             \/ RouterRecvSessionUpdateResponse(msg) \/ RouterRecvHeartbeat(msg)
             \/ RouterRecvTerminationResponse(msg) \/ RouterIgnore(msg)
    <2>1. UNCHANGED <<rTxDest, rUp>>
      BY <1>1
      DEF RouterRecvInvalid, RouterRecvInitResponse, RouterRecvInitRefused,
          RouterRecvTermination, RouterRecvDestinationUpdate,
          RouterRecvSessionUpdate, RouterRecvSessionUpdateResponse,
          RouterRecvHeartbeat, RouterRecvTerminationResponse, RouterIgnore,
          RouterProtocolError, RouterTerminating, RouterTerminated, routerVars
    <2>2. QED
      BY <2>1
  <1>2. CASE RouterRecvDestinationUp(msg) \/ RouterRecvDestinationDown(msg)
    <2>1. msg.mac \in MAC /\ rTxDest[msg.mac] = Idle
      BY <1>2, AcceptedMessage, AcceptedDestinationMessage
      DEF RouterRecvDestinationUp, RouterRecvDestinationDown, RouterAccepts,
          RouterTypes
    <2>2. rTxDest' = rTxDest /\ \A m \in MAC \ {msg.mac} : m \in rUp' <=> m \in rUp
      BY <1>2
      DEF RouterRecvDestinationUp, RouterRecvDestinationDown, RouterInsert,
          RouterRemove
    <2>3. QED
      BY <2>1, <2>2 DEF Idle
  <1>3. CASE RouterRecvDownResponse(msg) \/ RouterRecvAnnounceResponse(msg)
    <2>1. msg.mac \in MAC
      BY <1>3, AcceptedMessage
      DEF RouterRecvDownResponse, RouterRecvAnnounceResponse, RouterAccepts, RouterTypes
    <2>2. /\ rTxDest' = [rTxDest EXCEPT ![msg.mac] = Idle]
          /\ \A m \in MAC \ {msg.mac} : m \in rUp' <=> m \in rUp
      BY <1>3 DEF RouterRecvDownResponse, RouterRecvAnnounceResponse, RouterInsert,
                  RouterRemove
    <2>3. QED
      BY <2>1, <2>2 DEF Idle, RouterTypeOK
  <1>4. CASE RouterRecvLinkResponse(msg)
    BY <1>4 DEF RouterRecvLinkResponse, RouterTypeOK, Idle
  <1>5. QED
    BY <1>1, <1>2, <1>3, <1>4 DEF RouterRecv

\* Commands, timers and the transport keep the requests in step as well.
LEMMA OtherRequests ==
  ASSUME RouterTypeOK, RouterRequestsMatchDestinations,
         \/ RouterTcpConnected \/ RouterDecodeError \/ RouterApp \/ RouterHeartbeatTick
         \/ RouterDeadline \/ RouterTcpClosed \/ RouterPeerReads
  PROVE  RouterRequestsMatchDestinations'
  <1> USE DEF RouterRequestsMatchDestinations, rTx, rDests
  <1>1. CASE ~RouterApp
    <2>1. UNCHANGED <<rTxDest, rUp>>
      BY <1>1
      DEF RouterTcpConnected, RouterDecodeError, RouterHeartbeatTick,
          RouterDeadline, RouterSessionInitTimeout, RouterHeartbeatMissed,
          RouterTerminationTimeout, RouterTcpClosed,
          RouterClosedWhileTerminating, RouterPeerReads, RouterProtocolError,
          RouterTerminating, RouterTerminated
    <2>2. QED
      BY <2>1
  <1>2. CASE RouterApp
    <2>1. ASSUME NEW mac \in MAC, RouterDestCommand(mac)
          PROVE  RouterRequestsMatchDestinations'
      BY <2>1 DEF RouterDestCommand, RouterAppDropDestination,
                  RouterAppAnnounceDestination, RouterAppRequestLinkCharacteristics,
                  RouterOpen, RouterTypeOK
    <2>2. ASSUME NEW ch \in AddressChanges, RouterAppSessionAddresses(ch)
          PROVE  RouterRequestsMatchDestinations'
      BY <2>2 DEF RouterAppSessionAddresses
    <2>3. CASE RouterAppShutdown("SHUTTING_DOWN")
      BY <2>3 DEF RouterAppShutdown, RouterTerminated, RouterTerminating
    <2>4. QED
      BY <1>2, <2>1, <2>2, <2>3 DEF RouterApp
  <1>3. QED
    BY <1>1, <1>2

\* Whatever the peer sends, the destination of an open Down or link request
\* exists and that of an open Announce does not: the lookups that the response
\* arms expect to succeed do succeed (RouterRequestsMatchDestinations).
THEOREM RouterRequestsCorrect == RouterSpec => []RouterRequestsMatchDestinations
  <1>1. RouterInit => RouterRequestsMatchDestinations
    BY DEF RouterInit, RouterRequestsMatchDestinations, Idle
  <1>2. RouterTypeOK /\ RouterRequestsMatchDestinations /\ [RouterNext]_routerVars
          => RouterRequestsMatchDestinations'
    <2> SUFFICES ASSUME RouterTypeOK, RouterRequestsMatchDestinations,
                        [RouterNext]_routerVars
                 PROVE  RouterRequestsMatchDestinations'
      OBVIOUS
    <2>1. CASE UNCHANGED routerVars
      BY <2>1 DEF RouterRequestsMatchDestinations, routerVars, rTx, rDests
    <2>2. CASE RouterNext
      BY <2>2, RecvRequests, OtherRequests, RouterPeer DEF RouterNext
    <2>3. QED
      BY <2>1, <2>2
  <1>3. QED
    BY <1>1, <1>2, RouterTypeCorrect, PTL DEF RouterSpec

-----------------------------------------------------------------------------
(* Address ownership.                                                       *)

\* What a destination adds after destination_address_changes is held by no
\* other destination.
LEMMA NewAddressesAreFree ==
  ASSUME RouterTypeOK, NEW mac \in MAC, NEW ch \in AddressChanges,
         NEW old \in SUBSET Addr, NEW other \in rUp \ {mac}
  PROVE  apply_lenient(old, destination_address_changes(mac, ch)) \cap rAddrs[other]
           \subseteq old \cap rAddrs[other]
  <1> DEFINE dac == destination_address_changes(mac, ch)
  <1>1. /\ dac.removed = ch.removed
        /\ \A a \in dac.added : a \in ch.removed \/ a \notin rAddrs[other]
    BY DEF destination_address_changes, AddressChanges
  <1>2. QED
    BY <1>1 DEF apply_lenient

\* A recorded destination takes no address of another.
LEMMA InsertKeepsOwners ==
  ASSUME RouterTypeOK, RouterAddressesHaveOneOwner, NEW msg \in Message,
         msg.mac \in MAC, RouterInsert(msg.mac, msg)
  PROVE  RouterAddressesHaveOneOwner'
  <1>1. /\ rUp' = rUp \cup {msg.mac}
        /\ \A m \in MAC \ {msg.mac} : rAddrs'[m] = rAddrs[m]
        /\ rAddrs'[msg.mac]
             = apply_lenient({}, destination_address_changes(msg.mac, msg.addrs))
    BY DEF RouterInsert, RouterTypeOK
  <1>2. \A n \in rUp \ {msg.mac} : rAddrs'[msg.mac] \cap rAddrs[n] = {}
    BY <1>1, NewAddressesAreFree, SMTT(30) DEF Message
  <1>3. QED
    BY <1>1, <1>2 DEF RouterAddressesHaveOneOwner, RouterTypeOK

\* Removing a destination gives no address a second owner.
LEMMA RemoveKeepsOwners ==
  ASSUME RouterTypeOK, RouterAddressesHaveOneOwner, NEW mac \in MAC, RouterRemove(mac)
  PROVE  RouterAddressesHaveOneOwner'
  BY DEF RouterRemove, RouterAddressesHaveOneOwner, RouterTypeOK

\* No message the router takes gives an address a second owner.
LEMMA RecvOwners ==
  ASSUME RouterTypeOK, RouterAddressesHaveOneOwner, NEW msg \in Message, RouterRecv(msg)
  PROVE  RouterAddressesHaveOneOwner'
  <1> USE DEF rDests
  <1>1. CASE \/ RouterRecvInvalid(msg) \/ RouterRecvInitResponse(msg)
             \/ RouterRecvInitRefused(msg) \/ RouterRecvTermination(msg)
             \/ RouterRecvSessionUpdate(msg) \/ RouterRecvSessionUpdateResponse(msg)
             \/ RouterRecvLinkResponse(msg) \/ RouterRecvHeartbeat(msg)
             \/ RouterRecvTerminationResponse(msg) \/ RouterIgnore(msg)
    <2>1. UNCHANGED <<rUp, rAddrs>>
      BY <1>1
      DEF RouterRecvInvalid, RouterRecvInitResponse, RouterRecvInitRefused,
          RouterRecvTermination, RouterRecvSessionUpdate,
          RouterRecvSessionUpdateResponse, RouterRecvLinkResponse,
          RouterRecvHeartbeat, RouterRecvTerminationResponse, RouterIgnore,
          RouterProtocolError, RouterTerminating, RouterTerminated, routerVars
    <2>2. QED
      BY <2>1 DEF RouterAddressesHaveOneOwner
  <1>2. CASE RouterRecvDestinationUp(msg)
    BY <1>2, AcceptedMessage, InsertKeepsOwners
    DEF RouterRecvDestinationUp, RouterAccepts, RouterTypes
  <1>3. CASE RouterRecvDestinationUpdate(msg)
    <2>1. msg.mac \in MAC
      BY <1>3, AcceptedMessage
      DEF RouterRecvDestinationUpdate, RouterAccepts, RouterTypes
    <2>2. /\ rUp' = rUp
          /\ \A m \in MAC \ {msg.mac} : rAddrs'[m] = rAddrs[m]
          /\ rAddrs'[msg.mac]
               = apply_lenient(rAddrs[msg.mac],
                               destination_address_changes(msg.mac, msg.addrs))
      BY <1>3, <2>1 DEF RouterRecvDestinationUpdate, RouterTypeOK
    <2>3. \A n \in rUp \ {msg.mac} :
            rAddrs'[msg.mac] \cap rAddrs[n] \subseteq rAddrs[msg.mac] \cap rAddrs[n]
      BY <2>1, <2>2, NewAddressesAreFree DEF Message, RouterTypeOK
    <2>4. SUFFICES ASSUME NEW m \in rUp, NEW n \in rUp, m # n
                   PROVE  rAddrs'[m] \cap rAddrs'[n] = {}
      BY <2>2 DEF RouterAddressesHaveOneOwner
    <2>5. m \in MAC /\ n \in MAC /\ rAddrs[m] \cap rAddrs[n] = {}
      BY <2>4 DEF RouterAddressesHaveOneOwner, RouterTypeOK
    <2>6. CASE m = msg.mac
      BY <2>2, <2>3, <2>4, <2>5, <2>6
    <2>7. CASE n = msg.mac
      BY <2>2, <2>3, <2>4, <2>5, <2>7
    <2>8. CASE m # msg.mac /\ n # msg.mac
      BY <2>2, <2>5, <2>8
    <2>9. QED
      BY <2>6, <2>7, <2>8
  <1>4. CASE RouterRecvDestinationDown(msg)
    BY <1>4, AcceptedMessage, RemoveKeepsOwners
    DEF RouterRecvDestinationDown, RouterAccepts, RouterTypes
  <1>5. CASE RouterRecvDownResponse(msg)
    BY <1>5, AcceptedMessage, RemoveKeepsOwners
    DEF RouterRecvDownResponse, RouterAccepts, RouterTypes
  <1>6. CASE RouterRecvAnnounceResponse(msg)
    <2>1. CASE msg.status = "SUCCESS"
      BY <1>6, <2>1, AcceptedMessage, InsertKeepsOwners
      DEF RouterRecvAnnounceResponse, RouterAccepts, RouterTypes
    <2>2. CASE msg.status # "SUCCESS"
      BY <1>6, <2>2 DEF RouterRecvAnnounceResponse, RouterAddressesHaveOneOwner
    <2>3. QED
      BY <2>1, <2>2
  <1>7. QED
    BY <1>1, <1>2, <1>3, <1>4, <1>5, <1>6 DEF RouterRecv

\* Commands, timers and the transport never touch destinations or what is
\* known of the peer's session.
LEMMA OthersKeepDestinations ==
  ASSUME \/ RouterTcpConnected \/ RouterDecodeError \/ RouterApp \/ RouterHeartbeatTick
         \/ RouterDeadline \/ RouterTcpClosed \/ RouterPeerReads
  PROVE  UNCHANGED <<rDests, rPeer>>
  <1>1. CASE ~RouterApp
    BY <1>1
    DEF RouterTcpConnected, RouterDecodeError, RouterHeartbeatTick,
        RouterDeadline, RouterSessionInitTimeout, RouterHeartbeatMissed,
        RouterTerminationTimeout, RouterTcpClosed,
        RouterClosedWhileTerminating, RouterPeerReads, RouterProtocolError,
        RouterTerminating, RouterTerminated
  <1>2. CASE RouterApp
    BY <1>2 DEF RouterApp, RouterDestCommand, RouterAppDropDestination,
                RouterAppAnnounceDestination, RouterAppRequestLinkCharacteristics,
                RouterOpen, RouterAppSessionAddresses, RouterAppShutdown,
                RouterTerminated, RouterTerminating
  <1>3. QED
    BY <1>1, <1>2

\* No address is held by two destinations at the router, whatever changes the
\* peer sends and in whatever order (RouterAddressesHaveOneOwner).
THEOREM RouterOwnersCorrect == RouterSpec => []RouterAddressesHaveOneOwner
  <1>1. RouterInit => RouterAddressesHaveOneOwner
    BY DEF RouterInit, RouterAddressesHaveOneOwner
  <1>2. RouterTypeOK /\ RouterAddressesHaveOneOwner /\ [RouterNext]_routerVars
          => RouterAddressesHaveOneOwner'
    <2> SUFFICES ASSUME RouterTypeOK, RouterAddressesHaveOneOwner,
                        [RouterNext]_routerVars
                 PROVE  RouterAddressesHaveOneOwner'
      OBVIOUS
    <2>1. CASE UNCHANGED rDests
      BY <2>1 DEF RouterAddressesHaveOneOwner, rDests
    <2>2. CASE \E msg \in FromModem : RouterRecv(msg)
      BY <2>2, RecvOwners, RouterPeer
    <2>3. QED
      BY <2>1, <2>2, OthersKeepDestinations DEF RouterNext, routerVars
  <1>3. QED
    BY <1>1, <1>2, RouterTypeCorrect, PTL DEF RouterSpec

-----------------------------------------------------------------------------
(* Declared metrics.                                                        *)

\* A merged value has a metric exactly where one of the two has it, so
\* accepted messages, which supply declared metrics only, keep the property.
LEMMA RecvMetrics ==
  ASSUME RouterTypeOK, RouterMetricsAreDeclared, NEW msg \in Message, RouterRecv(msg)
  PROVE  RouterMetricsAreDeclared'
  <1> USE DEF rDests, rPeer
  <1>0. msg.metrics \in Metrics /\ Supplied(NoMetrics) = {}
    BY DEF Message, Supplied, NoMetrics
  <1>1. CASE \/ RouterRecvInvalid(msg) \/ RouterRecvInitRefused(msg)
             \/ RouterRecvTermination(msg) \/ RouterRecvTerminationResponse(msg)
    BY <1>1
    DEF RouterRecvInvalid, RouterRecvInitRefused, RouterRecvTermination,
        RouterRecvTerminationResponse, RouterProtocolError, RouterTerminating,
        RouterTerminated, RouterMetricsAreDeclared
  <1>2. CASE RouterRecvInitResponse(msg)
    <2>1. validate_message(msg, TRUE, TRUE) = "SUCCESS"
      BY <1>2 DEF RouterRecvInitResponse, RouterVerdict, terminates_session, FatalStatus
    <2>2. /\ msg.type = "SESSION_INITIALIZATION_RESPONSE"
          /\ WellFormed(msg, TRUE, TRUE)
      BY <2>1 DEF validate_message, Expected
    <2>3. Mandatory \subseteq Supplied(msg.metrics)
      BY <2>2 DEF WellFormed
    <2>4. rUp = {} /\ Supplied(rSessionMetrics) = {}
      BY <1>2 DEF RouterRecvInitResponse, RouterMetricsAreDeclared
    <2>5. Supplied(merge_link_metrics(msg.metrics, rSessionMetrics))
            = Supplied(msg.metrics)
      BY <1>0, <2>4, MergeSupplied DEF RouterTypeOK
    <2>6. QED
      BY <1>2, <2>3, <2>4, <2>5
      DEF RouterRecvInitResponse, RouterMetricsAreDeclared
  <1>3. CASE RouterIgnore(msg)
    BY <1>3 DEF RouterIgnore, routerVars, rControl, RouterMetricsAreDeclared
  <1>4. CASE rState = "InSession" /\ rState' = "InSession"
    <2>1. RouterVerdict(msg) = "SUCCESS"
      BY <1>4
      DEF RouterRecv, RouterAccepts, RouterRecvInvalid, RouterProtocolError,
          RouterTerminating, RouterRecvInitResponse, RouterRecvInitRefused,
          RouterRecvTermination, RouterRecvDestinationUp,
          RouterRecvDestinationUpdate, RouterRecvDestinationDown,
          RouterRecvDownResponse, RouterRecvSessionUpdate,
          RouterRecvSessionUpdateResponse, RouterRecvAnnounceResponse,
          RouterRecvLinkResponse, RouterRecvHeartbeat,
          RouterRecvTerminationResponse, RouterIgnore
    <2>2. /\ Supplied(msg.metrics) \subseteq rMetricTypes
          /\ Mandatory \subseteq rMetricTypes
          /\ Supplied(rSessionMetrics) = rMetricTypes
          /\ \A m \in rUp : Supplied(rMetrics[m]) = rMetricTypes
      BY <1>4, <2>1, AcceptedMessage DEF RouterMetricsAreDeclared
    <2>3. /\ Supplied(merge_link_metrics(msg.metrics, rSessionMetrics)) = rMetricTypes
          /\ \A m \in rUp :
               Supplied(merge_link_metrics(msg.metrics, rMetrics[m])) = rMetricTypes
      <3>1. rSessionMetrics \in Metrics /\ \A m \in rUp : rMetrics[m] \in Metrics
        BY DEF RouterTypeOK
      <3>2. QED
        BY <1>0, <2>2, <3>1, MergeSupplied
    <2>4. ASSUME msg.mac \in MAC, RouterInsert(msg.mac, msg)
          PROVE  \A m \in rUp' : Supplied(rMetrics'[m]) = rMetricTypes
      <3>1. /\ rUp' = rUp \cup {msg.mac}
            /\ rMetrics'[msg.mac] = merge_link_metrics(msg.metrics, rSessionMetrics)
            /\ \A m \in rUp \ {msg.mac} : rMetrics'[m] = rMetrics[m]
        BY <2>4 DEF RouterInsert, RouterTypeOK
      <3>2. QED
        BY <2>2, <2>3, <3>1
    <2>5. ASSUME RouterRemove(msg.mac)
          PROVE  \A m \in rUp' : Supplied(rMetrics'[m]) = rMetricTypes
      BY <2>2, <2>5 DEF RouterRemove, RouterTypeOK
    <2>6. /\ rMetricTypes' = rMetricTypes
          /\ Supplied(rSessionMetrics') = rMetricTypes
          /\ \A m \in rUp' : Supplied(rMetrics'[m]) = rMetricTypes
      <3>1. CASE RouterRecvDestinationUp(msg)
        BY <2>2, <2>4, <3>1, <1>4, <2>1, AcceptedMessage
        DEF RouterRecvDestinationUp, RouterAccepts, RouterTypes
      <3>2. CASE RouterRecvDestinationUpdate(msg) \/ RouterRecvLinkResponse(msg)
        BY <2>2, <2>3, <3>2
        DEF RouterRecvDestinationUpdate, RouterRecvLinkResponse, RouterTypeOK
      <3>3. CASE RouterRecvDestinationDown(msg) \/ RouterRecvDownResponse(msg)
        BY <2>2, <2>5, <3>3
        DEF RouterRecvDestinationDown, RouterRecvDownResponse
      <3>4. CASE RouterRecvSessionUpdate(msg)
        BY <2>2, <2>3, <3>4 DEF RouterRecvSessionUpdate, RouterTypeOK
      <3>5. CASE RouterRecvAnnounceResponse(msg)
        <4>1. CASE msg.status = "SUCCESS"
          BY <2>2, <2>4, <3>5, <4>1, <1>4, <2>1, AcceptedMessage
          DEF RouterRecvAnnounceResponse, RouterAccepts, RouterTypes
        <4>2. CASE msg.status # "SUCCESS"
          <5>1. UNCHANGED <<rUp, rMetrics, rSessionMetrics, rMetricTypes>>
            BY <3>5, <4>2 DEF RouterRecvAnnounceResponse
          <5>2. QED
            BY <2>2, <5>1
        <4>3. QED
          BY <4>1, <4>2
      <3>6. CASE RouterRecvSessionUpdateResponse(msg) \/ RouterRecvHeartbeat(msg)
        BY <2>2, <3>6 DEF RouterRecvSessionUpdateResponse, RouterRecvHeartbeat
      <3>7. QED
        BY <3>1, <3>2, <3>3, <3>4, <3>5, <3>6, <1>4
        DEF RouterRecv, RouterRecvInvalid, RouterProtocolError,
            RouterTerminating, RouterRecvInitResponse, RouterRecvInitRefused,
            RouterRecvTermination, RouterTerminated,
            RouterRecvTerminationResponse, RouterIgnore
    <2>7. QED
      BY <1>4, <2>2, <2>6 DEF RouterMetricsAreDeclared
  <1>5. \/ RouterRecvInvalid(msg) \/ RouterRecvInitRefused(msg)
        \/ RouterRecvTermination(msg) \/ RouterRecvTerminationResponse(msg)
        \/ RouterRecvInitResponse(msg) \/ RouterIgnore(msg)
        \/ rState = "InSession" /\ rState' = "InSession"
    BY DEF RouterRecv, RouterAccepts, RouterRecvDestinationUp,
           RouterRecvDestinationUpdate, RouterRecvDestinationDown,
           RouterRecvDownResponse, RouterRecvSessionUpdate,
           RouterRecvSessionUpdateResponse, RouterRecvAnnounceResponse,
           RouterRecvLinkResponse, RouterRecvHeartbeat
  <1>6. QED
    BY <1>1, <1>2, <1>3, <1>4, <1>5

\* Commands, timers and the transport leave the metrics as they are, or
\* the session ends.
LEMMA OtherMetrics ==
  ASSUME RouterMetricsAreDeclared,
         \/ RouterTcpConnected \/ RouterDecodeError \/ RouterApp \/ RouterHeartbeatTick
         \/ RouterDeadline \/ RouterTcpClosed \/ RouterPeerReads
  PROVE  RouterMetricsAreDeclared'
  <1>1. UNCHANGED <<rUp, rMetrics, rSessionMetrics, rMetricTypes>>
    BY OthersKeepDestinations DEF rDests, rPeer
  <1>2. /\ rState' = "InSession" => rState = "InSession"
        /\ rState' \in {"Closed", "SessionInitPending"}
             => rState \in {"Closed", "SessionInitPending"}
    <2>1. CASE ~RouterApp
      BY <2>1
      DEF RouterTcpConnected, RouterDecodeError, RouterHeartbeatTick,
          RouterDeadline, RouterSessionInitTimeout, RouterHeartbeatMissed,
          RouterTerminationTimeout, RouterTcpClosed,
          RouterClosedWhileTerminating, RouterPeerReads, RouterProtocolError,
          RouterTerminating, RouterTerminated, rControl
    <2>2. CASE RouterApp
      BY <2>2
      DEF RouterApp, RouterDestCommand, RouterAppDropDestination,
          RouterAppAnnounceDestination, RouterAppRequestLinkCharacteristics,
          RouterOpen, RouterAppSessionAddresses, RouterAppShutdown,
          RouterTerminated, RouterTerminating, rControl
    <2>3. QED
      BY <2>1, <2>2
  <1>3. QED
    BY <1>1, <1>2 DEF RouterMetricsAreDeclared

\* In session, the session and every destination hold exactly the metrics the
\* modem declared, whatever updates, announces and withdrawals follow
\* (RouterMetricsAreDeclared).
THEOREM RouterMetricsCorrect == RouterSpec => []RouterMetricsAreDeclared
  <1>1. RouterInit => RouterMetricsAreDeclared
    BY DEF RouterInit, RouterMetricsAreDeclared, Supplied, NoMetrics
  <1>2. RouterTypeOK /\ RouterMetricsAreDeclared /\ [RouterNext]_routerVars
          => RouterMetricsAreDeclared'
    <2> SUFFICES ASSUME RouterTypeOK, RouterMetricsAreDeclared, [RouterNext]_routerVars
                 PROVE  RouterMetricsAreDeclared'
      OBVIOUS
    <2>1. CASE UNCHANGED routerVars
      BY <2>1 DEF RouterMetricsAreDeclared, routerVars, rControl, rDests, rPeer
    <2>2. CASE RouterNext
      BY <2>2, RecvMetrics, OtherMetrics, RouterPeer DEF RouterNext
    <2>3. QED
      BY <2>1, <2>2
  <1>3. QED
    BY <1>1, <1>2, RouterTypeCorrect, PTL DEF RouterSpec

-----------------------------------------------------------------------------
(* Silence after a termination.                                             *)

\* Every handler that sends is guarded by a state before the termination.
LEMMA TerminatingIsQuiet ==
  ASSUME RouterTypeOK, RouterNext, rState \in {"Terminating", "Terminated"}
  PROVE  /\ toModem' = toModem \/ RouterPeerReads
         /\ rState = "Terminated" => rState' = rState /\ rDown' = rDown
  <1>1. CASE \E msg \in FromModem : RouterRecv(msg)
    BY <1>1
    DEF RouterRecv, RouterAccepts, RouterRecvInvalid, RouterProtocolError,
        RouterRecvInitResponse, RouterRecvInitRefused, RouterRecvTermination,
        RouterRecvDestinationUp, RouterRecvDestinationUpdate,
        RouterRecvDestinationDown, RouterRecvDownResponse,
        RouterRecvSessionUpdate, RouterRecvSessionUpdateResponse,
        RouterRecvAnnounceResponse, RouterRecvLinkResponse,
        RouterRecvHeartbeat, RouterRecvTerminationResponse, RouterIgnore,
        routerVars, rControl
  <1>2. CASE RouterApp
    BY <1>2 DEF RouterApp, RouterDestCommand, RouterAppDropDestination,
                RouterAppAnnounceDestination, RouterAppRequestLinkCharacteristics,
                RouterCommandReady, RouterAppSessionAddresses, RouterAppShutdown
  <1>3. CASE \/ RouterTcpConnected \/ RouterDecodeError \/ RouterHeartbeatTick
             \/ RouterDeadline \/ RouterTcpClosed \/ RouterPeerReads
    BY <1>3
    DEF RouterTcpConnected, RouterDecodeError, RouterHeartbeatTick,
        RouterDeadline, RouterSessionInitTimeout, RouterHeartbeatMissed,
        RouterTerminationTimeout, RouterTcpClosed,
        RouterClosedWhileTerminating, RouterPeerReads, RouterProtocolError,
        RouterTerminating, RouterTerminated, rControl
  <1>4. QED
    BY <1>1, <1>2, <1>3 DEF RouterNext

\* Once the router has sent its Session Termination it sends nothing more, and
\* a session that has ended keeps the reason it reported
\* (RouterQuietAfterTermination).
THEOREM RouterQuietCorrect == RouterSpec => RouterQuietAfterTermination
  <1> DEFINE Quiet ==
        /\ rState \in {"Terminating", "Terminated"} => Len(toModem') <= Len(toModem)
        /\ rState = "Terminated" => rState' = rState /\ rDown' = rDown
  <1>1. RouterTypeOK /\ [RouterNext]_routerVars => [Quiet]_routerVars
    <2> SUFFICES ASSUME RouterTypeOK, RouterNext,
                        rState \in {"Terminating", "Terminated"}
                 PROVE  Quiet
      OBVIOUS
    <2>1. /\ toModem' = toModem \/ RouterPeerReads
          /\ rState = "Terminated" => rState' = rState /\ rDown' = rDown
      BY TerminatingIsQuiet
    <2>2. Len(toModem') <= Len(toModem)
      <3>1. Len(toModem) \in Nat
        BY SMTT(30) DEF RouterTypeOK
      <3>2. CASE toModem' = toModem
        BY <3>1, <3>2, SMTT(30)
      <3>3. CASE RouterPeerReads
        BY <3>1, <3>3, SMTT(30) DEF RouterPeerReads, RouterTypeOK
      <3>4. QED
        BY <2>1, <3>2, <3>3
    <2>3. QED
      BY <2>1, <2>2
  <1>2. QED
    BY <1>1, RouterTypeCorrect, PTL DEF RouterSpec, RouterQuietAfterTermination

-----------------------------------------------------------------------------
(* Messages.                                                                *)

\* A message may carry no metrics and no address changes.
LEMMA ModemNoData == NoMetrics \in Metrics /\ NoChanges \in AddressChanges
  BY DEF NoMetrics, Metrics, NoChanges, AddressChanges

\* What the modem sends is a message.
LEMMA ModemSentMessages ==
  /\ \A type \in MessageType : Bare(type) \in Message
  /\ \A status \in MaybeStatus : Termination(status) \in Message
  /\ \A type \in MessageType, mac \in MAC, status \in MaybeStatus :
       DestMsg(type, mac, status) \in Message
  /\ \A type \in MessageType, mac \in MAC, status \in MaybeStatus,
        x \in Metrics, ch \in AddressChanges : Msg(type, mac, status, x, ch) \in Message
  /\ \A type \in MessageType, status \in MaybeStatus, x \in Metrics, ch \in AddressChanges :
       SessionMsg(type, status, x, ch) \in Message
  <1>1. NoStatus \in MaybeStatus /\ "SESSION_TERMINATION" \in MessageType
    BY DEF MaybeStatus, MessageType, SessionTypes
  <1>2. QED
    BY <1>1, ModemNoData DEF Bare, Termination, DestMsg, SessionMsg, Msg, Message

\* merge_link_metrics yields metrics.
LEMMA ModemMergeType ==
  ASSUME NEW x \in Metrics, NEW y \in Metrics
  PROVE  merge_link_metrics(x, y) \in Metrics
  BY DEF merge_link_metrics, Metrics

\* What is applied and compared are sets of addresses, and no difference means
\* equal sets.
LEMMA ModemAddressTypes ==
  /\ \A ch \in AddressChanges, s \in SUBSET Addr : apply_lenient(s, ch) \in SUBSET Addr
  /\ \A s, t \in SUBSET Addr : between(s, t) \in AddressChanges
  /\ \A s \in SUBSET Addr : [added |-> s, removed |-> {}] \in AddressChanges
  /\ \A s, t \in SUBSET Addr : between(s, t) = NoChanges => s = t
  <1>1. \A ch \in AddressChanges, s \in SUBSET Addr : apply_lenient(s, ch) \in SUBSET Addr
    BY DEF apply_lenient, AddressChanges
  <1>2. \A s, t \in SUBSET Addr : between(s, t) \in AddressChanges
    BY DEF between, AddressChanges
  <1>3. \A s \in SUBSET Addr : [added |-> s, removed |-> {}] \in AddressChanges
    BY DEF AddressChanges
  <1>4. ASSUME NEW s \in SUBSET Addr, NEW t \in SUBSET Addr, between(s, t) = NoChanges
        PROVE  s = t
    <2>1. t \ s = {} /\ s \ t = {}
      BY <1>4 DEF between, NoChanges
    <2>2. QED
      BY <2>1
  <1>5. QED
    BY <1>1, <1>2, <1>3, <1>4

\* What an accepted message satisfies, from the checks at the start of step.
LEMMA ModemAcceptedMessage ==
  ASSUME NEW msg \in Message, ModemTypeOK, mState = "InSession",
         ModemVerdict(msg) = "SUCCESS"
  PROVE  /\ msg.type \in SessionTypes \cup ModemTypes
         /\ msg.type \in ModemTypes => msg.mac \in MAC
         /\ msg.mac \in mPendingLink =>
              msg.type \notin {"DESTINATION_DOWN", "LINK_CHARACTERISTICS_REQUEST"}
         /\ msg.type \in ModemTypes =>
              validate_transaction(msg, mTxSession, mTxDest[msg.mac],
                                   msg.mac \in mAnnounced) = "SUCCESS"
  <1> DEFINE slot == IF msg.mac = NoMac THEN Idle ELSE mTxDest[msg.mac]
  <1>1. /\ validate_message(msg, FALSE, FALSE) = "SUCCESS"
        /\ msg.mac \in mPendingLink =>
             msg.type \notin {"DESTINATION_DOWN", "LINK_CHARACTERISTICS_REQUEST"}
        /\ validate_transaction(msg, mTxSession, slot, msg.mac \in mAnnounced) = "SUCCESS"
    BY DEF ModemVerdict, terminates_session, FatalStatus
  <1>2. msg.type \in SessionTypes \cup ModemTypes
    BY <1>1 DEF validate_message, Expected
  <1>3. msg.type \in ModemTypes => msg.mac \in MAC
    <2> SUFFICES ASSUME msg.type \in ModemTypes PROVE msg.mac \in MAC
      OBVIOUS
    <2>1. WellFormed(msg, FALSE, FALSE)
      BY <1>1 DEF validate_message, Expected, ModemTypes
    <2>2. "mac" \in Required(msg.type)
      BY DEF Required, ModemTypes
    <2>3. "mac" \in Items(msg)
      BY <2>1, <2>2 DEF WellFormed
    <2>4. QED
      BY <2>3 DEF Items, Message
  <1>4. msg.mac \in MAC => slot = mTxDest[msg.mac]
    BY MessageConstants
  <1>5. QED
    BY <1>1, <1>2, <1>3, <1>4

\* What validate_transaction establishes for each destination message.
LEMMA ModemAcceptedDestination ==
  ASSUME NEW msg \in Message, ModemTypeOK, mState = "InSession",
         ModemVerdict(msg) = "SUCCESS", msg.type \in ModemTypes
  PROVE  /\ msg.type = "DESTINATION_UP_RESPONSE" => mTxDest[msg.mac] = "DestinationUp"
         /\ msg.type = "DESTINATION_DOWN_RESPONSE" => mTxDest[msg.mac] = "DestinationDown"
         /\ msg.type = "DESTINATION_ANNOUNCE"
              => msg.mac \notin mAnnounced /\ mTxDest[msg.mac] = Idle
         /\ msg.type \in {"DESTINATION_DOWN", "LINK_CHARACTERISTICS_REQUEST"}
              => msg.mac \in mAnnounced /\ mTxDest[msg.mac] = Idle
  <1>1. validate_transaction(msg, mTxSession, mTxDest[msg.mac], msg.mac \in mAnnounced)
          = "SUCCESS"
    BY ModemAcceptedMessage
  <1>2. ~SlotConflict(msg, mTxSession, mTxDest[msg.mac])
    BY <1>1 DEF validate_transaction
  <1>3. /\ msg.type \in NeedsUp => msg.mac \in mAnnounced
        /\ msg.type \in NeedsDown => msg.mac \notin mAnnounced
    BY <1>1, <1>2 DEF validate_transaction
  <1>4. /\ RequestKindOf(msg.type) \in {Idle, mTxDest[msg.mac]}
        /\ msg.type \in ExclusiveRequest => mTxDest[msg.mac] = Idle
    BY <1>2 DEF SlotConflict
  <1>5. QED
    BY <1>3, <1>4 DEF NeedsUp, NeedsDown, ExclusiveRequest, RequestKindOf, Idle

-----------------------------------------------------------------------------
(* Type correctness.                                                        *)

\* Sending a message keeps the outbound queue one of messages.
LEMMA ModemSendType ==
  ASSUME ModemTypeOK, NEW msg \in Message, ModemSend(msg)
  PROVE  toRouter' \in Seq(Message)
  BY SMTT(30) DEF ModemSend, ModemTypeOK

\* Removing a destination keeps the types of the destinations.
LEMMA ModemRemoveType ==
  ASSUME ModemTypeOK, NEW mac \in MAC, ModemRemove(mac)
  PROVE  /\ mKnown' \subseteq MAC
         /\ mAnnounced' \subseteq MAC
         /\ mPendingMetrics' \subseteq MAC
         /\ mMetrics' \in [MAC -> Metrics]
         /\ mAddrs' \in [MAC -> SUBSET Addr]
         /\ mAdvertised' \in [MAC -> SUBSET Addr]
  BY ModemNoData DEF ModemRemove, ModemTypeOK

\* Starting a termination keeps the types.
LEMMA ModemTerminatingType ==
  ASSUME ModemTypeOK, NEW reason \in Status, NEW cancelled \in SUBSET Timer,
         ModemTerminating(reason, cancelled)
  PROVE  ModemTypeOK'
  <1>1. Termination(reason) \in Message
    BY ModemSentMessages DEF MaybeStatus
  <1>2. toRouter' \in Seq(Message)
    BY <1>1, ModemSendType DEF ModemTerminating
  <1>3. QED
    BY <1>2 DEF ModemTerminating, ModemTypeOK, ModemState, Timer, mTx, mDests, mData, mPeer

\* So does the end of the session.
LEMMA ModemTerminatedType ==
  ASSUME ModemTypeOK, NEW status \in MaybeStatus, ModemTerminated(status),
         mTimers' \subseteq mTimers, toRouter' \in Seq(Message)
  PROVE  ModemTypeOK'
  BY DEF ModemTerminated, ModemTypeOK, ModemState, mTx, mDests, mData, mPeer

\* So does protocol_error, which does one or the other.
LEMMA ModemProtocolErrorType ==
  ASSUME ModemTypeOK, NEW code \in Status, ModemProtocolError(code)
  PROVE  ModemTypeOK'
  <1>1. {"SessionInit", "Heartbeat", "HeartbeatMissed"} \in SUBSET Timer
    BY DEF Timer
  <1>2. CASE mState = "AwaitingSessionInit"
    <2>1. /\ ModemTerminated(code)
          /\ code \in MaybeStatus
          /\ mTimers' \subseteq mTimers
          /\ toRouter' \in Seq(Message)
      BY <1>2 DEF ModemProtocolError, ModemTypeOK, MaybeStatus
    <2>2. QED
      BY <2>1, ModemTerminatedType
  <1>3. CASE mState # "AwaitingSessionInit"
    BY <1>1, <1>3, ModemTerminatingType DEF ModemProtocolError
  <1>4. QED
    BY <1>2, <1>3

\* The result of the checks is a status code.
LEMMA ModemVerdictType ==
  ASSUME ModemTypeOK, NEW msg \in Message
  PROVE  ModemVerdict(msg) \in Status
  <1>1. \A init \in BOOLEAN : validate_message(msg, FALSE, init) \in Status
    BY DEF validate_message, Status, FatalStatus
  <1>2. \A slot : validate_transaction(msg, mTxSession, slot, msg.mac \in mAnnounced)
                    \in Status
    BY DEF validate_transaction, Status, FatalStatus
  <1>3. {"INVALID_DATA", "SUCCESS", "UNEXPECTED_MESSAGE"} \subseteq Status
    BY DEF Status, FatalStatus
  <1>4. terminates_session(msg.status) => msg.status \in Status
    BY DEF terminates_session, Status
  <1>5. QED
    BY <1>1, <1>2, <1>3, <1>4 DEF ModemVerdict

\* Every message keeps the types.
LEMMA ModemRecvType ==
  ASSUME ModemTypeOK, NEW msg \in Message, ModemRecv(msg)
  PROVE  ModemTypeOK'
  <1> USE DEF ModemState, Timer, mTx, mDests, mData, mPeer
  <1>a. "SUCCESS" \in MaybeStatus /\ "REQUEST_DENIED" \in MaybeStatus
         /\ NoStatus \in MaybeStatus
    BY DEF MaybeStatus, Status
  <1>b. /\ SessionTypes \cup ModemTypes \subseteq MessageType
        /\ {"SESSION_TERMINATION_RESPONSE", "SESSION_INITIALIZATION_RESPONSE",
            "DESTINATION_UPDATE"} \subseteq MessageType
        /\ {"DESTINATION_DOWN_RESPONSE", "DESTINATION_ANNOUNCE_RESPONSE",
            "LINK_CHARACTERISTICS_RESPONSE"} \subseteq MessageType
        /\ "SESSION_UPDATE_RESPONSE" \in MessageType
    BY DEF MessageType, SessionTypes, ModemTypes, RouterTypes
  <1>c. InitialMetrics \in Metrics
    BY ModemConstants DEF LinkMetrics, Metrics
  <1>1. CASE ModemRecvInvalid(msg)
    BY <1>1, ModemVerdictType, ModemProtocolErrorType DEF ModemRecvInvalid
  <1>2. CASE ModemRecvInit(msg)
    <2>1. SessionMsg("SESSION_INITIALIZATION_RESPONSE", "SUCCESS", InitialMetrics, NoChanges)
            \in Message
      BY <1>a, <1>b, <1>c, ModemSentMessages, ModemNoData
    <2>2. toRouter' \in Seq(Message)
      BY <1>2, <2>1, ModemSendType DEF ModemRecvInit
    <2>3. msg.addrs.added \subseteq Addr
      BY DEF Message, AddressChanges
    <2>4. QED
      BY <1>2, <2>2, <2>3 DEF ModemRecvInit, ModemEnterSession, ModemTypeOK
  <1>3. CASE ModemRecvTermination(msg)
    <2>1. Bare("SESSION_TERMINATION_RESPONSE") \in Message
      BY <1>b, ModemSentMessages
    <2>2. toRouter' \in Seq(Message)
      BY <1>3, <2>1, ModemSendType DEF ModemRecvTermination
    <2>3. msg.status \in MaybeStatus
      BY DEF Message
    <2>4. QED
      BY <1>3, <2>2, <2>3, ModemTerminatedType DEF ModemRecvTermination
  <1>4. CASE ModemRecvUpAccepted(msg)
    <2>1. msg.mac \in MAC
      BY <1>4, ModemAcceptedMessage DEF ModemRecvUpAccepted, ModemAccepts, ModemTypes
    <2>2. HeldBack(msg.mac) \in Message
      BY <1>a, <1>b, <2>1, ModemSentMessages, ModemNoData, ModemAddressTypes
      DEF HeldBack, ModemTypeOK
    <2>3. toRouter' \in Seq(Message)
      BY <1>4, <2>2, ModemSendType DEF ModemRecvUpAccepted, ModemTypeOK
    <2>4. QED
      BY <1>4, <2>1, <2>3
      DEF ModemRecvUpAccepted, ModemHeartbeatReset, ModemTypeOK, DestSlot, Idle
  <1>5. CASE ModemRecvUpRefused(msg)
    BY <1>5 DEF ModemRecvUpRefused, ModemHeartbeatReset, ModemTypeOK, DestSlot, Idle
  <1>6. CASE ModemRecvDestinationDown(msg)
    <2>1. msg.mac \in MAC
      BY <1>6, ModemAcceptedMessage DEF ModemRecvDestinationDown, ModemAccepts, ModemTypes
    <2>2. DestMsg("DESTINATION_DOWN_RESPONSE", msg.mac, "SUCCESS") \in Message
      BY <1>a, <1>b, <2>1, ModemSentMessages
    <2>3. toRouter' \in Seq(Message)
      BY <1>6, <2>2, ModemSendType DEF ModemRecvDestinationDown
    <2>4. QED
      BY <1>6, <2>3 DEF ModemRecvDestinationDown, ModemHeartbeatReset, ModemTypeOK
  <1>7. CASE ModemRecvDownResponse(msg)
    <2>1. msg.mac \in MAC
      BY <1>7, ModemAcceptedMessage DEF ModemRecvDownResponse, ModemAccepts, ModemTypes
    <2>2. /\ mKnown' \subseteq MAC
          /\ mAnnounced' \subseteq MAC
          /\ mPendingMetrics' \subseteq MAC
          /\ mMetrics' \in [MAC -> Metrics]
          /\ mAddrs' \in [MAC -> SUBSET Addr]
          /\ mAdvertised' \in [MAC -> SUBSET Addr]
      BY <1>7, <2>1, ModemRemoveType DEF ModemRecvDownResponse
    <2>3. QED
      BY <1>7, <2>2
      DEF ModemRecvDownResponse, ModemHeartbeatReset, ModemTypeOK, DestSlot, Idle
  <1>8. CASE ModemRecvSessionUpdate(msg)
    <2>1. SessionMsg("SESSION_UPDATE_RESPONSE", "SUCCESS", NoMetrics, NoChanges) \in Message
      BY <1>a, <1>b, ModemSentMessages, ModemNoData
    <2>2. toRouter' \in Seq(Message)
      BY <1>8, <2>1, ModemSendType DEF ModemRecvSessionUpdate
    <2>3. apply_lenient(mPeerAddrs, msg.addrs) \in SUBSET Addr
      BY ModemAddressTypes DEF Message, ModemTypeOK
    <2>4. QED
      BY <1>8, <2>2, <2>3 DEF ModemRecvSessionUpdate, ModemHeartbeatReset, ModemTypeOK
  <1>9. CASE ModemRecvSessionUpdateResponse(msg)
    BY <1>9 DEF ModemRecvSessionUpdateResponse, ModemHeartbeatReset, ModemTypeOK,
                SessionSlot, Idle
  <1>10. CASE ModemRecvAnnounceKnown(msg)
    <2>1. msg.mac \in MAC
      BY <1>10, ModemAcceptedMessage DEF ModemRecvAnnounceKnown, ModemAccepts, ModemTypes
    <2>2. Msg("DESTINATION_ANNOUNCE_RESPONSE", msg.mac, "SUCCESS", mMetrics[msg.mac],
              [added |-> mAddrs[msg.mac], removed |-> {}]) \in Message
      BY <1>a, <1>b, <2>1, ModemSentMessages, ModemAddressTypes
      DEF ModemTypeOK
    <2>3. toRouter' \in Seq(Message)
      BY <1>10, <2>2, ModemSendType DEF ModemRecvAnnounceKnown
    <2>4. QED
      BY <1>10, <2>1, <2>3 DEF ModemRecvAnnounceKnown, ModemHeartbeatReset, ModemTypeOK
  <1>11. CASE ModemRecvAnnounceUnknown(msg)
    <2>1. msg.mac \in MAC
      BY <1>11, ModemAcceptedMessage DEF ModemRecvAnnounceUnknown, ModemAccepts, ModemTypes
    <2>2. DestMsg("DESTINATION_ANNOUNCE_RESPONSE", msg.mac, "REQUEST_DENIED") \in Message
      BY <1>a, <1>b, <2>1, ModemSentMessages
    <2>3. toRouter' \in Seq(Message)
      BY <1>11, <2>2, ModemSendType DEF ModemRecvAnnounceUnknown
    <2>4. QED
      BY <1>11, <2>3 DEF ModemRecvAnnounceUnknown, ModemHeartbeatReset, ModemTypeOK
  <1>12. CASE ModemRecvLinkRequest(msg)
    <2>1. msg.mac \in MAC
      BY <1>12, ModemAcceptedMessage DEF ModemRecvLinkRequest, ModemAccepts, ModemTypes
    <2>2. LinkReply(msg.mac, "REQUEST_DENIED", mMetrics[msg.mac]) \in Message
      BY <1>a, <1>b, <2>1, ModemSentMessages, ModemNoData DEF LinkReply, ModemTypeOK
    <2>3. toRouter' \in Seq(Message)
      BY <1>12, <2>2, ModemSendType DEF ModemRecvLinkRequest, ModemTypeOK
    <2>4. mPendingLink' \subseteq MAC
      BY <1>12, <2>1 DEF ModemRecvLinkRequest, ModemTypeOK
    <2>5. QED
      BY <1>12, <2>3, <2>4
      DEF ModemRecvLinkRequest, ModemHeartbeatReset, ModemTypeOK
  <1>13. CASE ModemRecvHeartbeat(msg)
    BY <1>13 DEF ModemRecvHeartbeat, ModemHeartbeatReset, ModemTypeOK
  <1>14. CASE ModemRecvTerminationResponse(msg)
    <2>1. mReason \in MaybeStatus /\ toRouter \in Seq(Message)
      BY DEF ModemTypeOK, MaybeStatus
    <2>2. QED
      BY <1>14, <2>1, ModemTerminatedType DEF ModemRecvTerminationResponse
  <1>15. CASE ModemIgnore(msg)
    BY <1>15 DEF ModemIgnore, ModemTypeOK, modemVars, mControl
  <1>16. QED
    BY <1>1, <1>2, <1>3, <1>4, <1>5, <1>6, <1>7, <1>8, <1>9, <1>10, <1>11, <1>12,
       <1>13, <1>14, <1>15 DEF ModemRecv

\* Every command keeps the types.
LEMMA ModemAppType ==
  ASSUME ModemTypeOK, ModemApp
  PROVE  ModemTypeOK'
  <1> USE DEF mTx, mDests, mData, mPeer, mControl
  <1>a. NoStatus \in MaybeStatus /\ Status \subseteq MaybeStatus
    BY DEF MaybeStatus
  <1>b. {"DESTINATION_UP", "DESTINATION_UPDATE", "DESTINATION_DOWN",
         "LINK_CHARACTERISTICS_RESPONSE", "SESSION_UPDATE"} \subseteq MessageType
    BY DEF MessageType, SessionTypes, RouterTypes
  <1>c. Supply \cup {NoMetrics} \subseteq Metrics
    BY ModemConstants, ModemNoData DEF LinkMetrics, Metrics
  <1>1. ASSUME NEW mac \in MAC, NEW supplied \in Supply, NEW addrs \in SUBSET Addr,
               ModemAppAddDestination(mac, supplied, addrs)
        PROVE  ModemTypeOK'
    <2> DEFINE metrics == merge_link_metrics(supplied, mSessionMetrics)
    <2>1. metrics \in Metrics
      BY <1>c, ModemMergeType DEF ModemTypeOK
    <2>2. Msg("DESTINATION_UP", mac, NoStatus, metrics, [added |-> addrs, removed |-> {}])
            \in Message
      BY <1>a, <1>b, <2>1, ModemSentMessages, ModemAddressTypes
    <2>3. toRouter' \in Seq(Message)
      BY <1>1, <2>2, ModemSendType DEF ModemAppAddDestination
    <2>4. QED
      BY <1>1, <2>1, <2>3 DEF ModemAppAddDestination, ModemTypeOK, DestSlot
  <1>2. ASSUME NEW mac \in MAC, NEW supplied \in Supply, ModemAppUpdateMetrics(mac, supplied)
        PROVE  ModemTypeOK'
    <2>1. \A x \in Metrics : merge_link_metrics(supplied, x) \in Metrics
      BY <1>c, ModemMergeType
    <2>2. Msg("DESTINATION_UPDATE", mac, NoStatus, supplied, NoChanges) \in Message
      BY <1>a, <1>b, <1>c, ModemSentMessages, ModemNoData
    <2>3. toRouter' \in Seq(Message)
      BY <1>2, <2>2, ModemSendType DEF ModemAppUpdateMetrics, ModemTypeOK
    <2>4. mPendingMetrics' \subseteq MAC
      BY <1>2 DEF ModemAppUpdateMetrics, ModemTypeOK
    <2>5. QED
      BY <1>2, <2>1, <2>3, <2>4 DEF ModemAppUpdateMetrics, ModemTypeOK
  <1>3. ASSUME NEW mac \in MAC, NEW ch \in AddressChanges, ModemAppUpdateAddresses(mac, ch)
        PROVE  ModemTypeOK'
    <2> DEFINE desired == apply_lenient(mAddrs[mac], ch)
               effective == between(mAdvertised[mac], desired)
    <2>1. desired \in SUBSET Addr
      BY ModemAddressTypes DEF ModemTypeOK
    <2>2. effective \in AddressChanges
      BY <2>1, ModemAddressTypes DEF ModemTypeOK
    <2>3. Msg("DESTINATION_UPDATE", mac, NoStatus, NoMetrics, effective) \in Message
      BY <1>a, <1>b, <2>2, ModemSentMessages, ModemNoData
    <2>4. toRouter' \in Seq(Message)
      BY <1>3, <2>3, ModemSendType DEF ModemAppUpdateAddresses, ModemTypeOK
    <2>5. mAdvertised' \in [MAC -> SUBSET Addr] /\ mAddrs' \in [MAC -> SUBSET Addr]
      BY <1>3, <2>1 DEF ModemAppUpdateAddresses, ModemTypeOK
    <2>6. QED
      BY <1>3, <2>4, <2>5 DEF ModemAppUpdateAddresses, ModemTypeOK
  <1>4. ASSUME NEW mac \in MAC, ModemAppDropDestination(mac)
        PROVE  ModemTypeOK'
    <2>1. CASE mac \notin mAnnounced
      <3>1. /\ mKnown' \subseteq MAC
            /\ mAnnounced' \subseteq MAC
            /\ mPendingMetrics' \subseteq MAC
            /\ mMetrics' \in [MAC -> Metrics]
            /\ mAddrs' \in [MAC -> SUBSET Addr]
            /\ mAdvertised' \in [MAC -> SUBSET Addr]
        BY <1>4, <2>1, ModemRemoveType DEF ModemAppDropDestination
      <3>2. QED
        BY <1>4, <2>1, <3>1 DEF ModemAppDropDestination, ModemTypeOK
    <2>2. CASE mac \in mAnnounced
      <3>1. DestMsg("DESTINATION_DOWN", mac, NoStatus) \in Message
        BY <1>a, <1>b, ModemSentMessages
      <3>2. toRouter' \in Seq(Message)
        BY <1>4, <2>2, <3>1, ModemSendType DEF ModemAppDropDestination
      <3>3. QED
        BY <1>4, <2>2, <3>2 DEF ModemAppDropDestination, ModemTypeOK, DestSlot
    <2>3. QED
      BY <2>1, <2>2
  <1>5. ASSUME NEW mac \in MAC, NEW status \in Status, NEW supplied \in Supply \cup {NoMetrics},
               ModemAppLinkCharacteristicsResponse(mac, status, supplied)
        PROVE  ModemTypeOK'
    <2> DEFINE metrics == merge_link_metrics(supplied, mMetrics[mac])
    <2>1. metrics \in Metrics
      BY <1>c, ModemMergeType DEF ModemTypeOK
    <2>2. LinkReply(mac, status, metrics) \in Message
      BY <1>a, <1>b, <2>1, ModemSentMessages, ModemNoData DEF LinkReply
    <2>3. toRouter' \in Seq(Message)
      BY <1>5, <2>2, ModemSendType DEF ModemAppLinkCharacteristicsResponse
    <2>4. QED
      BY <1>5, <2>1, <2>3 DEF ModemAppLinkCharacteristicsResponse, ModemTypeOK
  <1>6. ASSUME NEW supplied \in Supply, ModemAppSessionUpdate(supplied)
        PROVE  ModemTypeOK'
    <2>1. \A x \in Metrics : merge_link_metrics(supplied, x) \in Metrics
      BY <1>c, ModemMergeType
    <2>2. SessionMsg("SESSION_UPDATE", NoStatus, supplied, NoChanges) \in Message
      BY <1>a, <1>b, <1>c, ModemSentMessages, ModemNoData
    <2>3. toRouter' \in Seq(Message)
      BY <1>6, <2>2, ModemSendType DEF ModemAppSessionUpdate
    <2>4. mMetrics' \in [MAC -> Metrics]
      BY <1>6, <2>1 DEF ModemAppSessionUpdate, ModemTypeOK
    <2>5. QED
      BY <1>6, <2>1, <2>3, <2>4 DEF ModemAppSessionUpdate, ModemTypeOK, SessionSlot
  <1>7. ASSUME NEW ch \in AddressChanges, ModemAppSessionAddresses(ch)
        PROVE  ModemTypeOK'
    <2> DEFINE desired == apply_lenient(mLocalAddrs, ch)
               effective == between(mLocalAddrs, desired)
    <2>1. desired \in SUBSET Addr
      BY ModemAddressTypes DEF ModemTypeOK
    <2>2. effective \in AddressChanges
      BY <2>1, ModemAddressTypes DEF ModemTypeOK
    <2>3. SessionMsg("SESSION_UPDATE", NoStatus, NoMetrics, effective) \in Message
      BY <1>a, <1>b, <2>2, ModemSentMessages, ModemNoData
    <2>4. toRouter' \in Seq(Message)
      BY <1>7, <2>3, ModemSendType DEF ModemAppSessionAddresses
    <2>5. QED
      BY <1>7, <2>1, <2>4 DEF ModemAppSessionAddresses, ModemTypeOK, SessionSlot
  <1>8. CASE ModemAppShutdown("SHUTTING_DOWN")
    <2>1. "SHUTTING_DOWN" \in Status /\ "SHUTTING_DOWN" \in MaybeStatus
      BY DEF Status, FatalStatus, MaybeStatus
    <2>2. {"Heartbeat", "HeartbeatMissed"} \in SUBSET Timer
      BY DEF Timer
    <2>3. CASE mState = "Listening"
      BY <1>8, <2>3 DEF ModemAppShutdown, ModemTypeOK, ModemState
    <2>4. CASE mState = "AwaitingSessionInit"
      <3>1. toRouter' \in Seq(Message) /\ mTimers' \subseteq mTimers
        BY <1>8, <2>4 DEF ModemAppShutdown, ModemTypeOK
      <3>2. QED
        BY <1>8, <2>1, <2>4, <3>1, ModemTerminatedType DEF ModemAppShutdown
    <2>5. CASE mState = "InSession"
      BY <1>8, <2>1, <2>2, <2>5, ModemTerminatingType DEF ModemAppShutdown
    <2>6. QED
      BY <1>8, <2>3, <2>4, <2>5 DEF ModemAppShutdown
  <1>9. QED
    BY <1>1, <1>2, <1>3, <1>4, <1>5, <1>6, <1>7, <1>8 DEF ModemApp

\* The peer's end, the timers and the transport keep the types.
LEMMA ModemEnvironmentType ==
  ASSUME ModemTypeOK,
         \/ ModemTcpAccepted \/ ModemDecodeError \/ ModemHeartbeatTick
         \/ ModemDeadline \/ ModemTcpClosed \/ ModemPeerReads
  PROVE  ModemTypeOK'
  <1> USE DEF mTx, mDests, mData, mPeer, mControl
  <1>1. /\ {"TIMED_OUT", "INVALID_DATA"} \subseteq Status
        /\ Status \subseteq MaybeStatus
    BY DEF Status, FatalStatus, MaybeStatus
  <1>2. Bare("HEARTBEAT") \in Message
    BY ModemSentMessages DEF MessageType, SessionTypes
  <1>3. CASE ModemTcpAccepted
    BY <1>3 DEF ModemTcpAccepted, ModemTypeOK, ModemState, Timer
  <1>4. CASE ModemDecodeError
    BY <1>1, <1>4, ModemProtocolErrorType DEF ModemDecodeError
  <1>5. CASE ModemHeartbeatTick
    <2>1. toRouter' \in Seq(Message)
      BY <1>2, <1>5, ModemSendType DEF ModemHeartbeatTick
    <2>2. QED
      BY <1>5, <2>1 DEF ModemHeartbeatTick, ModemTypeOK
  <1>6. CASE ModemDeadline
    <2>1. CASE ModemHeartbeatMissed
      <3>1. {"Heartbeat", "HeartbeatMissed"} \in SUBSET Timer
        BY DEF Timer
      <3>2. QED
        BY <1>1, <2>1, <3>1, ModemTerminatingType DEF ModemHeartbeatMissed
    <2>2. CASE ModemSessionInitTimeout \/ ModemTerminationTimeout
      <3>1. toRouter' \in Seq(Message) /\ mTimers' \subseteq mTimers
        BY <2>2 DEF ModemSessionInitTimeout, ModemTerminationTimeout, ModemTypeOK
      <3>2. QED
        BY <1>1, <2>2, <3>1, ModemTerminatedType
        DEF ModemSessionInitTimeout, ModemTerminationTimeout
    <2>3. QED
      BY <1>6, <2>1, <2>2 DEF ModemDeadline
  <1>7. CASE ModemTcpClosed
    <2>1. CASE mState = "Listening"
      BY <1>7, <2>1 DEF ModemTcpClosed, ModemTypeOK, ModemState
    <2>2. CASE mState # "Listening"
      <3>1. toRouter' \in Seq(Message) /\ mTimers' \subseteq mTimers
        BY <1>7, <2>2 DEF ModemTcpClosed, ModemTypeOK
      <3>2. mReason \in MaybeStatus
        BY <1>1 DEF ModemTypeOK
      <3>3. QED
        BY <1>1, <1>7, <2>2, <3>1, <3>2, ModemTerminatedType DEF ModemTcpClosed
    <2>3. QED
      BY <2>1, <2>2
  <1>8. CASE ModemPeerReads
    <2>1. toRouter' \in Seq(Message)
      BY <1>8, SMTT(30) DEF ModemPeerReads, ModemTypeOK
    <2>2. QED
      BY <1>8, <2>1 DEF ModemPeerReads, ModemTypeOK
  <1>9. QED
    BY <1>3, <1>4, <1>5, <1>6, <1>7, <1>8

\* Every variable of the modem keeps its type in every behaviour.
THEOREM ModemTypeCorrect == ModemSpec => []ModemTypeOK
  <1>1. ModemInit => ModemTypeOK
    BY ModemNoData, ModemConstants, SMTT(30)
    DEF ModemInit, ModemTypeOK, ModemState, Status, MaybeStatus, SessionSlot,
        DestSlot, Idle, LinkMetrics, Metrics
  <1>2. ModemTypeOK /\ [ModemNext]_modemVars => ModemTypeOK'
    <2> SUFFICES ASSUME ModemTypeOK, [ModemNext]_modemVars PROVE ModemTypeOK'
      OBVIOUS
    <2>1. CASE UNCHANGED modemVars
      BY <2>1 DEF ModemTypeOK, modemVars, mControl, mTx, mDests, mData, mPeer
    <2>2. CASE ModemNext
      BY <2>2, ModemRecvType, ModemAppType, ModemEnvironmentType, ModemPeer DEF ModemNext
    <2>3. QED
      BY <2>1, <2>2
  <1>3. QED
    BY <1>1, <1>2, PTL DEF ModemSpec

-----------------------------------------------------------------------------
(* Timers.  The property is inductive given the types.                      *)

\* Handlers that stay in session re-arm HeartbeatMissed or leave the timers
\* alone; every other handler moves to a state whose timer it arms.
LEMMA ModemRecvTimers ==
  ASSUME ModemTimersMatchState, NEW msg \in Message, ModemRecv(msg)
  PROVE  ModemTimersMatchState'
  <1> USE DEF ModemTimersMatchState
  <1>1. CASE ModemRecvInvalid(msg)
    BY <1>1 DEF ModemRecvInvalid, ModemProtocolError, ModemTerminating, ModemTerminated
  <1>2. CASE ModemRecvInit(msg)
    BY <1>2 DEF ModemRecvInit, ModemEnterSession
  <1>3. CASE ModemRecvTermination(msg) \/ ModemRecvTerminationResponse(msg)
    BY <1>3 DEF ModemRecvTermination, ModemRecvTerminationResponse, ModemTerminated
  <1>4. CASE \/ ModemRecvUpAccepted(msg) \/ ModemRecvUpRefused(msg)
             \/ ModemRecvDestinationDown(msg) \/ ModemRecvDownResponse(msg)
             \/ ModemRecvSessionUpdate(msg) \/ ModemRecvSessionUpdateResponse(msg)
             \/ ModemRecvAnnounceKnown(msg) \/ ModemRecvAnnounceUnknown(msg)
             \/ ModemRecvLinkRequest(msg) \/ ModemRecvHeartbeat(msg)
    <2>1. mState = "InSession" /\ mState' = mState /\ ModemHeartbeatReset
      BY <1>4
      DEF ModemAccepts, ModemRecvUpAccepted, ModemRecvUpRefused,
          ModemRecvDestinationDown, ModemRecvDownResponse,
          ModemRecvSessionUpdate, ModemRecvSessionUpdateResponse,
          ModemRecvAnnounceKnown, ModemRecvAnnounceUnknown,
          ModemRecvLinkRequest, ModemRecvHeartbeat
    <2>2. QED
      BY <2>1 DEF ModemHeartbeatReset
  <1>5. CASE ModemIgnore(msg)
    BY <1>5 DEF ModemIgnore, modemVars, mControl
  <1>6. QED
    BY <1>1, <1>2, <1>3, <1>4, <1>5 DEF ModemRecv

\* A command other than Shutdown leaves state and timers alone.
LEMMA ModemCommandsKeepControl ==
  ASSUME ModemApp, ~ModemAppShutdown("SHUTTING_DOWN")
  PROVE  UNCHANGED mControl
  BY DEF ModemApp, ModemAppAddDestination, ModemAppUpdateMetrics, ModemAppUpdateAddresses,
         ModemAppDropDestination, ModemAppLinkCharacteristicsResponse,
         ModemAppSessionUpdate, ModemAppSessionAddresses

\* Commands, timers and the transport keep the timers in step as well.
LEMMA ModemOtherTimers ==
  ASSUME ModemTypeOK, ModemTimersMatchState,
         \/ ModemTcpAccepted \/ ModemDecodeError \/ ModemApp \/ ModemHeartbeatTick
         \/ ModemDeadline \/ ModemTcpClosed \/ ModemPeerReads
  PROVE  ModemTimersMatchState'
  <1> USE DEF ModemTimersMatchState
  <1>1. CASE ModemTcpAccepted \/ ModemHeartbeatTick \/ ModemPeerReads
    BY <1>1 DEF ModemTcpAccepted, ModemHeartbeatTick, ModemPeerReads, mControl
  <1>2. CASE ModemDecodeError
    BY <1>2 DEF ModemDecodeError, ModemProtocolError, ModemTerminating, ModemTerminated
  <1>3. CASE ModemAppShutdown("SHUTTING_DOWN")
    BY <1>3 DEF ModemAppShutdown, ModemTerminated, ModemTerminating
  <1>4. CASE ModemApp /\ ~ModemAppShutdown("SHUTTING_DOWN")
    BY <1>4, ModemCommandsKeepControl DEF mControl
  <1>5. CASE ModemDeadline
    BY <1>5
    DEF ModemDeadline, ModemSessionInitTimeout, ModemHeartbeatMissed,
        ModemTerminationTimeout, ModemTerminated, ModemTerminating
  <1>6. CASE ModemTcpClosed
    BY <1>6 DEF ModemTcpClosed, ModemTerminated
  <1>7. QED
    BY <1>1, <1>2, <1>3, <1>4, <1>5, <1>6

\* In every state the modem waits in, exactly the deadline that ends the wait
\* is armed, whatever the peer does (ModemTimersMatchState).
THEOREM ModemTimersCorrect == ModemSpec => []ModemTimersMatchState
  <1>1. ModemInit => ModemTimersMatchState
    BY DEF ModemInit, ModemTimersMatchState
  <1>2. ModemTypeOK /\ ModemTimersMatchState /\ [ModemNext]_modemVars
          => ModemTimersMatchState'
    <2> SUFFICES ASSUME ModemTypeOK, ModemTimersMatchState, [ModemNext]_modemVars
                 PROVE  ModemTimersMatchState'
      OBVIOUS
    <2>1. CASE UNCHANGED modemVars
      BY <2>1 DEF ModemTimersMatchState, modemVars, mControl
    <2>2. CASE ModemNext
      BY <2>2, ModemRecvTimers, ModemOtherTimers, ModemPeer DEF ModemNext
    <2>3. QED
      BY <2>1, <2>2
  <1>3. QED
    BY <1>1, <1>2, ModemTypeCorrect, PTL DEF ModemSpec

-----------------------------------------------------------------------------
(* Requests, destinations and held back updates.  The two properties are    *)
(* inductive together: an accepted Up must find a destination that is not   *)
(* yet announced, and an addition one that is not announced either.         *)

\* What the modem keeps of its destinations.
ModemDestInv == ModemRequestsMatchDestinations /\ ModemHoldsNothingBack

\* Steps that leave the requests and the tables of destinations alone.
LEMMA ModemSameDests ==
  ASSUME ModemDestInv,
         UNCHANGED <<mTxDest, mKnown, mAnnounced, mPendingMetrics, mAddrs, mAdvertised,
                     mPendingLink>>
  PROVE  ModemDestInv'
  BY DEF ModemDestInv, ModemRequestsMatchDestinations, ModemHoldsNothingBack

\* What ModemDestInv says of one destination.
ModemDestOK(m) ==
  /\ m \in mAnnounced => m \in mKnown
  /\ mTxDest[m] = "DestinationUp" => m \in mKnown \ mAnnounced
  /\ mTxDest[m] = "DestinationDown" => m \in mAnnounced
  /\ mTxDest[m] \in {Idle, "DestinationUp", "DestinationDown"}
  /\ m \in mPendingLink => m \in mAnnounced /\ mTxDest[m] = Idle
  /\ m \in mAnnounced /\ mTxDest[m] = Idle =>
       m \notin mPendingMetrics /\ mAdvertised[m] = mAddrs[m]

\* ModemDestInv speaks of each destination separately.
LEMMA ModemDestInvPointwise ==
  ASSUME ModemTypeOK
  PROVE  ModemDestInv <=> \A m \in MAC : ModemDestOK(m)
  BY DEF ModemDestInv, ModemRequestsMatchDestinations, ModemHoldsNothingBack, ModemDestOK,
         ModemTypeOK

\* The state of destination m is what it was.
ModemSameDest(m) ==
  /\ mTxDest'[m] = mTxDest[m]
  /\ m \in mKnown' <=> m \in mKnown
  /\ m \in mAnnounced' <=> m \in mAnnounced
  /\ m \in mPendingMetrics' <=> m \in mPendingMetrics
  /\ mAddrs'[m] = mAddrs[m]
  /\ mAdvertised'[m] = mAdvertised[m]
  /\ m \in mPendingLink' <=> m \in mPendingLink

\* A step that changes one destination keeps ModemDestInv if that destination
\* stays in order.
LEMMA ModemOneDest ==
  ASSUME ModemTypeOK, ModemTypeOK', ModemDestInv, NEW mac \in MAC,
         \A m \in MAC \ {mac} : ModemSameDest(m),
         ModemDestOK(mac)'
  PROVE  ModemDestInv'
  <1>1. \A m \in MAC : ModemDestOK(m)
    BY ModemDestInvPointwise
  <1>2. ASSUME NEW m \in MAC \ {mac} PROVE ModemDestOK(m)'
    <2>1. ModemDestOK(m) /\ ModemSameDest(m)
      BY <1>1
    <2>2. QED
      BY <2>1 DEF ModemDestOK, ModemSameDest
  <1>3. (\A m \in MAC : ModemDestOK(m))'
    BY <1>2
  <1>4. (ModemDestInv <=> \A m \in MAC : ModemDestOK(m))'
    BY ModemDestInvPointwise, PTL
  <1>5. QED
    BY <1>3, <1>4

\* No message breaks it: a response is taken only for the request that is open,
\* and what an Up or an Announce Response reports is everything there is.
LEMMA ModemRecvDests ==
  ASSUME ModemTypeOK, ModemTypeOK', ModemDestInv, NEW msg \in Message, ModemRecv(msg)
  PROVE  ModemDestInv'
  <1> USE DEF mTx, mDests, mData
  <1>1. CASE \/ ModemRecvInvalid(msg) \/ ModemRecvInit(msg) \/ ModemRecvTermination(msg)
             \/ ModemRecvSessionUpdate(msg) \/ ModemRecvSessionUpdateResponse(msg)
             \/ ModemRecvAnnounceUnknown(msg) \/ ModemRecvHeartbeat(msg)
             \/ ModemRecvTerminationResponse(msg) \/ ModemIgnore(msg)
    <2>1. UNCHANGED <<mTxDest, mKnown, mAnnounced, mPendingMetrics, mAddrs, mAdvertised,
                      mPendingLink>>
      BY <1>1
      DEF ModemRecvInvalid, ModemRecvInit, ModemRecvTermination,
          ModemRecvSessionUpdate, ModemRecvSessionUpdateResponse,
          ModemRecvAnnounceUnknown, ModemRecvHeartbeat,
          ModemRecvTerminationResponse, ModemIgnore, ModemProtocolError,
          ModemTerminating, ModemTerminated, modemVars
    <2>2. QED
      BY <2>1, ModemSameDests
  <1>2. CASE ModemRecvUpAccepted(msg)
    <2>1. msg.mac \in MAC /\ mTxDest[msg.mac] = "DestinationUp"
      BY <1>2, ModemAcceptedMessage, ModemAcceptedDestination
      DEF ModemRecvUpAccepted, ModemAccepts, ModemTypes
    <2>2. ModemDestOK(msg.mac)
      BY <2>1, ModemDestInvPointwise
    <2>3. \A m \in MAC \ {msg.mac} : ModemSameDest(m)
      BY <1>2, <2>1 DEF ModemRecvUpAccepted, ModemSameDest, ModemTypeOK
    <2>4. ModemDestOK(msg.mac)'
      BY <1>2, <2>1, <2>2
      DEF ModemRecvUpAccepted, ModemDestOK, ModemTypeOK, Idle
    <2>5. QED
      BY <2>1, <2>3, <2>4, ModemOneDest
  <1>3. CASE ModemRecvUpRefused(msg)
    <2>1. msg.mac \in MAC /\ mTxDest[msg.mac] = "DestinationUp"
      BY <1>3, ModemAcceptedMessage, ModemAcceptedDestination
      DEF ModemRecvUpRefused, ModemAccepts, ModemTypes
    <2>2. ModemDestOK(msg.mac)
      BY <2>1, ModemDestInvPointwise
    <2>3. \A m \in MAC \ {msg.mac} : ModemSameDest(m)
      BY <1>3, <2>1 DEF ModemRecvUpRefused, ModemSameDest, ModemTypeOK
    <2>4. ModemDestOK(msg.mac)'
      BY <1>3, <2>1, <2>2
      DEF ModemRecvUpRefused, ModemDestOK, ModemTypeOK, Idle
    <2>5. QED
      BY <2>1, <2>3, <2>4, ModemOneDest
  <1>4. CASE ModemRecvDestinationDown(msg)
    <2>1. /\ msg.mac \in MAC
          /\ mTxDest[msg.mac] = Idle
          /\ msg.mac \notin mPendingLink
      BY <1>4, ModemAcceptedMessage, ModemAcceptedDestination
      DEF ModemRecvDestinationDown, ModemAccepts, ModemTypes
    <2>2. ModemDestOK(msg.mac)
      BY <2>1, ModemDestInvPointwise
    <2>3. \A m \in MAC \ {msg.mac} : ModemSameDest(m)
      BY <1>4, <2>1 DEF ModemRecvDestinationDown, ModemSameDest
    <2>4. ModemDestOK(msg.mac)'
      BY <1>4, <2>1, <2>2 DEF ModemRecvDestinationDown, ModemDestOK, Idle
    <2>5. QED
      BY <2>1, <2>3, <2>4, ModemOneDest
  <1>5. CASE ModemRecvDownResponse(msg)
    <2>1. msg.mac \in MAC /\ mTxDest[msg.mac] = "DestinationDown"
      BY <1>5, ModemAcceptedMessage, ModemAcceptedDestination
      DEF ModemRecvDownResponse, ModemAccepts, ModemTypes
    <2>2. ModemDestOK(msg.mac)
      BY <2>1, ModemDestInvPointwise
    <2>3. \A m \in MAC \ {msg.mac} : ModemSameDest(m)
      BY <1>5, <2>1
      DEF ModemRecvDownResponse, ModemRemove, ModemSameDest, ModemTypeOK
    <2>4. ModemDestOK(msg.mac)'
      BY <1>5, <2>1, <2>2
      DEF ModemRecvDownResponse, ModemRemove, ModemDestOK, ModemTypeOK, Idle
    <2>5. QED
      BY <2>1, <2>3, <2>4, ModemOneDest
  <1>6. CASE ModemRecvAnnounceKnown(msg)
    <2>1. /\ msg.mac \in MAC
          /\ mTxDest[msg.mac] = Idle
          /\ msg.mac \notin mAnnounced
      BY <1>6, ModemAcceptedMessage, ModemAcceptedDestination
      DEF ModemRecvAnnounceKnown, ModemAccepts, ModemTypes
    <2>2. ModemDestOK(msg.mac)
      BY <2>1, ModemDestInvPointwise
    <2>3. \A m \in MAC \ {msg.mac} : ModemSameDest(m)
      BY <1>6, <2>1 DEF ModemRecvAnnounceKnown, ModemSameDest, ModemTypeOK
    <2>4. ModemDestOK(msg.mac)'
      BY <1>6, <2>1, <2>2
      DEF ModemRecvAnnounceKnown, ModemDestOK, ModemTypeOK, Idle
    <2>5. QED
      BY <2>1, <2>3, <2>4, ModemOneDest
  <1>7. CASE ModemRecvLinkRequest(msg)
    <2>1. /\ msg.mac \in MAC
          /\ mTxDest[msg.mac] = Idle
          /\ msg.mac \in mAnnounced
      BY <1>7, ModemAcceptedMessage, ModemAcceptedDestination
      DEF ModemRecvLinkRequest, ModemAccepts, ModemTypes
    <2>2. ModemDestOK(msg.mac)
      BY <2>1, ModemDestInvPointwise
    <2>3. \A m \in MAC \ {msg.mac} : ModemSameDest(m)
      BY <1>7, <2>1 DEF ModemRecvLinkRequest, ModemSameDest
    <2>4. ModemDestOK(msg.mac)'
      BY <1>7, <2>1, <2>2 DEF ModemRecvLinkRequest, ModemDestOK
    <2>5. QED
      BY <2>1, <2>3, <2>4, ModemOneDest
  <1>8. QED
    BY <1>1, <1>2, <1>3, <1>4, <1>5, <1>6, <1>7 DEF ModemRecv

\* No command breaks it: a change is either reported or, while the destination
\* cannot be reported on, held back.
LEMMA ModemAppDests ==
  ASSUME ModemTypeOK, ModemTypeOK', ModemDestInv, ModemApp
  PROVE  ModemDestInv'
  <1> USE DEF mTx, mDests, mData
  <1>1. ASSUME NEW mac \in MAC, NEW supplied, NEW addrs,
               ModemAppAddDestination(mac, supplied, addrs)
        PROVE  ModemDestInv'
    <2>1. ModemDestOK(mac)
      BY ModemDestInvPointwise
    <2>2. \A m \in MAC \ {mac} : ModemSameDest(m)
      BY <1>1 DEF ModemAppAddDestination, ModemSameDest, ModemTypeOK
    <2>3. ModemDestOK(mac)'
      BY <1>1, <2>1 DEF ModemAppAddDestination, ModemDestOK, ModemTypeOK, Idle
    <2>4. QED
      BY <2>2, <2>3, ModemOneDest
  <1>2. ASSUME NEW mac \in MAC, NEW supplied, ModemAppUpdateMetrics(mac, supplied)
        PROVE  ModemDestInv'
    <2>1. ModemDestOK(mac)
      BY ModemDestInvPointwise
    <2>2. \A m \in MAC \ {mac} : ModemSameDest(m)
      BY <1>2 DEF ModemAppUpdateMetrics, ModemSameDest
    <2>3. ModemDestOK(mac)'
      BY <1>2, <2>1 DEF ModemAppUpdateMetrics, ModemReporting, ModemDestOK
    <2>4. QED
      BY <2>2, <2>3, ModemOneDest
  <1>3. ASSUME NEW mac \in MAC, NEW ch \in AddressChanges, ModemAppUpdateAddresses(mac, ch)
        PROVE  ModemDestInv'
    <2> DEFINE desired == apply_lenient(mAddrs[mac], ch)
    <2>1. ModemDestOK(mac)
      BY ModemDestInvPointwise
    <2>2. \A m \in MAC \ {mac} : ModemSameDest(m)
      BY <1>3 DEF ModemAppUpdateAddresses, ModemSameDest, ModemTypeOK
    <2>3. UNCHANGED <<mTxDest, mKnown, mAnnounced, mPendingMetrics, mPendingLink>>
      BY <1>3 DEF ModemAppUpdateAddresses
    <2>4. ModemReporting(mac) => mAdvertised'[mac] = mAddrs'[mac]
      <3>1. between(mAdvertised[mac], desired) = NoChanges => mAdvertised[mac] = desired
        BY ModemAddressTypes, SMTT(30) DEF ModemTypeOK
      <3>2. mAddrs'[mac] = desired
        BY <1>3 DEF ModemAppUpdateAddresses, ModemTypeOK
      <3>3. QED
        BY <1>3, <3>1, <3>2 DEF ModemAppUpdateAddresses, ModemTypeOK
    <2>5. ModemDestOK(mac)'
      BY <2>1, <2>3, <2>4 DEF ModemDestOK, ModemReporting
    <2>6. QED
      BY <2>2, <2>5, ModemOneDest
  <1>4. ASSUME NEW mac \in MAC, ModemAppDropDestination(mac)
        PROVE  ModemDestInv'
    <2>1. ModemDestOK(mac)
      BY ModemDestInvPointwise
    <2>2. \A m \in MAC \ {mac} : ModemSameDest(m)
      BY <1>4
      DEF ModemAppDropDestination, ModemRemove, ModemSameDest, ModemTypeOK
    <2>3. ModemDestOK(mac)'
      BY <1>4, <2>1
      DEF ModemAppDropDestination, ModemDroppable, ModemRemove, ModemDestOK,
          ModemTypeOK, Idle
    <2>4. QED
      BY <2>2, <2>3, ModemOneDest
  <1>5. ASSUME NEW mac \in MAC, NEW status, NEW supplied,
               ModemAppLinkCharacteristicsResponse(mac, status, supplied)
        PROVE  ModemDestInv'
    <2>1. ModemDestOK(mac)
      BY ModemDestInvPointwise
    <2>2. \A m \in MAC \ {mac} : ModemSameDest(m)
      BY <1>5 DEF ModemAppLinkCharacteristicsResponse, ModemSameDest
    <2>3. ModemDestOK(mac)'
      BY <1>5, <2>1 DEF ModemAppLinkCharacteristicsResponse, ModemDestOK
    <2>4. QED
      BY <2>2, <2>3, ModemOneDest
  <1>6. CASE \/ \E supplied \in Supply : ModemAppSessionUpdate(supplied)
             \/ \E ch \in AddressChanges : ModemAppSessionAddresses(ch)
             \/ ModemAppShutdown("SHUTTING_DOWN")
    <2>1. UNCHANGED <<mTxDest, mKnown, mAnnounced, mPendingMetrics, mAddrs, mAdvertised,
                      mPendingLink>>
      BY <1>6 DEF ModemAppSessionUpdate, ModemAppSessionAddresses, ModemAppShutdown,
                  ModemTerminated, ModemTerminating
    <2>2. QED
      BY <2>1, ModemSameDests
  <1>7. QED
    BY <1>1, <1>2, <1>3, <1>4, <1>5, <1>6 DEF ModemApp

\* Timers and the transport never touch destinations or their requests.
LEMMA ModemOtherDests ==
  ASSUME ModemDestInv,
         \/ ModemTcpAccepted \/ ModemDecodeError \/ ModemHeartbeatTick
         \/ ModemDeadline \/ ModemTcpClosed \/ ModemPeerReads
  PROVE  ModemDestInv'
  <1>1. UNCHANGED <<mTxDest, mKnown, mAnnounced, mPendingMetrics, mAddrs, mAdvertised,
                    mPendingLink>>
    BY DEF ModemTcpAccepted, ModemDecodeError, ModemHeartbeatTick,
           ModemDeadline, ModemSessionInitTimeout, ModemHeartbeatMissed,
           ModemTerminationTimeout, ModemTcpClosed, ModemPeerReads,
           ModemProtocolError, ModemTerminating, ModemTerminated, mTx, mDests,
           mData
  <1>2. QED
    BY <1>1, ModemSameDests

\* ModemDestInv holds in every behaviour.
LEMMA ModemDestInvCorrect == ModemSpec => []ModemDestInv
  <1>1. ModemInit => ModemDestInv
    BY DEF ModemInit, ModemDestInv, ModemRequestsMatchDestinations, ModemHoldsNothingBack,
           Idle
  <1>2. ModemTypeOK /\ ModemTypeOK' /\ ModemDestInv /\ [ModemNext]_modemVars => ModemDestInv'
    <2> SUFFICES ASSUME ModemTypeOK, ModemTypeOK', ModemDestInv, [ModemNext]_modemVars
                 PROVE  ModemDestInv'
      OBVIOUS
    <2>1. CASE UNCHANGED modemVars
      BY <2>1, ModemSameDests DEF modemVars, mTx, mDests, mData
    <2>2. CASE ModemNext
      BY <2>2, ModemRecvDests, ModemAppDests, ModemOtherDests, ModemPeer DEF ModemNext
    <2>3. QED
      BY <2>1, <2>2
  <1>3. QED
    BY <1>1, <1>2, ModemTypeCorrect, PTL DEF ModemSpec

\* Whatever the peer sends, an open Up is for a destination not yet announced,
\* an open Down for one that is, and a deferred link request finds its entry:
\* the lookups the arms rely on succeed (ModemRequestsMatchDestinations).
THEOREM ModemRequestsCorrect == ModemSpec => []ModemRequestsMatchDestinations
  BY ModemDestInvCorrect, PTL DEF ModemDestInv

\* No update the application supplied while a destination's Up was open, or
\* while the router had withdrawn from it, is lost: once the destination is
\* announced with no request open, all of it has been sent
\* (ModemHoldsNothingBack).
THEOREM ModemUpdatesCorrect == ModemSpec => []ModemHoldsNothingBack
  BY ModemDestInvCorrect, PTL DEF ModemDestInv

-----------------------------------------------------------------------------
(* Silence after a termination.                                             *)

\* Every handler that sends is guarded by a state before the termination.
LEMMA ModemTerminatingIsQuiet ==
  ASSUME ModemTypeOK, ModemNext, mState \in {"Terminating", "Terminated"}
  PROVE  /\ toRouter' = toRouter \/ ModemPeerReads
         /\ mState = "Terminated" => mState' = mState /\ mDown' = mDown
  <1>1. CASE \E msg \in FromRouter : ModemRecv(msg)
    BY <1>1
    DEF ModemRecv, ModemAccepts, ModemRecvInvalid, ModemRecvInit,
        ModemRecvTermination, ModemRecvUpAccepted, ModemRecvUpRefused,
        ModemRecvDestinationDown, ModemRecvDownResponse,
        ModemRecvSessionUpdate, ModemRecvSessionUpdateResponse,
        ModemRecvAnnounceKnown, ModemRecvAnnounceUnknown,
        ModemRecvLinkRequest, ModemRecvHeartbeat,
        ModemRecvTerminationResponse, ModemIgnore, modemVars, mControl
  <1>2. CASE ModemApp
    BY <1>2
    DEF ModemApp, ModemAppAddDestination, ModemAppUpdateMetrics,
        ModemAppUpdateAddresses, ModemAppDropDestination, ModemDroppable,
        ModemUpdatable, ModemAppLinkCharacteristicsResponse,
        ModemAppSessionUpdate, ModemAppSessionAddresses, ModemAppShutdown
  <1>3. CASE \/ ModemTcpAccepted \/ ModemDecodeError \/ ModemHeartbeatTick
             \/ ModemDeadline \/ ModemTcpClosed \/ ModemPeerReads
    BY <1>3 DEF ModemTcpAccepted, ModemDecodeError, ModemHeartbeatTick, ModemDeadline,
                ModemSessionInitTimeout, ModemHeartbeatMissed, ModemTerminationTimeout,
                ModemTcpClosed, ModemPeerReads, ModemProtocolError, ModemTerminated, mControl
  <1>4. QED
    BY <1>1, <1>2, <1>3 DEF ModemNext

\* Once the modem has sent its Session Termination it sends nothing more, and
\* a session that has ended keeps the reason it reported
\* (ModemQuietAfterTermination).
THEOREM ModemQuietCorrect == ModemSpec => ModemQuietAfterTermination
  <1> DEFINE Quiet ==
        /\ mState \in {"Terminating", "Terminated"} => Len(toRouter') <= Len(toRouter)
        /\ mState = "Terminated" => mState' = mState /\ mDown' = mDown
  <1>1. ModemTypeOK /\ [ModemNext]_modemVars => [Quiet]_modemVars
    <2> SUFFICES ASSUME ModemTypeOK, ModemNext, mState \in {"Terminating", "Terminated"}
                 PROVE  Quiet
      OBVIOUS
    <2>1. /\ toRouter' = toRouter \/ ModemPeerReads
          /\ mState = "Terminated" => mState' = mState /\ mDown' = mDown
      BY ModemTerminatingIsQuiet
    <2>2. Len(toRouter') <= Len(toRouter)
      <3>1. Len(toRouter) \in Nat
        BY SMTT(30) DEF ModemTypeOK
      <3>2. CASE toRouter' = toRouter
        BY <3>1, <3>2, SMTT(30)
      <3>3. CASE ModemPeerReads
        BY <3>1, <3>3, SMTT(30) DEF ModemPeerReads, ModemTypeOK
      <3>4. QED
        BY <2>1, <3>2, <3>3
    <2>3. QED
      BY <2>1, <2>2
  <1>2. QED
    BY <1>1, ModemTypeCorrect, PTL DEF ModemSpec, ModemQuietAfterTermination

-----------------------------------------------------------------------------
(* Both machines, each against its own peer.                                *)

\* While one machine rests the other takes its own steps, so that what was
\* proved of each holds of the two.
LEMMA AnyPeerImplements == AnyPeerSpec => RouterSpec /\ ModemSpec
  <1>1. AnyPeerInit => RouterInit /\ ModemInit
    BY DEF AnyPeerInit
  <1>2. [AnyPeerNext]_AnyPeerVars => [RouterNext]_routerVars /\ [ModemNext]_modemVars
    BY DEF AnyPeerNext, AnyPeerVars
  <1>3. QED
    BY <1>1, <1>2, PTL DEF AnyPeerSpec, RouterSpec, ModemSpec

\* Both machines have exactly the deadline of the state they wait in, for
\* every peer.
THEOREM TimersCorrect == AnyPeerSpec => []TimersMatchState
  <1>1. RouterTimersMatchState /\ ModemTimersMatchState => TimersMatchState
    BY DEF TimersMatchState
  <1>2. QED
    BY <1>1, AnyPeerImplements, RouterTimersCorrect, ModemTimersCorrect, PTL

\* The expect and index expressions of both machines find what they rely on,
\* for every peer.
THEOREM RequestsCorrect == AnyPeerSpec => []RequestsMatchDestinations
  <1>1. RouterRequestsMatchDestinations /\ ModemRequestsMatchDestinations
          => RequestsMatchDestinations
    BY DEF RequestsMatchDestinations
  <1>2. QED
    BY <1>1, AnyPeerImplements, RouterRequestsCorrect, ModemRequestsCorrect, PTL

\* A machine that terminates or has ended sends nothing more and keeps the
\* reason it reported, for every peer.
THEOREM QuietCorrect == AnyPeerSpec => QuietAfterTermination
  BY AnyPeerImplements, RouterQuietCorrect, ModemQuietCorrect, PTL
  DEF QuietAfterTermination

-----------------------------------------------------------------------------
(* What each side sends.                                                    *)

\* What the router sends.
LEMMA RouterSends ==
  /\ Bare("SESSION_INITIALIZATION") \in RouterMessage /\ Bare("HEARTBEAT") \in RouterMessage
  /\ Bare("SESSION_TERMINATION_RESPONSE") \in RouterMessage
  /\ \A status \in Status : Termination(status) \in RouterMessage
  /\ \A m \in MAC : /\ DestMsg("DESTINATION_UP_RESPONSE", m, "SUCCESS") \in RouterMessage
                    /\ DestMsg("DESTINATION_DOWN_RESPONSE", m, "SUCCESS") \in RouterMessage
                    /\ DestMsg("DESTINATION_ANNOUNCE", m, NoStatus) \in RouterMessage
                    /\ DestMsg("DESTINATION_DOWN", m, NoStatus) \in RouterMessage
                    /\ DestMsg("LINK_CHARACTERISTICS_REQUEST", m, NoStatus) \in RouterMessage
  /\ \A ch \in AddressChanges :
       SessionMsg("SESSION_UPDATE", NoStatus, NoMetrics, ch) \in RouterMessage
  /\ SessionMsg("SESSION_UPDATE_RESPONSE", "SUCCESS", NoMetrics, NoChanges) \in RouterMessage
  <1>1. /\ "SUCCESS" \in MaybeStatus /\ NoStatus \in MaybeStatus /\ Status \subseteq MaybeStatus
        /\ {"SESSION_INITIALIZATION", "HEARTBEAT", "SESSION_TERMINATION_RESPONSE",
            "DESTINATION_UP_RESPONSE", "DESTINATION_DOWN_RESPONSE", "DESTINATION_ANNOUNCE",
            "DESTINATION_DOWN", "LINK_CHARACTERISTICS_REQUEST", "SESSION_UPDATE",
            "SESSION_UPDATE_RESPONSE"} \subseteq MessageType
    BY DEF MaybeStatus, Status, MessageType, SessionTypes, ModemTypes
  <1>2. /\ Bare("SESSION_INITIALIZATION") \in Message /\ Bare("HEARTBEAT") \in Message
        /\ Bare("SESSION_TERMINATION_RESPONSE") \in Message
        /\ \A status \in Status : Termination(status) \in Message
    BY <1>1, SentMessages
  <1>3. \A m \in MAC : /\ DestMsg("DESTINATION_UP_RESPONSE", m, "SUCCESS") \in Message
                       /\ DestMsg("DESTINATION_DOWN_RESPONSE", m, "SUCCESS") \in Message
                       /\ DestMsg("DESTINATION_ANNOUNCE", m, NoStatus) \in Message
                       /\ DestMsg("DESTINATION_DOWN", m, NoStatus) \in Message
                       /\ DestMsg("LINK_CHARACTERISTICS_REQUEST", m, NoStatus) \in Message
    BY <1>1, SentMessages
  <1>4. /\ \A ch \in AddressChanges :
             SessionMsg("SESSION_UPDATE", NoStatus, NoMetrics, ch) \in Message
        /\ SessionMsg("SESSION_UPDATE_RESPONSE", "SUCCESS", NoMetrics, NoChanges) \in Message
    BY <1>1, SentMessages, NoDataTypes
  <1>5. QED
    BY <1>2, <1>3, <1>4 DEF RouterMessage, RouterMsg

\* A message of the session has no MAC address, one of a destination has one.
LEMMA MessageScope ==
  ASSUME NEW x, x \in RouterMessage \cup ModemMessage
  PROVE  /\ x \in Message /\ x.mac \in Scope
         /\ x.type \in SessionTypes => x.mac = NoMac
         /\ x.type \in RouterTypes \cup ModemTypes => x.mac \in MAC
  BY SMTT(30)
  DEF RouterMessage, ModemMessage, RouterMsg, ModemMsg, Message, Scope, Bare,
      Termination, DestMsg, SessionMsg, LinkReply, Msg, SessionTypes,
      RouterTypes, ModemTypes

\* The types, statuses and metrics of what the modem sends.
LEMMA ModemMessageFields ==
  ASSUME NEW x \in ModemMessage
  PROVE  /\ x.type \in SessionTypes \cup RouterTypes
              \cup {"SESSION_INITIALIZATION_RESPONSE", "SESSION_TERMINATION_RESPONSE"}
         /\ x.type # "SESSION_TERMINATION" => x.status \in {"SUCCESS", "REQUEST_DENIED", NoStatus}
         /\ Supplied(x.metrics) \subseteq Types
         /\ x.type = "LINK_CHARACTERISTICS_RESPONSE" => Supplied(x.metrics) = Types
         /\ x.type = "SESSION_INITIALIZATION_RESPONSE" =>
              x = SessionMsg("SESSION_INITIALIZATION_RESPONSE", "SUCCESS", InitialMetrics, NoChanges)
  <1>1. x.type \in SessionTypes \cup RouterTypes
          \cup {"SESSION_INITIALIZATION_RESPONSE", "SESSION_TERMINATION_RESPONSE"}
    BY SMTT(30)
    DEF ModemMessage, ModemMsg, SessionTypes, RouterTypes, Bare, Termination,
        DestMsg, SessionMsg, LinkReply, Msg
  <1>2. /\ x.type # "SESSION_TERMINATION" => x.status \in {"SUCCESS", "REQUEST_DENIED", NoStatus}
        /\ x.type = "SESSION_INITIALIZATION_RESPONSE" =>
             x = SessionMsg("SESSION_INITIALIZATION_RESPONSE", "SUCCESS", InitialMetrics, NoChanges)
    BY SMTT(30)
    DEF ModemMessage, ModemMsg, Bare, Termination, DestMsg, SessionMsg,
        LinkReply, Msg
  <1>3. Supplied(NoMetrics) = {}
    BY DEF Supplied, NoMetrics
  <1>4. /\ Supplied(x.metrics) \subseteq Types
        /\ x.type = "LINK_CHARACTERISTICS_RESPONSE" => Supplied(x.metrics) = Types
    BY <1>3, SMTT(30)
    DEF ModemMessage, ModemMsg, Types, Bare, Termination, DestMsg, SessionMsg,
        LinkReply, Msg
  <1>5. QED
    BY <1>1, <1>2, <1>4

\* The types and statuses of what the router sends.
LEMMA RouterMessageFields ==
  ASSUME NEW x \in RouterMessage
  PROVE  /\ x.type \in SessionTypes \cup ModemTypes
              \cup {"SESSION_INITIALIZATION", "SESSION_TERMINATION_RESPONSE"}
         /\ x.type # "SESSION_TERMINATION" => x.status \in {"SUCCESS", NoStatus}
  <1>1. x.type \in SessionTypes \cup ModemTypes
          \cup {"SESSION_INITIALIZATION", "SESSION_TERMINATION_RESPONSE"}
    BY SMTT(30)
    DEF RouterMessage, RouterMsg, SessionTypes, ModemTypes, Bare, Termination,
        DestMsg, SessionMsg, Msg
  <1>2. x.type # "SESSION_TERMINATION" => x.status \in {"SUCCESS", NoStatus}
    BY SMTT(30)
    DEF RouterMessage, RouterMsg, Bare, Termination, DestMsg, SessionMsg, Msg
  <1>3. QED
    BY <1>1, <1>2

\* What the modem sends.
LEMMA ModemSends ==
  /\ SessionMsg("SESSION_INITIALIZATION_RESPONSE", "SUCCESS", InitialMetrics, NoChanges)
       \in ModemMessage
  /\ Bare("HEARTBEAT") \in ModemMessage
  /\ Bare("SESSION_TERMINATION_RESPONSE") \in ModemMessage
  /\ \A status \in Status : Termination(status) \in ModemMessage
  /\ \A m \in MAC :
       /\ DestMsg("DESTINATION_DOWN_RESPONSE", m, "SUCCESS") \in ModemMessage
       /\ DestMsg("DESTINATION_DOWN", m, NoStatus) \in ModemMessage
       /\ DestMsg("DESTINATION_ANNOUNCE_RESPONSE", m, "REQUEST_DENIED") \in ModemMessage
  /\ SessionMsg("SESSION_UPDATE_RESPONSE", "SUCCESS", NoMetrics, NoChanges) \in ModemMessage
  <1>1. /\ "SUCCESS" \in MaybeStatus /\ NoStatus \in MaybeStatus /\ Status \subseteq MaybeStatus
        /\ "REQUEST_DENIED" \in MaybeStatus
        /\ {"SESSION_INITIALIZATION_RESPONSE", "HEARTBEAT", "SESSION_TERMINATION_RESPONSE",
            "DESTINATION_DOWN_RESPONSE", "DESTINATION_ANNOUNCE_RESPONSE",
            "DESTINATION_DOWN", "SESSION_UPDATE_RESPONSE"} \subseteq MessageType
    BY DEF MaybeStatus, Status, MessageType, SessionTypes, ModemTypes, RouterTypes
  <1>2. /\ Bare("HEARTBEAT") \in Message
        /\ Bare("SESSION_TERMINATION_RESPONSE") \in Message
        /\ \A status \in Status : Termination(status) \in Message
    BY <1>1, ModemSentMessages
  <1>3. \A m \in MAC :
          /\ DestMsg("DESTINATION_DOWN_RESPONSE", m, "SUCCESS") \in Message
          /\ DestMsg("DESTINATION_DOWN", m, NoStatus) \in Message
          /\ DestMsg("DESTINATION_ANNOUNCE_RESPONSE", m, "REQUEST_DENIED") \in Message
    BY <1>1, ModemSentMessages
  <1>4. /\ SessionMsg("SESSION_INITIALIZATION_RESPONSE", "SUCCESS", InitialMetrics, NoChanges)
             \in Message
        /\ SessionMsg("SESSION_UPDATE_RESPONSE", "SUCCESS", NoMetrics, NoChanges) \in Message
    BY <1>1, ModemSentMessages, ModemNoData, ModemConstants DEF LinkMetrics
  <1>5. QED
    BY <1>2, <1>3, <1>4 DEF ModemMessage, ModemMsg

\* What it sends with metrics.
LEMMA ModemSendsMetrics ==
  ASSUME NEW metrics \in Metrics, NEW ch \in AddressChanges, NEW m \in MAC,
         Supplied(metrics) \subseteq Types
  PROVE  /\ Msg("DESTINATION_UP", m, NoStatus, metrics, ch) \in ModemMessage
         /\ Msg("DESTINATION_UPDATE", m, NoStatus, metrics, ch) \in ModemMessage
         /\ Msg("DESTINATION_ANNOUNCE_RESPONSE", m, "SUCCESS", metrics, ch) \in ModemMessage
         /\ \A status \in {"SUCCESS", "REQUEST_DENIED"} : Supplied(metrics) = Types =>
              LinkReply(m, status, metrics) \in ModemMessage
  <1>1. /\ "SUCCESS" \in MaybeStatus /\ NoStatus \in MaybeStatus
        /\ "REQUEST_DENIED" \in MaybeStatus
        /\ {"DESTINATION_UP", "DESTINATION_UPDATE",
            "DESTINATION_ANNOUNCE_RESPONSE", "LINK_CHARACTERISTICS_RESPONSE"}
             \subseteq MessageType
    BY DEF MaybeStatus, Status, MessageType, SessionTypes, RouterTypes
  <1>2. /\ Msg("DESTINATION_UP", m, NoStatus, metrics, ch) \in Message
        /\ Msg("DESTINATION_UPDATE", m, NoStatus, metrics, ch) \in Message
        /\ Msg("DESTINATION_ANNOUNCE_RESPONSE", m, "SUCCESS", metrics, ch) \in Message
        /\ \A status \in {"SUCCESS", "REQUEST_DENIED"} : LinkReply(m, status, metrics) \in Message
    BY <1>1, ModemSentMessages, ModemNoData DEF LinkReply
  <1>3. QED
    BY <1>2 DEF ModemMessage, ModemMsg

\* And for the session.
LEMMA SessionUpdateSent ==
  ASSUME NEW metrics \in Metrics, NEW ch \in AddressChanges, Supplied(metrics) \subseteq Types
  PROVE  SessionMsg("SESSION_UPDATE", NoStatus, metrics, ch) \in ModemMessage
  <1>1. NoStatus \in MaybeStatus /\ "SESSION_UPDATE" \in MessageType
    BY DEF MaybeStatus, MessageType, SessionTypes
  <1>2. SessionMsg("SESSION_UPDATE", NoStatus, metrics, ch) \in Message
    BY <1>1, ModemSentMessages
  <1>3. QED
    BY <1>2 DEF ModemMessage, ModemMsg

\* The difference of two sets of addresses leads from one to the other.
LEMMA BetweenApplies ==
  ASSUME NEW old, NEW new
  PROVE  /\ StrictOk(old, between(old, new))
         /\ apply_lenient(old, between(old, new)) = new
         /\ between({}, new) = [added |-> new, removed |-> {}]
         /\ apply_lenient(old, NoChanges) = old
         /\ StrictOk(old, NoChanges)
  <1>1. StrictOk(old, between(old, new)) /\ StrictOk(old, NoChanges)
    BY DEF StrictOk, validate, between, NoChanges
  <1>2. apply_lenient(old, between(old, new)) = new /\ apply_lenient(old, NoChanges) = old
    BY DEF apply_lenient, between, NoChanges
  <1>3. between({}, new) = [added |-> new, removed |-> {}]
    BY DEF between
  <1>4. QED
    BY <1>1, <1>2, <1>3
=============================================================================
