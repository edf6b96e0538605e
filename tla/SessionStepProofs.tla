-------------------------- MODULE SessionStepProofs -------------------------
(***************************************************************************)
(* What each step does: every step of either side is one of SessionSteps,  *)
(* and the messages under way stay in the order of a session.              *)
(***************************************************************************)
EXTENDS SessionSteps, AnyPeerProofs

\* A leaf that names no prover is for Zenon.
USE ZenonT(60)

\* The end of a session, as the router's own deadlines and shutdown bring it.
LEMMA RouterEnds ==
  ASSUME RouterTypeOK, RouterAlone, UNCHANGED <<toRouter, history>>,
         \/ rState # "Closed" /\ RouterAppShutdown("SHUTTING_DOWN")
         \/ RouterDeadline
         \/ rState # "Closed" /\ RouterTcpClosed
  PROVE  RouterGoes
  <1>1. {"SHUTTING_DOWN", "TIMED_OUT"} \subseteq Status
    BY DEF Status, FatalStatus
  <1>2. QED
    BY <1>1
    DEF RouterGoes, RouterFinds, Over, RouterAppShutdown, RouterDeadline,
        RouterSessionInitTimeout, RouterHeartbeatMissed,
        RouterTerminationTimeout, RouterTcpClosed,
        RouterClosedWhileTerminating, RouterTerminated, RouterTerminating,
        RouterSend

\* A message that ends the session.
LEMMA RouterReadsEnd ==
  ASSUME RouterTypeOK, toRouter \in Seq(Message), toRouter # <<>>,
         toRouter' = Tail(toRouter), UNCHANGED history,
         NEW x, x = Head(toRouter),
         \/ RouterRecvInvalid(x) \/ RouterRecvInitRefused(x) \/ RouterRecvTermination(x)
         \/ RouterRecvTerminationResponse(x) \/ RouterIgnore(x)
  PROVE  RouterGoes
  <1>1. RouterVerdict(x) \in Status /\ "UNEXPECTED_MESSAGE" \in Status
    BY VerdictType, SMTT(30) DEF Status, FatalStatus
  <1>2. CASE RouterRecvInvalid(x)
    BY <1>1, <1>2 DEF RouterGoes, RouterFinds, Over, RouterRecvInvalid, RouterProtocolError,
                      RouterTerminating, RouterSend, rLive
  <1>3. CASE RouterRecvInitRefused(x)
    BY <1>1, <1>3 DEF RouterGoes, RouterFinds, Over, RouterRecvInitRefused,
                      RouterProtocolError, RouterTerminating, RouterSend
  <1>4. CASE RouterRecvTermination(x)
    BY <1>4 DEF RouterGoes, RouterFinds, Over, RouterRecvTermination, RouterAccepts,
                RouterTerminated, RouterSend
  <1>5. CASE RouterRecvTerminationResponse(x) \/ RouterIgnore(x)
    BY <1>5 DEF RouterGoes, RouterFinds, Over, RouterRecvTerminationResponse, RouterIgnore,
                RouterTerminated, routerVars, rControl
  <1>6. QED
    BY <1>2, <1>3, <1>4, <1>5

\* The router's data after each message is what the message makes of it.
LEMMA RouterViewAfter ==
  ASSUME RouterTypeOK, NEW x \in Message,
         \/ RouterRecvInitResponse(x) /\ x.type = "SESSION_INITIALIZATION_RESPONSE"
         \/ RouterRecvDestinationUp(x) \/ RouterRecvDestinationUpdate(x)
         \/ RouterRecvDestinationDown(x) \/ RouterRecvDownResponse(x)
         \/ RouterRecvSessionUpdate(x) \/ RouterRecvSessionUpdateResponse(x)
         \/ RouterRecvAnnounceResponse(x) \/ RouterRecvLinkResponse(x)
         \/ RouterRecvHeartbeat(x)
  PROVE  RouterView' = After(RouterView, x)
  <1> DEFINE v == RouterView
  <1>1. /\ v.up = rUp /\ v.metrics = rMetrics /\ v.addrs = rAddrs
        /\ v.session = rSessionMetrics /\ v.peer = rPeerAddrs
        /\ \A m, ch : Claimable(v, m, ch) = destination_address_changes(m, ch)
    BY DEF RouterView, Claimable, destination_address_changes
  <1>2. v = [up |-> rUp, metrics |-> rMetrics, addrs |-> rAddrs,
             session |-> rSessionMetrics, peer |-> rPeerAddrs]
    BY DEF RouterView
  <1>3. RouterView' = [up |-> rUp', metrics |-> rMetrics', addrs |-> rAddrs',
                       session |-> rSessionMetrics', peer |-> rPeerAddrs']
    BY DEF RouterView
  <1> HIDE DEF v
  <1>4. RouterRecvInitResponse(x) /\ x.type = "SESSION_INITIALIZATION_RESPONSE" =>
          RouterView' = After(v, x)
    BY <1>1, <1>3 DEF RouterRecvInitResponse, After, ViewGreeted, rDests
  <1>5. RouterRecvDestinationUp(x) => RouterView' = After(v, x)
    BY <1>1, <1>3, SMTT(30)
    DEF RouterRecvDestinationUp, RouterAccepts, RouterInsert, After, ViewWith,
        rPeer
  <1>6. RouterRecvDestinationUpdate(x) => RouterView' = After(v, x)
    BY <1>1, <1>3, SMTT(30)
    DEF RouterRecvDestinationUpdate, RouterAccepts, After, ViewUpdated, rPeer
  <1>7. RouterRecvDestinationDown(x) \/ RouterRecvDownResponse(x) => RouterView' = After(v, x)
    BY <1>1, <1>3
    DEF RouterRecvDestinationDown, RouterRecvDownResponse, RouterAccepts,
        RouterRemove, After, ViewWithout, rPeer
  <1>8. RouterRecvSessionUpdate(x) => RouterView' = After(v, x)
    BY <1>1, <1>3 DEF RouterRecvSessionUpdate, RouterAccepts, After, ViewSession
  <1>9. RouterRecvSessionUpdateResponse(x) \/ RouterRecvHeartbeat(x) =>
          RouterView' = After(v, x)
    BY <1>2, <1>3 DEF RouterRecvSessionUpdateResponse, RouterRecvHeartbeat, RouterAccepts,
                      After, rDests, rPeer
  <1>10. RouterRecvAnnounceResponse(x) => RouterView' = After(v, x)
    <2>1. RouterRecvAnnounceResponse(x) /\ x.status = "SUCCESS" => RouterView' = After(v, x)
      <3>1. RouterRecvAnnounceResponse(x) /\ x.status = "SUCCESS" =>
              After(v, x) = ViewWith(v, x) /\ RouterInsert(x.mac, x) /\ UNCHANGED rPeer
        BY DEF RouterRecvAnnounceResponse, RouterAccepts, After
      <3>2. RouterInsert(x.mac, x) /\ UNCHANGED rPeer => RouterView' = ViewWith(v, x)
        BY <1>1, <1>3, SMTT(30) DEF RouterInsert, ViewWith, rPeer
      <3>3. QED
        BY <3>1, <3>2
    <2>2. RouterRecvAnnounceResponse(x) /\ x.status # "SUCCESS" => RouterView' = After(v, x)
      BY <1>2, <1>3 DEF RouterRecvAnnounceResponse, RouterAccepts, After, rDests, rPeer
    <2>3. QED
      BY <2>1, <2>2
  <1>11. RouterRecvLinkResponse(x) => RouterView' = After(v, x)
    BY <1>1, <1>3 DEF RouterRecvLinkResponse, RouterAccepts, After, ViewMeasured, rPeer
  <1>12. QED
    BY <1>4, <1>5, <1>6, <1>7, <1>8, <1>9, <1>10, <1>11 DEF v

\* A request or a response of the session that passes the checks.
LEMMA AcceptedSessionMessage ==
  ASSUME NEW x \in Message, rState = "InSession", RouterVerdict(x) = "SUCCESS"
  PROVE  x.type = "SESSION_UPDATE" => rTxSession = Idle /\ StrictOk(rPeerAddrs, x.addrs)
  <1>1. ASSUME x.type = "SESSION_UPDATE"
        PROVE  /\ StrictOk(rPeerAddrs, x.addrs)
               /\ \E slot : validate_transaction(x, rTxSession, slot, x.mac \in rUp) = "SUCCESS"
    BY <1>1 DEF RouterVerdict, terminates_session, FatalStatus
  <1>2. ASSUME x.type = "SESSION_UPDATE", NEW slot,
               validate_transaction(x, rTxSession, slot, x.mac \in rUp) = "SUCCESS"
        PROVE  rTxSession = Idle
    BY <1>2 DEF validate_transaction, SlotConflict
  <1>3. QED
    BY <1>1, <1>2

\* A message the router accepts closes a slot, is answered, or only noted.
LEMMA RouterHandles ==
  ASSUME RouterTypeOK, RouterTypeOK', NEW x \in ModemMessage, x = Head(toRouter), toRouter # <<>>,
         toRouter' = Tail(toRouter), UNCHANGED history,
         \/ RouterRecvDestinationUp(x) \/ RouterRecvDestinationUpdate(x)
         \/ RouterRecvDestinationDown(x) \/ RouterRecvDownResponse(x)
         \/ RouterRecvSessionUpdate(x) \/ RouterRecvSessionUpdateResponse(x)
         \/ RouterRecvAnnounceResponse(x) \/ RouterRecvLinkResponse(x)
         \/ RouterRecvHeartbeat(x)
  PROVE  \/ RouterCloses \/ RouterNotes
         \/ \E y \in RouterMessage : RouterReplies(y)
  <1>1. /\ rState = "InSession" /\ RouterVerdict(x) = "SUCCESS"
        /\ UNCHANGED <<rState, rMetricTypes, rReason, rLocalAddrs>>
    BY DEF RouterRecvDestinationUp, RouterRecvDestinationUpdate, RouterRecvDestinationDown,
           RouterRecvDownResponse, RouterRecvSessionUpdate, RouterRecvSessionUpdateResponse,
           RouterRecvAnnounceResponse, RouterRecvLinkResponse, RouterRecvHeartbeat,
           RouterAccepts, rPeer
  <1>2. /\ x \in Message /\ x.mac \in Scope
        /\ x.type \in {"SESSION_UPDATE", "SESSION_UPDATE_RESPONSE"} => x.mac = NoMac
        /\ x.type \in RouterTypes => x.mac \in MAC
    BY MessageScope DEF SessionTypes
  <1>3. RouterStays /\ RouterReadsHead
    <2>1. RouterView' = After(RouterView, x)
      BY <1>1, <1>2, RouterViewAfter
    <2>2. QED
      BY <1>1, <2>1 DEF RouterStays, RouterReadsHead
  <1>4. NoMac \notin MAC
    BY MessageConstants
  <1>5. CASE RouterRecvDestinationUpdate(x) \/ RouterRecvHeartbeat(x)
    BY <1>3, <1>5 DEF RouterNotes, RouterRecvDestinationUpdate, RouterRecvHeartbeat,
                      RouterAccepts
  <1>6. CASE RouterRecvDestinationUp(x) \/ RouterRecvDestinationDown(x)
    <2>1. x.type \in {"DESTINATION_UP", "DESTINATION_DOWN"} /\ x.mac \in MAC
      BY <1>2, <1>6 DEF RouterRecvDestinationUp, RouterRecvDestinationDown, RouterAccepts,
                        RouterTypes
    <2>2. rTxDest[x.mac] = Idle
      BY <1>1, <1>2, <2>1, AcceptedDestinationMessage DEF RouterTypes
    <2>3. RTx(x.mac) = Idle
      BY <1>4, <2>1, <2>2 DEF RTx
    <2>4. PICK type \in {"DESTINATION_UP_RESPONSE", "DESTINATION_DOWN_RESPONSE"} :
            /\ toModem' = Append(toModem, DestMsg(type, x.mac, "SUCCESS"))
            /\ KindOf(type) = KindOf(x.type) /\ UNCHANGED rTx
      BY <1>6 DEF RouterRecvDestinationUp, RouterRecvDestinationDown, RouterAccepts, KindOf,
                  RouterSend
    <2> DEFINE y == DestMsg(type, x.mac, "SUCCESS")
    <2>5. y \in RouterMessage /\ y.type = type /\ y.mac = x.mac
      BY <2>1, RouterSends DEF DestMsg, Msg
    <2>6. RouterReplies(y)
      BY <1>3, <2>1, <2>3, <2>4, <2>5 DEF RouterReplies, ModemRequest, RouterReply
    <2>7. QED
      BY <2>5, <2>6
  <1>7. CASE RouterRecvSessionUpdate(x)
    <2>1. x.type = "SESSION_UPDATE" /\ x.mac = NoMac /\ rTxSession = Idle
      BY <1>1, <1>2, <1>7, AcceptedSessionMessage DEF RouterRecvSessionUpdate, RouterAccepts
    <2> DEFINE y == SessionMsg("SESSION_UPDATE_RESPONSE", "SUCCESS", NoMetrics, NoChanges)
    <2>2. y \in RouterMessage /\ y.type = "SESSION_UPDATE_RESPONSE" /\ y.mac = NoMac
      BY RouterSends DEF SessionMsg, Msg
    <2>3. RouterReplies(y)
      BY <1>3, <1>7, <2>1, <2>2 DEF RouterReplies, RouterRecvSessionUpdate, RouterSend, RTx,
                                    KindOf, ModemRequest, RouterReply
    <2>4. QED
      BY <2>2, <2>3
  <1>8. CASE RouterRecvSessionUpdateResponse(x)
    <2>1. x.type = "SESSION_UPDATE_RESPONSE" /\ x.mac = NoMac
      BY <1>2, <1>8 DEF RouterRecvSessionUpdateResponse, RouterAccepts
    <2>2. QED
      BY <1>3, <1>8, <2>1 DEF RouterCloses, RouterRecvSessionUpdateResponse, RTx, ModemReply,
                              Scope
  <1>9. CASE \/ RouterRecvDownResponse(x) \/ RouterRecvAnnounceResponse(x)
             \/ RouterRecvLinkResponse(x)
    <2>1. /\ x.type \in {"DESTINATION_DOWN_RESPONSE", "DESTINATION_ANNOUNCE_RESPONSE",
                         "LINK_CHARACTERISTICS_RESPONSE"}
          /\ rTxDest' = [rTxDest EXCEPT ![x.mac] = Idle]
          /\ UNCHANGED <<rTxSession, toModem>>
      BY <1>9 DEF RouterRecvDownResponse, RouterRecvAnnounceResponse, RouterRecvLinkResponse,
                  RouterAccepts
    <2>2. x.mac \in MAC /\ x.type \in ModemReply
      BY <1>2, <2>1 DEF RouterTypes, ModemReply
    <2>3. \A s \in Scope : RTx(s)' = IF s = x.mac THEN Idle ELSE RTx(s)
      BY <1>4, <2>1, <2>2 DEF RTx, Scope, RouterTypeOK
    <2>4. QED
      BY <1>3, <2>1, <2>2, <2>3 DEF RouterCloses
  <1>10. QED
    BY <1>5, <1>6, <1>7, <1>8, <1>9

\* A router that waits for the response accepts nothing else.
LEMMA AcceptedInitResponse ==
  ASSUME NEW x \in Message, rState = "SessionInitPending", RouterVerdict(x) = "SUCCESS"
  PROVE  x.type = "SESSION_INITIALIZATION_RESPONSE"
  <1>1. validate_message(x, TRUE, TRUE) = "SUCCESS"
    BY DEF RouterVerdict, terminates_session, FatalStatus
  <1>2. QED
    BY <1>1 DEF validate_message, Expected

\* Every message the router reads.
LEMMA RouterReadsDoes ==
  ASSUME RouterTypeOK, toRouter \in Seq(ModemMessage), RouterReads
  PROVE  RouterDoes /\ RouterTypeOK'
  <1> DEFINE x == Head(toRouter)
  <1>1. /\ toRouter # <<>> /\ toRouter' = Tail(toRouter) /\ UNCHANGED history
        /\ x \in ModemMessage /\ RouterRecv(x) /\ RouterAlone
    BY SMTT(30) DEF RouterReads, RouterAlone
  <1>2. x \in Message /\ toRouter \in Seq(Message)
    BY <1>1, SMTT(30) DEF ModemMessage
  <1>3. RouterTypeOK'
    BY <1>1, <1>2, RecvType
  <1> HIDE DEF x
  <1>4. CASE \/ RouterRecvInvalid(x) \/ RouterRecvInitRefused(x) \/ RouterRecvTermination(x)
             \/ RouterRecvTerminationResponse(x) \/ RouterIgnore(x)
    <2>1. RouterGoes
      BY <1>1, <1>2, <1>4, RouterReadsEnd DEF x
    <2>2. QED
      BY <1>1, <1>3, <2>1 DEF RouterDoes
  <1>5. CASE \/ RouterRecvDestinationUp(x) \/ RouterRecvDestinationUpdate(x)
             \/ RouterRecvDestinationDown(x) \/ RouterRecvDownResponse(x)
             \/ RouterRecvSessionUpdate(x) \/ RouterRecvSessionUpdateResponse(x)
             \/ RouterRecvAnnounceResponse(x) \/ RouterRecvLinkResponse(x)
             \/ RouterRecvHeartbeat(x)
    <2>1. RouterCloses \/ RouterNotes \/ \E y \in RouterMessage : RouterReplies(y)
      BY <1>1, <1>3, <1>5, RouterHandles DEF x
    <2>2. QED
      BY <1>1, <1>3, <2>1 DEF RouterDoes
  <1>6. CASE RouterRecvInitResponse(x)
    <2>1. x.type = "SESSION_INITIALIZATION_RESPONSE"
      BY <1>2, <1>6, AcceptedInitResponse DEF RouterRecvInitResponse
    <2>2. RouterView' = After(RouterView, x)
      BY <1>2, <1>6, <2>1, RouterViewAfter
    <2>3. RouterEnters
      BY <1>1, <1>6, <2>1, <2>2 DEF RouterEnters, RouterReadsHead, RouterRecvInitResponse, x
    <2>4. QED
      BY <1>1, <1>3, <2>3 DEF RouterDoes
  <1>7. QED
    BY <1>1, <1>4, <1>5, <1>6 DEF RouterRecv

\* A command of the router's application opens a request.
LEMMA RouterCommandsDoes ==
  ASSUME RouterTypeOK, RouterCommands
  PROVE  RouterDoes /\ RouterTypeOK'
  <1>1. /\ RouterAlone /\ UNCHANGED <<toRouter, contested>>
        /\ crossed' = (crossed \/ \E y \in Sent(toModem, toModem') : Crosses(y, toRouter))
    BY DEF RouterCommands, RouterOnly, RouterAlone, modemVars
  <1>2. RouterApp
    BY SessionConstants DEF RouterCommands, RouterApp
  <1>3. RouterTypeOK'
    BY <1>2, AppType
  <1>4. toModem \in Seq(Message) /\ NoMac \notin MAC
    BY MessageConstants DEF RouterTypeOK
  <1>5. ASSUME NEW y \in RouterMessage, toModem' = Append(toModem, y)
        PROVE  crossed' = (crossed \/ Crosses(y, toRouter))
    <2>1. Sent(toModem, toModem') = {y}
      BY <1>4, <1>5, SMTT(30) DEF Sent, RouterMessage
    <2>2. QED
      BY <1>1, <2>1
  <1>6. ASSUME NEW mac \in MAC, RouterDestCommand(mac)
        PROVE  \E y \in RouterMessage : RouterOpens(y)
    <2>1. PICK type \in {"DESTINATION_DOWN", "DESTINATION_ANNOUNCE",
                         "LINK_CHARACTERISTICS_REQUEST"} :
            /\ RouterOpen(mac, KindOf(type), type)
            /\ type \in Withdrawing => mac \in rUp
            /\ type \in Asking => mac \notin rUp
      BY <1>6 DEF RouterDestCommand, RouterAppDropDestination, RouterAppAnnounceDestination,
                  RouterAppRequestLinkCharacteristics, KindOf, Withdrawing, Asking
    <2>2. rState = "InSession" /\ rTxDest[mac] = Idle
      BY <1>6 DEF RouterDestCommand, RouterAppDropDestination, RouterAppAnnounceDestination,
                  RouterAppRequestLinkCharacteristics, RouterCommandReady
    <2> DEFINE y == DestMsg(type, mac, NoStatus)
    <2>3. y \in RouterMessage /\ y.type = type /\ y.mac = mac
      BY RouterSends DEF DestMsg, Msg
    <2>4. toModem' = Append(toModem, y)
      BY <2>1 DEF RouterOpen, RouterSend
    <2>5. \A s \in Scope : RTx(s)' = IF s = mac THEN KindOf(type) ELSE RTx(s)
      BY <1>4, <2>1 DEF RouterOpen, RTx, Scope, RouterTypeOK
    <2>6. /\ RTx(mac) = Idle /\ type \in RouterRequest /\ type # "SESSION_UPDATE"
          /\ crossed' = (crossed \/ Crosses(y, toRouter))
      BY <1>4, <1>5, <2>2, <2>3, <2>4 DEF RTx, RouterRequest
    <2>7. UNCHANGED <<rState, rReason, rMetricTypes, rDests, rPeer, rLocalAddrs>>
      BY <2>1 DEF RouterOpen, rControl, rPeer
    <2> HIDE DEF y
    <2>8. RouterOpens(y)
      BY <1>1, <2>1, <2>2, <2>3, <2>4, <2>5, <2>6, <2>7 DEF RouterOpens, RouterStays, y
    <2>9. QED
      BY <2>3, <2>8
  <1>7. ASSUME NEW ch \in AddrUpdates, RouterAppSessionAddresses(ch)
        PROVE  \E y \in RouterMessage : RouterOpens(y)
    <2> DEFINE y == SessionMsg("SESSION_UPDATE", NoStatus, NoMetrics,
                               between(rLocalAddrs, rLocalAddrs'))
    <2>1. between(rLocalAddrs, rLocalAddrs') \in AddressChanges
      BY <1>3, BetweenType DEF RouterTypeOK
    <2>2. y \in RouterMessage /\ y.type = "SESSION_UPDATE" /\ y.mac = NoMac
      BY <2>1, RouterSends DEF SessionMsg, Msg
    <2>3. /\ toModem' = Append(toModem, y)
          /\ UNCHANGED <<rState, rReason, rMetricTypes, rDests, rPeer, rTxDest>>
          /\ rState = "InSession" /\ rTxSession = Idle /\ rTxSession' = "SessionUpdate"
      BY <1>7 DEF RouterAppSessionAddresses, RouterSend, rControl, rPeer
    <2>4. \A s \in Scope : RTx(s)' = IF s = NoMac THEN KindOf("SESSION_UPDATE") ELSE RTx(s)
      BY <2>3 DEF RTx, KindOf
    <2>5. RTx(NoMac) = Idle /\ "SESSION_UPDATE" \in RouterRequest
      BY <2>3 DEF RTx, RouterRequest
    <2>6. crossed' = (crossed \/ Crosses(y, toRouter))
      BY <1>5, <2>2, <2>3
    <2> HIDE DEF y
    <2>7. RouterOpens(y)
      BY <1>1, <2>2, <2>3, <2>4, <2>5, <2>6 DEF RouterOpens, RouterStays, y
    <2>8. QED
      BY <2>2, <2>7
  <1>8. \E y \in RouterMessage : RouterOpens(y)
    BY <1>6, <1>7 DEF RouterCommands
  <1>9. QED
    BY <1>1, <1>3, <1>8 DEF RouterDoes

\* Every step of the router.
LEMMA RouterStepDoes ==
  ASSUME RouterTypeOK, toRouter \in Seq(ModemMessage), RouterStep
  PROVE  RouterDoes /\ RouterTypeOK'
  <1>1. CASE RouterConnects \/ RouterBeats
    <2>1. RouterTypeOK'
      BY <1>1, EnvironmentType DEF RouterConnects, RouterBeats
    <2>2. RouterAlone
      BY <1>1 DEF RouterConnects, RouterBeats, RouterOnly, RouterAlone, modemVars
    <2>3. RouterConnects => RouterJoins
      BY DEF RouterConnects, RouterOnly, modemVars, RouterTcpConnected, RouterJoins, RouterSend
    <2>4. RouterBeats => RouterTicks
      BY DEF RouterBeats, RouterOnly, modemVars, RouterHeartbeatTick, RouterTicks, RouterStays,
             RouterSend, rControl, rPeer
    <2>5. QED
      BY <1>1, <2>1, <2>2, <2>3, <2>4 DEF RouterDoes
  <1>2. CASE RouterShutsDown \/ RouterTimesOut \/ RouterSeesClose
    <2>1. /\ RouterAlone /\ UNCHANGED <<toRouter, history>>
          /\ \/ rState # "Closed" /\ RouterAppShutdown("SHUTTING_DOWN")
             \/ RouterDeadline
             \/ rState # "Closed" /\ RouterTcpClosed
      BY <1>2 DEF RouterShutsDown, RouterTimesOut, RouterSeesClose, RouterOnly, RouterAlone,
                  modemVars
    <2>2. RouterGoes
      BY <2>1, RouterEnds
    <2>3. RouterTypeOK'
      BY <2>1, AppType, EnvironmentType DEF RouterApp
    <2>4. QED
      BY <2>1, <2>2, <2>3 DEF RouterDoes
  <1>3. QED
    BY <1>1, <1>2, RouterReadsDoes, RouterCommandsDoes DEF RouterStep

\* The end of a session, as the modem's own deadlines and shutdown bring it.
LEMMA ModemEnds ==
  ASSUME ModemTypeOK, ModemAlone, UNCHANGED <<toModem, history>>,
         \/ mState # "Listening" /\ ModemAppShutdown("SHUTTING_DOWN")
         \/ ModemDeadline
         \/ mState # "Listening" /\ ModemTcpClosed
  PROVE  ModemGoes
  <1>1. {"SHUTTING_DOWN", "TIMED_OUT"} \subseteq Status
    BY DEF Status, FatalStatus
  <1>2. QED
    BY <1>1
    DEF ModemGoes, ModemFinds, Over, mLive, ModemAppShutdown, ModemDeadline,
        ModemSessionInitTimeout, ModemHeartbeatMissed,
        ModemTerminationTimeout, ModemTcpClosed, ModemTerminated,
        ModemTerminating, ModemSend

\* A message that ends the session.
LEMMA ModemReadsEnd ==
  ASSUME ModemTypeOK, toModem \in Seq(Message), toModem # <<>>,
         toModem' = Tail(toModem), UNCHANGED history,
         NEW x, x = Head(toModem),
         \/ ModemRecvInvalid(x) \/ ModemRecvTermination(x)
         \/ ModemRecvTerminationResponse(x) \/ ModemIgnore(x)
  PROVE  ModemGoes
  <1>1. ModemVerdict(x) \in Status
    BY ModemVerdictType, SMTT(30)
  <1>2. CASE ModemRecvInvalid(x)
    BY <1>1, <1>2 DEF ModemGoes, ModemFinds, Over, ModemRecvInvalid, ModemProtocolError,
                      ModemTerminating, ModemTerminated, ModemSend, mLive
  <1>3. CASE ModemRecvTermination(x)
    BY <1>3 DEF ModemGoes, ModemFinds, Over, ModemRecvTermination, ModemAccepts,
                ModemTerminated, ModemSend, mLive
  <1>4. CASE ModemRecvTerminationResponse(x) \/ ModemIgnore(x)
    BY <1>4 DEF ModemGoes, ModemFinds, Over, ModemRecvTerminationResponse, ModemIgnore,
                ModemTerminated, modemVars, mControl, mTx, mDests, mPeer
  <1>5. QED
    BY <1>2, <1>3, <1>4

\* A modem that waits for the initialization accepts nothing else.
LEMMA AcceptedInit ==
  ASSUME NEW x \in Message, mState = "AwaitingSessionInit", ModemVerdict(x) = "SUCCESS"
  PROVE  x.type = "SESSION_INITIALIZATION"
  <1>1. validate_message(x, FALSE, TRUE) = "SUCCESS"
    BY DEF ModemVerdict, terminates_session, FatalStatus
  <1>2. QED
    BY <1>1 DEF validate_message, Expected

\* A request of the session that passes the checks.
LEMMA ModemAcceptedSession ==
  ASSUME NEW x \in Message, mState = "InSession", ModemVerdict(x) = "SUCCESS"
  PROVE  x.type = "SESSION_UPDATE" => mTxSession = Idle /\ StrictOk(mPeerAddrs, x.addrs)
  <1>1. ASSUME x.type = "SESSION_UPDATE"
        PROVE  /\ StrictOk(mPeerAddrs, x.addrs)
               /\ \E slot : validate_transaction(x, mTxSession, slot, x.mac \in mAnnounced)
                              = "SUCCESS"
    BY <1>1 DEF ModemVerdict, terminates_session, FatalStatus
  <1>2. ASSUME x.type = "SESSION_UPDATE", NEW slot,
               validate_transaction(x, mTxSession, slot, x.mac \in mAnnounced) = "SUCCESS"
        PROVE  mTxSession = Idle
    BY <1>2 DEF validate_transaction, SlotConflict
  <1>3. QED
    BY <1>1, <1>2

\* A reply the modem accepts closes a slot.
LEMMA ModemHandlesReply ==
  ASSUME ModemTypeOK, ModemOwn, NEW x \in RouterMessage, x = Head(toModem),
         toModem # <<>>, toModem' = Tail(toModem), UNCHANGED history,
         \/ ModemRecvUpAccepted(x) \/ ModemRecvDownResponse(x)
         \/ ModemRecvSessionUpdateResponse(x)
  PROVE  ModemCloses
  <1>1. /\ mState = "InSession" /\ ModemVerdict(x) = "SUCCESS"
        /\ UNCHANGED <<mState, mReason, mPendingLink, mPeerAddrs>>
        /\ x.type \in {"DESTINATION_UP_RESPONSE", "DESTINATION_DOWN_RESPONSE",
                       "SESSION_UPDATE_RESPONSE"}
    BY DEF ModemRecvUpAccepted, ModemRecvDownResponse, ModemRecvSessionUpdateResponse,
           ModemAccepts, mPeer
  <1>2. ModemStays /\ ModemReadsHead /\ x.type \in RouterReply
    BY <1>1 DEF ModemStays, ModemReadsHead, mLive, RouterReply
  <1>3. /\ x \in Message /\ NoMac \notin MAC
        /\ x.type = "SESSION_UPDATE_RESPONSE" => x.mac = NoMac
        /\ x.type # "SESSION_UPDATE_RESPONSE" => x.mac \in MAC
    BY <1>1, MessageScope, MessageConstants DEF ModemTypes, SessionTypes
  <1>4. CASE ModemRecvSessionUpdateResponse(x)
    BY <1>1, <1>2, <1>3, <1>4 DEF ModemCloses, ModemRecvSessionUpdateResponse, ModemAccepts,
                                  MTx, Scope, mDests
  <1>5. CASE ModemRecvUpAccepted(x) \/ ModemRecvDownResponse(x)
    <2>1. /\ mTxDest' = [mTxDest EXCEPT ![x.mac] = Idle] /\ UNCHANGED mTxSession
          /\ x.type # "SESSION_UPDATE_RESPONSE"
      BY <1>5 DEF ModemRecvUpAccepted, ModemRecvDownResponse, ModemAccepts
    <2>2. \A s \in Scope : MTx(s)' = IF s = x.mac THEN Idle ELSE MTx(s)
      BY <1>3, <2>1 DEF MTx, Scope, ModemTypeOK
    <2>3. CASE ModemRecvDownResponse(x)
      BY <1>1, <1>2, <2>2, <2>3 DEF ModemCloses, ModemRecvDownResponse, ModemAccepts,
                                    ModemRemove
    <2>4. CASE ModemRecvUpAccepted(x)
      <3>1. /\ x.type = "DESTINATION_UP_RESPONSE" /\ mAnnounced' = mAnnounced \cup {x.mac}
            /\ UNCHANGED toRouter \/ toRouter' = Append(toRouter, HeldBack(x.mac))
        BY <2>4 DEF ModemRecvUpAccepted, ModemAccepts, ModemSend
      <3>2. x.mac \in mKnown
        BY <1>1, <1>3, <3>1, ModemAcceptedDestination
        DEF ModemOwn, ModemRequestsMatchDestinations, ModemTypes
      <3>3. HeldBack(x.mac) \in ModemMessage /\ HeldBack(x.mac).type = "DESTINATION_UPDATE"
        <4> DEFINE metrics == IF x.mac \in mPendingMetrics THEN mMetrics[x.mac] ELSE NoMetrics
                   ch == between(mAdvertised[x.mac], mAddrs[x.mac])
        <4>1. metrics \in Metrics /\ Supplied(metrics) \subseteq Types
          BY <1>3, <2>1, <3>2, ModemNoData DEF ModemOwn, ModemTypeOK, Supplied, NoMetrics
        <4>2. ch \in AddressChanges
          BY <1>3, <2>1, ModemAddressTypes DEF ModemTypeOK
        <4>3. HeldBack(x.mac) = Msg("DESTINATION_UPDATE", x.mac, NoStatus, metrics, ch)
          BY DEF HeldBack
        <4> HIDE DEF metrics, ch
        <4>4. x.mac \in MAC
          BY <1>3, <2>1
        <4>5. Msg("DESTINATION_UPDATE", x.mac, NoStatus, metrics, ch) \in ModemMessage
          BY <4>1, <4>2, <4>4, ModemSendsMetrics
        <4>6. QED
          BY <4>3, <4>5, SMTT(30) DEF Msg
      <3>4. QED
        BY <1>1, <1>2, <2>2, <3>1, <3>3 DEF ModemCloses
    <2>5. QED
      BY <1>5, <2>3, <2>4
  <1>6. QED
    BY <1>4, <1>5

\* A request the modem accepts is answered, or deferred.
LEMMA ModemHandlesRequest ==
  ASSUME ModemTypeOK, ModemOwn, NEW x \in RouterMessage, x = Head(toModem),
         toModem # <<>>, toModem' = Tail(toModem), UNCHANGED history,
         \/ ModemRecvDestinationDown(x) \/ ModemRecvSessionUpdate(x)
         \/ ModemRecvAnnounceKnown(x) \/ ModemRecvAnnounceUnknown(x)
         \/ ModemRecvLinkRequest(x)
  PROVE  ModemHolds \/ \E y \in ModemMessage : ModemReplies(y)
  <1>1. /\ mState = "InSession" /\ ModemVerdict(x) = "SUCCESS"
        /\ UNCHANGED <<mState, mReason, mTx>>
    BY DEF ModemRecvDestinationDown, ModemRecvSessionUpdate, ModemRecvAnnounceKnown,
           ModemRecvAnnounceUnknown, ModemRecvLinkRequest, ModemAccepts
  <1>2. ModemStays /\ ModemReadsHead
    BY <1>1 DEF ModemStays, ModemReadsHead, mLive
  <1>3. /\ x \in Message /\ NoMac \notin MAC
        /\ x.type = "SESSION_UPDATE" => x.mac = NoMac
        /\ x.type \in ModemTypes => x.mac \in MAC
    BY MessageScope, MessageConstants DEF SessionTypes
  <1>4. CASE ModemRecvSessionUpdate(x)
    <2>1. x.type = "SESSION_UPDATE" /\ x.mac = NoMac /\ mTxSession = Idle
      BY <1>1, <1>3, <1>4, ModemAcceptedSession DEF ModemRecvSessionUpdate, ModemAccepts
    <2> DEFINE y == SessionMsg("SESSION_UPDATE_RESPONSE", "SUCCESS", NoMetrics, NoChanges)
    <2>2. y \in ModemMessage /\ y.type = "SESSION_UPDATE_RESPONSE" /\ y.mac = NoMac
      BY ModemSends DEF SessionMsg, Msg
    <2>3. /\ toRouter' = Append(toRouter, y) /\ UNCHANGED <<mAnnounced, mPendingLink>>
          /\ mPeerAddrs' = apply_lenient(mPeerAddrs, x.addrs)
      BY <1>4 DEF ModemRecvSessionUpdate, ModemSend, mDests
    <2>4. ModemReplies(y)
      BY <1>1, <1>2, <2>1, <2>2, <2>3 DEF ModemReplies, MTx, KindOf, RouterRequest, ModemReply
    <2>5. QED
      BY <2>2, <2>4
  <1>5. ASSUME \/ ModemRecvDestinationDown(x) \/ ModemRecvAnnounceKnown(x)
               \/ ModemRecvAnnounceUnknown(x) \/ ModemRecvLinkRequest(x)
        PROVE  /\ x.type \in {"DESTINATION_DOWN", "DESTINATION_ANNOUNCE",
                              "LINK_CHARACTERISTICS_REQUEST"}
               /\ x.mac \in MAC /\ MTx(x.mac) = Idle /\ UNCHANGED mPeerAddrs
               /\ x.type # "DESTINATION_ANNOUNCE" => x.mac \in mAnnounced
    <2>1. /\ x.type \in {"DESTINATION_DOWN", "DESTINATION_ANNOUNCE",
                         "LINK_CHARACTERISTICS_REQUEST"}
          /\ UNCHANGED mPeerAddrs
      BY <1>5 DEF ModemRecvDestinationDown, ModemRecvAnnounceKnown, ModemRecvAnnounceUnknown,
                  ModemRecvLinkRequest, ModemAccepts, mPeer
    <2>2. x.type \in ModemTypes /\ x.mac \in MAC
      BY <1>3, <2>1 DEF ModemTypes
    <2>3. mTxDest[x.mac] = Idle /\ (x.type # "DESTINATION_ANNOUNCE" => x.mac \in mAnnounced)
      BY <1>1, <1>3, <2>1, <2>2, ModemAcceptedDestination
    <2>4. QED
      BY <1>3, <2>1, <2>2, <2>3 DEF MTx
  <1>6. ASSUME NEW y \in ModemMessage, y.type \in ModemReply, y.mac = x.mac,
               KindOf(y.type) = KindOf(x.type), toRouter' = Append(toRouter, y),
               mAnnounced' \ {x.mac} = mAnnounced \ {x.mac}, UNCHANGED mPendingLink,
               \/ ModemRecvDestinationDown(x) \/ ModemRecvAnnounceKnown(x)
               \/ ModemRecvAnnounceUnknown(x) \/ ModemRecvLinkRequest(x)
        PROVE  ModemReplies(y)
    BY <1>1, <1>2, <1>5, <1>6 DEF ModemReplies, RouterRequest
  <1>7. CASE ModemRecvDestinationDown(x)
    <2> DEFINE y == DestMsg("DESTINATION_DOWN_RESPONSE", x.mac, "SUCCESS")
    <2>1. y \in ModemMessage /\ y.type = "DESTINATION_DOWN_RESPONSE" /\ y.mac = x.mac
      BY <1>5, <1>7, ModemSends DEF DestMsg, Msg
    <2>2. /\ toRouter' = Append(toRouter, y) /\ x.type = "DESTINATION_DOWN"
          /\ mAnnounced' = mAnnounced \ {x.mac} /\ UNCHANGED mPendingLink
      BY <1>7 DEF ModemRecvDestinationDown, ModemAccepts, ModemSend
    <2>3. KindOf(y.type) = KindOf(x.type) /\ y.type \in ModemReply
      BY <2>1, <2>2 DEF KindOf, ModemReply
    <2> HIDE DEF y
    <2>4. ModemReplies(y)
      BY <1>6, <1>7, <2>1, <2>2, <2>3
    <2>5. QED
      BY <2>1, <2>4
  <1>8. CASE ModemRecvAnnounceKnown(x) \/ ModemRecvAnnounceUnknown(x)
    <2>1. x.mac \in MAC /\ x.type = "DESTINATION_ANNOUNCE" /\ UNCHANGED mPendingLink
      BY <1>5, <1>8
      DEF ModemRecvAnnounceKnown, ModemRecvAnnounceUnknown, ModemAccepts
    <2>2. PICK y \in ModemMessage : /\ toRouter' = Append(toRouter, y) /\ y.mac = x.mac
                                    /\ y.type = "DESTINATION_ANNOUNCE_RESPONSE"
      <3>1. CASE ModemRecvAnnounceUnknown(x)
        <4> DEFINE y == DestMsg("DESTINATION_ANNOUNCE_RESPONSE", x.mac, "REQUEST_DENIED")
        <4>1. y \in ModemMessage /\ y.type = "DESTINATION_ANNOUNCE_RESPONSE" /\ y.mac = x.mac
          BY <2>1, ModemSends DEF DestMsg, Msg
        <4>2. QED
          BY <3>1, <4>1 DEF ModemRecvAnnounceUnknown, ModemSend
      <3>2. CASE ModemRecvAnnounceKnown(x)
        <4> DEFINE ch == [added |-> mAddrs[x.mac], removed |-> {}]
                   y == Msg("DESTINATION_ANNOUNCE_RESPONSE", x.mac, "SUCCESS",
                            mMetrics[x.mac], ch)
        <4>1. /\ mMetrics[x.mac] \in Metrics /\ Supplied(mMetrics[x.mac]) \subseteq Types
              /\ ch \in AddressChanges
          BY <2>1, <3>2, ModemAddressTypes
          DEF ModemRecvAnnounceKnown, ModemOwn, ModemTypeOK
        <4>2. toRouter' = Append(toRouter, y)
          BY <3>2 DEF ModemRecvAnnounceKnown, ModemSend
        <4>3. y.type = "DESTINATION_ANNOUNCE_RESPONSE" /\ y.mac = x.mac
          BY DEF Msg
        <4> HIDE DEF ch
        <4>4. y \in ModemMessage
          BY <2>1, <4>1, ModemSendsMetrics
        <4>5. QED
          BY <4>2, <4>3, <4>4
      <3>3. QED
        BY <1>8, <3>1, <3>2
    <2>3. mAnnounced' \ {x.mac} = mAnnounced \ {x.mac}
      BY <1>8 DEF ModemRecvAnnounceKnown, ModemRecvAnnounceUnknown, mDests
    <2>4. KindOf(y.type) = KindOf(x.type) /\ y.type \in ModemReply
      BY <2>1, <2>2 DEF KindOf, ModemReply
    <2>5. ModemReplies(y)
      BY <1>6, <1>8, <2>1, <2>2, <2>3, <2>4
    <2>6. QED
      BY <2>5
  <1>9. CASE ModemRecvLinkRequest(x)
    <2>1. /\ x.type = "LINK_CHARACTERISTICS_REQUEST" /\ x.mac \in MAC /\ MTx(x.mac) = Idle
          /\ UNCHANGED <<mAnnounced, mPeerAddrs>> /\ x.mac \in mAnnounced
      BY <1>5, <1>9 DEF ModemRecvLinkRequest, ModemAccepts, mDests
    <2>2. CASE Defer
      BY <1>1, <1>2, <1>9, <2>1, <2>2 DEF ModemHolds, ModemRecvLinkRequest
    <2>3. CASE ~Defer
      <3> DEFINE y == LinkReply(x.mac, "REQUEST_DENIED", mMetrics[x.mac])
      <3>1. /\ mMetrics[x.mac] \in Metrics /\ Supplied(mMetrics[x.mac]) = Types
            /\ NoChanges \in AddressChanges
        BY <2>1, ModemNoData DEF ModemOwn, ModemRequestsMatchDestinations, ModemTypeOK
      <3>2. toRouter' = Append(toRouter, y) /\ UNCHANGED mPendingLink
        BY <1>9, <2>3 DEF ModemRecvLinkRequest, ModemSend
      <3>3. y.type = "LINK_CHARACTERISTICS_RESPONSE" /\ y.mac = x.mac
        BY DEF LinkReply, Msg
      <3>4. y \in ModemMessage
        BY <2>1, <3>1, ModemSendsMetrics
      <3>5. KindOf(y.type) = KindOf(x.type) /\ y.type \in ModemReply
        BY <2>1, <3>3 DEF KindOf, ModemReply
      <3> HIDE DEF y
      <3>6. ModemReplies(y)
        BY <1>6, <1>9, <2>1, <3>2, <3>3, <3>4, <3>5
      <3>7. QED
        BY <3>4, <3>6
    <2>4. QED
      BY <2>2, <2>3
  <1>10. QED
    BY <1>4, <1>7, <1>8, <1>9

\* The metrics of an application's command that passes its check are declared.
LEMMA SuppliedMetrics ==
  ASSUME NEW supplied \in Supply \cup {NoMetrics}, valid_metrics(supplied)
  PROVE  supplied \in Metrics /\ Supplied(supplied) \subseteq Types
  BY ModemNoData, ModemConstants DEF valid_metrics, Types, LinkMetrics

\* What the modem's application asks for opens a request, or is told.
LEMMA ModemCommandsDoes ==
  ASSUME ModemTypeOK, ModemTypeOK', ModemOwn, crossed \in BOOLEAN, ModemCommands
  PROVE  ModemDoes
  <1>1. /\ ModemAlone /\ UNCHANGED toModem
        /\ crossed' = (crossed \/ \E y \in Sent(toRouter, toRouter') : Crosses(y, toModem))
    BY DEF ModemCommands, ModemOnly, ModemAlone, routerVars
  <1>2. toRouter \in Seq(Message) /\ NoMac \notin MAC
    BY MessageConstants DEF ModemTypeOK
  <1>3. ASSUME NEW y \in ModemMessage, toRouter' = Append(toRouter, y)
        PROVE  crossed' = (crossed \/ Crosses(y, toModem))
    <2>1. Sent(toRouter, toRouter') = {y}
      BY <1>2, <1>3, SMTT(30) DEF Sent, ModemMessage
    <2>2. QED
      BY <1>1, <2>1
  <1>4. UNCHANGED toRouter => crossed' = crossed
    <2>1. UNCHANGED toRouter => Sent(toRouter, toRouter') = {}
      BY <1>2, SMTT(30) DEF Sent
    <2>2. QED
      BY <1>1, <2>1
  <1>5. ASSUME NEW y \in ModemMessage, toRouter' = Append(toRouter, y),
               y.type = "DESTINATION_UPDATE"
        PROVE  crossed' = crossed
    <2>1. ~Crosses(y, toModem)
      BY <1>5 DEF Crosses, Request, ExclusiveRequest
    <2>2. QED
      BY <1>3, <1>5, <2>1
  <1>6. ASSUME mState = "InSession", UNCHANGED mControl, ModemSame, UNCHANGED mPeerAddrs,
               \/ UNCHANGED toRouter
               \/ \E y \in ModemMessage : /\ y.type = "DESTINATION_UPDATE"
                                          /\ toRouter' = Append(toRouter, y)
        PROVE  ModemTells
    BY <1>1, <1>4, <1>5, <1>6 DEF ModemTells, ModemStays, mLive, mControl
  <1>7. ASSUME NEW y \in ModemMessage, mState = "InSession", UNCHANGED mControl,
               y.type \in ModemRequest, MTx(y.mac) = Idle, y.mac \notin mPendingLink,
               \A s \in Scope : MTx(s)' = IF s = y.mac THEN KindOf(y.type) ELSE MTx(s),
               toRouter' = Append(toRouter, y),
               UNCHANGED <<mAnnounced, mPendingLink, mPeerAddrs>>
        PROVE  ModemOpens(y)
    BY <1>1, <1>3, <1>7 DEF ModemOpens, ModemStays, mLive, mControl
  <1>8. ASSUME NEW mac \in MAC, NEW supplied \in Supply, NEW addrs \in AddAddrs,
               ModemAppAddDestination(mac, supplied, addrs)
        PROVE  \E y \in ModemMessage : ModemOpens(y)
    <2> DEFINE metrics == merge_link_metrics(supplied, mSessionMetrics)
               ch == [added |-> addrs, removed |-> {}]
               y == Msg("DESTINATION_UP", mac, NoStatus, metrics, ch)
    <2>1. /\ mState = "InSession" /\ mTxDest[mac] = Idle /\ mac \notin mKnown
          /\ valid_metrics(supplied)
          /\ mTxDest' = [mTxDest EXCEPT ![mac] = "DestinationUp"]
          /\ toRouter' = Append(toRouter, y) /\ UNCHANGED mControl
          /\ UNCHANGED <<mTxSession, mAnnounced, mPendingLink, mPeerAddrs>>
      BY <1>8 DEF ModemAppAddDestination, ModemSend, mPeer
    <2>2. supplied \in Metrics /\ Supplied(supplied) \subseteq Types
      BY <2>1, SuppliedMetrics
    <2>3. metrics \in Metrics /\ Supplied(metrics) \subseteq Types
      BY <2>2, MergeSupplied, MergeType, SMTT(30) DEF ModemOwn, ModemTypeOK
    <2>4. ch \in AddressChanges
      BY SessionConstants DEF AddressChanges
    <2> HIDE DEF metrics, ch
    <2>5. y \in ModemMessage
      BY <2>3, <2>4, ModemSendsMetrics
    <2>6. y.type = "DESTINATION_UP" /\ y.mac = mac /\ y.type \in ModemRequest
      BY DEF Msg, ModemRequest
    <2>7. MTx(mac) = Idle /\ mac \notin mPendingLink
      BY <1>2, <2>1 DEF MTx, ModemOwn, ModemRequestsMatchDestinations
    <2>8. \A s \in Scope : MTx(s)' = IF s = mac THEN KindOf("DESTINATION_UP") ELSE MTx(s)
      BY <1>2, <2>1 DEF MTx, Scope, KindOf, ModemTypeOK
    <2> HIDE DEF y
    <2>9. ModemOpens(y)
      BY <1>7, <2>1, <2>5, <2>6, <2>7, <2>8
    <2>10. QED
      BY <2>5, <2>9
  <1>9. ASSUME NEW mac \in MAC, NEW supplied \in Supply, ModemAppUpdateMetrics(mac, supplied)
        PROVE  ModemTells
    <2> DEFINE y == Msg("DESTINATION_UPDATE", mac, NoStatus, supplied, NoChanges)
    <2>1. /\ mState = "InSession" /\ valid_metrics(supplied)
          /\ UNCHANGED mControl /\ ModemSame /\ UNCHANGED mPeerAddrs
          /\ UNCHANGED toRouter \/ toRouter' = Append(toRouter, y)
      BY <1>9 DEF ModemAppUpdateMetrics, ModemUpdatable, ModemSend, ModemSame, mPeer
    <2>2. supplied \in Metrics /\ Supplied(supplied) \subseteq Types
      BY <2>1, SuppliedMetrics
    <2>3. y \in ModemMessage
      BY <2>2, ModemNoData, ModemSendsMetrics
    <2>4. y.type = "DESTINATION_UPDATE"
      BY DEF Msg
    <2> HIDE DEF y
    <2>5. QED
      BY <1>6, <2>1, <2>3, <2>4
  <1>10. ASSUME NEW mac \in MAC, NEW ch \in AddrUpdates, ModemAppUpdateAddresses(mac, ch)
         PROVE  ModemTells
    <2> DEFINE desired == apply_lenient(mAddrs[mac], ch)
               effective == between(mAdvertised[mac], desired)
               y == Msg("DESTINATION_UPDATE", mac, NoStatus, NoMetrics, effective)
    <2>1. /\ mState = "InSession"
          /\ UNCHANGED mControl /\ ModemSame /\ UNCHANGED mPeerAddrs
          /\ UNCHANGED toRouter \/ toRouter' = Append(toRouter, y)
      BY <1>10 DEF ModemAppUpdateAddresses, ModemUpdatable, ModemSend, ModemSame, mPeer
    <2>2. desired \in SUBSET Addr
      BY SessionConstants, ModemAddressTypes DEF ModemTypeOK
    <2>3. effective \in AddressChanges
      BY <2>2, ModemAddressTypes DEF ModemTypeOK
    <2>4. Supplied(NoMetrics) \subseteq Types
      BY DEF Supplied, NoMetrics
    <2> HIDE DEF effective
    <2>5. y \in ModemMessage
      BY <2>3, <2>4, ModemNoData, ModemSendsMetrics
    <2>6. y.type = "DESTINATION_UPDATE"
      BY DEF Msg
    <2> HIDE DEF y
    <2>7. QED
      BY <1>6, <2>1, <2>5, <2>6
  <1>11. ASSUME NEW mac \in MAC, ModemAppDropDestination(mac)
         PROVE  ModemTells \/ \E y \in ModemMessage : ModemOpens(y)
    <2>1. CASE mac \notin mAnnounced
      <3>1. /\ mState = "InSession" /\ UNCHANGED mControl /\ UNCHANGED toRouter
            /\ mAnnounced' = mAnnounced \ {mac} /\ UNCHANGED <<mTxDest, mTxSession>>
            /\ UNCHANGED mPendingLink /\ UNCHANGED mPeerAddrs
        BY <1>11, <2>1 DEF ModemAppDropDestination, ModemDroppable, ModemRemove, mPeer
      <3>2. ModemSame
        BY <2>1, <3>1 DEF ModemSame, mTx
      <3>3. QED
        BY <1>6, <3>1, <3>2
    <2>2. CASE mac \in mAnnounced
      <3> DEFINE y == DestMsg("DESTINATION_DOWN", mac, NoStatus)
      <3>1. /\ mState = "InSession" /\ UNCHANGED mControl /\ mTxDest[mac] = Idle
            /\ mac \notin mPendingLink
            /\ mTxDest' = [mTxDest EXCEPT ![mac] = "DestinationDown"]
            /\ toRouter' = Append(toRouter, y)
            /\ UNCHANGED <<mTxSession, mAnnounced, mPendingLink, mPeerAddrs>>
        BY <1>11, <2>2 DEF ModemAppDropDestination, ModemDroppable, ModemSend, mPeer, mDests
      <3>2. /\ y \in ModemMessage /\ y.type = "DESTINATION_DOWN" /\ y.mac = mac
            /\ y.type \in ModemRequest
        BY ModemSends DEF DestMsg, Msg, ModemRequest
      <3>3. MTx(mac) = Idle
        BY <1>2, <3>1 DEF MTx
      <3>4. \A s \in Scope : MTx(s)' = IF s = mac THEN KindOf("DESTINATION_DOWN") ELSE MTx(s)
        BY <1>2, <3>1 DEF MTx, Scope, KindOf, ModemTypeOK
      <3> HIDE DEF y
      <3>5. ModemOpens(y)
        BY <1>7, <3>1, <3>2, <3>3, <3>4
      <3>6. QED
        BY <3>2, <3>5
    <2>3. QED
      BY <2>1, <2>2
  <1>12. ASSUME NEW y \in ModemMessage, mState = "InSession", UNCHANGED mControl,
                y.type = "SESSION_UPDATE", y.mac = NoMac, mTxSession = Idle,
                mTxSession' = "SessionUpdate", toRouter' = Append(toRouter, y),
                UNCHANGED <<mTxDest, mAnnounced, mPendingLink, mPeerAddrs>>
         PROVE  ModemOpens(y)
    <2>1. NoMac \notin mPendingLink /\ MTx(NoMac) = Idle /\ "SESSION_UPDATE" \in ModemRequest
      BY <1>2, <1>12 DEF ModemTypeOK, MTx, ModemRequest
    <2>2. \A s \in Scope : MTx(s)' = IF s = NoMac THEN KindOf("SESSION_UPDATE") ELSE MTx(s)
      BY <1>12 DEF MTx, KindOf
    <2>3. QED
      BY <1>7, <1>12, <2>1, <2>2
  <1>13. ASSUME NEW supplied \in Supply, ModemAppSessionUpdate(supplied)
         PROVE  \E y \in ModemMessage : ModemOpens(y)
    <2> DEFINE y == SessionMsg("SESSION_UPDATE", NoStatus, supplied, NoChanges)
    <2>1. /\ mState = "InSession" /\ UNCHANGED mControl /\ valid_metrics(supplied)
          /\ mTxSession = Idle /\ mTxSession' = "SessionUpdate"
          /\ toRouter' = Append(toRouter, y)
          /\ UNCHANGED <<mTxDest, mAnnounced, mPendingLink, mPeerAddrs>>
      BY <1>13 DEF ModemAppSessionUpdate, ModemSend
    <2>2. supplied \in Metrics /\ Supplied(supplied) \subseteq Types
      BY <2>1, SuppliedMetrics
    <2>3. y \in ModemMessage
      BY <2>2, ModemNoData, SessionUpdateSent
    <2>4. y.type = "SESSION_UPDATE" /\ y.mac = NoMac
      BY DEF SessionMsg, Msg
    <2> HIDE DEF y
    <2>5. ModemOpens(y)
      BY <1>12, <2>1, <2>3, <2>4
    <2>6. QED
      BY <2>3, <2>5
  <1>14. ASSUME NEW ch \in AddrUpdates, ModemAppSessionAddresses(ch)
         PROVE  \E y \in ModemMessage : ModemOpens(y)
    <2> DEFINE effective == between(mLocalAddrs, mLocalAddrs')
               y == SessionMsg("SESSION_UPDATE", NoStatus, NoMetrics, effective)
    <2>1. /\ mState = "InSession" /\ UNCHANGED mControl
          /\ mTxSession = Idle /\ mTxSession' = "SessionUpdate"
          /\ toRouter' = Append(toRouter, y)
          /\ UNCHANGED <<mTxDest, mAnnounced, mPendingLink, mPeerAddrs>>
      BY <1>14 DEF ModemAppSessionAddresses, ModemSend, mDests
    <2>2. effective \in AddressChanges
      BY ModemAddressTypes DEF ModemTypeOK
    <2>3. Supplied(NoMetrics) \subseteq Types
      BY DEF Supplied, NoMetrics
    <2> HIDE DEF effective
    <2>4. y \in ModemMessage
      BY <2>2, <2>3, ModemNoData, SessionUpdateSent
    <2>5. y.type = "SESSION_UPDATE" /\ y.mac = NoMac
      BY DEF SessionMsg, Msg
    <2> HIDE DEF y
    <2>6. ModemOpens(y)
      BY <1>12, <2>1, <2>4, <2>5
    <2>7. QED
      BY <2>4, <2>6
  <1>15. ModemTells \/ \E y \in ModemMessage : ModemOpens(y)
    BY <1>8, <1>9, <1>10, <1>11, <1>13, <1>14 DEF ModemCommands
  <1>16. QED
    BY <1>1, <1>15 DEF ModemDoes

\* Every step of the modem keeps the types, and the facts about destinations
\* and what is held back.
LEMMA ModemStepDests ==
  ASSUME ModemTypeOK, ModemDestInv, toModem \in Seq(Message), ModemStep
  PROVE  ModemTypeOK' /\ ModemDestInv'
  <1>1. \/ \E msg \in Message : ModemRecv(msg)
        \/ ModemApp
        \/ ModemTcpAccepted \/ ModemHeartbeatTick \/ ModemDeadline \/ ModemTcpClosed
    <2>1. CASE ModemReads
      BY <2>1, SMTT(30) DEF ModemReads
    <2>2. CASE ModemCommands \/ ModemAnswersLink \/ ModemShutsDown
      <3>1. {"SUCCESS", "REQUEST_DENIED"} \subseteq Status
        BY DEF Status
      <3>2. QED
        BY <2>2, <3>1, SessionConstants
        DEF ModemCommands, ModemAnswersLink, ModemShutsDown, ModemApp
    <2>3. CASE ModemTakesConnection \/ ModemBeats \/ ModemTimesOut \/ ModemSeesClose
      BY <2>3 DEF ModemTakesConnection, ModemBeats, ModemTimesOut, ModemSeesClose
    <2>4. QED
      BY <2>1, <2>2, <2>3 DEF ModemStep
  <1>2. ModemTypeOK'
    BY <1>1, ModemRecvType, ModemAppType, ModemEnvironmentType
  <1>3. QED
    BY <1>1, <1>2, ModemRecvDests, ModemAppDests, ModemOtherDests

\* Every message the modem reads.
LEMMA ModemReadsDoes ==
  ASSUME ModemTypeOK, ModemOwn, toModem \in Seq(RouterMessage), ModemReads
  PROVE  ModemDoes
  <1> DEFINE x == Head(toModem)
  <1>1. /\ toModem # <<>> /\ toModem' = Tail(toModem) /\ UNCHANGED history
        /\ x \in RouterMessage /\ ModemRecv(x) /\ ModemAlone
    BY SMTT(30) DEF ModemReads, ModemAlone
  <1>2. x \in Message /\ toModem \in Seq(Message)
    BY <1>1, SMTT(30) DEF RouterMessage
  <1> HIDE DEF x
  <1>3. CASE \/ ModemRecvInvalid(x) \/ ModemRecvTermination(x)
             \/ ModemRecvTerminationResponse(x) \/ ModemIgnore(x)
    <2>1. ModemGoes
      BY <1>1, <1>2, <1>3, ModemReadsEnd DEF x
    <2>2. QED
      BY <1>1, <2>1 DEF ModemDoes
  <1>4. CASE ModemRecvInit(x)
    <2>1. x.type = "SESSION_INITIALIZATION"
      BY <1>2, <1>4, AcceptedInit DEF ModemRecvInit
    <2>2. ModemEnters
      BY <1>1, <1>4, <2>1 DEF ModemEnters, ModemReadsHead, ModemRecvInit, ModemSend, x
    <2>3. QED
      BY <1>1, <2>2 DEF ModemDoes
  <1>5. CASE \/ ModemRecvUpAccepted(x) \/ ModemRecvDownResponse(x)
             \/ ModemRecvSessionUpdateResponse(x)
    <2>1. ModemCloses
      BY <1>1, <1>5, ModemHandlesReply DEF x
    <2>2. QED
      BY <1>1, <2>1 DEF ModemDoes
  <1>6. CASE ModemRecvUpRefused(x)
    BY <1>1, <1>6, SMTT(30)
    DEF ModemRecvUpRefused, ModemAccepts, RouterMessage, RouterMsg, Bare,
        Termination, DestMsg, SessionMsg, Msg
  <1>7. CASE \/ ModemRecvDestinationDown(x) \/ ModemRecvSessionUpdate(x)
             \/ ModemRecvAnnounceKnown(x) \/ ModemRecvAnnounceUnknown(x)
             \/ ModemRecvLinkRequest(x)
    <2>1. ModemHolds \/ \E y \in ModemMessage : ModemReplies(y)
      BY <1>1, <1>7, ModemHandlesRequest DEF x
    <2>2. QED
      BY <1>1, <2>1 DEF ModemDoes
  <1>8. CASE ModemRecvHeartbeat(x)
    <2>1. ModemNotes
      BY <1>1, <1>8 DEF ModemNotes, ModemStays, ModemReadsHead, ModemSame, ModemRecvHeartbeat,
                        ModemAccepts, mLive, mDests, mPeer, x
    <2>2. QED
      BY <1>1, <2>1 DEF ModemDoes
  <1>9. QED
    BY <1>1, <1>3, <1>4, <1>5, <1>6, <1>7, <1>8 DEF ModemRecv

\* The answer to a deferred link request.
LEMMA ModemAnswersDoes ==
  ASSUME ModemTypeOK, ModemOwn, ModemAnswersLink
  PROVE  ModemDoes
  <1>1. ModemAlone /\ UNCHANGED <<toModem, history>>
    BY DEF ModemAnswersLink, ModemOnly, ModemAlone, routerVars
  <1>2. PICK mac \in MAC, status \in {"SUCCESS", "REQUEST_DENIED"},
             supplied \in Supply \cup {NoMetrics} :
               ModemAppLinkCharacteristicsResponse(mac, status, supplied)
    BY DEF ModemAnswersLink
  <1> DEFINE metrics == merge_link_metrics(supplied, mMetrics[mac])
             y == LinkReply(mac, status, metrics)
  <1>3. /\ mState = "InSession" /\ mac \in mPendingLink /\ mTxDest[mac] = Idle
        /\ valid_metrics(supplied) /\ mPendingLink' = mPendingLink \ {mac}
        /\ toRouter' = Append(toRouter, y)
        /\ UNCHANGED <<mState, mReason, mTx, mAnnounced, mPeerAddrs>>
    BY <1>2 DEF ModemAppLinkCharacteristicsResponse, ModemSend, mControl, mPeer
  <1>4. supplied \in Metrics /\ Supplied(supplied) \subseteq Types
    BY <1>3, SuppliedMetrics
  <1>5. mMetrics[mac] \in Metrics /\ Supplied(mMetrics[mac]) = Types
    BY <1>3 DEF ModemOwn, ModemRequestsMatchDestinations, ModemTypeOK
  <1>6. metrics \in Metrics /\ Supplied(metrics) = Types
    BY <1>4, <1>5, MergeType, MergeSupplied
  <1>7. y.type = "LINK_CHARACTERISTICS_RESPONSE" /\ y.mac = mac
    BY DEF LinkReply, Msg
  <1> HIDE DEF metrics
  <1>8. y \in ModemMessage
    BY <1>6, ModemNoData, ModemSendsMetrics
  <1>9. MTx(mac) = Idle
    BY <1>3, MessageConstants DEF MTx
  <1> HIDE DEF y
  <1>10. ModemAnswers(y)
    BY <1>1, <1>3, <1>7, <1>9 DEF ModemAnswers, ModemStays, mLive
  <1>11. QED
    BY <1>1, <1>8, <1>10 DEF ModemDoes

\* Every step of the modem.
LEMMA ModemStepDoes ==
  ASSUME ModemTypeOK, ModemOwn, crossed \in BOOLEAN, toModem \in Seq(RouterMessage), ModemStep
  PROVE  ModemDoes
  <1>1. CASE ModemTakesConnection \/ ModemBeats
    <2>1. ModemAlone
      BY <1>1 DEF ModemTakesConnection, ModemBeats, ModemOnly, ModemAlone, routerVars
    <2>2. ModemTakesConnection => ModemWaits
      BY DEF ModemTakesConnection, ModemOnly, routerVars, ModemTcpAccepted, ModemWaits
    <2>3. ModemBeats => ModemTells
      BY ModemSends DEF ModemBeats, ModemOnly, routerVars, ModemHeartbeatTick, ModemTells,
             ModemStays, ModemSame, ModemSend, mControl, mDests, mPeer, mLive, history, Bare, Msg
    <2>4. QED
      BY <1>1, <2>1, <2>2, <2>3 DEF ModemDoes
  <1>2. CASE ModemShutsDown \/ ModemTimesOut \/ ModemSeesClose
    <2>1. /\ ModemAlone /\ UNCHANGED <<toModem, history>>
          /\ \/ mState # "Listening" /\ ModemAppShutdown("SHUTTING_DOWN")
             \/ ModemDeadline
             \/ mState # "Listening" /\ ModemTcpClosed
      BY <1>2 DEF ModemShutsDown, ModemTimesOut, ModemSeesClose, ModemOnly, ModemAlone,
                  routerVars
    <2>2. ModemGoes
      BY <2>1, ModemEnds
    <2>3. QED
      BY <2>1, <2>2 DEF ModemDoes
  <1>3. CASE ModemCommands
    <2>1. ModemTypeOK'
      <3>1. ModemApp
        BY <1>3, SessionConstants DEF ModemCommands, ModemApp
      <3>2. QED
        BY <3>1, ModemAppType
    <2>2. QED
      BY <1>3, <2>1, ModemCommandsDoes
  <1>4. QED
    BY <1>1, <1>2, <1>3, ModemReadsDoes, ModemAnswersDoes DEF ModemStep

-----------------------------------------------------------------------------
(* How a session starts and ends.                                           *)

\* A queue without messages of a type, as it grows.
LEMMA FreeAppend ==
  ASSUME NEW q \in Seq(Message), NEW x \in Message, NEW type, x.type # type
  PROVE  /\ Free(q, type) => Free(Append(q, x), type)
         /\ FreeAfterFirst(q, type) => FreeAfterFirst(Append(q, x), type)
  <1>1. /\ DOMAIN Append(q, x) = 1 .. Len(q) + 1 /\ DOMAIN q = 1 .. Len(q) /\ Len(q) \in Nat
        /\ \A i \in 1 .. Len(q) : Append(q, x)[i] = q[i]
        /\ Append(q, x)[Len(q) + 1] = x
    BY SMTT(30)
  <1>2. \A i \in 1 .. Len(q) + 1 : i \in 1 .. Len(q) \/ i = Len(q) + 1
    BY <1>1, SMTT(30)
  <1> DEFINE q2 == Append(q, x)
  <1> HIDE DEF q2
  <1>3. QED
    BY <1>1, <1>2 DEF Free, FreeAfterFirst, q2

\* And as it is read.
LEMMA FreeTail ==
  ASSUME NEW q \in Seq(Message), q # <<>>, NEW type
  PROVE  /\ Free(q, type) => Free(Tail(q), type) /\ Head(q).type # type
         /\ FreeAfterFirst(q, type) => Free(Tail(q), type)
  <1>1. /\ Len(q) \in Nat \ {0} /\ DOMAIN q = 1 .. Len(q) /\ DOMAIN Tail(q) = 1 .. Len(q) - 1
        /\ Head(q) = q[1] /\ \A i \in 1 .. Len(q) - 1 : Tail(q)[i] = q[i + 1]
    BY SMTT(30)
  <1>2. \A i \in 1 .. Len(q) - 1 : i + 1 \in 1 .. Len(q) /\ i + 1 > 1
    BY <1>1, SMTT(30)
  <1>3. 1 \in 1 .. Len(q)
    BY <1>1, SMTT(30)
  <1> DEFINE q2 == Tail(q)
  <1> HIDE DEF q2
  <1>4. QED
    BY <1>1, <1>2, <1>3 DEF Free, FreeAfterFirst, q2

\* A queue without messages of a type at all has none after the first.
LEMMA FreeWeakens ==
  ASSUME NEW q, NEW type, Free(q, type)
  PROVE  FreeAfterFirst(q, type)
  BY DEF Free, FreeAfterFirst

\* A queue that is not empty begins as it did when something is sent.
LEMMA AppendHead ==
  ASSUME NEW q \in Seq(Message), NEW x \in Message
  PROVE  /\ Append(q, x) # <<>>
         /\ q # <<>> => Head(Append(q, x)) = Head(q)
         /\ q = <<>> => Append(q, x) = <<x>> /\ Head(Append(q, x)) = x
  <1>1. /\ Len(Append(q, x)) = Len(q) + 1 /\ Len(q) \in Nat
        /\ \A i \in 1 .. Len(q) : Append(q, x)[i] = q[i]
    BY SMTT(30)
  <1>2. Append(q, x) # <<>>
    BY <1>1, SMTT(30)
  <1>3. ASSUME q # <<>> PROVE Head(Append(q, x)) = Head(q)
    <2>1. Len(q) >= 1 /\ 1 \in 1 .. Len(q)
      BY <1>1, <1>3, SMTT(30)
    <2>2. Append(q, x)[1] = q[1]
      BY <1>1, <2>1
    <2>3. QED
      BY <2>2, SMTT(30)
  <1>4. ASSUME q = <<>> PROVE Append(q, x) = <<x>> /\ Head(Append(q, x)) = x
    BY <1>4, SMTT(30)
  <1>5. QED
    BY <1>2, <1>3, <1>4

\* A queue with one message has none of another type, and none after the first.
LEMMA FreeSingle ==
  ASSUME NEW x \in Message, NEW type
  PROVE  /\ FreeAfterFirst(<<x>>, type)
         /\ x.type # type => Free(<<x>>, type)
  BY SMTT(30) DEF Free, FreeAfterFirst

\* An empty queue has no message of any type.
LEMMA FreeEmpty ==
  \A type : Free(<<>>, type) /\ FreeAfterFirst(<<>>, type)
  BY SMTT(30) DEF Free, FreeAfterFirst

\* A queue that may have been read, or sent to.
LEMMA FreeStep ==
  ASSUME NEW q \in Seq(Message), NEW r, NEW type
  PROVE  /\ (r = q \/ (q # <<>> /\ r = Tail(q))) /\ Free(q, type) => Free(r, type)
         /\ (r = q \/ (q # <<>> /\ r = Tail(q))) /\ FreeAfterFirst(q, type)
              => FreeAfterFirst(r, type)
         /\ (\/ r = q \/ \E y \in Message : y.type # type /\ r = Append(q, y)) /\ Free(q, type)
              => Free(r, type)
  <1>1. q # <<>> => /\ Free(q, type) => Free(Tail(q), type)
                    /\ FreeAfterFirst(q, type) => FreeAfterFirst(Tail(q), type)
    BY FreeTail, FreeWeakens
  <1>2. \A y \in Message : y.type # type /\ Free(q, type) => Free(Append(q, y), type)
    BY FreeAppend
  <1>3. QED
    BY <1>1, <1>2

\* The router's steps in session leave the start and the end in order.
LEMMA RouterStaysHandshake ==
  ASSUME Handshake, toRouter \in Seq(Message), toModem \in Seq(Message), UNCHANGED mState,
         rState = "InSession" \/ (rState = "SessionInitPending" /\ toRouter # <<>>),
         rState' = "InSession", rMetricTypes' = Types,
         \/ rState = "InSession" /\ toRouter' = toRouter
         \/ toRouter # <<>> /\ toRouter' = Tail(toRouter),
         \/ toModem' = toModem
         \/ \E y \in Message :
              /\ y.type \notin {"SESSION_INITIALIZATION", "SESSION_TERMINATION",
                                "SESSION_TERMINATION_RESPONSE"}
              /\ toModem' = Append(toModem, y)
  PROVE  Handshake'
  <1>1. mState \notin Unbound
    BY DEF Handshake, HandshakeUnbound, Unbound
  <1>2. HandshakeUnbound' /\ HandshakeStart'
    BY <1>1 DEF HandshakeUnbound, HandshakeStart
  <1>3. toRouter' = toRouter \/ (toRouter # <<>> /\ toRouter' = Tail(toRouter))
    OBVIOUS
  <1>4. /\ Free(toRouter, "SESSION_TERMINATION_RESPONSE") => Free(toRouter', "SESSION_TERMINATION_RESPONSE")
        /\ Free(toRouter, "SESSION_TERMINATION") => Free(toRouter', "SESSION_TERMINATION")
    BY <1>3, FreeStep
  <1>5. \A t \in {"SESSION_INITIALIZATION", "SESSION_TERMINATION", "SESSION_TERMINATION_RESPONSE"} :
          Free(toModem, t) => Free(toModem', t)
    <2>1. TAKE t \in {"SESSION_INITIALIZATION", "SESSION_TERMINATION",
                      "SESSION_TERMINATION_RESPONSE"}
    <2>2. toModem' = toModem \/ \E y \in Message : y.type # t /\ toModem' = Append(toModem, y)
      BY <2>1
    <2>3. QED
      BY <2>2, FreeStep
  <1>6. Free(toRouter', "SESSION_INITIALIZATION_RESPONSE")
    <2>1. CASE rState = "InSession" /\ toRouter' = toRouter
      BY <2>1 DEF Handshake, HandshakeOnce
    <2>2. CASE toRouter # <<>> /\ toRouter' = Tail(toRouter)
      <3>1. FreeAfterFirst(toRouter, "SESSION_INITIALIZATION_RESPONSE")
        BY DEF Handshake, HandshakeOnce
      <3>2. QED
        BY <2>2, <3>1, FreeTail
    <2>3. QED
      BY <2>1, <2>2
  <1>7. FreeAfterFirst(toRouter', "SESSION_INITIALIZATION_RESPONSE")
    BY <1>6, FreeWeakens
  <1>8. HandshakeOnce'
    BY <1>1, <1>5, <1>6, <1>7 DEF Handshake, HandshakeOnce
  <1>9. HandshakeEnd'
    BY <1>4, <1>5 DEF Handshake, HandshakeEnd, Over
  <1>10. QED
    BY <1>2, <1>8, <1>9 DEF Handshake

\* So does its leaving.
LEMMA RouterGoesHandshake ==
  ASSUME Wire, RouterAlone, RouterGoes
  PROVE  Handshake'
  <1>1. /\ Handshake /\ toRouter \in Seq(Message) /\ toModem \in Seq(Message)
        /\ mState' = mState /\ rState' \in Over
    BY DEF Wire, RouterMessage, ModemMessage, RouterTypeOK, ModemTypeOK, RouterAlone, mControl,
           RouterGoes
  <1>2. \/ toModem' = toModem /\ (rState' = "Terminated" \/ rState' = rState)
        \/ /\ mState \notin Unbound
           /\ \E y \in Message : /\ y.type = "SESSION_TERMINATION"
                                 /\ toModem' = Append(toModem, y)
        \/ /\ mState \in Over
           /\ \E y \in Message : /\ y.type = "SESSION_TERMINATION_RESPONSE"
                                 /\ toModem' = Append(toModem, y)
    <2>1. CASE toModem' = toModem /\ (rState' = "Terminated" \/ rState' = rState)
      BY <2>1
    <2>2. CASE /\ rState = "InSession" \/ (rState = "SessionInitPending" /\ toRouter # <<>>)
               /\ \E status \in Status : toModem' = Append(toModem, Termination(status))
      <3>1. mState \notin Unbound
        BY <1>1, <2>2 DEF Handshake, HandshakeUnbound, Unbound
      <3>2. \A status \in Status :
              Termination(status) \in Message /\ Termination(status).type = "SESSION_TERMINATION"
        BY RouterSends DEF RouterMessage, Termination, Msg
      <3>3. QED
        BY <2>2, <3>1, <3>2
    <2>3. CASE /\ rState = "InSession" /\ toRouter # <<>>
               /\ Head(toRouter).type = "SESSION_TERMINATION"
               /\ toModem' = Append(toModem, Bare("SESSION_TERMINATION_RESPONSE"))
      <3>1. mState \in Over
        BY <1>1, <2>3, FreeTail DEF Handshake, HandshakeEnd
      <3>2. /\ Bare("SESSION_TERMINATION_RESPONSE") \in Message
            /\ Bare("SESSION_TERMINATION_RESPONSE").type = "SESSION_TERMINATION_RESPONSE"
        BY RouterSends DEF RouterMessage, Bare, Msg
      <3>3. QED
        BY <2>3, <3>1, <3>2
    <2>4. QED
      BY <2>1, <2>2, <2>3 DEF RouterGoes
  <1>3. toRouter' = toRouter \/ (toRouter # <<>> /\ toRouter' = Tail(toRouter))
    BY DEF RouterGoes
  <1>4. HandshakeUnbound'
    <2>1. SUFFICES ASSUME mState \in Unbound PROVE HandshakeUnbound'
      BY <1>1 DEF HandshakeUnbound
    <2>2. ModemFresh /\ ModemFresh'
      BY <1>1, <2>1 DEF Handshake, HandshakeUnbound, ModemFresh, RouterAlone, mDests, mPeer, mTx,
                        MTx
    <2>3. toRouter = <<>> /\ toRouter' = <<>> /\ toModem' = toModem
      BY <1>1, <1>2, <1>3, <2>1 DEF Handshake, HandshakeUnbound, Unbound, Over
    <2>4. rState' = "Terminated"
      BY <1>1, <1>2, <2>1 DEF Handshake, HandshakeUnbound, Unbound, Over
    <2>5. QED
      BY <1>1, <2>1, <2>2, <2>3, <2>4 DEF Handshake, HandshakeUnbound
  <1>5. HandshakeStart'
    BY <1>1 DEF HandshakeStart, Over
  <1>6. /\ Free(toRouter, "SESSION_TERMINATION") => Free(toRouter', "SESSION_TERMINATION")
        /\ FreeAfterFirst(toRouter', "SESSION_INITIALIZATION_RESPONSE")
    BY <1>1, <1>3, FreeStep DEF Handshake, HandshakeOnce
  <1>7. /\ Free(toModem, "SESSION_INITIALIZATION") => Free(toModem', "SESSION_INITIALIZATION")
        /\ mState \notin Over /\ Free(toModem, "SESSION_TERMINATION_RESPONSE")
             => Free(toModem', "SESSION_TERMINATION_RESPONSE")
    <2>1. toModem' = toModem \/ \E y \in Message : /\ y.type # "SESSION_INITIALIZATION"
                                                  /\ toModem' = Append(toModem, y)
      BY <1>2
    <2>2. mState \notin Over =>
            \/ toModem' = toModem
            \/ \E y \in Message : /\ y.type # "SESSION_TERMINATION_RESPONSE"
                                  /\ toModem' = Append(toModem, y)
      BY <1>2
    <2>3. QED
      BY <1>1, <2>1, <2>2, FreeStep
  <1>8. HandshakeOnce' /\ HandshakeEnd'
    BY <1>1, <1>6, <1>7 DEF Handshake, HandshakeOnce, HandshakeEnd, Over
  <1>9. QED
    BY <1>4, <1>5, <1>8 DEF Handshake

\* And so does its joining.
LEMMA RouterJoinsHandshake ==
  ASSUME Wire, RouterAlone, RouterJoins
  PROVE  Handshake'
  <1>1. /\ Handshake /\ rState = "Closed" /\ rState' = "SessionInitPending" /\ mState' = mState
        /\ toRouter = <<>> /\ toRouter' = <<>> /\ toModem = <<>>
        /\ toModem' = <<Bare("SESSION_INITIALIZATION")>>
        /\ mState \notin {"InSession", "Terminating"} /\ RouterFresh
    BY AppendHead, RouterSends
    DEF Wire, RouterJoins, RouterAlone, mControl, Handshake, HandshakeStart, RouterTypeOK, Bare,
        Msg, RouterMessage
  <1>2. RouterFresh'
    BY <1>1 DEF RouterJoins, RouterFresh, RTx, rTx, rDests, rPeer
  <1>3. mState \in Unbound => ModemFresh'
    BY <1>1 DEF Handshake, HandshakeUnbound, ModemFresh, RouterAlone, mDests, mPeer, mTx, MTx
  <1>4. HandshakeUnbound' /\ HandshakeStart'
    BY <1>1, <1>2, <1>3 DEF Handshake, HandshakeUnbound, HandshakeStart
  <1>5. /\ Free(toModem', "SESSION_TERMINATION") /\ Free(toModem', "SESSION_TERMINATION_RESPONSE")
        /\ \A type : Free(toRouter', type) /\ FreeAfterFirst(toRouter', type)
    <2>1. Bare("SESSION_INITIALIZATION") \in Message
      BY RouterSends DEF RouterMessage
    <2>2. Bare("SESSION_INITIALIZATION").type = "SESSION_INITIALIZATION"
      BY DEF Bare, Msg
    <2>3. QED
      BY <1>1, <2>1, <2>2, FreeSingle, FreeEmpty, SMTT(30)
  <1>6. HandshakeOnce' /\ HandshakeEnd'
    BY <1>1, <1>5 DEF HandshakeOnce, HandshakeEnd, Over
  <1>7. QED
    BY <1>4, <1>6 DEF Handshake

\* What the router does keeps what is sent, and the start and the end in order.
LEMMA RouterDoesQueues ==
  ASSUME Wire, RouterDoes
  PROVE  /\ toModem' \in Seq(RouterMessage) /\ toRouter' \in Seq(ModemMessage)
         /\ crossed' \in BOOLEAN /\ contested' = contested
  <1>1. /\ toModem \in Seq(RouterMessage) /\ toRouter \in Seq(ModemMessage)
        /\ crossed \in BOOLEAN
    BY DEF Wire
  <1>2. \/ toRouter' = toRouter
        \/ toRouter # <<>> /\ toRouter' = Tail(toRouter)
    BY DEF RouterDoes, RouterJoins, RouterGoes, RouterEnters, RouterCloses, RouterNotes,
           RouterTicks, RouterReplies, RouterOpens, RouterReadsHead
  <1>3. toModem' = toModem \/ \E y \in RouterMessage : toModem' = Append(toModem, y)
    BY RouterSends
    DEF RouterDoes, RouterJoins, RouterGoes, RouterEnters, RouterCloses, RouterNotes,
        RouterTicks, RouterReplies, RouterOpens
  <1>4. crossed' \in BOOLEAN /\ contested' = contested
    <2>1. UNCHANGED history \/ \E y : crossed' = (crossed \/ Crosses(y, toRouter)) /\ UNCHANGED contested
      BY DEF RouterDoes, RouterJoins, RouterGoes, RouterEnters, RouterCloses, RouterNotes,
           RouterTicks, RouterReplies, RouterOpens, RouterReadsHead
    <2>2. QED
      BY <1>1, <2>1 DEF history
  <1>5. QED
    <2>1. toModem' \in Seq(RouterMessage)
      BY <1>1, <1>3, SMTT(30)
    <2>2. toRouter' \in Seq(ModemMessage)
      BY <1>1, <1>2, SMTT(30)
    <2>3. QED
      BY <1>4, <2>1, <2>2

\* And the start and the end in order.
LEMMA RouterDoesHandshake ==
  ASSUME Wire, RouterDoes
  PROVE  Handshake'
  <1>1. /\ Handshake /\ toRouter \in Seq(Message) /\ toModem \in Seq(Message) /\ RouterAlone
        /\ mState' = mState
    BY DEF Wire, RouterTypeOK, ModemTypeOK, RouterDoes, RouterAlone, mControl
  <1>2. CASE RouterEnters
    <2>1. /\ rState = "SessionInitPending" /\ rState' = "InSession" /\ toRouter # <<>>
          /\ toRouter' = Tail(toRouter) /\ toModem' = toModem
          /\ rMetricTypes' = Supplied(Head(toRouter).metrics)
          /\ Head(toRouter).type = "SESSION_INITIALIZATION_RESPONSE"
      BY <1>2 DEF RouterEnters, RouterReadsHead
    <2>2. Head(toRouter) \in ModemMessage
      BY <2>1, SMTT(30) DEF Wire
    <2>3. Head(toRouter).metrics = InitialMetrics
      <3>1. Head(toRouter)
              = SessionMsg("SESSION_INITIALIZATION_RESPONSE", "SUCCESS", InitialMetrics, NoChanges)
        BY <2>1, <2>2, ModemMessageFields
      <3>2. QED
        BY <3>1, SMTT(30) DEF SessionMsg, Msg
    <2>4. rMetricTypes' = Types
      BY <2>1, <2>3 DEF Types
    <2>5. QED
      BY <1>1, <2>1, <2>4, RouterStaysHandshake
  <1>3. CASE \/ RouterCloses \/ RouterNotes \/ RouterTicks
             \/ \E y \in RouterMessage : RouterReplies(y) \/ RouterOpens(y)
    <2>1. rState = "InSession" /\ rState' = "InSession" /\ rMetricTypes' = Types
      BY <1>1, <1>3 DEF RouterCloses, RouterNotes, RouterTicks, RouterReplies, RouterOpens,
                        RouterStays, Handshake, HandshakeOnce
    <2>2. toRouter' = toRouter \/ (toRouter # <<>> /\ toRouter' = Tail(toRouter))
      BY <1>3 DEF RouterCloses, RouterNotes, RouterTicks, RouterReplies, RouterOpens,
                  RouterReadsHead
    <2>3. \/ toModem' = toModem
          \/ \E y \in Message :
               /\ y.type \notin {"SESSION_INITIALIZATION", "SESSION_TERMINATION",
                                 "SESSION_TERMINATION_RESPONSE"}
               /\ toModem' = Append(toModem, y)
      <3>1. CASE RouterCloses \/ RouterNotes
        BY <3>1 DEF RouterCloses, RouterNotes
      <3>2. CASE RouterTicks
        BY <3>2, RouterSends DEF RouterTicks, RouterMessage, Bare, Msg
      <3>3. CASE \E y \in RouterMessage : RouterReplies(y) \/ RouterOpens(y)
        <4>1. PICK y \in RouterMessage : RouterReplies(y) \/ RouterOpens(y)
          BY <3>3
        <4>2. y.type \in RouterReply \cup RouterRequest /\ toModem' = Append(toModem, y)
          BY <4>1 DEF RouterReplies, RouterOpens
        <4>3. y \in Message /\ y.type \notin {"SESSION_INITIALIZATION", "SESSION_TERMINATION",
                                              "SESSION_TERMINATION_RESPONSE"}
          BY <4>2 DEF RouterMessage, RouterReply, RouterRequest
        <4>4. QED
          BY <4>2, <4>3
      <3>4. QED
        BY <1>3, <3>1, <3>2, <3>3
    <2>4. /\ rState = "InSession" \/ (rState = "SessionInitPending" /\ toRouter # <<>>)
          /\ \/ rState = "InSession" /\ toRouter' = toRouter
             \/ toRouter # <<>> /\ toRouter' = Tail(toRouter)
      BY <2>1, <2>2
    <2>5. QED
      BY <1>1, <2>1, <2>3, <2>4, RouterStaysHandshake
  <1>4. QED
    BY <1>1, <1>2, <1>3, RouterGoesHandshake, RouterJoinsHandshake DEF RouterDoes

\* A step of the router keeps the wire in order.
LEMMA RouterStepWire ==
  ASSUME Wire, RouterStep
  PROVE  Wire' /\ RouterDoes
  <1>1. RouterDoes /\ RouterTypeOK'
    BY RouterStepDoes DEF Wire
  <1>2. /\ toModem' \in Seq(RouterMessage) /\ toRouter' \in Seq(ModemMessage)
        /\ crossed' \in BOOLEAN /\ contested' = contested
    BY <1>1, RouterDoesQueues
  <1>3. RouterAlone
    BY <1>1 DEF RouterDoes
  <1>4. ModemTypeOK'
    <2>1. toRouter' \in Seq(Message)
      BY <1>2, SMTT(30) DEF ModemMessage
    <2>2. QED
      BY <1>3, <2>1 DEF Wire, ModemTypeOK, RouterAlone, mControl, mTx, mDests, mData, mPeer
  <1>5. ModemOwn'
    <2>1. ModemRequestsMatchDestinations' /\ ModemHoldsNothingBack'
      BY <1>3 DEF Wire, ModemOwn, ModemRequestsMatchDestinations, ModemHoldsNothingBack,
                  RouterAlone, mTx, mDests, mData
    <2>2. /\ Supplied(mSessionMetrics)' = Types
          /\ \A m \in mKnown' : Supplied(mMetrics'[m]) = Types
      BY <1>3 DEF Wire, ModemOwn, RouterAlone, mDests, mData, mPeer
    <2>3. contested' \/ ~Overlap([m \in MAC |-> mAddrs[m] \cup mAdvertised[m]])'
      BY <1>2, <1>3 DEF Wire, ModemOwn, RouterAlone, mDests, mData, mPeer, Overlap
    <2>4. QED
      BY <2>1, <2>2, <2>3 DEF ModemOwn, Types
  <1>6. Handshake'
    BY <1>1, RouterDoesHandshake
  <1>7. contested' \in BOOLEAN
    BY <1>2 DEF Wire
  <1>8. QED
    BY <1>1, <1>2, <1>4, <1>5, <1>6, <1>7 DEF Wire

\* What the modem does to what the router is waiting for.
LEMMA ModemSameRouter ==
  ASSUME ModemAlone
  PROVE  /\ rState' = rState /\ rMetricTypes' = rMetricTypes /\ RouterView' = RouterView
         /\ rLocalAddrs' = rLocalAddrs /\ rReason' = rReason
         /\ \A s \in Scope : RTx(s)' = RTx(s)
         /\ RouterFresh => RouterFresh'
  BY DEF ModemAlone, rControl, rTx, rDests, rPeer, RTx, RouterFresh, RouterView

\* The modem's steps in session leave the start and the end in order.
LEMMA ModemStaysHandshake ==
  ASSUME Handshake, toRouter \in Seq(Message), toModem \in Seq(Message), ModemAlone,
         mState = "InSession", mState' = "InSession",
         toModem' = toModem \/ (toModem # <<>> /\ toModem' = Tail(toModem)),
         \/ toRouter' = toRouter
         \/ \E y \in Message :
              /\ y.type \notin {"SESSION_INITIALIZATION_RESPONSE", "SESSION_TERMINATION",
                                "SESSION_TERMINATION_RESPONSE"}
              /\ toRouter' = Append(toRouter, y)
  PROVE  Handshake'
  <1>1. rState' = rState /\ rMetricTypes' = rMetricTypes /\ (RouterFresh => RouterFresh')
    BY ModemSameRouter
  <1>2. /\ toRouter # <<>> => toRouter' # <<>> /\ Head(toRouter') = Head(toRouter)
        /\ toModem = <<>> => toModem' = <<>>
    BY AppendHead
  <1>3. HandshakeUnbound' /\ HandshakeStart'
    BY <1>1, <1>2 DEF Handshake, HandshakeUnbound, HandshakeStart, Unbound
  <1>4. \A t \in {"SESSION_INITIALIZATION_RESPONSE", "SESSION_TERMINATION",
                  "SESSION_TERMINATION_RESPONSE"} : Free(toRouter, t) => Free(toRouter', t)
    <2>1. TAKE t \in {"SESSION_INITIALIZATION_RESPONSE", "SESSION_TERMINATION",
                      "SESSION_TERMINATION_RESPONSE"}
    <2>2. \/ toRouter' = toRouter
          \/ \E y \in Message : y.type # t /\ toRouter' = Append(toRouter, y)
      BY <2>1
    <2>3. QED
      BY <2>2, FreeStep
  <1>5. FreeAfterFirst(toRouter', "SESSION_INITIALIZATION_RESPONSE")
    <2>1. FreeAfterFirst(toRouter, "SESSION_INITIALIZATION_RESPONSE")
      BY DEF Handshake, HandshakeOnce
    <2>2. CASE toRouter' = toRouter
      BY <2>1, <2>2
    <2>3. CASE \E y \in Message : /\ y.type # "SESSION_INITIALIZATION_RESPONSE"
                                  /\ toRouter' = Append(toRouter, y)
      BY <2>1, <2>3, FreeAppend
    <2>4. QED
      BY <2>2, <2>3
  <1>6. \A t : Free(toModem, t) => Free(toModem', t)
    BY FreeStep
  <1>7. HandshakeOnce' /\ HandshakeEnd'
    BY <1>1, <1>4, <1>5, <1>6 DEF Handshake, HandshakeOnce, HandshakeEnd, Over, Unbound
  <1>8. QED
    BY <1>3, <1>7 DEF Handshake

\* So does its leaving.
LEMMA ModemGoesHandshake ==
  ASSUME Wire, ModemAlone, ModemGoes
  PROVE  Handshake'
  <1>1. /\ Handshake /\ toRouter \in Seq(Message) /\ toModem \in Seq(Message)
        /\ mState' \in Over /\ mState \in ModemState
        /\ toModem' = toModem \/ (toModem # <<>> /\ toModem' = Tail(toModem))
    BY DEF Wire, RouterTypeOK, ModemTypeOK, ModemGoes
  <1>2. rState' = rState /\ rMetricTypes' = rMetricTypes /\ (RouterFresh => RouterFresh')
    BY ModemSameRouter
  <1>3. \/ toRouter' = toRouter /\ (mState' = "Terminated" \/ mState' = mState)
        \/ /\ mLive
           /\ \E y \in Message : /\ y.type = "SESSION_TERMINATION"
                                 /\ toRouter' = Append(toRouter, y)
        \/ /\ mLive /\ rState \in Over
           /\ \E y \in Message : /\ y.type = "SESSION_TERMINATION_RESPONSE"
                                 /\ toRouter' = Append(toRouter, y)
    <2>1. CASE toRouter' = toRouter /\ (mState' = "Terminated" \/ mState' = mState)
      BY <2>1
    <2>2. CASE /\ mLive
               /\ \E status \in Status : toRouter' = Append(toRouter, Termination(status))
      <3>1. \A status \in Status :
              Termination(status) \in Message /\ Termination(status).type = "SESSION_TERMINATION"
        BY ModemSends DEF ModemMessage, Termination, Msg
      <3>2. QED
        BY <2>2, <3>1
    <2>3. CASE /\ mLive /\ toModem # <<>> /\ Head(toModem).type = "SESSION_TERMINATION"
               /\ toRouter' = Append(toRouter, Bare("SESSION_TERMINATION_RESPONSE"))
      <3>1. rState \in Over
        BY <1>1, <2>3, FreeTail DEF Handshake, HandshakeEnd
      <3>2. /\ Bare("SESSION_TERMINATION_RESPONSE") \in Message
            /\ Bare("SESSION_TERMINATION_RESPONSE").type = "SESSION_TERMINATION_RESPONSE"
        BY ModemSends DEF ModemMessage, Bare, Msg
      <3>3. QED
        BY <2>3, <3>1, <3>2
    <2>4. QED
      BY <2>1, <2>2, <2>3 DEF ModemGoes
  <1>4. /\ toRouter # <<>> => toRouter' # <<>> /\ Head(toRouter') = Head(toRouter)
        /\ ~mLive => toRouter' = toRouter /\ (mState' = "Terminated" \/ mState' = mState)
        /\ toModem = <<>> => toModem' = <<>>
    BY <1>1, <1>3, AppendHead
  <1>5. HandshakeUnbound'
    BY <1>1 DEF HandshakeUnbound, Unbound, Over
  <1>6. HandshakeStart'
    BY <1>1, <1>2, <1>4 DEF Handshake, HandshakeStart, Over, mLive, ModemState
  <1>7. /\ Free(toRouter, "SESSION_INITIALIZATION_RESPONSE")
             => Free(toRouter', "SESSION_INITIALIZATION_RESPONSE")
        /\ FreeAfterFirst(toRouter, "SESSION_INITIALIZATION_RESPONSE")
             => FreeAfterFirst(toRouter', "SESSION_INITIALIZATION_RESPONSE")
        /\ rState \notin Over /\ Free(toRouter, "SESSION_TERMINATION_RESPONSE")
             => Free(toRouter', "SESSION_TERMINATION_RESPONSE")
    <2>1. \/ toRouter' = toRouter
          \/ \E y \in Message : /\ y.type # "SESSION_INITIALIZATION_RESPONSE"
                                /\ toRouter' = Append(toRouter, y)
      BY <1>3
    <2>2. rState \notin Over =>
            \/ toRouter' = toRouter
            \/ \E y \in Message : /\ y.type # "SESSION_TERMINATION_RESPONSE"
                                  /\ toRouter' = Append(toRouter, y)
      BY <1>3
    <2>3. FreeAfterFirst(toRouter, "SESSION_INITIALIZATION_RESPONSE")
             => FreeAfterFirst(toRouter', "SESSION_INITIALIZATION_RESPONSE")
      BY <1>1, <2>1, FreeAppend
    <2>4. QED
      BY <1>1, <2>1, <2>2, <2>3, FreeStep
  <1>8. \A t : Free(toModem, t) => Free(toModem', t)
    BY <1>1, FreeStep
  <1>9. HandshakeOnce' /\ HandshakeEnd'
    BY <1>1, <1>2, <1>7, <1>8 DEF Handshake, HandshakeOnce, HandshakeEnd, Over, Unbound
  <1>10. QED
    BY <1>5, <1>6, <1>9 DEF Handshake

\* So do its taking the connection and its entering the session.
LEMMA ModemDoesHandshake ==
  ASSUME Wire, ModemDoes
  PROVE  Handshake'
  <1>1. /\ Handshake /\ toRouter \in Seq(Message) /\ toModem \in Seq(Message) /\ ModemAlone
    BY DEF Wire, RouterTypeOK, ModemTypeOK, ModemDoes
  <1>2. rState' = rState /\ rMetricTypes' = rMetricTypes /\ (RouterFresh => RouterFresh')
    BY <1>1, ModemSameRouter
  <1>3. CASE ModemWaits
    <2>1. /\ mState = "Listening" /\ mState' = "AwaitingSessionInit"
          /\ toModem' = toModem /\ toRouter' = toRouter
      BY <1>3 DEF ModemWaits
    <2>2. ModemFresh => ModemFresh'
      BY <1>3 DEF ModemWaits, ModemFresh, MTx, mTx, mDests, mPeer
    <2>3. HandshakeUnbound' /\ HandshakeStart'
      BY <1>1, <1>2, <2>1, <2>2 DEF Handshake, HandshakeUnbound, HandshakeStart, Unbound
    <2>4. HandshakeOnce' /\ HandshakeEnd'
      BY <1>1, <1>2, <2>1 DEF Handshake, HandshakeOnce, HandshakeEnd, Unbound, Over
    <2>5. QED
      BY <2>3, <2>4 DEF Handshake
  <1>4. CASE ModemEnters
    <2> DEFINE y == SessionMsg("SESSION_INITIALIZATION_RESPONSE", "SUCCESS", InitialMetrics,
                               NoChanges)
    <2>1. /\ mState = "AwaitingSessionInit" /\ mState' = "InSession" /\ toModem # <<>>
          /\ toModem' = Tail(toModem) /\ toRouter' = Append(toRouter, y)
      BY <1>4 DEF ModemEnters, ModemReadsHead
    <2>2. /\ y \in Message /\ y.type = "SESSION_INITIALIZATION_RESPONSE"
      BY ModemSends DEF ModemMessage, SessionMsg, Msg
    <2> HIDE DEF y
    <2>3. /\ toModem = <<Bare("SESSION_INITIALIZATION")>> /\ toRouter = <<>>
          /\ rState \in {"SessionInitPending", "Terminated"}
      BY <1>1, <2>1 DEF Handshake, HandshakeUnbound, HandshakeStart, Unbound
    <2>4. toModem' = <<>> /\ toRouter' = <<y>> /\ Head(toRouter') = y /\ toRouter' # <<>>
      BY <1>1, <2>1, <2>2, <2>3, AppendHead, SMTT(30)
    <2>5. HandshakeUnbound' /\ HandshakeStart'
      BY <1>1, <1>2, <2>1, <2>2, <2>3, <2>4
      DEF Handshake, HandshakeUnbound, HandshakeStart, Unbound
    <2>6. /\ \A t : Free(toModem', t)
          /\ FreeAfterFirst(toRouter', "SESSION_INITIALIZATION_RESPONSE")
          /\ Free(toRouter', "SESSION_TERMINATION")
          /\ Free(toRouter', "SESSION_TERMINATION_RESPONSE")
      BY <2>2, <2>4, FreeSingle, FreeEmpty, SMTT(30)
    <2>7. HandshakeOnce' /\ HandshakeEnd'
      BY <1>2, <2>1, <2>3, <2>6 DEF HandshakeOnce, HandshakeEnd, Unbound, Over
    <2>8. QED
      BY <2>5, <2>7 DEF Handshake
  <1>5. CASE \/ ModemCloses \/ ModemHolds \/ ModemNotes \/ ModemTells
             \/ \E y \in ModemMessage : ModemReplies(y) \/ ModemOpens(y) \/ ModemAnswers(y)
    <2>1. mState = "InSession" /\ mState' = "InSession"
      BY <1>5 DEF ModemCloses, ModemHolds, ModemNotes, ModemTells, ModemReplies, ModemOpens,
                  ModemAnswers, ModemStays, mLive
    <2>2. toModem' = toModem \/ (toModem # <<>> /\ toModem' = Tail(toModem))
      BY <1>5 DEF ModemCloses, ModemHolds, ModemNotes, ModemTells, ModemReplies, ModemOpens,
                  ModemAnswers, ModemReadsHead
    <2>3. \/ toRouter' = toRouter
          \/ \E y \in ModemMessage :
               /\ y.type \in ModemRequest \cup ModemReply \cup {"DESTINATION_UPDATE", "HEARTBEAT"}
               /\ toRouter' = Append(toRouter, y)
      <3>1. CASE ModemCloses \/ ModemHolds \/ ModemNotes \/ ModemTells
        BY <3>1 DEF ModemCloses, ModemHolds, ModemNotes, ModemTells
      <3>2. CASE \E y \in ModemMessage : ModemReplies(y) \/ ModemOpens(y) \/ ModemAnswers(y)
        BY <3>2 DEF ModemReplies, ModemOpens, ModemAnswers, ModemReply
      <3>3. QED
        BY <1>5, <3>1, <3>2
    <2>4. \/ toRouter' = toRouter
          \/ \E y \in Message :
               /\ y.type \notin {"SESSION_INITIALIZATION_RESPONSE", "SESSION_TERMINATION",
                                 "SESSION_TERMINATION_RESPONSE"}
               /\ toRouter' = Append(toRouter, y)
      BY <2>3 DEF ModemMessage, ModemRequest, ModemReply
    <2>5. QED
      BY <1>1, <2>1, <2>2, <2>4, ModemStaysHandshake
  <1>6. QED
    BY <1>1, <1>3, <1>4, <1>5, ModemGoesHandshake DEF ModemDoes

\* And keeps what is sent.
LEMMA ModemDoesQueues ==
  ASSUME Wire, ModemDoes
  PROVE  toModem' \in Seq(RouterMessage) /\ toRouter' \in Seq(ModemMessage)
  <1>1. toModem \in Seq(RouterMessage) /\ toRouter \in Seq(ModemMessage)
    BY DEF Wire
  <1>2. \/ toModem' = toModem
        \/ toModem # <<>> /\ toModem' = Tail(toModem)
    BY DEF ModemDoes, ModemWaits, ModemGoes, ModemEnters, ModemCloses, ModemHolds, ModemNotes,
           ModemTells, ModemReplies, ModemOpens, ModemAnswers, ModemReadsHead
  <1>3. toRouter' = toRouter \/ \E y \in ModemMessage : toRouter' = Append(toRouter, y)
    <2>1. CASE \/ ModemWaits \/ ModemGoes \/ ModemEnters
      BY <2>1, ModemSends DEF ModemWaits, ModemGoes, ModemEnters
    <2>2. CASE ModemCloses \/ ModemHolds \/ ModemNotes \/ ModemTells
      BY <2>2 DEF ModemCloses, ModemHolds, ModemNotes, ModemTells
    <2>3. CASE \E y \in ModemMessage : ModemReplies(y) \/ ModemOpens(y) \/ ModemAnswers(y)
      BY <2>3 DEF ModemReplies, ModemOpens, ModemAnswers
    <2>4. QED
      BY <2>1, <2>2, <2>3 DEF ModemDoes
  <1>4. toModem' \in Seq(RouterMessage)
    BY <1>1, <1>2, SMTT(30)
  <1>5. toRouter' \in Seq(ModemMessage)
    BY <1>1, <1>3, SMTT(30)
  <1>6. QED
    BY <1>4, <1>5

\* What the modem knows and has told of destinations is not extended.
ModemKeeps ==
  /\ mSessionMetrics' = mSessionMetrics /\ mLocalAddrs' = mLocalAddrs
  /\ mKnown' \subseteq mKnown /\ \A m \in mKnown' : mMetrics'[m] = mMetrics[m]
  /\ \A m \in MAC : mAddrs'[m] \cup mAdvertised'[m] \subseteq mAddrs[m] \cup mAdvertised[m]

\* No message extends it.
LEMMA ModemRecvKeeps ==
  ASSUME ModemTypeOK, NEW msg \in Message, ModemRecv(msg)
  PROVE  ModemKeeps
  <1>1. CASE \/ ModemRecvInvalid(msg) \/ ModemRecvInit(msg) \/ ModemRecvTermination(msg)
             \/ ModemRecvSessionUpdate(msg) \/ ModemRecvSessionUpdateResponse(msg)
             \/ ModemRecvAnnounceUnknown(msg) \/ ModemRecvHeartbeat(msg)
             \/ ModemRecvTerminationResponse(msg) \/ ModemIgnore(msg)
             \/ ModemRecvLinkRequest(msg)
    <2>1. UNCHANGED <<mKnown, mMetrics, mAddrs, mAdvertised, mLocalAddrs, mSessionMetrics>>
      BY <1>1
      DEF ModemRecvInvalid, ModemRecvInit, ModemRecvTermination,
          ModemRecvLinkRequest, ModemRecvSessionUpdate,
          ModemRecvSessionUpdateResponse, ModemRecvAnnounceUnknown,
          ModemRecvHeartbeat, ModemRecvTerminationResponse, ModemIgnore,
          ModemProtocolError, ModemTerminating, ModemTerminated, modemVars,
          mDests, mData, mPeer
    <2>2. QED
      BY <2>1 DEF ModemKeeps
  <1>2. CASE ModemRecvUpRefused(msg) \/ ModemRecvDestinationDown(msg)
    BY <1>2 DEF ModemRecvUpRefused, ModemRecvDestinationDown, mData, mPeer, ModemKeeps
  <1>3. CASE ModemRecvUpAccepted(msg) \/ ModemRecvAnnounceKnown(msg)
    <2>1. /\ UNCHANGED <<mKnown, mMetrics, mAddrs, mLocalAddrs, mSessionMetrics>>
          /\ mAdvertised' = [mAdvertised EXCEPT ![msg.mac] = mAddrs[msg.mac]]
      BY <1>3 DEF ModemRecvUpAccepted, ModemRecvAnnounceKnown, mPeer
    <2>2. QED
      BY <2>1 DEF ModemKeeps, ModemTypeOK
  <1>4. CASE ModemRecvDownResponse(msg)
    <2>1. ModemRemove(msg.mac) /\ UNCHANGED <<mLocalAddrs, mSessionMetrics>>
      BY <1>4 DEF ModemRecvDownResponse, mPeer
    <2>2. QED
      BY <2>1 DEF ModemRemove, ModemKeeps, ModemTypeOK
  <1>5. QED
    BY <1>1, <1>2, <1>3, <1>4 DEF ModemRecv

\* What is declared stays declared when nothing is extended.
LEMMA ModemKeepsOwn ==
  ASSUME ModemOwn, ModemKeeps, contested' = contested, ModemTypeOK,
         ModemRequestsMatchDestinations', ModemHoldsNothingBack'
  PROVE  ModemOwn'
  <1>1. /\ Supplied(mSessionMetrics') = Types
        /\ \A m \in mKnown' : Supplied(mMetrics'[m]) = Types
    BY SMTT(30) DEF ModemOwn, ModemKeeps
  <1>2. ASSUME ~contested'
        PROVE  ~Overlap([m \in MAC |-> mAddrs[m] \cup mAdvertised[m]])'
    BY <1>2 DEF ModemOwn, ModemKeeps, Overlap
  <1>3. QED
    BY <1>1, <1>2 DEF ModemOwn, Types

\* The modem's application supplies declared metrics.
LEMMA ModemCommandsMetrics ==
  ASSUME ModemTypeOK, ModemOwn, ModemCommands \/ ModemAnswersLink
  PROVE  /\ Supplied(mSessionMetrics') = Types
         /\ \A m \in mKnown' : Supplied(mMetrics'[m]) = Types
  <1>1. /\ mSessionMetrics \in Metrics /\ Supplied(mSessionMetrics) = Types
        /\ \A m \in mKnown : mMetrics[m] \in Metrics /\ Supplied(mMetrics[m]) = Types
        /\ mKnown \subseteq MAC /\ mMetrics \in [MAC -> Metrics]
    BY DEF ModemOwn, ModemTypeOK
  <1>2. ASSUME NEW supplied \in Supply \cup {NoMetrics}, valid_metrics(supplied),
               NEW stored \in Metrics, Supplied(stored) = Types
        PROVE  Supplied(merge_link_metrics(supplied, stored)) = Types
    BY <1>2, SuppliedMetrics, MergeSupplied
  <1>3. ASSUME NEW mac \in MAC, NEW supplied \in Supply, NEW addrs \in AddAddrs,
               ModemAppAddDestination(mac, supplied, addrs)
        PROVE  /\ Supplied(mSessionMetrics') = Types
               /\ \A m \in mKnown' : Supplied(mMetrics'[m]) = Types
    <2>1. /\ valid_metrics(supplied) /\ mKnown' = mKnown \cup {mac}
          /\ mMetrics' = [mMetrics EXCEPT ![mac] = merge_link_metrics(supplied, mSessionMetrics)]
          /\ mSessionMetrics' = mSessionMetrics
      BY <1>3 DEF ModemAppAddDestination, mPeer
    <2>2. Supplied(merge_link_metrics(supplied, mSessionMetrics)) = Types
      BY <1>1, <1>2, <2>1
    <2>3. QED
      BY <1>1, <2>1, <2>2
  <1>4. ASSUME NEW mac \in MAC, NEW supplied \in Supply \cup {NoMetrics},
               valid_metrics(supplied), mac \in mKnown,
               mMetrics' = [mMetrics EXCEPT ![mac] = merge_link_metrics(supplied, mMetrics[mac])],
               UNCHANGED <<mKnown, mSessionMetrics>>
        PROVE  /\ Supplied(mSessionMetrics') = Types
               /\ \A m \in mKnown' : Supplied(mMetrics'[m]) = Types
    <2>1. Supplied(merge_link_metrics(supplied, mMetrics[mac])) = Types
      BY <1>1, <1>2, <1>4
    <2>2. QED
      BY <1>1, <1>4, <2>1
  <1>5. ASSUME NEW mac \in MAC, NEW supplied \in Supply, ModemAppUpdateMetrics(mac, supplied)
        PROVE  /\ Supplied(mSessionMetrics') = Types
               /\ \A m \in mKnown' : Supplied(mMetrics'[m]) = Types
    BY <1>4, <1>5 DEF ModemAppUpdateMetrics, ModemUpdatable, mPeer
  <1>6. ASSUME NEW mac \in MAC, NEW status, NEW supplied \in Supply \cup {NoMetrics},
               ModemAppLinkCharacteristicsResponse(mac, status, supplied)
        PROVE  /\ Supplied(mSessionMetrics') = Types
               /\ \A m \in mKnown' : Supplied(mMetrics'[m]) = Types
    <2>1. mac \in mKnown
      BY <1>6 DEF ModemAppLinkCharacteristicsResponse, ModemOwn, ModemRequestsMatchDestinations
    <2>2. QED
      BY <1>4, <1>6, <2>1 DEF ModemAppLinkCharacteristicsResponse, mPeer
  <1>7. ASSUME NEW supplied \in Supply, ModemAppSessionUpdate(supplied)
        PROVE  /\ Supplied(mSessionMetrics') = Types
               /\ \A m \in mKnown' : Supplied(mMetrics'[m]) = Types
    <2>1. /\ valid_metrics(supplied) /\ mKnown' = mKnown
          /\ mSessionMetrics' = merge_link_metrics(supplied, mSessionMetrics)
          /\ \A m \in mKnown : mMetrics'[m] = merge_link_metrics(supplied, mMetrics[m])
      BY <1>1, <1>7 DEF ModemAppSessionUpdate
    <2>2. QED
      BY <1>1, <1>2, <2>1
  <1>8. ASSUME \/ \E mac \in MAC, ch \in AddrUpdates : ModemAppUpdateAddresses(mac, ch)
               \/ \E mac \in MAC : ModemAppDropDestination(mac)
               \/ \E ch \in AddrUpdates : ModemAppSessionAddresses(ch)
        PROVE  /\ Supplied(mSessionMetrics') = Types
               /\ \A m \in mKnown' : Supplied(mMetrics'[m]) = Types
    <2>1. /\ mSessionMetrics' = mSessionMetrics /\ mKnown' \subseteq mKnown
          /\ \A m \in mKnown' : mMetrics'[m] = mMetrics[m]
      BY <1>1, <1>8 DEF ModemAppUpdateAddresses, ModemAppDropDestination, ModemRemove,
                        ModemAppSessionAddresses, mPeer, mDests, mData
    <2>2. QED
      BY <1>1, <2>1, SMTT(30)
  <1>9. QED
    BY <1>3, <1>5, <1>6, <1>7, <1>8 DEF ModemCommands, ModemAnswersLink

\* A step of the modem keeps the wire in order.
LEMMA ModemStepWire ==
  ASSUME Wire, ModemStep
  PROVE  Wire' /\ ModemDoes
  <1>1. /\ ModemTypeOK /\ ModemOwn /\ crossed \in BOOLEAN /\ contested \in BOOLEAN
        /\ toModem \in Seq(RouterMessage) /\ toModem \in Seq(Message) /\ ModemDestInv
    BY DEF Wire, RouterTypeOK, ModemOwn, ModemDestInv
  <1>2. ModemDoes /\ ModemTypeOK' /\ ModemDestInv'
    BY <1>1, ModemStepDoes, ModemStepDests
  <1>3. ModemRequestsMatchDestinations' /\ ModemHoldsNothingBack'
    BY <1>2 DEF ModemDestInv
  <1>4. toModem' \in Seq(RouterMessage) /\ toRouter' \in Seq(ModemMessage) /\ Handshake'
    BY <1>2, ModemDoesQueues, ModemDoesHandshake
  <1>5. RouterTypeOK'
    <2>1. toModem' \in Seq(Message)
      BY <1>4, SMTT(30) DEF RouterMessage
    <2>2. ModemAlone
      BY <1>2 DEF ModemDoes
    <2>3. QED
      BY <2>1, <2>2 DEF Wire, RouterTypeOK, ModemAlone, rControl, rTx, rDests, rPeer
  <1>6. /\ crossed' \in BOOLEAN /\ contested' \in BOOLEAN
        /\ contested' = contested \/ ModemCommands
    <2>1. ModemCommands \/ UNCHANGED history
      BY DEF ModemStep, ModemTakesConnection, ModemReads, ModemAnswersLink, ModemShutsDown,
             ModemBeats, ModemTimesOut, ModemSeesClose
    <2>2. ModemCommands => crossed' \in BOOLEAN /\ contested' \in BOOLEAN
      BY DEF ModemCommands
    <2>3. QED
      BY <1>1, <2>1, <2>2 DEF history
  <1>7. CASE ModemCommands
    <2>1. contested' = (contested \/ Overlap([m \in MAC |-> mAddrs[m] \cup mAdvertised[m]])')
      BY <1>7 DEF ModemCommands
    <2>2. contested' \/ ~Overlap([m \in MAC |-> mAddrs[m] \cup mAdvertised[m]])'
      BY <2>1
    <2>3. ModemOwn'
      BY <1>1, <1>3, <1>7, <2>2, ModemCommandsMetrics DEF ModemOwn, Types
    <2>4. QED
      BY <1>2, <1>4, <1>5, <1>6, <2>3 DEF Wire
  <1>8. CASE ~ModemCommands
    <2>1. ModemOwn'
      <3>1. CASE ModemReads
        <4>1. Head(toModem) \in Message
          BY <1>1, <3>1, SMTT(30) DEF ModemReads
        <4>2. ModemKeeps
          BY <1>1, <3>1, <4>1, ModemRecvKeeps DEF ModemReads
        <4>3. QED
          BY <1>1, <1>3, <1>6, <1>8, <4>2, ModemKeepsOwn
      <3>2. CASE ModemAnswersLink
        <4>1. UNCHANGED <<mAddrs, mAdvertised, mLocalAddrs>>
          BY <3>2 DEF ModemAnswersLink, ModemAppLinkCharacteristicsResponse, mPeer
        <4>2. contested' \/ ~Overlap([m \in MAC |-> mAddrs[m] \cup mAdvertised[m]])'
          BY <1>1, <1>6, <1>8, <4>1, SMTT(30) DEF ModemOwn, Overlap
        <4>3. QED
          BY <1>1, <1>3, <3>2, <4>2, ModemCommandsMetrics DEF ModemOwn, Types
      <3>3. CASE \/ ModemTakesConnection \/ ModemShutsDown \/ ModemBeats \/ ModemTimesOut
                 \/ ModemSeesClose
        <4>1. UNCHANGED <<mDests, mPeer>>
          BY <3>3 DEF ModemTakesConnection, ModemShutsDown, ModemBeats, ModemTimesOut,
                      ModemSeesClose, ModemTcpAccepted, ModemAppShutdown, ModemHeartbeatTick,
                      ModemDeadline, ModemTcpClosed, ModemTerminating, ModemTerminated,
                      ModemSessionInitTimeout, ModemHeartbeatMissed, ModemTerminationTimeout
        <4>2. ModemKeeps
          BY <4>1 DEF ModemKeeps, mDests, mData, mPeer
        <4>3. QED
          BY <1>1, <1>3, <1>6, <1>8, <4>2, ModemKeepsOwn
      <3>4. QED
        BY <1>8, <3>1, <3>2, <3>3 DEF ModemStep
    <2>2. QED
      BY <1>2, <1>4, <1>5, <1>6, <2>1 DEF Wire
  <1>9. QED
    BY <1>7, <1>8
=============================================================================
