-------------------------- MODULE DlepSessionProofs -------------------------
(***************************************************************************)
(* Proofs that a settled session agrees on both sides, and that no session *)
(* ends with a complaint about a message unless two requests crossed.      *)
(***************************************************************************)
EXTENDS RequestSlotProofs, SessionStepProofs, SessionDataProofs

\* A leaf that names no prover is for Zenon.
USE ZenonT(60)

-----------------------------------------------------------------------------
(* Neither side finds the other at fault.                                   *)

\* What a side may record.
Excusable(reason, cr) ==
  /\ reason \notin {"INVALID_DATA", "INVALID_DESTINATION", "UNKNOWN_MESSAGE"}
  /\ reason = "UNEXPECTED_MESSAGE" => cr

\* The router finds nothing wrong with what it reads next.
LEMMA RouterReadsWell ==
  ASSUME Wire, \A s \in Scope : ScopeOK(s), Sync, rLive, toRouter # <<>>
  PROVE  /\ Tolerable(RouterVerdict(Head(toRouter)))
         /\ rState = "SessionInitPending" =>
              /\ RouterVerdict(Head(toRouter)) = "SUCCESS"
              /\ Head(toRouter).status = "SUCCESS"
  <1>1. PICK x : x = Head(toRouter)
    OBVIOUS
  <1>2. /\ toRouter \in Seq(ModemMessage) /\ toRouter \in Seq(Message) /\ toModem \in Seq(Message)
        /\ RouterTypeOK
    BY DEF Wire, RouterTypeOK, ModemTypeOK
  <1>3. x \in ModemMessage /\ x = toRouter[1] /\ 1 \in DOMAIN toRouter
    BY <1>1, <1>2, SMTT(30)
  <1>4. CASE rState = "SessionInitPending"
    <2>1. x.type = "SESSION_INITIALIZATION_RESPONSE"
      BY <1>1, <1>4 DEF Wire, Handshake, HandshakeStart
    <2>2. RouterVerdict(x) = "SUCCESS" /\ x.status = "SUCCESS"
      BY <1>2, <1>3, <1>4, <2>1, InitAccepted
    <2>3. QED
      BY <1>1, <2>2 DEF Tolerable
  <1>5. CASE rState = "InSession"
    <2>1. /\ rMetricTypes = Types
          /\ x.type \notin {"SESSION_INITIALIZATION_RESPONSE", "SESSION_TERMINATION_RESPONSE"}
      BY <1>3, <1>5 DEF Wire, Handshake, HandshakeOnce, HandshakeEnd, Free, Over
    <2>2. Acceptable(RouterView, x)
      <3>1. PICK views \in Seq(View) : Path(toRouter, views) /\ views[1] = RouterView
        BY <1>5 DEF Sync, Greeted, Chain
      <3>2. QED
        BY <1>1, <1>2, <3>1, PathTail
    <2>3. x.mac \in Scope
      BY <1>3 DEF ModemMessage, Message, Scope
    <2>4. HeadFits(x, x.mac, ModemReply, ModemRequest, RTx(x.mac), FALSE, crossed)
      <3>1. PICK s \in Scope : s = x.mac
        BY <2>3
      <3>2. PICK held : held = (s \in mPendingLink)
        OBVIOUS
      <3>3. rLive = TRUE /\ mLive \in BOOLEAN /\ held \in BOOLEAN
        BY <3>2, SMTT(30) DEF rLive, mLive
      <3>4. RouterSlots(toRouter, toModem, s, RTx(s), MTx(s), held, TRUE, mLive, crossed)
        BY <3>2, <3>3 DEF ScopeOK, RouterSlots
      <3>5. Queues(toRouter, toModem) /\ Flags(held, FALSE, TRUE, mLive, crossed)
        BY <1>2, <3>3 DEF Wire, Queues, Flags
      <3>6. HeadFits(Head(toRouter), s, ModemReply, ModemRequest, RTx(s), FALSE, crossed)
        BY <3>4, <3>5, RouterSlotsHead
      <3>7. QED
        BY <1>1, <3>1, <3>6
    <2>5. Tolerable(RouterVerdict(x))
      BY <1>2, <1>3, <1>5, <2>1, <2>2, <2>4, RouterFindsNothing
    <2>6. QED
      BY <1>1, <1>5, <2>5
  <1>6. QED
    BY <1>4, <1>5 DEF rLive

\* Nor does the modem.
LEMMA ModemReadsWell ==
  ASSUME Wire, \A s \in Scope : ScopeOK(s), \A m \in MAC : Interest(m), PeerAddrs, mLive,
         toModem # <<>>
  PROVE  Tolerable(ModemVerdict(Head(toModem)))
  <1>1. PICK x : x = Head(toModem)
    OBVIOUS
  <1>2. /\ toModem \in Seq(RouterMessage) /\ toRouter \in Seq(Message) /\ toModem \in Seq(Message)
        /\ ModemTypeOK /\ mState = "InSession"
    BY DEF Wire, RouterTypeOK, ModemTypeOK, mLive
  <1>3. x \in RouterMessage /\ x = toModem[1] /\ 1 \in DOMAIN toModem
    BY <1>1, <1>2, SMTT(30)
  <1>4. x.type \notin {"SESSION_INITIALIZATION", "SESSION_TERMINATION_RESPONSE"}
    BY <1>2, <1>3 DEF Wire, Handshake, HandshakeOnce, HandshakeEnd, Free, Over
  <1>5. x.type = "SESSION_UPDATE" => StrictOk(mPeerAddrs, x.addrs)
    BY <1>3 DEF PeerAddrs
  <1>6. /\ x.type \in Withdrawing /\ mTxDest[x.mac] = Idle => x.mac \in mAnnounced
        /\ x.type \in Asking /\ mTxDest[x.mac] = Idle => x.mac \notin mAnnounced
    <2>1. x.type \in Withdrawing \cup Asking => x.mac \in MAC
      BY <1>3, MessageScope DEF Withdrawing, Asking, ModemTypes
    <2>2. \A types : x.type \in types => Has(toModem, x.mac, types)
      BY <1>3 DEF Has, Match
    <2>3. QED
      BY <2>1, <2>2 DEF Interest
  <1>7. HeadFits(x, x.mac, RouterReply, RouterRequest, MTx(x.mac), x.mac \in mPendingLink, crossed)
    <2>1. PICK s \in Scope : s = x.mac
      BY <1>3 DEF RouterMessage, Message, Scope
    <2>2. PICK held : held = (s \in mPendingLink)
      OBVIOUS
    <2>3. mLive = TRUE /\ rLive \in BOOLEAN /\ held \in BOOLEAN
      BY <2>2, SMTT(30) DEF rLive, mLive
    <2>4. RouterSlots(toRouter, toModem, s, RTx(s), MTx(s), held, rLive, TRUE, crossed)
      BY <2>2, <2>3 DEF ScopeOK, RouterSlots
    <2>5. ModemSlots(toModem, toRouter, s, MTx(s), RTx(s), held, TRUE, rLive, crossed)
      BY <2>4, SlotsSides
    <2>6. Queues(toModem, toRouter) /\ Flags(FALSE, held, TRUE, rLive, crossed)
      BY <1>2, <2>3 DEF Wire, Queues, Flags
    <2>7. HeadFits(Head(toModem), s, RouterReply, RouterRequest, MTx(s), held, crossed)
      BY <2>5, <2>6, ModemSlotsHead
    <2>8. QED
      BY <1>1, <2>1, <2>2, <2>7
  <1>8. Tolerable(ModemVerdict(x))
    BY <1>2, <1>3, <1>4, <1>5, <1>6, <1>7, ModemFindsNothing
  <1>9. QED
    BY <1>1, <1>8

\* So what the router records for the end never blames the modem.
LEMMA RouterStepAlarm ==
  ASSUME Wire, \A s \in Scope : ScopeOK(s), Sync, RouterDoes, NoFalseAlarm
  PROVE  NoFalseAlarm'
  <1>1. mReason' = mReason /\ Excusable(rReason, crossed) /\ Excusable(mReason, crossed)
    <2>1. mReason' = mReason
      BY DEF RouterDoes, RouterAlone, mControl
    <2>2. QED
      BY <2>1 DEF NoFalseAlarm, Excusable
  <1>2. crossed => crossed'
    BY DEF RouterDoes, RouterJoins, RouterGoes, RouterEnters, RouterCloses,
           RouterNotes, RouterTicks, RouterReplies, RouterOpens,
           RouterReadsHead, history
  <1>3. Excusable(rReason', crossed')
    <2>1. CASE RouterGoes
      <3>1. CASE rReason' = rReason \/ rReason' \in {"SHUTTING_DOWN", "TIMED_OUT"}
        BY <1>1, <1>2, <3>1 DEF Excusable
      <3>2. CASE rLive /\ toRouter # <<>> /\ rReason' = RouterVerdict(Head(toRouter))
        <4>1. Tolerable(rReason')
          BY <3>2, RouterReadsWell
        <4>2. QED
          BY <1>2, <4>1 DEF Tolerable, Excusable
      <3>3. CASE /\ rState = "SessionInitPending" /\ toRouter # <<>>
                 /\ Head(toRouter).status # "SUCCESS"
        BY <3>3, RouterReadsWell DEF rLive
      <3>4. QED
        BY <2>1, <3>1, <3>2, <3>3 DEF RouterGoes, RouterFinds
    <2>2. CASE ~RouterGoes
      <3>1. rReason' = rReason
        BY <2>2
        DEF RouterDoes, RouterJoins, RouterEnters, RouterCloses, RouterNotes,
            RouterTicks, RouterReplies, RouterOpens, RouterReadsHead
      <3>2. QED
        BY <1>1, <1>2, <3>1 DEF Excusable
    <2>3. QED
      BY <2>1, <2>2
  <1>4. Excusable(mReason', crossed')
    BY <1>1, <1>2 DEF Excusable
  <1>5. QED
    BY <1>3, <1>4 DEF NoFalseAlarm, Excusable

\* Nor does what the modem records blame the router.
LEMMA ModemStepAlarm ==
  ASSUME Wire, \A s \in Scope : ScopeOK(s), mLive => (\A m \in MAC : Interest(m)) /\ PeerAddrs,
         ModemDoes, NoFalseAlarm
  PROVE  NoFalseAlarm'
  <1>1. rReason' = rReason /\ Excusable(rReason, crossed) /\ Excusable(mReason, crossed)
    <2>1. rReason' = rReason
      BY DEF ModemDoes, ModemAlone, rControl
    <2>2. QED
      BY <2>1 DEF NoFalseAlarm, Excusable
  <1>2. crossed => crossed'
    BY DEF ModemDoes, ModemWaits, ModemGoes, ModemEnters, ModemCloses,
           ModemHolds, ModemNotes, ModemTells, ModemReplies, ModemOpens,
           ModemAnswers, ModemReadsHead, history
  <1>3. Excusable(mReason', crossed')
    <2>1. CASE ModemGoes
      <3>1. CASE mReason' = mReason \/ mReason' \in {"SHUTTING_DOWN", "TIMED_OUT"}
        BY <1>1, <1>2, <3>1 DEF Excusable
      <3>2. CASE mLive /\ toModem # <<>> /\ mReason' = ModemVerdict(Head(toModem))
        <4>1. Tolerable(mReason')
          BY <3>2, ModemReadsWell
        <4>2. QED
          BY <1>2, <4>1 DEF Tolerable, Excusable
      <3>3. QED
        BY <2>1, <3>1, <3>2 DEF ModemGoes, ModemFinds
    <2>2. CASE ~ModemGoes
      <3>1. mReason' = mReason
        BY <2>2
        DEF ModemDoes, ModemWaits, ModemEnters, ModemCloses, ModemHolds,
            ModemNotes, ModemTells, ModemReplies, ModemOpens, ModemAnswers,
            ModemReadsHead
      <3>2. QED
        BY <1>1, <1>2, <3>1 DEF Excusable
    <2>3. QED
      BY <2>1, <2>2
  <1>4. Excusable(rReason', crossed')
    BY <1>1, <1>2 DEF Excusable
  <1>5. QED
    BY <1>3, <1>4 DEF NoFalseAlarm, Excusable

-----------------------------------------------------------------------------
(* The invariant of the session, and what follows from it.                  *)

\* It holds before the two sides have met.
LEMMA InitInv ==
  ASSUME Init
  PROVE  SessionInv
  <1>1. RouterTypeOK
    <2>1. RouterInit
      BY DEF Init
    <2>2. QED
      BY <2>1, NoDataTypes, SMTT(30)
      DEF RouterInit, RouterTypeOK, RouterState, Status, MaybeStatus,
          SessionSlot, DestSlot, Idle
  <1>2. ModemTypeOK
    <2>1. ModemInit
      BY DEF Init
    <2>2. QED
      BY <2>1, ModemNoData, ModemConstants, SMTT(30)
      DEF ModemInit, ModemTypeOK, ModemState, Status, MaybeStatus,
          SessionSlot, DestSlot, Idle, LinkMetrics, Metrics
  <1>3. ModemOwn
    <2>1. /\ mKnown = {} /\ mAnnounced = {} /\ mPendingLink = {} /\ mSessionMetrics = InitialMetrics
          /\ \A m \in MAC : mTxDest[m] = Idle /\ mAddrs[m] = {} /\ mAdvertised[m] = {}
      BY DEF Init, ModemInit
    <2>2. ModemRequestsMatchDestinations /\ ModemHoldsNothingBack
      BY <2>1 DEF ModemRequestsMatchDestinations, ModemHoldsNothingBack, Idle
    <2>3. ~Overlap([m \in MAC |-> mAddrs[m] \cup mAdvertised[m]])
      BY <2>1 DEF Overlap
    <2>4. QED
      BY <2>1, <2>2, <2>3 DEF ModemOwn, Types
  <1>4. ModemFresh /\ RouterFresh
    BY DEF Init, ModemInit, RouterInit, ModemFresh, RouterFresh, RTx, MTx, Scope
  <1>5. /\ rState = "Closed" /\ mState = "Listening" /\ toModem = <<>> /\ toRouter = <<>>
        /\ crossed = FALSE /\ contested = FALSE /\ rReason = "SUCCESS" /\ mReason = "SUCCESS"
    BY DEF Init, ModemInit, RouterInit
  <1>6. Handshake
    <2>1. \A type : /\ Free(toModem, type) /\ Free(toRouter, type)
                    /\ FreeAfterFirst(toRouter, type)
      BY <1>5, SMTT(30) DEF Free, FreeAfterFirst
    <2>2. HandshakeOnce /\ HandshakeEnd
      BY <1>5, <2>1 DEF HandshakeOnce, HandshakeEnd
    <2>3. HandshakeUnbound /\ HandshakeStart
      BY <1>4, <1>5 DEF HandshakeUnbound, HandshakeStart
    <2>4. QED
      BY <2>2, <2>3 DEF Handshake
  <1>7. Wire
    <2>1. toModem \in Seq(RouterMessage) /\ toRouter \in Seq(ModemMessage)
      BY <1>5, SMTT(30)
    <2>2. crossed \in BOOLEAN /\ contested \in BOOLEAN
      BY <1>5
    <2>3. QED
      BY <1>1, <1>2, <1>3, <1>6, <2>1, <2>2 DEF Wire
  <1>8. \A s \in Scope : ScopeOK(s)
    BY <1>5 DEF ScopeOK, Slots, rLive, mLive
  <1>9. Data
    BY <1>5 DEF Data, NoFalseAlarm, mLive, Sync, Greeted
  <1>10. QED
    BY <1>7, <1>8, <1>9 DEF SessionInv

\* The router's steps keep it.
LEMMA RouterStepInv ==
  ASSUME SessionInv, RouterStep
  PROVE  SessionInv'
  <1>1. /\ Wire /\ NoFalseAlarm /\ Sync /\ (\A s \in Scope : ScopeOK(s))
        /\ mLive => (\A m \in MAC : Interest(m)) /\ PeerAddrs
    BY DEF SessionInv, Data
  <1>2. Wire' /\ RouterDoes
    BY <1>1, RouterStepWire
  <1>3. \A s \in Scope : ScopeOK(s)'
    BY <1>1, <1>2, RouterDoesSlots
  <1>4. NoFalseAlarm'
    BY <1>1, <1>2, RouterStepAlarm
  <1>5. Sync'
    BY <1>1, <1>2, RouterStepSync
  <1>6. mLive' = mLive /\ MAC \subseteq Scope /\ NoMac \in Scope
    BY <1>2 DEF RouterDoes, RouterAlone, mControl, mLive, Scope
  <1>7. ASSUME mLive, NEW m \in MAC
        PROVE  Interest(m)'
    <2>1. ScopeOK(m) /\ Interest(m)
      BY <1>1, <1>6, <1>7
    <2>2. QED
      BY <1>1, <1>2, <1>7, <2>1, RouterStepInterest
  <1>8. ASSUME mLive
        PROVE  PeerAddrs'
    BY <1>1, <1>2, <1>6, <1>8, RouterStepPeerAddrs
  <1>9. Data'
    BY <1>4, <1>5, <1>6, <1>7, <1>8 DEF Data
  <1>10. QED
    BY <1>2, <1>3, <1>9 DEF SessionInv, Scope

\* The modem's steps keep it.
LEMMA ModemStepInv ==
  ASSUME SessionInv, ModemStep
  PROVE  SessionInv'
  <1>1. /\ Wire /\ NoFalseAlarm /\ Sync /\ (\A s \in Scope : ScopeOK(s))
        /\ mLive => (\A m \in MAC : Interest(m)) /\ PeerAddrs
    BY DEF SessionInv, Data
  <1>2. Wire' /\ ModemDoes
    BY <1>1, ModemStepWire
  <1>3. \A s \in Scope : ScopeOK(s)'
    BY <1>1, <1>2, ModemDoesSlots
  <1>4. NoFalseAlarm'
    BY <1>1, <1>2, ModemStepAlarm
  <1>5. Sync'
    BY <1>1, <1>2, ModemStepSync
  <1>6. MAC \subseteq Scope /\ NoMac \in Scope
    BY DEF Scope
  <1>7. ASSUME mLive', NEW m \in MAC
        PROVE  Interest(m)'
    <2>1. ScopeOK(m) /\ (mLive => Interest(m))
      BY <1>1, <1>6
    <2>2. QED
      BY <1>1, <1>2, <1>7, <2>1, ModemStepInterest
  <1>8. ASSUME mLive'
        PROVE  PeerAddrs'
    BY <1>1, <1>2, <1>6, <1>8, ModemStepPeerAddrs
  <1>9. Data'
    BY <1>4, <1>5, <1>7, <1>8 DEF Data
  <1>10. QED
    BY <1>2, <1>3, <1>9 DEF SessionInv, Scope

\* A failing link changes nothing on either side, nor does a step of neither.
LEMMA UnchangedInv ==
  ASSUME SessionInv, UNCHANGED <<routerVars, modemVars, history>>
  PROVE  SessionInv'
  <1>1. /\ UNCHANGED <<rState, rReason, rTimers, rDown, rTxSession, rTxDest, rUp, rMetrics, rAddrs,
                       rSessionMetrics, rMetricTypes, rPeerAddrs, rLocalAddrs, toModem>>
        /\ UNCHANGED <<mState, mReason, mTimers, mDown, mTxSession, mTxDest, mKnown, mAnnounced,
                       mPendingMetrics, mMetrics, mAddrs, mAdvertised, mPendingLink, mPeerAddrs,
                       mLocalAddrs, mSessionMetrics, toRouter>>
        /\ UNCHANGED <<crossed, contested>>
    BY DEF routerVars, rControl, rTx, rDests, rPeer, modemVars, mControl, mTx, mDests, mData, mPeer,
           history
  <1>2. Wire'
    <2>1. RouterTypeOK' /\ ModemTypeOK'
      BY <1>1 DEF SessionInv, Wire, RouterTypeOK, ModemTypeOK
    <2>2. ModemOwn'
      BY <1>1 DEF SessionInv, Wire, ModemOwn, ModemRequestsMatchDestinations,
                  ModemHoldsNothingBack, Overlap
    <2>3. Handshake'
      BY <1>1 DEF SessionInv, Wire, Handshake, HandshakeUnbound, HandshakeStart, HandshakeOnce,
                  HandshakeEnd, ModemFresh, RouterFresh, RTx, MTx, Free, FreeAfterFirst
    <2>4. QED
      BY <1>1, <2>1, <2>2, <2>3 DEF SessionInv, Wire
  <1>3. rLive' = rLive /\ mLive' = mLive /\ \A s : RTx(s)' = RTx(s) /\ MTx(s)' = MTx(s)
    BY <1>1 DEF rLive, mLive, RTx, MTx
  <1>4. \A s \in Scope : ScopeOK(s)'
    BY <1>1, <1>3 DEF SessionInv, ScopeOK
  <1>5. NoFalseAlarm'
    BY <1>1 DEF SessionInv, Data, NoFalseAlarm
  <1>6. mLive => (\A m \in MAC : Interest(m)') /\ PeerAddrs'
    BY <1>1, <1>3 DEF SessionInv, Data, Interest, PeerAddrs
  <1>7. Sync'
    <2>1. RouterView' = RouterView
      BY <1>1 DEF RouterView
    <2>2. ASSUME NEW v, Told(v)
          PROVE  Told(v)'
      BY <1>1, <2>2 DEF Told, ToldUp, ToldDest
    <2>3. ASSUME NEW views, Chain(views)
          PROVE  Chain(views)'
      <3>1. PICK v : v = views[Len(views)]
        OBVIOUS
      <3>2. Told(v)'
        BY <2>2, <2>3, <3>1 DEF Chain
      <3>3. QED
        BY <1>1, <2>1, <2>3, <3>1, <3>2 DEF Chain
    <2>4. Greeted' => Greeted
      BY <1>1 DEF Greeted
    <2>5. QED
      BY <2>3, <2>4 DEF SessionInv, Data, Sync
  <1>8. QED
    BY <1>2, <1>3, <1>4, <1>5, <1>6, <1>7 DEF SessionInv, Data, Scope

\* Every behaviour of the session keeps the invariant.
LEMMA InvariantHolds == Spec => []SessionInv
  <1>1. Init => SessionInv
    BY InitInv
  <1>2. SessionInv /\ [Next]_vars => SessionInv'
    <2>1. SUFFICES ASSUME SessionInv, [Next]_vars
                   PROVE  SessionInv'
      OBVIOUS
    <2>2. CASE LinkFails \/ UNCHANGED vars
      <3>1. UNCHANGED <<routerVars, modemVars, history>>
        BY <2>2 DEF LinkFails, vars
      <3>2. QED
        BY <2>1, <3>1, UnchangedInv
    <2>3. QED
      BY <2>1, <2>2, RouterStepInv, ModemStepInv DEF Next
  <1>3. QED
    BY <1>1, <1>2, PTL DEF Spec

\* Two conforming sides never find the other at fault, unless requests of one
\* scope crossed on the wire, for any number of destinations, metrics, addresses
\* and commands.
THEOREM NoFalseAlarmCorrect == Spec => []NoFalseAlarm
  <1>1. SessionInv => NoFalseAlarm
    BY DEF SessionInv, Data
  <1>2. QED
    BY <1>1, InvariantHolds, PTL

\* With nothing under way, the invariant makes the two sides agree.
LEMMA InvAgrees ==
  ASSUME SessionInv
  PROVE  SettledSidesAgree
  <1>1. SUFFICES ASSUME Settled
                 PROVE  DestinationsAgree /\ SessionDataAgrees /\ NoLeakedRequest
    BY DEF SettledSidesAgree
  <1>2. /\ rState = "InSession" /\ mState = "InSession" /\ rLive /\ mLive
        /\ toRouter = <<>> /\ toModem = <<>>
    BY <1>1 DEF Settled, rLive, mLive
  <1>3. /\ Wire /\ Sync /\ (\A s \in Scope : ScopeOK(s)) /\ PeerAddrs
    BY <1>2 DEF SessionInv, Data
  <1>4. \A s, types : ~Has(toRouter, s, types) /\ ~Has(toModem, s, types)
    BY <1>2, SMTT(30) DEF Has
  <1>5. \A s \in Scope : MTx(s) = Idle /\ (RTx(s) # Idle => s \in mPendingLink)
                         /\ (s \in mPendingLink => RTx(s) = "LinkCharacteristics")
    BY <1>2, <1>3, <1>4, SlotFacts
  <1>6. NoLeakedRequest
    <2>1. mPendingLink \subseteq MAC /\ NoMac \notin MAC
      BY <1>3, MessageConstants DEF Wire, ModemTypeOK
    <2>2. rTxSession = RTx(NoMac) /\ mTxSession = MTx(NoMac)
      BY DEF RTx, MTx
    <2>3. \A m \in MAC : rTxDest[m] = RTx(m) /\ mTxDest[m] = MTx(m)
      BY <2>1 DEF RTx, MTx
    <2>4. QED
      BY <1>5, <2>1, <2>2, <2>3 DEF NoLeakedRequest, Scope, Idle
  <1>7. Told(RouterView)
    <2>1. PICK views \in Seq(View) : Path(toRouter, views) /\ views[1] = RouterView
                                     /\ Told(views[Len(views)])
      BY <1>2, <1>3 DEF Sync, Greeted, Chain
    <2>2. Len(views) = 1
      BY <1>2, <2>1, SMTT(30) DEF Path
    <2>3. QED
      BY <2>1, <2>2
  <1>8. /\ rSessionMetrics = mSessionMetrics /\ rPeerAddrs = mLocalAddrs
        /\ rUp = ToldUp
        /\ \A m \in ToldUp : /\ m \notin mPendingMetrics => rMetrics[m] = mMetrics[m]
                             /\ rAddrs[m] \subseteq mAdvertised[m]
                             /\ contested \/ rAddrs[m] = mAdvertised[m]
    BY <1>7 DEF Told, ToldDest, RouterView
  <1>9. SessionDataAgrees
    <2>1. rMetricTypes = Supplied(InitialMetrics)
      BY <1>2, <1>3 DEF Wire, Handshake, HandshakeOnce, Types
    <2>2. mPeerAddrs = rLocalAddrs
      BY <1>2, <1>3, <1>4 DEF PeerAddrs
    <2>3. QED
      BY <1>8, <2>1, <2>2 DEF SessionDataAgrees
  <1>10. DestinationsAgree
    <2>1. ToldUp = mAnnounced
      <3>1. \A m \in MAC : mTxDest[m] = Idle
        BY <1>6 DEF NoLeakedRequest
      <3>2. mAnnounced \subseteq MAC
        BY <1>3 DEF Wire, ModemTypeOK
      <3>3. QED
        BY <3>1, <3>2 DEF ToldUp, Idle
    <2>2. \A m \in mAnnounced : m \notin mPendingMetrics /\ mAdvertised[m] = mAddrs[m]
      <3>1. mAnnounced \subseteq MAC /\ ModemHoldsNothingBack
        BY <1>3 DEF Wire, ModemTypeOK, ModemOwn
      <3>2. QED
        BY <1>6, <3>1 DEF NoLeakedRequest, ModemHoldsNothingBack
    <2>3. QED
      BY <1>8, <2>1, <2>2 DEF DestinationsAgree
  <1>11. QED
    BY <1>6, <1>9, <1>10

\* Whenever nothing is in flight the two sides agree on the destinations, on each
\* other's session and on the open requests, for any number of destinations,
\* metrics, addresses and commands.
THEOREM SettledSidesCorrect == Spec => []SettledSidesAgree
  <1>1. SessionInv => SettledSidesAgree
    BY InvAgrees
  <1>2. QED
    BY <1>1, InvariantHolds, PTL
=============================================================================
