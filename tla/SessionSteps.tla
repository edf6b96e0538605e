---------------------------- MODULE SessionSteps ----------------------------
(***************************************************************************)
(* What a step of either side does to the messages, the slots and the data,*)
(* whichever command, message or deadline causes it.                       *)
(***************************************************************************)
EXTENDS SessionInvariant

-----------------------------------------------------------------------------
(* The steps of a side, by what they do to the messages and the slots.      *)

\* A step of the router changes nothing of the modem's.
RouterAlone == UNCHANGED <<mControl, mTx, mDests, mPendingLink, mPeer>>

\* The router starts a session.
RouterJoins ==
  /\ rState = "Closed" /\ rState' = "SessionInitPending"
  /\ toModem' = Append(toModem, Bare("SESSION_INITIALIZATION"))
  /\ UNCHANGED <<rReason, rTx, rDests, rPeer, rLocalAddrs, toRouter, history>>

\* The reason recorded for the end: the router's own, or what it found wrong
\* with the message it read.
RouterFinds ==
  \/ rReason' = rReason
  \/ rReason' \in {"SHUTTING_DOWN", "TIMED_OUT"}
  \/ /\ rLive /\ toRouter # <<>>
     /\ RouterVerdict(Head(toRouter)) # "SUCCESS"
     /\ rReason' = RouterVerdict(Head(toRouter))
  \/ rState = "SessionInitPending" /\ toRouter # <<>> /\ Head(toRouter).status # "SUCCESS"

\* The router ends the session, or is ending it: it may read a message, and says so
\* or answers the peer's termination.
RouterGoes ==
  /\ rState' \in Over
  /\ toRouter' = toRouter \/ (toRouter # <<>> /\ toRouter' = Tail(toRouter))
  /\ \/ toModem' = toModem /\ (rState' = "Terminated" \/ rState' = rState)
     \/ /\ rState = "InSession" \/ (rState = "SessionInitPending" /\ toRouter # <<>>)
        /\ \E status \in Status : toModem' = Append(toModem, Termination(status))
     \/ /\ rState = "InSession" /\ toRouter # <<>>
        /\ Head(toRouter).type = "SESSION_TERMINATION"
        /\ toModem' = Append(toModem, Bare("SESSION_TERMINATION_RESPONSE"))
  /\ RouterFinds
  /\ UNCHANGED history

\* The router accepts the message it reads.
RouterReadsHead ==
  /\ toRouter # <<>> /\ toRouter' = Tail(toRouter)
  /\ RouterVerdict(Head(toRouter)) = "SUCCESS"
  /\ RouterView' = After(RouterView, Head(toRouter))
  /\ UNCHANGED <<rReason, rLocalAddrs, history>>

\* The answer to its initialization takes the router into the session.
RouterEnters ==
  /\ rState = "SessionInitPending" /\ rState' = "InSession"
  /\ RouterReadsHead
  /\ Head(toRouter).type = "SESSION_INITIALIZATION_RESPONSE"
  /\ rMetricTypes' = Supplied(Head(toRouter).metrics)
  /\ UNCHANGED <<rTx, toModem>>

\* The router stays in session.
RouterStays == rState = "InSession" /\ UNCHANGED <<rState, rMetricTypes>>

\* A reply closes the slot.
RouterCloses ==
  /\ RouterStays /\ RouterReadsHead
  /\ Head(toRouter).type \in ModemReply
  /\ \A s \in Scope : RTx(s)' = IF s = Head(toRouter).mac THEN Idle ELSE RTx(s)
  /\ UNCHANGED toModem

\* A request is answered at once.
RouterReplies(y) ==
  /\ RouterStays /\ RouterReadsHead
  /\ Head(toRouter).type \in ModemRequest /\ RTx(Head(toRouter).mac) = Idle
  /\ y.type \in RouterReply /\ y.mac = Head(toRouter).mac
  /\ KindOf(y.type) = KindOf(Head(toRouter).type)
  /\ toModem' = Append(toModem, y)
  /\ UNCHANGED rTx

\* A message that is no request and no reply changes the data at most.
RouterNotes ==
  /\ RouterStays /\ RouterReadsHead
  /\ Head(toRouter).type \in {"HEARTBEAT", "DESTINATION_UPDATE"}
  /\ UNCHANGED <<rTx, toModem>>

\* A request is opened.
RouterOpens(y) ==
  /\ RouterStays
  /\ y.type \in RouterRequest /\ RTx(y.mac) = Idle
  /\ \A s \in Scope : RTx(s)' = IF s = y.mac THEN KindOf(y.type) ELSE RTx(s)
  /\ \/ /\ y = SessionMsg("SESSION_UPDATE", NoStatus, NoMetrics, between(rLocalAddrs, rLocalAddrs'))
     \/ /\ y.mac \in MAC /\ y = DestMsg(y.type, y.mac, NoStatus)
        /\ y.type # "SESSION_UPDATE"
        /\ y.type \in Withdrawing => y.mac \in rUp
        /\ y.type \in Asking => y.mac \notin rUp
        /\ UNCHANGED rLocalAddrs
  /\ toModem' = Append(toModem, y)
  /\ crossed' = (crossed \/ Crosses(y, toRouter))
  /\ UNCHANGED <<rReason, rDests, rPeer, toRouter, contested>>

\* The router sends a heartbeat.
RouterTicks ==
  /\ RouterStays
  /\ toModem' = Append(toModem, Bare("HEARTBEAT"))
  /\ UNCHANGED <<rReason, rTx, rDests, rPeer, rLocalAddrs, toRouter, history>>

\* Every step of the router is one of these (shown in SessionStepProofs).
RouterDoes ==
  /\ RouterAlone
  /\ \/ RouterJoins \/ RouterGoes \/ RouterEnters \/ RouterCloses \/ RouterNotes
     \/ RouterTicks
     \/ \E y \in RouterMessage : RouterReplies(y) \/ RouterOpens(y)

\* A step of the modem changes nothing of the router's.
ModemAlone == UNCHANGED <<rControl, rTx, rDests, rPeer, rLocalAddrs>>

\* The modem's slots and destinations stay as they are.
ModemSame == UNCHANGED <<mTx, mAnnounced, mPendingLink>>

\* The modem awaits an initialization.
ModemWaits ==
  /\ mState = "Listening" /\ mState' = "AwaitingSessionInit"
  /\ UNCHANGED <<mReason, mTx, mDests, mPendingLink, mPeer, toModem, toRouter, history>>

\* The reason recorded for the end, as for the router.
ModemFinds ==
  \/ mReason' = mReason
  \/ mReason' \in {"SHUTTING_DOWN", "TIMED_OUT"}
  \/ /\ mLive /\ toModem # <<>>
     /\ ModemVerdict(Head(toModem)) # "SUCCESS"
     /\ mReason' = ModemVerdict(Head(toModem))

\* The modem ends the session, or is ending it.
ModemGoes ==
  /\ mState' \in Over
  /\ toModem' = toModem \/ (toModem # <<>> /\ toModem' = Tail(toModem))
  /\ \/ toRouter' = toRouter /\ (mState' = "Terminated" \/ mState' = mState)
     \/ /\ mLive
        /\ \E status \in Status : toRouter' = Append(toRouter, Termination(status))
     \/ /\ mLive /\ toModem # <<>> /\ Head(toModem).type = "SESSION_TERMINATION"
        /\ toRouter' = Append(toRouter, Bare("SESSION_TERMINATION_RESPONSE"))
  /\ ModemFinds
  /\ UNCHANGED <<mTx, mDests, mPeer, history>>

\* The modem accepts the message it reads.
ModemReadsHead ==
  /\ toModem # <<>> /\ toModem' = Tail(toModem)
  /\ ModemVerdict(Head(toModem)) = "SUCCESS"
  /\ UNCHANGED <<mReason, history>>

\* The router's initialization takes the modem into the session.
ModemEnters ==
  /\ mState = "AwaitingSessionInit" /\ mState' = "InSession"
  /\ ModemReadsHead
  /\ Head(toModem).type = "SESSION_INITIALIZATION"
  /\ mPeerAddrs' = Head(toModem).addrs.added
  /\ toRouter' = Append(toRouter, SessionMsg("SESSION_INITIALIZATION_RESPONSE", "SUCCESS",
                                             InitialMetrics, NoChanges))
  /\ UNCHANGED <<mTx, mDests, mPendingLink, mLocalAddrs, mSessionMetrics>>

\* The modem stays in session.
ModemStays == mLive /\ UNCHANGED mState

\* A reply closes the slot; an accepted destination may be told what changed.
ModemCloses ==
  /\ ModemStays /\ ModemReadsHead
  /\ Head(toModem).type \in RouterReply
  /\ \A s \in Scope : MTx(s)' = IF s = Head(toModem).mac THEN Idle ELSE MTx(s)
  /\ mAnnounced' = CASE Head(toModem).type = "DESTINATION_UP_RESPONSE" ->
                          mAnnounced \cup {Head(toModem).mac}
                     [] Head(toModem).type = "DESTINATION_DOWN_RESPONSE" ->
                          mAnnounced \ {Head(toModem).mac}
                     [] OTHER -> mAnnounced
  /\ \/ UNCHANGED toRouter
     \/ \E y \in ModemMessage : /\ y.type = "DESTINATION_UPDATE"
                                /\ toRouter' = Append(toRouter, y)
  /\ UNCHANGED <<mPendingLink, mPeerAddrs>>

\* A request is answered at once.
ModemReplies(y) ==
  /\ ModemStays /\ ModemReadsHead
  /\ Head(toModem).type \in RouterRequest /\ MTx(Head(toModem).mac) = Idle
  /\ y.type \in ModemReply /\ y.mac = Head(toModem).mac
  /\ KindOf(y.type) = KindOf(Head(toModem).type)
  /\ toRouter' = Append(toRouter, y)
  /\ mAnnounced' \ {y.mac} = mAnnounced \ {y.mac}
  /\ mPeerAddrs' = IF Head(toModem).type = "SESSION_UPDATE"
                   THEN apply_lenient(mPeerAddrs, Head(toModem).addrs) ELSE mPeerAddrs
  /\ UNCHANGED <<mTx, mPendingLink>>

\* A link request is deferred.
ModemHolds ==
  /\ ModemStays /\ ModemReadsHead
  /\ Head(toModem).type = "LINK_CHARACTERISTICS_REQUEST"
  /\ Head(toModem).mac \in MAC /\ MTx(Head(toModem).mac) = Idle
  /\ mPendingLink' = mPendingLink \cup {Head(toModem).mac}
  /\ UNCHANGED <<mTx, mAnnounced, mPeerAddrs, toRouter>>

\* A heartbeat of the router's.
ModemNotes ==
  /\ ModemStays /\ ModemReadsHead
  /\ Head(toModem).type = "HEARTBEAT"
  /\ ModemSame
  /\ UNCHANGED <<mPeerAddrs, toRouter>>

\* A request is opened.
ModemOpens(y) ==
  /\ ModemStays
  /\ y.type \in ModemRequest /\ MTx(y.mac) = Idle /\ y.mac \notin mPendingLink
  /\ \A s \in Scope : MTx(s)' = IF s = y.mac THEN KindOf(y.type) ELSE MTx(s)
  /\ toRouter' = Append(toRouter, y)
  /\ crossed' = (crossed \/ Crosses(y, toModem))
  /\ UNCHANGED <<mReason, mAnnounced, mPendingLink, mPeerAddrs, toModem>>

\* The modem tells a change, or has nothing to tell.
ModemTells ==
  /\ ModemStays /\ ModemSame
  /\ \/ UNCHANGED toRouter
     \/ \E y \in ModemMessage : /\ y.type \in {"DESTINATION_UPDATE", "HEARTBEAT"}
                                /\ toRouter' = Append(toRouter, y)
  /\ crossed' = crossed
  /\ UNCHANGED <<mReason, mPeerAddrs, toModem>>

\* A deferred link request is answered.
ModemAnswers(y) ==
  /\ ModemStays
  /\ y.mac \in mPendingLink /\ MTx(y.mac) = Idle
  /\ y.type = "LINK_CHARACTERISTICS_RESPONSE"
  /\ mPendingLink' = mPendingLink \ {y.mac}
  /\ toRouter' = Append(toRouter, y)
  /\ UNCHANGED <<mReason, mTx, mAnnounced, mPeerAddrs, toModem, history>>

\* Every step of the modem is one of these (shown in SessionStepProofs).
ModemDoes ==
  /\ ModemAlone
  /\ \/ ModemWaits \/ ModemGoes \/ ModemEnters \/ ModemCloses \/ ModemHolds \/ ModemNotes
     \/ ModemTells
     \/ \E y \in ModemMessage : ModemReplies(y) \/ ModemOpens(y) \/ ModemAnswers(y)

\* What is at the head of a queue: a reply is to the open request, and a request
\* finds no request open and none held, unless they crossed.
HeadFits(x, s, reply, request, tx, held, cr) ==
  /\ Match(x, s, reply) => tx = KindOf(x.type)
  /\ Match(x, s, request) => held = FALSE /\ (tx = Idle \/ cr = TRUE)
=============================================================================
