---------------------------- MODULE ModemSession ----------------------------
(***************************************************************************)
(* The modem's session state machine, ModemSessionFsm::step                *)
(* (crates/dlep-fsm/src/session_modem.rs): one action per arm, in the      *)
(* conventions of RouterSession.  toRouter is what the modem sent, mTimers *)
(* the timers the runtime has armed, mDown the emitted SessionDown.        *)
(***************************************************************************)
EXTENDS DlepMessages

CONSTANTS
  InitialMetrics,  \* config.initial_metrics
  Defer,           \* config.defer_link_characteristics
  Supply           \* metrics the application may supply

ASSUME ModemConstants ==
  /\ InitialMetrics \in LinkMetrics
  /\ Defer \in BOOLEAN
  /\ Supply \subseteq LinkMetrics

VARIABLES
  mState,           \* ModemSessionState
  mReason,          \* termination_reason
  mTimers,          \* the timers the runtime has armed for this session
  mDown,            \* the status of the emitted SessionDown, or NoStatus
  mTxSession,       \* tx.session_pending
  mTxDest,          \* tx.per_destination
  mKnown,           \* the keys of destinations
  mAnnounced,       \* those with announced
  mPendingMetrics,  \* those with pending_metrics
  mMetrics,         \* their metrics, NoMetrics outside mKnown
  mAddrs,           \* their addrs, {} outside mKnown
  mAdvertised,      \* their advertised_addrs, {} outside mKnown
  mPendingLink,     \* pending_link_requests
  mSessionMetrics,  \* session_metrics
  mPeerAddrs,       \* peer_addresses
  mLocalAddrs,      \* local_addresses
  toRouter          \* messages sent and not yet read by the peer

mControl == <<mState, mReason, mTimers, mDown>>
mTx == <<mTxSession, mTxDest>>
mData == <<mMetrics, mAddrs, mAdvertised>>
mDests == <<mKnown, mAnnounced, mPendingMetrics, mData>>
mPeer == <<mPeerAddrs, mLocalAddrs, mSessionMetrics>>
modemVars == <<mControl, mTx, mDests, mPendingLink, mPeer, toRouter>>

ModemState ==
  {"Listening", "AwaitingSessionInit", "InSession", "Terminating", "Terminated"}

\* The state of ModemSession, of its transactions and destinations.
ModemTypeOK ==
  /\ mState \in ModemState
  /\ mReason \in Status
  /\ mTimers \subseteq Timer
  /\ mDown \in MaybeStatus
  /\ mTxSession \in SessionSlot
  /\ mTxDest \in [MAC -> DestSlot]
  /\ mKnown \subseteq MAC
  /\ mAnnounced \subseteq MAC
  /\ mPendingMetrics \subseteq MAC
  /\ mMetrics \in [MAC -> Metrics]
  /\ mAddrs \in [MAC -> SUBSET Addr]
  /\ mAdvertised \in [MAC -> SUBSET Addr]
  /\ mPendingLink \subseteq MAC
  /\ mSessionMetrics \in Metrics
  /\ mPeerAddrs \subseteq Addr
  /\ mLocalAddrs \subseteq Addr
  /\ toRouter \in Seq(Message)

ModemInit ==
  /\ mState = "Listening"
  /\ mReason = "SUCCESS"
  /\ mTimers = {}
  /\ mDown = NoStatus
  /\ mTxSession = Idle
  /\ mTxDest = [m \in MAC |-> Idle]
  /\ mKnown = {}
  /\ mAnnounced = {}
  /\ mPendingMetrics = {}
  /\ mMetrics = [m \in MAC |-> NoMetrics]
  /\ mAddrs = [m \in MAC |-> {}]
  /\ mAdvertised = [m \in MAC |-> {}]
  /\ mPendingLink = {}
  /\ mSessionMetrics = InitialMetrics
  /\ mPeerAddrs = {}
  /\ mLocalAddrs = {}
  /\ toRouter = <<>>

-----------------------------------------------------------------------------
(* Steps that several arms share.                                           *)

ModemSend(msg) == toRouter' = Append(toRouter, msg)

ModemHeartbeatReset == mTimers' = mTimers \cup {"HeartbeatMissed"}

ModemTerminated(status) ==
  /\ mState' = "Terminated"
  /\ mDown' = status
  /\ UNCHANGED <<mReason, mTx, mDests, mPendingLink, mPeer>>

ModemTerminating(reason, cancelled) ==
  /\ mState' = "Terminating"
  /\ mReason' = reason
  /\ mTimers' = (mTimers \ cancelled) \cup {"Termination"}
  /\ ModemSend(Termination(reason))
  /\ UNCHANGED <<mDown, mTx, mDests, mPendingLink, mPeer>>

\* A modem still waiting for the initialization closes without a word.
ModemProtocolError(code) ==
  \/ /\ mState = "AwaitingSessionInit"
     /\ mTimers' = mTimers \ {"SessionInit"}
     /\ ModemTerminated(code)
     /\ UNCHANGED toRouter
  \/ /\ mState \in {"Listening", "InSession"}
     /\ ModemTerminating(code, {"SessionInit", "Heartbeat", "HeartbeatMissed"})

ModemRemove(mac) ==
  /\ mKnown' = mKnown \ {mac}
  /\ mAnnounced' = mAnnounced \ {mac}
  /\ mPendingMetrics' = mPendingMetrics \ {mac}
  /\ mMetrics' = [mMetrics EXCEPT ![mac] = NoMetrics]
  /\ mAddrs' = [mAddrs EXCEPT ![mac] = {}]
  /\ mAdvertised' = [mAdvertised EXCEPT ![mac] = {}]

valid_metrics(supplied) == Supplied(supplied) \subseteq Supplied(InitialMetrics)

-----------------------------------------------------------------------------
(* The checks at the start of step, in their order.                         *)

ModemVerdict(msg) ==
  LET initializing == mState = "AwaitingSessionInit"
      slot == IF msg.mac = NoMac THEN Idle ELSE mTxDest[msg.mac]
      items == validate_message(msg, FALSE, initializing)
  IN  IF msg.type # "SESSION_TERMINATION" /\ terminates_session(msg.status)
      THEN msg.status
      ELSE IF items # "SUCCESS"
      THEN items
      ELSE IF /\ initializing \/ msg.type = "SESSION_UPDATE"
              /\ ~StrictOk(mPeerAddrs, msg.addrs)
      THEN "INVALID_DATA"
      ELSE IF initializing
      THEN "SUCCESS"
      ELSE IF /\ msg.mac \in mPendingLink
              /\ msg.type \in {"DESTINATION_DOWN", "LINK_CHARACTERISTICS_REQUEST"}
      THEN "UNEXPECTED_MESSAGE"
      ELSE validate_transaction(msg, mTxSession, slot, msg.mac \in mAnnounced)

ModemAccepts(type, msg) ==
  /\ mState = "InSession"
  /\ msg.type = type
  /\ ModemVerdict(msg) = "SUCCESS"

ModemRecvInvalid(msg) ==
  /\ mState \in {"AwaitingSessionInit", "InSession"}
  /\ ModemVerdict(msg) # "SUCCESS"
  /\ ModemProtocolError(ModemVerdict(msg))

ModemDecodeError == mState # "Listening" /\ ModemProtocolError("INVALID_DATA")

-----------------------------------------------------------------------------
(* Session establishment.                                                   *)

ModemTcpAccepted ==
  /\ mState = "Listening"
  /\ mState' = "AwaitingSessionInit"
  /\ mTimers' = mTimers \cup {"SessionInit"}
  /\ UNCHANGED <<mReason, mDown, mTx, mDests, mPendingLink, mPeer, toRouter>>

\* Mutant: the peer's heartbeats are not watched from the start.
ModemEnterSession_NoWatchdog == mTimers' = (mTimers \ {"SessionInit"}) \cup {"Heartbeat"}

ModemEnterSession ==
  mTimers' = (mTimers \ {"SessionInit"}) \cup {"Heartbeat", "HeartbeatMissed"}

ModemRecvInit(msg) ==
  /\ mState = "AwaitingSessionInit"
  /\ ModemVerdict(msg) = "SUCCESS"
  /\ mPeerAddrs' = msg.addrs.added
  /\ mState' = "InSession"
  /\ ModemEnterSession
  /\ ModemSend(SessionMsg("SESSION_INITIALIZATION_RESPONSE", "SUCCESS",
                          InitialMetrics, NoChanges))
  /\ UNCHANGED <<mReason, mDown, mTx, mDests, mPendingLink, mLocalAddrs,
                 mSessionMetrics>>

-----------------------------------------------------------------------------
(* Messages in session.                                                     *)

ModemRecvTermination(msg) ==
  /\ ModemAccepts("SESSION_TERMINATION", msg)
  /\ mTimers' = mTimers \ {"Heartbeat", "HeartbeatMissed"}
  /\ ModemSend(Bare("SESSION_TERMINATION_RESPONSE"))
  /\ ModemTerminated(msg.status)

\* Mutant: the held back metrics are left out.
HeldBack_NoMetrics(mac) ==
  Msg("DESTINATION_UPDATE", mac, NoStatus, NoMetrics,
      between(mAdvertised[mac], mAddrs[mac]))

\* What changed while a destination's Up was unanswered: all metrics if any
\* were supplied, and the address difference.
HeldBack(mac) ==
  Msg("DESTINATION_UPDATE", mac, NoStatus,
      IF mac \in mPendingMetrics THEN mMetrics[mac] ELSE NoMetrics,
      between(mAdvertised[mac], mAddrs[mac]))

\* An accepted destination gets one Update with what was held back.
ModemRecvUpAccepted(msg) ==
  LET mac == msg.mac
  IN  /\ ModemAccepts("DESTINATION_UP_RESPONSE", msg)
      /\ msg.status = "SUCCESS"
      /\ mTxDest' = [mTxDest EXCEPT ![mac] = Idle]
      /\ mAnnounced' = mAnnounced \cup {mac}
      /\ mPendingMetrics' = mPendingMetrics \ {mac}
      /\ mAdvertised' = [mAdvertised EXCEPT ![mac] = mAddrs[mac]]
      /\ IF mac \in mPendingMetrics \/ mAdvertised[mac] # mAddrs[mac]
         THEN ModemSend(HeldBack(mac))
         ELSE UNCHANGED toRouter
      /\ ModemHeartbeatReset
      /\ UNCHANGED <<mState, mReason, mDown, mTxSession, mKnown, mMetrics, mAddrs,
                     mPendingLink, mPeer>>

ModemRecvUpRefused(msg) ==
  /\ ModemAccepts("DESTINATION_UP_RESPONSE", msg)
  /\ msg.status # "SUCCESS"
  /\ mTxDest' = [mTxDest EXCEPT ![msg.mac] = Idle]
  /\ mAnnounced' = mAnnounced \ {msg.mac}
  /\ ModemHeartbeatReset
  /\ UNCHANGED <<mState, mReason, mDown, mTxSession, mKnown, mPendingMetrics, mData,
                 mPendingLink, mPeer, toRouter>>

\* The router withdraws its interest: the entry stays for a later Announce.
ModemRecvDestinationDown(msg) ==
  /\ ModemAccepts("DESTINATION_DOWN", msg)
  /\ mAnnounced' = mAnnounced \ {msg.mac}
  /\ mPendingMetrics' = mPendingMetrics \ {msg.mac}
  /\ ModemSend(DestMsg("DESTINATION_DOWN_RESPONSE", msg.mac, "SUCCESS"))
  /\ ModemHeartbeatReset
  /\ UNCHANGED <<mState, mReason, mDown, mTx, mKnown, mData, mPendingLink, mPeer>>

ModemRecvDownResponse(msg) ==
  /\ ModemAccepts("DESTINATION_DOWN_RESPONSE", msg)
  /\ mTxDest' = [mTxDest EXCEPT ![msg.mac] = Idle]
  /\ ModemRemove(msg.mac)
  /\ ModemHeartbeatReset
  /\ UNCHANGED <<mState, mReason, mDown, mTxSession, mPendingLink, mPeer, toRouter>>

\* Mutant: the router's address changes are acknowledged and not applied.
ModemRecvSessionUpdate_Forgets(msg) ==
  /\ ModemAccepts("SESSION_UPDATE", msg)
  /\ ModemSend(SessionMsg("SESSION_UPDATE_RESPONSE", "SUCCESS", NoMetrics, NoChanges))
  /\ ModemHeartbeatReset
  /\ UNCHANGED <<mState, mReason, mDown, mTx, mDests, mPendingLink, mPeer>>

ModemRecvSessionUpdate(msg) ==
  /\ ModemAccepts("SESSION_UPDATE", msg)
  /\ ModemSend(SessionMsg("SESSION_UPDATE_RESPONSE", "SUCCESS", NoMetrics, NoChanges))
  /\ mPeerAddrs' = apply_lenient(mPeerAddrs, msg.addrs)
  /\ ModemHeartbeatReset
  /\ UNCHANGED <<mState, mReason, mDown, mTx, mDests, mPendingLink, mLocalAddrs,
                 mSessionMetrics>>

ModemRecvSessionUpdateResponse(msg) ==
  /\ ModemAccepts("SESSION_UPDATE_RESPONSE", msg)
  /\ mTxSession' = Idle
  /\ ModemHeartbeatReset
  /\ UNCHANGED <<mState, mReason, mDown, mTxDest, mDests, mPendingLink, mPeer, toRouter>>

\* Mutant: the addresses in the answer are not recorded as advertised.
ModemRecvAnnounceKnown_Unrecorded(msg) ==
  LET mac == msg.mac
  IN  /\ ModemAccepts("DESTINATION_ANNOUNCE", msg)
      /\ mac \in mKnown
      /\ mAnnounced' = mAnnounced \cup {mac}
      /\ mPendingMetrics' = mPendingMetrics \ {mac}
      /\ ModemSend(Msg("DESTINATION_ANNOUNCE_RESPONSE", mac, "SUCCESS", mMetrics[mac],
                       [added |-> mAddrs[mac], removed |-> {}]))
      /\ ModemHeartbeatReset
      /\ UNCHANGED <<mState, mReason, mDown, mTx, mKnown, mData, mPendingLink, mPeer>>

ModemRecvAnnounceKnown(msg) ==
  LET mac == msg.mac
  IN  /\ ModemAccepts("DESTINATION_ANNOUNCE", msg)
      /\ mac \in mKnown
      /\ mAnnounced' = mAnnounced \cup {mac}
      /\ mPendingMetrics' = mPendingMetrics \ {mac}
      /\ mAdvertised' = [mAdvertised EXCEPT ![mac] = mAddrs[mac]]
      /\ ModemSend(Msg("DESTINATION_ANNOUNCE_RESPONSE", mac, "SUCCESS", mMetrics[mac],
                       [added |-> mAddrs[mac], removed |-> {}]))
      /\ ModemHeartbeatReset
      /\ UNCHANGED <<mState, mReason, mDown, mTx, mKnown, mMetrics, mAddrs,
                     mPendingLink, mPeer>>

ModemRecvAnnounceUnknown(msg) ==
  /\ ModemAccepts("DESTINATION_ANNOUNCE", msg)
  /\ msg.mac \notin mKnown
  /\ ModemSend(DestMsg("DESTINATION_ANNOUNCE_RESPONSE", msg.mac, "REQUEST_DENIED"))
  /\ ModemHeartbeatReset
  /\ UNCHANGED <<mState, mReason, mDown, mTx, mDests, mPendingLink, mPeer>>

LinkReply(mac, status, metrics) ==
  Msg("LINK_CHARACTERISTICS_RESPONSE", mac, status, metrics, NoChanges)

ModemRecvLinkRequest(msg) ==
  /\ ModemAccepts("LINK_CHARACTERISTICS_REQUEST", msg)
  /\ IF Defer
     THEN mPendingLink' = mPendingLink \cup {msg.mac} /\ UNCHANGED toRouter
     ELSE /\ ModemSend(LinkReply(msg.mac, "REQUEST_DENIED", mMetrics[msg.mac]))
          /\ UNCHANGED mPendingLink
  /\ ModemHeartbeatReset
  /\ UNCHANGED <<mState, mReason, mDown, mTx, mDests, mPeer>>

ModemRecvHeartbeat(msg) ==
  /\ ModemAccepts("HEARTBEAT", msg)
  /\ ModemHeartbeatReset
  /\ UNCHANGED <<mState, mReason, mDown, mTx, mDests, mPendingLink, mPeer, toRouter>>

-----------------------------------------------------------------------------
(* Application commands: check_command, then the arm.                       *)

ModemAppAddDestination(mac, supplied, addrs) ==
  LET metrics == merge_link_metrics(supplied, mSessionMetrics)
  IN  /\ mState = "InSession"
      /\ mTxDest[mac] = Idle
      /\ mac \notin mKnown
      /\ valid_metrics(supplied)
      /\ mTxDest' = [mTxDest EXCEPT ![mac] = "DestinationUp"]
      /\ mKnown' = mKnown \cup {mac}
      /\ mMetrics' = [mMetrics EXCEPT ![mac] = metrics]
      /\ mAddrs' = [mAddrs EXCEPT ![mac] = addrs]
      /\ mAdvertised' = [mAdvertised EXCEPT ![mac] = addrs]
      /\ ModemSend(Msg("DESTINATION_UP", mac, NoStatus, metrics,
                       [added |-> addrs, removed |-> {}]))
      /\ UNCHANGED <<mControl, mTxSession, mAnnounced, mPendingMetrics, mPendingLink, mPeer>>

\* Updates are taken while the Up is unanswered, and kept for later.
ModemUpdatable(mac) ==
  /\ mState = "InSession"
  /\ mac \in mKnown
  /\ mTxDest[mac] \in {Idle, "DestinationUp"}

\* Mutant: updates go out for a destination the router has withdrawn.
ModemReporting_Withdrawn(mac) == mTxDest[mac] = Idle

ModemReporting(mac) == mac \in mAnnounced /\ mTxDest[mac] = Idle

ModemAppUpdateMetrics(mac, supplied) ==
  /\ ModemUpdatable(mac)
  /\ valid_metrics(supplied)
  /\ mMetrics' = [mMetrics EXCEPT ![mac] = merge_link_metrics(supplied, @)]
  /\ \/ /\ ModemReporting(mac)
        /\ ModemSend(Msg("DESTINATION_UPDATE", mac, NoStatus, supplied, NoChanges))
        /\ UNCHANGED mPendingMetrics
     \/ /\ ~ModemReporting(mac)
        /\ mPendingMetrics' = mPendingMetrics \cup {mac}
        /\ UNCHANGED toRouter
  /\ UNCHANGED <<mControl, mTx, mKnown, mAnnounced, mAddrs, mAdvertised,
                 mPendingLink, mPeer>>

ModemAppUpdateAddresses(mac, ch) ==
  LET desired == apply_lenient(mAddrs[mac], ch)
      effective == between(mAdvertised[mac], desired)
      send == ModemReporting(mac) /\ effective # NoChanges
  IN  /\ ModemUpdatable(mac)
      /\ validate(ch)
      /\ mAddrs' = [mAddrs EXCEPT ![mac] = desired]
      /\ \/ /\ send
            /\ mAdvertised' = [mAdvertised EXCEPT ![mac] = desired]
            /\ ModemSend(Msg("DESTINATION_UPDATE", mac, NoStatus, NoMetrics, effective))
         \/ /\ ~send
            /\ UNCHANGED <<mAdvertised, toRouter>>
      /\ UNCHANGED <<mControl, mTx, mKnown, mAnnounced, mPendingMetrics, mMetrics,
                     mPendingLink, mPeer>>

ModemDroppable(mac) ==
  /\ mState = "InSession"
  /\ mac \notin mPendingLink
  /\ mTxDest[mac] = Idle
  /\ mac \in mKnown

ModemAppDropDestination(mac) ==
  /\ ModemDroppable(mac)
  /\ \/ /\ mac \notin mAnnounced
        /\ ModemRemove(mac)
        /\ UNCHANGED <<mTxDest, toRouter>>
     \/ /\ mac \in mAnnounced
        /\ mTxDest' = [mTxDest EXCEPT ![mac] = "DestinationDown"]
        /\ ModemSend(DestMsg("DESTINATION_DOWN", mac, NoStatus))
        /\ UNCHANGED mDests
  /\ UNCHANGED <<mControl, mTxSession, mPendingLink, mPeer>>

ModemAppLinkCharacteristicsResponse(mac, status, supplied) ==
  LET metrics == merge_link_metrics(supplied, mMetrics[mac])
  IN  /\ mState = "InSession"
      /\ mac \in mPendingLink
      /\ mTxDest[mac] = Idle
      /\ ~terminates_session(status)
      /\ valid_metrics(supplied)
      /\ mPendingLink' = mPendingLink \ {mac}
      /\ mMetrics' = [mMetrics EXCEPT ![mac] = metrics]
      /\ ModemSend(LinkReply(mac, status, metrics))
      /\ UNCHANGED <<mControl, mTx, mKnown, mAnnounced, mPendingMetrics, mAddrs,
                     mAdvertised, mPeer>>

ModemAppSessionUpdate(supplied) ==
  /\ mState = "InSession"
  /\ mTxSession = Idle
  /\ valid_metrics(supplied)
  /\ mTxSession' = "SessionUpdate"
  /\ mSessionMetrics' = merge_link_metrics(supplied, mSessionMetrics)
  /\ mMetrics' = [m \in MAC |-> IF m \in mKnown
                                THEN merge_link_metrics(supplied, mMetrics[m])
                                ELSE mMetrics[m]]
  /\ ModemSend(SessionMsg("SESSION_UPDATE", NoStatus, supplied, NoChanges))
  /\ UNCHANGED <<mControl, mTxDest, mKnown, mAnnounced, mPendingMetrics, mAddrs,
                 mAdvertised, mPendingLink, mPeerAddrs, mLocalAddrs>>

ModemAppSessionAddresses(ch) ==
  LET desired == apply_lenient(mLocalAddrs, ch)
      effective == between(mLocalAddrs, desired)
  IN  /\ mState = "InSession"
      /\ mTxSession = Idle
      /\ validate(ch)
      /\ effective # NoChanges
      /\ mTxSession' = "SessionUpdate"
      /\ mLocalAddrs' = desired
      /\ ModemSend(SessionMsg("SESSION_UPDATE", NoStatus, NoMetrics, effective))
      /\ UNCHANGED <<mControl, mTxDest, mDests, mPendingLink, mPeerAddrs, mSessionMetrics>>

ModemAppShutdown(reason) ==
  \/ /\ mState = "Listening"
     /\ mState' = "Terminated"
     /\ UNCHANGED <<mReason, mTimers, mDown, mTx, mDests, mPendingLink, mPeer, toRouter>>
  \/ /\ mState = "AwaitingSessionInit"
     /\ mTimers' = mTimers \ {"SessionInit"}
     /\ ModemTerminated(reason)
     /\ UNCHANGED toRouter
  \/ /\ mState = "InSession"
     /\ ModemTerminating(reason, {"Heartbeat", "HeartbeatMissed"})

-----------------------------------------------------------------------------
(* Timers.                                                                  *)

ModemSessionInitTimeout ==
  /\ mState = "AwaitingSessionInit"
  /\ "SessionInit" \in mTimers
  /\ mTimers' = mTimers \ {"SessionInit"}
  /\ ModemTerminated("TIMED_OUT")
  /\ UNCHANGED toRouter

ModemHeartbeatTick ==
  /\ mState = "InSession"
  /\ "Heartbeat" \in mTimers
  /\ ModemSend(Bare("HEARTBEAT"))
  /\ UNCHANGED <<mControl, mTx, mDests, mPendingLink, mPeer>>

ModemHeartbeatMissed ==
  /\ mState = "InSession"
  /\ "HeartbeatMissed" \in mTimers
  /\ ModemTerminating("TIMED_OUT", {"Heartbeat", "HeartbeatMissed"})

ModemTerminationTimeout ==
  /\ mState = "Terminating"
  /\ "Termination" \in mTimers
  /\ mTimers' = mTimers \ {"Termination"}
  /\ ModemTerminated("TIMED_OUT")
  /\ UNCHANGED toRouter

-----------------------------------------------------------------------------
(* The end of the session.                                                  *)

ModemRecvTerminationResponse(msg) ==
  /\ mState = "Terminating"
  /\ msg.type = "SESSION_TERMINATION_RESPONSE"
  /\ mTimers' = mTimers \ {"Termination"}
  /\ ModemTerminated(mReason)
  /\ UNCHANGED toRouter

\* Everything else is ignored while terminating, a Termination of the peer's
\* included.
ModemIgnore(msg) ==
  /\ mState = "Terminating"
  /\ msg.type # "SESSION_TERMINATION_RESPONSE"
  /\ UNCHANGED modemVars

ModemTcpClosed ==
  \/ /\ mState = "Listening"
     /\ mState' = "Terminated"
     /\ UNCHANGED <<mReason, mTimers, mDown, mTx, mDests, mPendingLink, mPeer, toRouter>>
  \/ /\ mState = "AwaitingSessionInit"
     /\ mTimers' = mTimers \ {"SessionInit"}
     /\ ModemTerminated("TIMED_OUT")
     /\ UNCHANGED toRouter
  \/ /\ mState = "InSession"
     /\ mTimers' = mTimers \ {"Heartbeat", "HeartbeatMissed"}
     /\ ModemTerminated("TIMED_OUT")
     /\ UNCHANGED toRouter
  \/ /\ mState = "Terminating"
     /\ mTimers' = mTimers \ {"Termination"}
     /\ ModemTerminated(mReason)
     /\ UNCHANGED toRouter

ModemRecv(msg) ==
  \/ ModemRecvInvalid(msg)
  \/ ModemRecvInit(msg)
  \/ ModemRecvTermination(msg)
  \/ ModemRecvUpAccepted(msg)
  \/ ModemRecvUpRefused(msg)
  \/ ModemRecvDestinationDown(msg)
  \/ ModemRecvDownResponse(msg)
  \/ ModemRecvSessionUpdate(msg)
  \/ ModemRecvSessionUpdateResponse(msg)
  \/ ModemRecvAnnounceKnown(msg)
  \/ ModemRecvAnnounceUnknown(msg)
  \/ ModemRecvLinkRequest(msg)
  \/ ModemRecvHeartbeat(msg)
  \/ ModemRecvTerminationResponse(msg)
  \/ ModemIgnore(msg)

ModemDeadline ==
  \/ ModemSessionInitTimeout
  \/ ModemHeartbeatMissed
  \/ ModemTerminationTimeout

-----------------------------------------------------------------------------
(* Properties.                                                              *)

\* Every state that waits for the peer has exactly the deadline that ends
\* the wait, and no timer of an earlier state survives into a later one.
ModemTimersMatchState ==
  /\ mState = "Listening" => mTimers = {}
  /\ mState = "AwaitingSessionInit" => mTimers = {"SessionInit"}
  /\ mState = "InSession" => mTimers = {"Heartbeat", "HeartbeatMissed"}
  /\ mState = "Terminating" => mTimers = {"Termination"}

\* What the expect and index expressions of the arms rely on, whatever the
\* peer sends: an open Up is for a destination not yet announced, an open Down
\* for one that is, and a deferred link request is for an announced destination
\* with no request of the modem's own, so that its answer finds the entry.
ModemRequestsMatchDestinations ==
  /\ mAnnounced \subseteq mKnown
  /\ \A m \in MAC :
       /\ mTxDest[m] = "DestinationUp" => m \in mKnown \ mAnnounced
       /\ mTxDest[m] = "DestinationDown" => m \in mAnnounced
       /\ mTxDest[m] \in {Idle, "DestinationUp", "DestinationDown"}
       /\ m \in mPendingLink => m \in mAnnounced /\ mTxDest[m] = Idle

\* An announced destination with no open request has told the router all it
\* knows: no metric change is held back and the advertised addresses are the
\* current ones (updates during an Up are coalesced into one, none is lost).
ModemHoldsNothingBack ==
  \A m \in mAnnounced : mTxDest[m] = Idle =>
    m \notin mPendingMetrics /\ mAdvertised[m] = mAddrs[m]

\* Once it has sent a Session Termination, or has ended, the modem sends
\* nothing more, and a session that has ended stays ended with the reason it
\* reported.
ModemQuietAfterTermination ==
  [][/\ mState \in {"Terminating", "Terminated"} => Len(toRouter') <= Len(toRouter)
     /\ mState = "Terminated" => mState' = mState /\ mDown' = mDown]_modemVars
=============================================================================
