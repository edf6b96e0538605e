---------------------------- MODULE DlepSession ----------------------------
(***************************************************************************)
(* One DLEP session: the router's and the modem's state machines over one  *)
(* TCP connection.                                                         *)
(*                                                                         *)
(* The connection exists from the start; each side's runtime first steps   *)
(* its machine with TcpConnected or TcpAccepted.                           *)
(*                                                                         *)
(* The connection delivers each direction in order.  A side in state       *)
(* "Terminated" has dropped its socket: its peer reads what was sent and   *)
(* then sees the close, or sees it at once when the dropped socket still   *)
(* had unread data (the kernel then resets the connection).  The link may  *)
(* fail: "reset" is reported to both sides, "cut" to neither, so that only *)
(* the deadlines can end the session.                                      *)
(*                                                                         *)
(* With Timely a deadline does not expire while the answer it waits for    *)
(* can still come; without it a message may be slower than any timer.      *)
(***************************************************************************)
EXTENDS RouterSession, ModemSession

CONSTANTS
  AddAddrs,       \* address sets it may add a destination with
  AddrUpdates,    \* address changes either application may ask for
  CommandBudget,  \* bound: application commands in one behaviour
  Shutdowns,      \* the sides whose application may shut the session down
  Faults,         \* the link failures that may happen
  Heartbeats,     \* whether heartbeats are sent (at most one each way in flight)
  Timely          \* whether deadlines outlast the message delay

ASSUME SessionConstants ==
  /\ AddAddrs \subseteq SUBSET Addr
  /\ AddrUpdates \subseteq AddressChanges
  /\ CommandBudget \in Nat
  /\ Shutdowns \subseteq {"router", "modem"}
  /\ Faults \subseteq {"reset", "cut"}
  /\ Heartbeats \in BOOLEAN
  /\ Timely \in BOOLEAN

VARIABLES
  link,     \* "up", "reset" or "cut"
  budget,   \* commands the applications may still issue
  crossed,  \* history: two requests of the same scope have crossed on the wire
  contested \* history: the modem advertised one address for two holders

history == <<crossed, contested>>
vars == <<routerVars, modemVars, link, budget, history>>

Init ==
  /\ RouterInit
  /\ ModemInit
  /\ link = "up"
  /\ budget = CommandBudget
  /\ crossed = FALSE
  /\ contested = FALSE

-----------------------------------------------------------------------------
(* Crossing requests: one side sends a request while one of the other's, in *)
(* the same scope, is on its way to it.                                     *)

Request == ExclusiveRequest \cup {"SESSION_UPDATE"}

Crosses(sent, inbound) ==
  /\ sent.type \in Request
  /\ \E i \in DOMAIN inbound :
       inbound[i].type \in Request /\ inbound[i].mac = sent.mac

\* An address held for a destination is also the modem's own or another
\* destination's.
Overlap(held) ==
  \E m \in MAC : \E a \in held[m] :
    a \in mLocalAddrs \/ \E n \in MAC \ {m} : a \in held[n]

Sent(before, after) ==
  IF Len(after) > Len(before) THEN {after[Len(after)]} ELSE {}

-----------------------------------------------------------------------------
(* Steps of the router.                                                     *)

RouterOnly == UNCHANGED <<modemVars, link>>

RouterConnects ==
  /\ RouterTcpConnected
  /\ RouterOnly
  /\ UNCHANGED <<budget, history>>

RouterReads ==
  /\ link = "up"
  /\ toRouter # <<>>
  /\ RouterRecv(Head(toRouter))
  /\ toRouter' = Tail(toRouter)
  /\ UNCHANGED <<mControl, mTx, mDests, mPendingLink, mPeer, link, budget, history>>

RouterCommands ==
  /\ budget > 0
  /\ budget' = budget - 1
  /\ \/ \E mac \in MAC : RouterDestCommand(mac)
     \/ \E ch \in AddrUpdates : RouterAppSessionAddresses(ch)
  /\ crossed' = (crossed \/ \E msg \in Sent(toModem, toModem') : Crosses(msg, toRouter))
  /\ UNCHANGED contested
  /\ RouterOnly

RouterShutsDown ==
  /\ "router" \in Shutdowns
  /\ rState # "Closed"
  /\ RouterAppShutdown("SHUTTING_DOWN")
  /\ RouterOnly
  /\ UNCHANGED <<budget, history>>

RouterBeats ==
  /\ Heartbeats
  /\ \A i \in DOMAIN toModem : toModem[i].type # "HEARTBEAT"
  /\ RouterHeartbeatTick
  /\ RouterOnly
  /\ UNCHANGED <<budget, history>>

\* Nothing the router could be waiting for is under way: no message, no
\* close, no peer still to accept the connection or sending heartbeats.
RouterWaitsInVain ==
  \/ link = "cut"
  \/ /\ link = "up"
     /\ toRouter = <<>> /\ toModem = <<>>
     /\ mState \notin {"Listening", "Terminated"}
     /\ rState = "InSession" => mState # "InSession"

RouterTimesOut ==
  /\ Timely => RouterWaitsInVain
  /\ RouterDeadline
  /\ RouterOnly
  /\ UNCHANGED <<budget, history>>

RouterSeesClose ==
  /\ \/ link = "reset"
     \/ /\ link = "up"
        /\ mState = "Terminated"
        /\ toRouter = <<>> \/ toModem # <<>>
  /\ rState # "Closed"
  /\ RouterTcpClosed
  /\ RouterOnly
  /\ UNCHANGED <<budget, history>>

-----------------------------------------------------------------------------
(* Steps of the modem.                                                      *)

ModemOnly == UNCHANGED <<routerVars, link>>

ModemTakesConnection ==
  /\ ModemTcpAccepted
  /\ ModemOnly
  /\ UNCHANGED <<budget, history>>

ModemReads ==
  /\ link = "up"
  /\ toModem # <<>>
  /\ ModemRecv(Head(toModem))
  /\ toModem' = Tail(toModem)
  /\ UNCHANGED <<rControl, rTx, rDests, rPeer, rLocalAddrs, link, budget, history>>

ModemCommands ==
  /\ budget > 0
  /\ budget' = budget - 1
  /\ \/ \E mac \in MAC, supplied \in Supply, addrs \in AddAddrs :
          ModemAppAddDestination(mac, supplied, addrs)
     \/ \E mac \in MAC, supplied \in Supply : ModemAppUpdateMetrics(mac, supplied)
     \/ \E mac \in MAC, ch \in AddrUpdates : ModemAppUpdateAddresses(mac, ch)
     \/ \E mac \in MAC : ModemAppDropDestination(mac)
     \/ \E supplied \in Supply : ModemAppSessionUpdate(supplied)
     \/ \E ch \in AddrUpdates : ModemAppSessionAddresses(ch)
  /\ crossed' = (crossed \/ \E msg \in Sent(toRouter, toRouter') : Crosses(msg, toModem))
  /\ contested' = (contested \/ Overlap([m \in MAC |-> mAddrs[m] \cup mAdvertised[m]])')
  /\ ModemOnly

\* The link-control backend answers a deferred request.
ModemAnswersLink ==
  /\ \E mac \in MAC, status \in {"SUCCESS", "REQUEST_DENIED"},
        supplied \in Supply \cup {NoMetrics} :
       ModemAppLinkCharacteristicsResponse(mac, status, supplied)
  /\ ModemOnly
  /\ UNCHANGED <<budget, history>>

ModemShutsDown ==
  /\ "modem" \in Shutdowns
  /\ mState # "Listening"
  /\ ModemAppShutdown("SHUTTING_DOWN")
  /\ ModemOnly
  /\ UNCHANGED <<budget, history>>

ModemBeats ==
  /\ Heartbeats
  /\ \A i \in DOMAIN toRouter : toRouter[i].type # "HEARTBEAT"
  /\ ModemHeartbeatTick
  /\ ModemOnly
  /\ UNCHANGED <<budget, history>>

ModemWaitsInVain ==
  \/ link = "cut"
  \/ /\ link = "up"
     /\ toRouter = <<>> /\ toModem = <<>>
     /\ rState # "Terminated"
     /\ mState = "InSession" => rState # "InSession"

ModemTimesOut ==
  /\ Timely => ModemWaitsInVain
  /\ ModemDeadline
  /\ ModemOnly
  /\ UNCHANGED <<budget, history>>

ModemSeesClose ==
  /\ \/ link = "reset"
     \/ /\ link = "up"
        /\ rState = "Terminated"
        /\ toModem = <<>> \/ toRouter # <<>>
  /\ mState # "Listening"
  /\ ModemTcpClosed
  /\ ModemOnly
  /\ UNCHANGED <<budget, history>>

-----------------------------------------------------------------------------
LinkFails ==
  /\ link = "up"
  /\ link' \in Faults
  /\ UNCHANGED <<routerVars, modemVars, budget, history>>

RouterStep ==
  \/ RouterConnects \/ RouterReads \/ RouterCommands \/ RouterShutsDown
  \/ RouterBeats \/ RouterTimesOut \/ RouterSeesClose

ModemStep ==
  \/ ModemTakesConnection \/ ModemReads \/ ModemCommands \/ ModemAnswersLink
  \/ ModemShutsDown \/ ModemBeats \/ ModemTimesOut \/ ModemSeesClose

Next == RouterStep \/ ModemStep \/ LinkFails

Spec == Init /\ [][Next]_vars

(* Fairness: each session task reads its socket, notices a close and fires  *)
(* its due timers; the daemon steps a fresh machine at once; a deferred     *)
(* link request is answered (the adapter's answer or its timeout).  The     *)
(* applications and the link owe nothing.                                   *)
Fairness ==
  /\ WF_vars(RouterConnects)
  /\ WF_vars(RouterReads)
  /\ WF_vars(RouterTimesOut)
  /\ WF_vars(RouterSeesClose)
  /\ WF_vars(ModemTakesConnection)
  /\ WF_vars(ModemReads)
  /\ WF_vars(ModemTimesOut)
  /\ WF_vars(ModemSeesClose)
  /\ WF_vars(ModemAnswersLink)

FairSpec == Spec /\ Fairness

-----------------------------------------------------------------------------
(* Safety.                                                                  *)

Settled ==
  /\ link = "up"
  /\ rState = "InSession" /\ mState = "InSession"
  /\ toRouter = <<>> /\ toModem = <<>>

\* The two sides agree on the destinations: on which are up, on every metric of
\* each and, unless an address was advertised for two of them, on every address
\* (else the router knows no address the modem does not report).
DestinationsAgree ==
  /\ rUp = mAnnounced
  /\ \A m \in rUp : /\ rMetrics[m] = mMetrics[m]
                    /\ rAddrs[m] \subseteq mAddrs[m]
                    /\ contested \/ rAddrs[m] = mAddrs[m]

\* Each side's picture of the other's session (metrics, addresses) is the
\* other's own.
SessionDataAgrees ==
  /\ rSessionMetrics = mSessionMetrics
  /\ rMetricTypes = Supplied(InitialMetrics)
  /\ rPeerAddrs = mLocalAddrs
  /\ mPeerAddrs = rLocalAddrs

\* No request is open, except the link requests the modem has deferred.
NoLeakedRequest ==
  /\ rTxSession = Idle /\ mTxSession = Idle
  /\ \A m \in MAC :
       /\ mTxDest[m] = Idle
       /\ rTxDest[m] = IF m \in mPendingLink THEN "LinkCharacteristics" ELSE Idle

\* Whenever nothing is in flight the two sides agree on the destinations and on
\* each other's session: the coalesced updates, session-wide updates,
\* withdrawals and announces lose and resurrect nothing in any order.  And no
\* slot is leaked, which would leave its destination Busy for the rest of the
\* session.
SettledSidesAgree ==
  Settled => DestinationsAgree /\ SessionDataAgrees /\ NoLeakedRequest

\* Two conforming sides never find the other at fault, except when requests of
\* the same scope crossed on the wire (then the peer's request is unexpected,
\* doc/architecture.md 5.7): no invalid data, no unknown destination, ever.
NoFalseAlarm ==
  \A reason \in {rReason, mReason} :
    /\ reason \notin {"INVALID_DATA", "INVALID_DESTINATION", "UNKNOWN_MESSAGE"}
    /\ reason = "UNEXPECTED_MESSAGE" => crossed

\* A termination one side started ends both with the reason that side gave, on a
\* working link with timely messages.
OneSidedTerminationAgrees ==
  (Timely /\ link = "up" /\ rState = "Terminated" /\ mState = "Terminated") =>
    /\ (rReason # "SUCCESS" /\ mReason = "SUCCESS") => rDown = rReason /\ mDown = rReason
    /\ (mReason # "SUCCESS" /\ rReason = "SUCCESS") => mDown = mReason /\ rDown = mReason

-----------------------------------------------------------------------------
(* Liveness.                                                                *)

\* When one side terminates or has ended, or the link has failed, both sessions
\* end, even when the peer never answers or terminates at the same time: no
\* side waits for ever, nor is left in a session without a peer.  They stay
\* ended, and on a working link with the reason of the side that started it.
SessionsEndTogether ==
  (\/ rState \in {"Terminating", "Terminated"}
   \/ mState \in {"Terminating", "Terminated"}
   \/ link # "up") ~>
     [](rState = "Terminated" /\ mState = "Terminated" /\ OneSidedTerminationAgrees)

\* Every request is answered or the session leaves the in-session state: no
\* command is left waiting for ever.
RequestsComplete ==
  /\ rTxSession # Idle ~> (rTxSession = Idle \/ rState # "InSession")
  /\ mTxSession # Idle ~> (mTxSession = Idle \/ mState # "InSession")
  /\ \A m \in MAC :
       /\ rTxDest[m] # Idle ~> (rTxDest[m] = Idle \/ rState # "InSession")
       /\ mTxDest[m] # Idle ~> (mTxDest[m] = Idle \/ mState # "InSession")
=============================================================================
