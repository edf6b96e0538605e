---------------------------- MODULE ModemAnyPeer ----------------------------
(***************************************************************************)
(* The modem's machine against an arbitrary peer: the counterpart of       *)
(* RouterAnyPeer.                                                          *)
(***************************************************************************)
EXTENDS ModemSession

CONSTANTS
  FromRouter,  \* what the peer may send
  MaxToRouter  \* bound: messages the peer leaves unread before the modem blocks

ASSUME ModemPeer == FromRouter \subseteq Message /\ MaxToRouter \in Nat

ModemRoom == Len(toRouter) < MaxToRouter

ModemApp ==
  \/ \E mac \in MAC, supplied \in Supply, addrs \in SUBSET Addr :
       ModemAppAddDestination(mac, supplied, addrs)
  \/ \E mac \in MAC, supplied \in Supply : ModemAppUpdateMetrics(mac, supplied)
  \/ \E mac \in MAC, ch \in AddressChanges : ModemAppUpdateAddresses(mac, ch)
  \/ \E mac \in MAC : ModemAppDropDestination(mac)
  \/ \E mac \in MAC, status \in Status, supplied \in Supply \cup {NoMetrics} :
       ModemAppLinkCharacteristicsResponse(mac, status, supplied)
  \/ \E supplied \in Supply : ModemAppSessionUpdate(supplied)
  \/ \E ch \in AddressChanges : ModemAppSessionAddresses(ch)
  \/ ModemAppShutdown("SHUTTING_DOWN")

ModemPeerReads ==
  /\ toRouter # <<>>
  /\ toRouter' = Tail(toRouter)
  /\ UNCHANGED <<mControl, mTx, mDests, mPendingLink, mPeer>>

ModemNext ==
  \/ ModemTcpAccepted
  \/ ModemRoom /\ \E msg \in FromRouter : ModemRecv(msg)
  \/ ModemRoom /\ ModemDecodeError
  \/ ModemRoom /\ ModemApp
  \/ ModemRoom /\ ModemHeartbeatTick
  \/ ModemRoom /\ ModemDeadline
  \/ ModemTcpClosed
  \/ ModemPeerReads

ModemSpec == ModemInit /\ [][ModemNext]_modemVars
=============================================================================
