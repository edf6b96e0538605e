--------------------------- MODULE RouterAnyPeer ---------------------------
(***************************************************************************)
(* The router's machine against an arbitrary peer.  The peer may send any  *)
(* message of FromModem at any time, send bytes that do not decode, read   *)
(* what the router sent whenever it likes, and close the connection.       *)
(***************************************************************************)
EXTENDS RouterSession

CONSTANTS
  FromModem,   \* what the peer may send
  MaxToModem   \* bound: messages it leaves unread before the router blocks

ASSUME RouterPeer == FromModem \subseteq Message /\ MaxToModem \in Nat

RouterRoom == Len(toModem) < MaxToModem

RouterApp ==
  \/ \E mac \in MAC : RouterDestCommand(mac)
  \/ \E ch \in AddressChanges : RouterAppSessionAddresses(ch)
  \/ RouterAppShutdown("SHUTTING_DOWN")

RouterPeerReads ==
  /\ toModem # <<>>
  /\ toModem' = Tail(toModem)
  /\ UNCHANGED <<rControl, rTx, rDests, rPeer, rLocalAddrs>>

RouterNext ==
  \/ RouterRoom /\ RouterTcpConnected
  \/ RouterRoom /\ \E msg \in FromModem : RouterRecv(msg)
  \/ RouterRoom /\ RouterDecodeError
  \/ RouterRoom /\ RouterApp
  \/ RouterRoom /\ RouterHeartbeatTick
  \/ RouterRoom /\ RouterDeadline
  \/ RouterTcpClosed
  \/ RouterPeerReads

RouterSpec == RouterInit /\ [][RouterNext]_routerVars
=============================================================================
