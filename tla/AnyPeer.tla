------------------------------ MODULE AnyPeer -------------------------------
(***************************************************************************)
(* The router's machine and the modem's, each alone against an arbitrary   *)
(* peer.  The two share nothing, so one rests while the other runs.        *)
(***************************************************************************)
EXTENDS RouterAnyPeer, ModemAnyPeer

AnyPeerVars == <<routerVars, modemVars>>

AnyPeerInit == RouterInit /\ ModemInit

AnyPeerNext ==
  \/ ModemInit /\ RouterNext /\ UNCHANGED modemVars
  \/ RouterInit /\ ModemNext /\ UNCHANGED routerVars

AnyPeerSpec == AnyPeerInit /\ [][AnyPeerNext]_AnyPeerVars

-----------------------------------------------------------------------------
\* Every state that waits for the peer has exactly the deadline that ends the
\* wait, and no timer of an earlier state survives into a later one, although
\* arming and cancelling are spread over a dozen arms of each step function.
TimersMatchState == RouterTimersMatchState /\ ModemTimersMatchState

\* What the expect and index expressions of the arms rely on, whatever the peer
\* sends: the destination of an open request exists where its response needs it
\* and does not where the response creates it.
RequestsMatchDestinations ==
  RouterRequestsMatchDestinations /\ ModemRequestsMatchDestinations

\* Once a side has sent a Session Termination, or has ended, it sends nothing
\* more, and a session that has ended keeps the reason it reported.
QuietAfterTermination == RouterQuietAfterTermination /\ ModemQuietAfterTermination
=============================================================================
