--------------------------- MODULE MCRouterBinary ---------------------------
(* The router's driver in discovery mode, with two endpoints, one attempt at *)
(* a time and a history of one; and what it makes of each offer of up to     *)
(* three connection points, over an IPv4 and an IPv6 address and two ports.  *)
(* Which endpoints an offer has does not depend on the driver, so an offer   *)
(* is looked at first, by itself.                                            *)
EXTENDS ReconnectDriver, OfferEndpoints

CONSTANTS t1, t2, a4, a6

MCTracker == {t1, t2}
MCOffers == {<<1>>, <<2>>, <<1, 2>>}
MCIpv4 == {a4}
MCIpv6 == {a6}

\* The offer is done with, and the driver runs.
OfferHandled ==
  /\ result \in {"ignored", "connected", "failed"}
  /\ use_tls' = FALSE /\ offer' = <<>> /\ from' = a4
  /\ endpoints' = <<>> /\ tried' = <<>> /\ result' = "none"
  /\ UNCHANGED driverVars

BinaryInit == DriverInit /\ OfferInit

BinaryNext ==
  \/ OfferNext /\ UNCHANGED driverVars
  \/ OfferHandled
  \/ result = "none" /\ DriverNext /\ UNCHANGED offerVars

BinarySpec == BinaryInit /\ [][BinaryNext]_<<driverVars, offerVars>>
=============================================================================
