---------------------------- MODULE MCReconnect ----------------------------
(* The driver with one static peer and room for one session.                *)
EXTENDS ReconnectDriver

CONSTANTS t1, t2

MCOneTracker == {t1}
=============================================================================
