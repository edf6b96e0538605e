--------------------------- MODULE MCRouterDaemon ---------------------------
(* Three attempts with slots for two, and two calls that start discovery.   *)
EXTENDS RouterDaemon, TLC

CONSTANTS a1, a2, a3, d1, d2

MCAttempt == {a1, a2, a3}
MCStarter == {d1, d2}
=============================================================================
