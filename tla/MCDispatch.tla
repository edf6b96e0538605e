----------------------------- MODULE MCDispatch -----------------------------
(* Two sessions, and two calls in flight at once, against channels of one. *)
EXTENDS CommandDispatch, TLC

CONSTANTS s1, s2, c1, c2

MCSession == {s1, s2}
MCCall == {c1, c2}
=============================================================================
