------------------------------ MODULE MCRadio ------------------------------
(* Instances of the radio bridge.                                           *)
EXTENDS RadioBridge

CONSTANTS m1, s1, s2

OneField == {"rate"}
Configured == [f \in Field |-> 0]
=============================================================================
