----------------------------- MODULE MCSession -----------------------------
(* Instances of DlepSession: destinations m1 and m2, address a1,            *)
(* the metric items "rate" (mandatory) and "mtu" (optional).                *)
EXTENDS DlepSession, TLC

CONSTANTS m1, m2, a1

OneMac == {m1}
TwoMacs == {m1, m2}
NoAddr == {}
OneAddr == {a1}
MCMetricItem == {"rate", "mtu"}
MCMandatory == {"rate"}
MCMetricValue == {1, 2}

Full1 == [i \in MCMetricItem |-> 1]
Rate1 == [i \in MCMetricItem |-> IF i = "rate" THEN 1 ELSE Unset]
Rate2 == [i \in MCMetricItem |-> IF i = "rate" THEN 2 ELSE Unset]
Full2 == [i \in MCMetricItem |-> 2]

SupplyMany == {Rate2, Full2}
SupplyOne == {Rate1}
NoUpdates == {}
AddOrRemove == {[added |-> {a1}, removed |-> {}], [added |-> {}, removed |-> {a1}]}
WithOrWithout == {{}, {a1}}
Without == {{}}
BothSides == {"router", "modem"}
AllFaults == {"reset", "cut"}
None == {}

\* Nothing tells one destination from another.
MacSymmetry == Permutations(TwoMacs)
=============================================================================
