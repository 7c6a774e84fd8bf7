----------------------------- MODULE MCGateApi -----------------------------
(* Two of three leaves, one of them behind a nested threshold.             *)
EXTENDS GateApi, PolicyPlan

MCGates == <<Leaf(1), Leaf(2), Leaf(3),
             Threshold(1, <<2, 3>>), Threshold(2, <<1, 4>>)>>

MCQuorums == SatisfyingSets(MCGates, N)
=============================================================================
