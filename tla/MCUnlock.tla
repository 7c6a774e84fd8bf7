------------------------------ MODULE MCUnlock ------------------------------
(* Leaf 1 together with two of leaves 2, 3 and 4, asked two at a time: leaf  *)
(* 1 can be the last answer, so surplus shares and late answers both happen. *)
EXTENDS Unlock, PolicyPlan

MCGates == <<Leaf(1), Leaf(2), Leaf(3), Leaf(4),
             Threshold(2, <<2, 3, 4>>), Threshold(2, <<1, 5>>)>>

MCQuorums == SatisfyingSets(MCGates, N)
=============================================================================
