----------------------------- MODULE PolicyPlan -----------------------------
(***************************************************************************)
(* The decision a compiled network plan makes (leelo-policy verified.rs).  *)
(* A plan is a sequence of gates in postorder; a threshold names earlier   *)
(* gates.  Responses are the set of leaf positions that answered.          *)
(* Positions are counted from 1 here and from 0 in the code.               *)
(***************************************************************************)
EXTENDS Naturals, Sequences, FiniteSets

Leaf(response) == [kind |-> "leaf", response |-> response]

Threshold(required, children) ==
  [kind |-> "threshold", required |-> required, children |-> children]

\* An edge to a gate that has no value yet invalidates the whole threshold.
evaluate_gate(gate, values, responses) ==
  IF gate.kind = "leaf" THEN gate.response \in responses
  ELSE
    /\ gate.required # 0
    /\ gate.required <= Len(gate.children)
    /\ \A i \in DOMAIN gate.children : gate.children[i] <= Len(values)
    /\ Cardinality({i \in DOMAIN gate.children : values[gate.children[i]]})
         >= gate.required

\* values after the first n gates, one value per gate
evaluated_prefix(gates, responses) ==
  LET prefix[n \in 0..Len(gates)] ==
        IF n = 0 THEN <<>>
        ELSE LET previous == prefix[n - 1]
             IN  Append(previous, evaluate_gate(gates[n], previous, responses))
  IN  prefix[Len(gates)]

evaluate_network(gates, responses) ==
  Len(gates) > 0 /\ evaluated_prefix(gates, responses)[Len(gates)]

\* The sets of leaf positions that satisfy a plan with n leaves.
SatisfyingSets(gates, n) ==
  {responses \in SUBSET (1..n) : evaluate_network(gates, responses)}
=============================================================================
