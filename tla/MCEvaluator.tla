---------------------------- MODULE MCEvaluator -----------------------------
(* Two connections for one permit in each process.  They still meet at the   *)
(* worker, when the frontend gives the first one up.                         *)
EXTENDS Evaluator

CONSTANTS c1, c2

MCConnections == {c1, c2}
=============================================================================
