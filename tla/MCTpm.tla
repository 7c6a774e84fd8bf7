------------------------------- MODULE MCTpm -------------------------------
(***************************************************************************)
(* Two selected PCRs, one that is not and one that is not even counted,    *)
(* each extended at most twice.                                            *)
(***************************************************************************)
EXTENDS Tpm

Indices == 0..3
Selected == {0, 2}
Uncounted == {3}
=============================================================================
