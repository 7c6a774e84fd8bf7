------------------------------ MODULE MCProbe -------------------------------
(* Two overlapping attempts on one textfile, responses of two bytes. *)
EXTENDS Probe, TLC

CONSTANTS a1, a2

TwoAttempts == {a1, a2}

Interchangeable == Permutations(TwoAttempts)
=============================================================================
