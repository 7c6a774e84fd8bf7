------------------------------ MODULE Custody ------------------------------
(***************************************************************************)
(* What an unlock promises about the credential, whatever the providers,   *)
(* the TPM and the clock do: it is released at most once, with a quorum of *)
(* network shares and the TPM factor, and never after the deadline.  No    *)
(* share is collected once the quorum is there, nothing happens after the  *)
(* outcome, and the TPM factor is taken only after the quorum.             *)
(***************************************************************************)
CONSTANTS
  Leaves,   \* the network leaves
  Quorums   \* the sets of leaves that satisfy the policy

VARIABLES
  shares,   \* the leaves whose share authenticated
  tpm,      \* the TPM factor authenticated
  late,     \* the deadline has passed
  outcome   \* "open", "released" or "refused"

vars == <<shares, tpm, late, outcome>>

Init ==
  /\ shares = {}
  /\ tpm = FALSE
  /\ late = FALSE
  /\ outcome = "open"

Expire ==
  /\ outcome = "open"
  /\ ~late
  /\ late' = TRUE
  /\ UNCHANGED <<shares, tpm, outcome>>

\* A share may be the one whose failure to reconstruct ends the operation, and
\* the last share, when it is not enough, ends it too.
Collect ==
  /\ outcome = "open"
  /\ shares \notin Quorums
  /\ \E p \in Leaves \ shares : shares' = shares \cup {p}
  /\ outcome' \in {"open", "refused"}
  /\ UNCHANGED <<tpm, late>>

TakeTpm ==
  /\ outcome = "open"
  /\ shares \in Quorums
  /\ ~tpm
  /\ tpm' = TRUE
  /\ UNCHANGED <<shares, late, outcome>>

Release ==
  /\ outcome = "open"
  /\ shares \in Quorums
  /\ tpm
  /\ ~late
  /\ outcome' = "released"
  /\ UNCHANGED <<shares, tpm, late>>

Refuse ==
  /\ outcome = "open"
  /\ outcome' = "refused"
  /\ UNCHANGED <<shares, tpm, late>>

Next == Expire \/ Collect \/ TakeTpm \/ Release \/ Refuse

Spec == Init /\ [][Next]_vars
=============================================================================
