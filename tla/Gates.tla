------------------------------- MODULE Gates -------------------------------
(***************************************************************************)
(* The two release gates an unlock passes through, as values and methods.  *)
(*                                                                         *)
(*  - session: PolicySession of leelo-policy (lib.rs, verified.rs), which   *)
(*    records authenticated observations and permits one release;          *)
(*  - gate: ReleaseState of leelo-engine (release.rs), which checks the    *)
(*    operation's context and the order network, tpm, payload, release.    *)
(*                                                                         *)
(* A method m that can be refused is a pair: m_error(s) is the refusal or  *)
(* "Ok", and m(s) the state after an accepted call.  Every refusal leaves  *)
(* the state as it was.                                                    *)
(***************************************************************************)
EXTENDS Naturals

CONSTANTS
  N,        \* number of network leaves of the compiled policy
  Quorums   \* the sets of leaves for which evaluate_network is true

Leaves == 1..N

\* compile_node admits only thresholds in 1..Len(children), so the decision is
\* monotone, false with no response and true with all of them.
ASSUME LeavesAssumption == N \in Nat \ {0}
ASSUME QuorumAssumption ==
  /\ Quorums \subseteq SUBSET Leaves
  /\ {} \notin Quorums
  /\ Leaves \in Quorums
  /\ \A S \in Quorums : \A T \in SUBSET Leaves : S \subseteq T => T \in Quorums

VARIABLES
  session,  \* PolicySession
  gate      \* ReleaseState

-----------------------------------------------------------------------------
(* PolicySession                                                           *)

Sessions ==
  [require_live : BOOLEAN, responses : SUBSET Leaves,
   envelope_authenticated : BOOLEAN, tpm_authenticated : BOOLEAN,
   network_satisfied : BOOLEAN, live_authorized : BOOLEAN,
   root_authenticated : BOOLEAN, released : BOOLEAN]

new_session(require_live) ==
  [require_live |-> require_live, responses |-> {},
   envelope_authenticated |-> FALSE, tpm_authenticated |-> FALSE,
   network_satisfied |-> FALSE, live_authorized |-> FALSE,
   root_authenticated |-> FALSE, released |-> FALSE]

authenticate_envelope_error(s) == IF s.released THEN "AlreadyReleased" ELSE "Ok"

authenticate_envelope(s) == [s EXCEPT !.envelope_authenticated = TRUE]

require_authenticated(s) ==
  IF s.released THEN "AlreadyReleased"
  ELSE IF s.envelope_authenticated THEN "Ok"
  ELSE "EnvelopeNotAuthenticated"

\* record_response refuses a position that already answered.
accept_network_error(s, id) ==
  IF require_authenticated(s) # "Ok" THEN require_authenticated(s)
  ELSE IF id \notin Leaves THEN "UnknownNetworkLeaf"
  ELSE IF id \in s.responses THEN "DuplicateResponse"
  ELSE "Ok"

\* A mistake: the decision is taken before the response is recorded.
accept_network_stale(s, id) ==
  [s EXCEPT !.responses = @ \cup {id},
            !.network_satisfied = s.responses \in Quorums]

accept_network(s, id) ==
  [s EXCEPT !.responses = @ \cup {id},
            !.network_satisfied = (s.responses \cup {id}) \in Quorums]

confirm_tpm(s) == [s EXCEPT !.tpm_authenticated = TRUE]

confirm_live_authorization(s) == [s EXCEPT !.live_authorized = TRUE]

can_reconstruct(s) ==
  /\ s.envelope_authenticated
  /\ s.tpm_authenticated
  /\ s.network_satisfied
  /\ s.require_live => s.live_authorized
  /\ ~s.released

authenticate_root_error(s) ==
  IF require_authenticated(s) # "Ok" THEN require_authenticated(s)
  ELSE IF can_reconstruct(s) THEN "Ok"
  ELSE "FactorsNotSatisfied"

authenticate_root(s) == [s EXCEPT !.root_authenticated = TRUE]

\* release and verified::try_release; can_release adds nothing to these tests.
session_release_error(s) ==
  IF require_authenticated(s) # "Ok" THEN require_authenticated(s)
  ELSE IF ~can_reconstruct(s) THEN "FactorsNotSatisfied"
  ELSE IF ~s.root_authenticated THEN "RootNotAuthenticated"
  ELSE "Ok"

session_release(s) == [s EXCEPT !.released = TRUE]

-----------------------------------------------------------------------------
(* ReleaseState: phases 0 (new) to 4 (released), for one context.          *)

ReleaseStates == [context : {"own"}, phase : 0..4, require_live : BOOLEAN]

new_release(require_live) ==
  [context |-> "own", phase |-> 0, require_live |-> require_live]

\* A mistake: evidence of another operation is accepted.
advances_foreign(g, context, expected, live) ==
  /\ g.phase = expected
  /\ ~(expected = 1 /\ g.require_live /\ ~live)

\* A mistake: the order of the evidence is not checked.
advances_unordered(g, context, expected, live) ==
  /\ g.context = context
  /\ ~(expected = 1 /\ g.require_live /\ ~live)

\* advance accepts evidence for exactly this context, in exactly this order.
advances(g, context, expected, live) ==
  /\ g.context = context
  /\ g.phase = expected
  /\ ~(expected = 1 /\ g.require_live /\ ~live)

advance(g, expected) == [g EXCEPT !.phase = expected + 1]

\* network, tpm and payload call advance with their own phase; release refuses
\* before it looks at the phase when the deadline has passed.
release_network(g, context) == advances(g, context, 0, FALSE)

release_tpm(g, context, live) == advances(g, context, 1, live)

release_payload(g, context) == advances(g, context, 2, FALSE)

release_release(g, context, within_deadline) ==
  within_deadline /\ advances(g, context, 3, FALSE)
=============================================================================
