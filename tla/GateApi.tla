------------------------------ MODULE GateApi ------------------------------
(***************************************************************************)
(* Both gates under any sequence of calls a caller could make: their       *)
(* methods are public, take no proof of what they are told and may be      *)
(* called in any order, repeatedly, and with another operation's context.  *)
(***************************************************************************)
EXTENDS Gates, Sequences

VARIABLE calls   \* history: the calls the release gate accepted, in order

gateVars == <<session, gate, calls>>

Contexts == {"own", "foreign"}

Order == <<"network", "tpm", "payload", "release">>

\* An accepted call: the method, the context it was called with, and what its
\* flag said (live of tpm, within_deadline of release; the others have none).
Calls == [evidence : {"network", "tpm", "payload", "release"},
          context : Contexts, flag : BOOLEAN]

Accept(evidence, context, flag) ==
  calls' = Append(calls, [evidence |-> evidence, context |-> context, flag |-> flag])

InitGates ==
  /\ \E require_live \in BOOLEAN :
       /\ session = new_session(require_live)
       /\ gate = new_release(require_live)
  /\ calls = <<>>

\* Session methods ----------------------------------------------------------

AuthenticateEnvelope ==
  /\ authenticate_envelope_error(session) = "Ok"
  /\ session' = authenticate_envelope(session)
  /\ UNCHANGED <<gate, calls>>

CallAcceptNetwork(id) ==
  /\ accept_network_error(session, id) = "Ok"
  /\ session' = accept_network(session, id)
  /\ UNCHANGED <<gate, calls>>

ConfirmTpm ==
  /\ require_authenticated(session) = "Ok"
  /\ session' = confirm_tpm(session)
  /\ UNCHANGED <<gate, calls>>

ConfirmLive ==
  /\ require_authenticated(session) = "Ok"
  /\ session' = confirm_live_authorization(session)
  /\ UNCHANGED <<gate, calls>>

AuthenticateRoot ==
  /\ authenticate_root_error(session) = "Ok"
  /\ session' = authenticate_root(session)
  /\ UNCHANGED <<gate, calls>>

SessionRelease ==
  /\ session_release_error(session) = "Ok"
  /\ session' = session_release(session)
  /\ UNCHANGED <<gate, calls>>

\* Release gate methods -----------------------------------------------------

Network(context) ==
  /\ release_network(gate, context)
  /\ gate' = advance(gate, 0)
  /\ Accept("network", context, FALSE)
  /\ UNCHANGED session

Tpm(context, live) ==
  /\ release_tpm(gate, context, live)
  /\ gate' = advance(gate, 1)
  /\ Accept("tpm", context, live)
  /\ UNCHANGED session

Payload(context) ==
  /\ release_payload(gate, context)
  /\ gate' = advance(gate, 2)
  /\ Accept("payload", context, FALSE)
  /\ UNCHANGED session

GateRelease(context, within_deadline) ==
  /\ release_release(gate, context, within_deadline)
  /\ gate' = advance(gate, 3)
  /\ Accept("release", context, within_deadline)
  /\ UNCHANGED session

NextGates ==
  \/ AuthenticateEnvelope
  \/ \E id \in 0..(N + 1) : CallAcceptNetwork(id)
  \/ ConfirmTpm
  \/ ConfirmLive
  \/ AuthenticateRoot
  \/ SessionRelease
  \/ \E context \in Contexts : Network(context)
  \/ \E context \in Contexts, live \in BOOLEAN : Tpm(context, live)
  \/ \E context \in Contexts : Payload(context)
  \/ \E context \in Contexts, within \in BOOLEAN : GateRelease(context, within)

GatesSpec == InitGates /\ [][NextGates]_gateVars

-----------------------------------------------------------------------------
\* Both gates keep the shape of their Rust structures.
GatesTypeOK ==
  /\ session \in Sessions
  /\ gate \in ReleaseStates
  /\ calls \in Seq(Calls)

\* However its methods are called, a PolicySession that says released has an
\* authenticated envelope, TPM factor and root, live authorization where the
\* mode needs it, and a set of recorded responses that satisfies the policy:
\* the flag network_satisfied never outlives or precedes its responses.
SessionReleaseJustified ==
  /\ session.network_satisfied <=> session.responses \in Quorums
  /\ session.released =>
       /\ session.envelope_authenticated
       /\ session.tpm_authenticated
       /\ session.root_authenticated
       /\ session.require_live => session.live_authorized
       /\ session.responses \in Quorums

\* Once a PolicySession has released, no call changes it: a second release and
\* a late observation are both refused.
SessionFrozen == [][session.released => session' = session]_session

\* The phase of the release gate counts evidence it really accepted: network,
\* TPM, payload and release, once each and in this order, every one for the
\* gate's own context, the TPM's live where the mode needs it and the release
\* before the deadline.
GateReleaseJustified ==
  /\ Len(calls) = gate.phase
  /\ \A i \in 1..Len(calls) :
       /\ calls[i].evidence = Order[i]
       /\ calls[i].context = gate.context
       /\ (i = 2 /\ gate.require_live) \/ i = 4 => calls[i].flag
=============================================================================
