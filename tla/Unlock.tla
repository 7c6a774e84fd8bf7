------------------------------- MODULE Unlock -------------------------------
(***************************************************************************)
(* One unlock operation of leelo-engine: UnlockOperation::begin and run    *)
(* (recovery.rs), the concurrent network recovery they call                *)
(* (recover_network_observed, lib.rs) and the caller-owned OperationReport *)
(* (observation.rs).                                                       *)
(*                                                                         *)
(* The operation is one thread; what interleaves with it is the clock and  *)
(* the providers.  Every action reads the clock at most once.  Provider    *)
(* futures live in a FuturesUnordered: a future is queued when it is       *)
(* pushed, started when it is first polled, and finished when its answer   *)
(* is taken; an answer is taken in the poll that produces it.              *)
(*                                                                         *)
(* The environment of the operation is fixed when it starts:               *)
(*   healthy  the providers that answer within their own response budget,  *)
(*            with a share that authenticates;                             *)
(*   fault    the one thing that is wrong outside the network, if any;     *)
(*   live     whether the TPM grants a fresh session authorization.        *)
(***************************************************************************)
EXTENDS Gates, Sequences, FiniteSets

CONSTANTS
  MaxOperations,  \* MAX_NETWORK_OPERATIONS
  Kinds           \* the NetworkFailure categories in use, "Timeout" included

ASSUME OperationsAssumption == MaxOperations \in Nat \ {0}
ASSUME KindsAssumption == "Timeout" \in Kinds /\ "none" \notin Kinds

Providers == Leaves   \* validate_descriptor: networks are the leaves, in order

Faults == {"none", "signature", "target", "mode", "runtime", "shares", "tpm",
           "tpm_leaf", "payload"}

Outcomes == {"absent", "NotStarted", "Authenticated", "Failed",
             "CanceledDeadline", "CanceledQuorum"}

Errors == {"Envelope", "TargetMismatch", "UnsupportedMode", "Runtime",
           "DeadlineExceeded", "InsufficientFactors", "InconsistentShares",
           "Policy", "Tpm", "Crypto"}

Stages == {"Validate", "Network", "TpmUnseal", "AuthenticatePayload"}

VARIABLES
  healthy, fault, live,   \* the environment
  expired,    \* Instant::now() >= deadline
  pc,         \* where the operation is
  queued,     \* how many of descriptor.networks have been pushed
  started,    \* providers whose future has been polled (starts[i] is set)
  pending,    \* providers whose future is in the FuturesUnordered
  available,  \* providers whose share authenticated
  failures,   \* ProviderFailure kind of each provider, or "none"
  report,     \* OperationReport.providers: outcome of each provider
  stage,      \* OperationReport.active_stage
  stages,     \* OperationReport.stages: the closed stages
  result      \* what the caller gets

environment == <<healthy, fault, live>>
network == <<queued, started, pending, available, failures>>
vars == <<environment, expired, pc, session, gate, network, report, stage,
          stages, result>>

NoFailures == [p \in Providers |-> "none"]

Running == [status |-> "running", failures |-> NoFailures]

\* report.begin(Phase::Recover) has emptied the report and entered Validate.
Init ==
  /\ healthy \in SUBSET Providers
  /\ fault \in Faults
  /\ live \in BOOLEAN
  /\ expired = FALSE
  /\ pc = "begin"
  /\ \E attested \in BOOLEAN :
       /\ session = new_session(attested)
       /\ gate = new_release(attested)
  /\ queued = 0
  /\ started = {}
  /\ pending = {}
  /\ available = {}
  /\ failures = NoFailures
  /\ report = [p \in Providers |-> "absent"]
  /\ stage = "Validate"
  /\ stages = <<>>
  /\ result = Running

-----------------------------------------------------------------------------
\* OperationReport::close_stage records the active stage and its failure.
close_stage(failed) ==
  stages' = Append(stages, [stage |-> stage, failed |-> failed])

\* OperationReport::enter closes the active stage and opens the next one.
enter(next) ==
  /\ close_stage(FALSE)
  /\ stage' = next

\* unlock_observed: report.finish closes the active stage with the outcome.
finish(status, reported) ==
  /\ pc' = "done"
  /\ result' = [status |-> status, failures |-> reported]
  /\ close_stage(status # "Ok")
  /\ UNCHANGED stage

\* check_deadline and policy_error report no provider failures.
fail(error) == finish(error, NoFailures)

policy_error(error) ==
  IF error = "FactorsNotSatisfied" THEN "InsufficientFactors" ELSE "Policy"

\* A mistake: an answer that was already reported is canceled again.
cancel_observations_again(observed, outcome) ==
  [p \in Providers |-> IF p \in started THEN outcome ELSE observed[p]]

\* cancel_observations touches the providers that were polled and have no
\* outcome yet; a future that was queued and never polled stays NotStarted.
cancel_observations(observed, outcome) ==
  [p \in Providers |->
     IF observed[p] = "NotStarted" /\ p \in started THEN outcome ELSE observed[p]]

\* Time passes, until the caller has its result.
Tick ==
  /\ pc # "done"
  /\ ~expired
  /\ expired' = TRUE
  /\ UNCHANGED <<environment, pc, session, gate, network, report, stage, stages,
                 result>>

-----------------------------------------------------------------------------
(* begin: authenticate the envelope and the target before any provider I/O *)

RefuseEnvelope ==
  /\ pc = "begin"
  /\ fault = "signature"
  /\ fail("Envelope")
  /\ UNCHANGED <<environment, expired, session, gate, network, report>>

Begin ==
  /\ pc = "begin"
  /\ fault # "signature"
  /\ report' = [p \in Providers |-> "NotStarted"]
  /\ \/ fault = "target" /\ fail("TargetMismatch") /\ UNCHANGED session
     \/ fault = "mode" /\ fail("UnsupportedMode") /\ UNCHANGED session
     \/ /\ fault \notin {"target", "mode"}
        /\ expired
        /\ fail("DeadlineExceeded")
        /\ UNCHANGED session
     \/ /\ fault \notin {"target", "mode"}
        /\ ~expired
        /\ session' = authenticate_envelope(session)
        /\ pc' = "run"
        /\ UNCHANGED <<stage, stages, result>>
  /\ UNCHANGED <<environment, expired, gate, network>>

-----------------------------------------------------------------------------
(* run: network recovery                                                   *)

NestedRuntime ==
  /\ pc = "run"
  /\ fault = "runtime"
  /\ fail("Runtime")
  /\ UNCHANGED <<environment, expired, session, gate, network, report>>

\* The first MAX_NETWORK_OPERATIONS bindings are pushed, none is polled.
StartNetwork ==
  /\ pc = "run"
  /\ fault # "runtime"
  /\ enter("Network")
  /\ queued' = IF N < MaxOperations THEN N ELSE MaxOperations
  /\ pending' = 1..queued'
  /\ pc' = "network"
  /\ UNCHANGED <<environment, expired, session, gate, started, available,
                 failures, report, result>>

\* started_leaf: the first poll of a queued future sets its start.  poll_next
\* may return before it has polled every queued future.
Poll(p) ==
  /\ pc = "network"
  /\ p \in pending \ started
  /\ started' = started \cup {p}
  /\ UNCHANGED <<environment, expired, pc, session, gate, queued, pending,
                 available, failures, report, stage, stages, result>>

\* recover_leaf: the kind of failure, or "none".  A leaf is given the
\* operation's deadline, so past it any provider can time out by itself.
recover_leaf(p) ==
  (IF p \in healthy THEN {"none"} ELSE Kinds)
    \cup (IF expired THEN {"Timeout"} ELSE {})

\* The loop takes the answer of p: report, then recovered or failed.  kind is
\* "none" for an authenticated share.
observe(p, kind) ==
  [report EXCEPT ![p] = IF kind = "none" THEN "Authenticated" ELSE "Failed"]

take(p, kind) ==
  /\ pc = "network"
  /\ p \in pending \cap started
  /\ kind \in recover_leaf(p)
  /\ available' = IF kind = "none" THEN available \cup {p} ELSE available
  /\ failures' = [failures EXCEPT ![p] = kind]
  /\ UNCHANGED <<environment, expired, session, gate, started>>

\* reconstruct can only notice an inconsistent share that is surplus.
Surplus(recovered) == \E q \in recovered : recovered \ {q} \in Quorums

\* The policy is satisfied: pending futures are dropped, their observations
\* closed, and the network share recovered from the authenticated ones.
Satisfy(p, kind) ==
  /\ take(p, kind)
  /\ available' \in Quorums
  /\ pending' = {}
  /\ report' = cancel_observations(observe(p, kind), "CanceledQuorum")
  /\ \/ fault = "shares" /\ Surplus(available') /\ fail("InconsistentShares")
     \/ pc' = "accept" /\ UNCHANGED <<stage, stages, result>>
  /\ UNCHANGED queued

\* A mistake: a finished provider is not replaced by the next one.
Continue_unfilled(p, kind) ==
  /\ take(p, kind)
  /\ available' \notin Quorums
  /\ report' = observe(p, kind)
  /\ pending' = pending \ {p}
  /\ IF pending' = {}
     THEN finish("InsufficientFactors", failures')
     ELSE UNCHANGED <<pc, stage, stages, result>>
  /\ UNCHANGED queued

\* Not satisfied: push the next binding; stop when nothing is pending.
Continue(p, kind) ==
  /\ take(p, kind)
  /\ available' \notin Quorums
  /\ report' = observe(p, kind)
  /\ queued' = IF queued < N THEN queued + 1 ELSE queued
  /\ pending' = (pending \ {p}) \cup ((queued + 1)..queued')
  /\ IF pending' = {}
     THEN finish("InsufficientFactors", failures')
     ELSE UNCHANGED <<pc, stage, stages, result>>

\* A mistake: only the providers that were polled are reported.
timed_out_started(p) ==
  IF p \in started /\ p \notin available /\ failures[p] = "none"
  THEN "Timeout" ELSE failures[p]

\* Every pushed binding without an answer is reported as timed out.
timed_out(p) ==
  IF p <= queued /\ p \notin available /\ failures[p] = "none"
  THEN "Timeout" ELSE failures[p]

\* A mistake: the deadline bounds the wait for the first answer only.
Timeout_first ==
  /\ pc = "network"
  /\ expired
  /\ \A p \in Providers : report[p] = "NotStarted"
  /\ failures' = [p \in Providers |-> timed_out(p)]
  /\ pending' = {}
  /\ report' = cancel_observations(report, "CanceledDeadline")
  /\ finish("DeadlineExceeded", failures')
  /\ UNCHANGED <<environment, expired, session, gate, queued, started, available>>

\* timeout_at: the deadline passed and no answer was ready.  poll_next yields
\* to the timer when futures wake themselves, so some may still be unpolled.
Timeout ==
  /\ pc = "network"
  /\ expired
  /\ failures' = [p \in Providers |-> timed_out(p)]
  /\ pending' = {}
  /\ report' = cancel_observations(report, "CanceledDeadline")
  /\ finish("DeadlineExceeded", failures')
  /\ UNCHANGED <<environment, expired, session, gate, queued, started, available>>

-----------------------------------------------------------------------------
(* run: both gates, the TPM, the payload and the release                   *)

\* for id in available: policy.accept_network(id)?
AcceptNetwork(id) ==
  /\ pc = "accept"
  /\ id \in available \ session.responses
  /\ LET error == accept_network_error(session, id)
     IN  IF error = "Ok"
         THEN /\ session' = accept_network(session, id)
              /\ UNCHANGED <<pc, stage, stages, result>>
         ELSE fail(policy_error(error)) /\ UNCHANGED session
  /\ UNCHANGED <<environment, expired, gate, network, report>>

\* release.network, then the deadline, before the TPM is touched.
CloseNetwork ==
  /\ pc = "accept"
  /\ available \subseteq session.responses
  /\ IF ~release_network(gate, "own")
     THEN fail("Policy") /\ UNCHANGED gate
     ELSE /\ gate' = advance(gate, 0)
          /\ IF expired THEN fail("DeadlineExceeded")
             ELSE enter("TpmUnseal") /\ pc' = "unseal" /\ UNCHANGED result
  /\ UNCHANGED <<environment, expired, session, network, report>>

\* The synchronous TPM call; the clock may run past the deadline during it.
Unseal ==
  /\ pc = "unseal"
  /\ IF fault = "tpm" THEN fail("Tpm")
     ELSE pc' = "unsealed" /\ UNCHANGED <<stage, stages, result>>
  /\ UNCHANGED <<environment, expired, session, gate, network, report>>

\* The deadline check after the TPM call.
CheckUnsealed ==
  /\ pc = "unsealed"
  /\ IF expired THEN fail("DeadlineExceeded")
     ELSE enter("AuthenticatePayload") /\ pc' = "tpm" /\ UNCHANGED result
  /\ UNCHANGED <<environment, expired, session, gate, network, report>>

\* A mistake: the TPM evidence is taken without its live authorization.
TpmEvidence_error_lax == IF fault = "tpm_leaf" THEN "Crypto" ELSE "Ok"

\* TpmEvidence::authenticate
TpmEvidence_error ==
  IF session.require_live /\ ~live THEN "UnsupportedMode"
  ELSE IF fault = "tpm_leaf" THEN "Crypto"
  ELSE "Ok"

\* confirm_live_authorization where the TPM granted it, then confirm_tpm.
confirmed(s) == confirm_tpm(IF live THEN confirm_live_authorization(s) ELSE s)

\* The TPM evidence, through both gates.  A refusal consumes the operation, so
\* what it leaves in the session is never read.
AcceptTpm ==
  /\ pc = "tpm"
  /\ LET error ==
           IF TpmEvidence_error # "Ok" THEN TpmEvidence_error
           ELSE IF require_authenticated(session) # "Ok"
           THEN policy_error(require_authenticated(session))
           ELSE IF release_tpm(gate, "own", live) THEN "Ok"
           ELSE "Policy"
     IN  IF error = "Ok"
         THEN /\ session' = confirmed(session)
              /\ gate' = advance(gate, 1)
              /\ pc' = "payload"
              /\ UNCHANGED <<stage, stages, result>>
         ELSE fail(error) /\ UNCHANGED <<session, gate>>
  /\ UNCHANGED <<environment, expired, network, report>>

\* PayloadEvidence::authenticate opens the payload under the root of the TPM
\* share and the network share, then both gates take the evidence.
OpenPayload ==
  /\ pc = "payload"
  /\ LET error ==
           IF fault \in {"shares", "payload"} THEN "Crypto"
           ELSE IF authenticate_root_error(session) # "Ok"
           THEN policy_error(authenticate_root_error(session))
           ELSE IF release_payload(gate, "own") THEN "Ok"
           ELSE "Policy"
     IN  IF error = "Ok"
         THEN /\ session' = authenticate_root(session)
              /\ gate' = advance(gate, 2)
              /\ pc' = "opened"
              /\ UNCHANGED <<stage, stages, result>>
         ELSE fail(error) /\ UNCHANGED <<session, gate>>
  /\ UNCHANGED <<environment, expired, network, report>>

\* The deadline check before release, and the session's one release.
ReleaseSession ==
  /\ pc = "opened"
  /\ LET error ==
           IF expired THEN "DeadlineExceeded"
           ELSE IF session_release_error(session) # "Ok"
           THEN policy_error(session_release_error(session))
           ELSE "Ok"
     IN  IF error = "Ok"
         THEN /\ session' = session_release(session)
              /\ pc' = "release"
              /\ UNCHANGED <<stage, stages, result>>
         ELSE fail(error) /\ UNCHANGED session
  /\ UNCHANGED <<environment, expired, gate, network, report>>

\* A mistake: the clock is not read again at the release itself.
Release_late ==
  /\ pc = "release"
  /\ IF release_release(gate, "own", TRUE)
     THEN gate' = advance(gate, 3) /\ finish("Ok", failures)
     ELSE fail("Policy") /\ UNCHANGED gate
  /\ UNCHANGED <<environment, expired, session, network, report>>

\* The clock is read once more at the release; a refusal that is not explained
\* by the deadline would be a Policy error.
Release ==
  /\ pc = "release"
  /\ IF release_release(gate, "own", ~expired)
     THEN gate' = advance(gate, 3) /\ finish("Ok", failures)
     ELSE /\ fail(IF expired THEN "DeadlineExceeded" ELSE "Policy")
          /\ UNCHANGED gate
  /\ UNCHANGED <<environment, expired, session, network, report>>

-----------------------------------------------------------------------------
\* The steps the operation's own thread takes without waiting for anyone.
Synchronous ==
  \/ RefuseEnvelope
  \/ Begin
  \/ NestedRuntime
  \/ StartNetwork
  \/ \E id \in Leaves : AcceptNetwork(id)
  \/ CloseNetwork
  \/ Unseal
  \/ CheckUnsealed
  \/ AcceptTpm
  \/ OpenPayload
  \/ ReleaseSession
  \/ Release

\* An answer of provider p is taken.
Answer(p) == \E kind \in Kinds \cup {"none"} : Satisfy(p, kind) \/ Continue(p, kind)

Next ==
  \/ Tick
  \/ Synchronous
  \/ \E p \in Providers : Poll(p) \/ Answer(p)
  \/ Timeout

Spec == Init /\ [][Next]_vars

\* The thread runs and timeout_at fires once the deadline has passed.  The call
\* of the TPM driver is left out: it may block, and nothing interrupts it.
FairSpec ==
  /\ Spec
  /\ WF_vars(pc # "unseal" /\ Synchronous)
  /\ WF_vars(Timeout)

ClockAdvances == WF_vars(Tick)

\* While providers are pending one of them is polled, or answers or fails within
\* its response budget (leelo-net evaluate_before).
ProvidersAnswer == WF_vars(\E p \in Providers : Poll(p) \/ Answer(p))

-----------------------------------------------------------------------------
(* Properties                                                              *)

Steps == {"begin", "run", "network", "accept", "unseal", "unsealed", "tpm",
          "payload", "opened", "release", "done"}

\* The type of the operation's state; a gate phase above 4, a provider outside
\* the descriptor or an unknown status is never stored.
TypeOK ==
  /\ healthy \in SUBSET Providers
  /\ fault \in Faults
  /\ live \in BOOLEAN
  /\ expired \in BOOLEAN
  /\ pc \in Steps
  /\ session \in Sessions
  /\ gate \in ReleaseStates
  /\ queued \in 0..N
  /\ started \in SUBSET Providers
  /\ pending \in SUBSET Providers
  /\ available \in SUBSET Providers
  /\ failures \in [Providers -> Kinds \cup {"none"}]
  /\ report \in [Providers -> Outcomes]
  /\ stage \in Stages
  /\ stages \in Seq([stage : Stages, failed : BOOLEAN])
  /\ result \in [status : {"running", "Ok"} \cup Errors,
                 failures : [Providers -> Kinds \cup {"none"}]]

Answered == {p \in Providers : report[p] \in {"Authenticated", "Failed"}}

Done(statuses) == pc = "done" /\ result.status \in statuses

\* The credential leaves the operation only with all of its evidence: an
\* authenticated quorum that both the session and the network loop agree on,
\* the TPM in the mode the policy demands, the payload, both gates closed, and
\* the clock still before the deadline at the release (UnlockOperation::run).
ReleaseHasEvidence ==
  Done({"Ok"}) =>
    /\ session.responses = available
    /\ available \in Quorums
    /\ available \subseteq healthy
    /\ \A p \in available : report[p] = "Authenticated"
    /\ session.released
    /\ session.root_authenticated
    /\ session.require_live => live
    /\ gate.phase = 4
    /\ ~expired

\* What the operation reports has that cause: an error never blames a part that
\* worked, the internal Policy error is never reached, and a quorum of answering
\* providers is given up only to the deadline.
StatusHasCause ==
  pc = "done" =>
    \/ Done({"Envelope"}) /\ fault = "signature"
    \/ Done({"TargetMismatch"}) /\ fault = "target"
    \/ Done({"UnsupportedMode"})
         /\ (fault = "mode" \/ (session.require_live /\ ~live))
    \/ Done({"Runtime"}) /\ fault = "runtime"
    \/ Done({"DeadlineExceeded"}) /\ expired
    \/ Done({"InsufficientFactors"}) /\ (expired \/ healthy \notin Quorums)
    \/ Done({"InconsistentShares"}) /\ fault = "shares"
    \/ Done({"Tpm"}) /\ fault = "tpm"
    \/ Done({"Crypto"}) /\ fault \in {"shares", "tpm_leaf", "payload"}
    \/ Done({"Ok"}) /\ fault = "none"

\* "No pending network operation survives the recovery phase": outside the
\* network loop nothing is pending, and the TPM is touched, or blamed, only
\* after a quorum was recorded in the session and in the gate.
NetworkPrecedesTpm ==
  /\ pc # "network" => pending = {}
  /\ \/ pc \in {"unseal", "unsealed", "tpm", "payload", "opened", "release"}
     \/ Done({"Tpm", "Crypto", "Ok"})
     => /\ available \in Quorums
        /\ session.responses = available
        /\ session.network_satisfied
        /\ gate.phase >= 1

\* The concurrency window of recover_network_observed: exactly the pushed and
\* unanswered bindings are pending, never more than MAX_NETWORK_OPERATIONS, and
\* fewer only when every binding has been pushed.
WindowIsFull ==
  pc = "network" =>
    /\ pending = (1..queued) \ Answered
    /\ pending # {}
    /\ Cardinality(pending) <= MaxOperations
    /\ queued < N => Cardinality(pending) = MaxOperations

\* The failures handed to the caller: on success exactly the providers that
\* failed, on a network deadline every pushed provider without a share, with
\* InsufficientFactors all that failed once everyone was asked, otherwise none.
DiagnosticsExact ==
  pc = "done" =>
    LET named == {p \in Providers : result.failures[p] # "none"}
        failed == {p \in Providers : report[p] = "Failed"}
    IN  \/ Done({"Ok"}) /\ named = failed
        \/ /\ Done({"InsufficientFactors"})
           /\ named = failed
           /\ named \cup available = Providers
        \/ /\ Done({"DeadlineExceeded"})
           /\ stage = "Network"
           /\ available \notin Quorums
           /\ named = (1..queued) \ available
        \/ /\ result.status \notin {"Ok", "InsufficientFactors"}
           /\ (stage = "Network" /\ Done({"DeadlineExceeded"})) =>
                available \in Quorums
           /\ named = {}

\* A provider's answer stands: neither the deadline nor the quorum rewrites an
\* observation that was already made (cancel_observations, OperationReport).
AnswersStand ==
  [][\A p \in Providers :
       report[p] \notin {"absent", "NotStarted"} => report'[p] = report[p]]_vars

\* How far the operation has come, while it is still running.
Begun == pc \notin {"begin", "done"}

Asked == Begun /\ pc # "run"

Satisfied == pc \in {"unseal", "unsealed", "tpm", "payload", "opened", "release"}

Unsealed == Satisfied /\ pc # "unseal"

TpmTaken == pc \in {"payload", "opened", "release"}

Opened == pc \in {"opened", "release"}

NetworkState ==
  /\ available \subseteq healthy
  /\ available = {p \in Providers : report[p] = "Authenticated"}
  /\ \A p \in Answered : p <= queued
  /\ ~expired => \A p \in healthy : report[p] # "Failed"
  /\ pc \in {"begin", "run"} => queued = 0
  /\ pc \in {"begin", "run", "network"} => available \notin Quorums
  /\ pc = "accept" \/ Satisfied => available \in Quorums
  /\ pc = "network" => pending = (1..queued) \ Answered
  /\ pc # "network" => pending = {}

SessionState ==
  /\ session.network_satisfied <=> session.responses \in Quorums
  /\ Begun => session.envelope_authenticated
  /\ pc \in {"begin", "run", "network"} => session.responses = {}
  /\ session.responses \subseteq available
  /\ Satisfied => session.responses = available
  /\ TpmTaken =>
       /\ session.tpm_authenticated
       /\ session.require_live => live /\ session.live_authorized
  /\ Opened => session.root_authenticated
  /\ pc # "done" => (session.released <=> pc = "release")

GateState ==
  /\ gate.require_live = session.require_live
  /\ pc # "done" =>
       gate.phase = IF Opened THEN 3
                    ELSE IF TpmTaken THEN 2
                    ELSE IF Satisfied THEN 1
                    ELSE 0

FaultState ==
  /\ Begun => fault \notin {"signature", "target", "mode"}
  /\ Asked => fault # "runtime"
  /\ Unsealed => fault # "tpm"
  /\ TpmTaken => fault # "tpm_leaf"
  /\ Opened => fault \notin {"shares", "payload"}

\* The strengthening that makes the safety properties inductive: the loop, the
\* session, the release gate and the faults that were ruled out agree with the
\* step of UnlockOperation::run the operation is at.
Coherent == NetworkState /\ SessionState /\ GateState /\ FaultState

outcome ==
  IF pc # "done" THEN "open" ELSE IF Done({"Ok"}) THEN "released" ELSE "refused"

custody == INSTANCE Custody
             WITH shares <- available, tpm <- gate.phase >= 2, late <- expired

\* The operation implements the promise of Custody: shares are the network
\* loop's, the TPM factor counts from the gate's second phase, and the outcome
\* is what unlock_observed returns.
KeepsCustody == custody!Spec

\* The operation waits for the TPM driver for good (unlock: "This cannot
\* interrupt a blocked TPM driver call").
TpmBlocks == <>[](pc = "unseal")

\* Whatever the providers do, the caller gets a result as long as the clock
\* advances; the call of the TPM is the only place where it can wait forever.
Terminates == ClockAdvances => (<>(pc = "done") \/ TpmBlocks)

\* With nothing wrong but some providers, a quorum of answering providers opens
\* the volume unless the deadline passes first or the TPM call never returns;
\* nothing is assumed of the clock.
QuorumOpens ==
  ProvidersAnswer =>
    ((fault = "none" /\ healthy \in Quorums /\ (session.require_live => live))
       => (<>(Done({"Ok"}) \/ expired) \/ TpmBlocks))
=============================================================================
