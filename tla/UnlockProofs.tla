---------------------------- MODULE UnlockProofs ----------------------------
(***************************************************************************)
(* Proofs about the unlock operation, for every policy, every number of     *)
(* providers and every size of the concurrency window: its types, the       *)
(* inductive invariant (Coherent), the safety properties that follow from   *)
(* it, the refinement of Custody, and what the report, the failures and the *)
(* window are.  Then, that the plans the checker accepts have the quorums   *)
(* the gates assume (PolicyPlan), and at the end, what the two gates        *)
(* guarantee under every sequence of calls, for every policy with any       *)
(* number of leaves (GateApi).                                              *)
(*                                                                          *)
(* The properties about what the caller is told need one more invariant,    *)
(* ReportState: failures and report are written by different statements of  *)
(* the network loop, and name the same providers until the operation ends.  *)
(***************************************************************************)
EXTENDS Unlock, GateApi, PolicyPlan, FiniteSetTheorems, TLAPS

\* Most of what follows is reasoning about sets and functions, which is what Zenon
\* is good at; a leaf that needs arithmetic or records cites SMT.
USE Zenon

USE DEF Providers, Leaves

\* Each operation of OperationReport and each step of the operation keeps the
\* state in its type (unlock_observed, UnlockOperation::begin and run).
LEMMA InitType == Init => TypeOK
<1> SUFFICES ASSUME Init PROVE TypeOK
  OBVIOUS
<1>1. session \in Sessions /\ gate \in ReleaseStates
  BY SMT DEF Init, Sessions, new_session, ReleaseStates, new_release
<1>2. queued \in 0..N
  BY SMT, LeavesAssumption DEF LeavesAssumption, Init
<1>3. failures \in [Providers -> Kinds \cup {"none"}]
  BY DEF Init, NoFailures
<1>4. result \in [status : {"running", "Ok"} \cup Errors,
                  failures : [Providers -> Kinds \cup {"none"}]]
  BY DEF Init, NoFailures, Running
<1>5. stages \in Seq([stage : Stages, failed : BOOLEAN])
  BY SMT DEF Init
<1>6. report \in [Providers -> Outcomes]
  BY DEF Init, Outcomes
<1> QED
  BY <1>1, <1>2, <1>3, <1>4, <1>5, <1>6 DEF Init, TypeOK, Steps, Stages

Result == [status : {"running", "Ok"} \cup Errors,
           failures : [Providers -> Kinds \cup {"none"}]]

Trail == Seq([stage : Stages, failed : BOOLEAN])

\* OperationReport::finish closes one stage and leaves a well-typed result.
LEMMA FinishType ==
  ASSUME TypeOK,
         NEW status \in {"Ok"} \cup Errors,
         NEW reported \in [Providers -> Kinds \cup {"none"}],
         finish(status, reported)
  PROVE  /\ pc' \in Steps
         /\ stage' \in Stages
         /\ stages' \in Trail
         /\ result' \in Result
<1> DEFINE closed == [stage |-> stage, failed |-> status # "Ok"]
<1>1. closed \in [stage : Stages, failed : BOOLEAN]
  BY DEF TypeOK
<1>2. stages' = Append(stages, closed)
  BY DEF finish, close_stage
<1>3. stages' \in Trail
  <2> HIDE DEF closed
  <2> QED BY SMT, <1>1, <1>2 DEF TypeOK, Trail
<1> QED
  BY <1>3 DEF finish, TypeOK, Result, Steps

\* Every error path reports no provider failures and ends the same way.
LEMMA FailType ==
  ASSUME TypeOK, NEW error \in Errors, fail(error)
  PROVE  /\ pc' \in Steps
         /\ stage' \in Stages
         /\ stages' \in Trail
         /\ result' \in Result
<1>1. NoFailures \in [Providers -> Kinds \cup {"none"}]
  BY DEF NoFailures
<1> QED
  BY <1>1, FinishType DEF fail

\* policy_error maps every PolicyError to an Error of the engine.
LEMMA PolicyErrorType ==
  ASSUME NEW error PROVE policy_error(error) \in Errors
  BY DEF policy_error, Errors

\* OperationReport::enter closes the active stage and opens a known one.
LEMMA EnterType ==
  ASSUME TypeOK, NEW next \in Stages, enter(next)
  PROVE  stage' \in Stages /\ stages' \in Trail
<1> DEFINE closed == [stage |-> stage, failed |-> FALSE]
<1>1. closed \in [stage : Stages, failed : BOOLEAN]
  BY DEF TypeOK
<1>2. stages' = Append(stages, closed) /\ stage' = next
  BY DEF enter, close_stage
<1> HIDE DEF closed
<1> QED
  BY SMT, <1>1, <1>2 DEF TypeOK, Trail

\* The methods of both gates return well-typed states.
LEMMA GateTypes ==
  ASSUME NEW s \in Sessions, NEW g \in ReleaseStates
  PROVE  /\ authenticate_envelope(s) \in Sessions
         /\ \A id \in Leaves : accept_network(s, id) \in Sessions
         /\ confirm_tpm(s) \in Sessions
         /\ confirm_live_authorization(s) \in Sessions
         /\ authenticate_root(s) \in Sessions
         /\ session_release(s) \in Sessions
         /\ \A expected \in 0..3 : advance(g, expected) \in ReleaseStates
<1>1. ASSUME NEW id \in Leaves PROVE accept_network(s, id) \in Sessions
  <2> DEFINE responses == s.responses \cup {id}
             satisfied == responses \in Quorums
  <2>1. responses \in SUBSET Leaves /\ satisfied \in BOOLEAN
    BY SMT DEF Sessions
  <2>2. accept_network(s, id) = [s EXCEPT !.responses = responses,
                                          !.network_satisfied = satisfied]
    BY DEF accept_network
  <2> HIDE DEF responses, satisfied
  <2> QED
    BY <2>1, <2>2 DEF Sessions
<1>2. \A expected \in 0..3 : advance(g, expected) \in ReleaseStates
  BY SMT DEF ReleaseStates, advance
<1> QED
  BY <1>1, <1>2
     DEF Sessions, authenticate_envelope, confirm_tpm,
         confirm_live_authorization, authenticate_root, session_release

\* take and the two ways to go on keep the loop's variables in their types.
LEMMA TakeType ==
  ASSUME TypeOK, NEW p \in Providers, NEW kind \in Kinds \cup {"none"},
         take(p, kind)
  PROVE  /\ available' \in SUBSET Providers
         /\ failures' \in [Providers -> Kinds \cup {"none"}]
         /\ observe(p, kind) \in [Providers -> Outcomes]
         /\ \A outcome_ \in Outcomes, observed \in [Providers -> Outcomes] :
              cancel_observations(observed, outcome_) \in [Providers -> Outcomes]
  BY DEF take, TypeOK, observe, cancel_observations, Outcomes

\* Every step of the operation, of the clock and of a provider keeps the types.
LEMMA StepType == TypeOK /\ [Next]_vars => TypeOK'
<1> SUFFICES ASSUME TypeOK, [Next]_vars PROVE TypeOK'
  OBVIOUS
<1> USE DEF environment, network
<1> DEFINE Closed == /\ pc' \in Steps
                     /\ stage' \in Stages
                     /\ stages' \in Trail
                     /\ result' \in Result
           Loop == /\ queued' \in 0..N
                   /\ started' \in SUBSET Providers
                   /\ pending' \in SUBSET Providers
                   /\ available' \in SUBSET Providers
                   /\ failures' \in [Providers -> Kinds \cup {"none"}]
<1>a. ASSUME UNCHANGED <<healthy, fault, live>>, expired' \in BOOLEAN, Closed,
             session' \in Sessions, gate' \in ReleaseStates, Loop,
             report' \in [Providers -> Outcomes]
      PROVE  TypeOK'
  BY <1>a DEF TypeOK, Trail, Result
<1>b. UNCHANGED <<pc, stage, stages, result>> => Closed
  BY DEF TypeOK, Trail, Result
<1>c. UNCHANGED <<queued, started, pending, available, failures>> => Loop
  BY DEF TypeOK
<1>d. ASSUME NEW error \in Errors, fail(error) PROVE Closed
  BY <1>d, FailType
<1>e. /\ session \in Sessions /\ gate \in ReleaseStates /\ expired \in BOOLEAN
      /\ report \in [Providers -> Outcomes]
  BY DEF TypeOK
<1>1. CASE Tick
  <2>1. Closed /\ Loop
    BY <1>1, <1>b, <1>c DEF Tick
  <2> QED
    BY <1>1, <1>a, <1>e, <2>1 DEF Tick
<1>2. CASE RefuseEnvelope
  <2>1. Closed
    BY <1>2, <1>d DEF RefuseEnvelope, Errors
  <2> QED
    BY <1>2, <1>a, <1>c, <1>e, <2>1 DEF RefuseEnvelope
<1>3. CASE Begin
  <2>1. Closed
    <3>1. CASE pc' = "run" /\ UNCHANGED <<stage, stages, result>>
      BY <3>1 DEF TypeOK, Trail, Result, Steps
    <3> QED
      BY <1>3, <1>d, <3>1 DEF Begin, Errors
  <2>2. report' \in [Providers -> Outcomes]
    BY <1>3 DEF Begin, Outcomes
  <2>3. session' \in Sessions
    BY <1>3, <1>e, GateTypes DEF Begin
  <2> QED
    BY <1>3, <1>a, <1>c, <1>e, <2>1, <2>2, <2>3 DEF Begin
<1>4. CASE NestedRuntime
  <2>1. Closed
    BY <1>4, <1>d DEF NestedRuntime, Errors
  <2> QED
    BY <1>4, <1>a, <1>c, <1>e, <2>1 DEF NestedRuntime
<1>5. CASE StartNetwork
  <2>1. stage' \in Stages /\ stages' \in Trail
    BY <1>5, EnterType DEF StartNetwork, Stages
  <2>2. Closed
    BY <1>5, <2>1 DEF StartNetwork, TypeOK, Result, Steps
  <2>3. Loop
    BY SMT, <1>5, LeavesAssumption, OperationsAssumption
       DEF StartNetwork, TypeOK, LeavesAssumption, OperationsAssumption
  <2> QED
    BY <1>5, <1>a, <1>e, <2>2, <2>3 DEF StartNetwork
<1>6. ASSUME NEW id \in Leaves, AcceptNetwork(id) PROVE TypeOK'
  <2>1. Closed /\ session' \in Sessions
    <3>1. CASE accept_network_error(session, id) = "Ok"
      BY <1>6, <3>1, <1>b, <1>e, GateTypes DEF AcceptNetwork
    <3>2. CASE accept_network_error(session, id) # "Ok"
      BY <1>6, <3>2, <1>d, <1>e, PolicyErrorType DEF AcceptNetwork
    <3> QED
      BY <3>1, <3>2
  <2> QED
    BY <1>6, <1>a, <1>c, <1>e, <2>1 DEF AcceptNetwork
<1>7. CASE CloseNetwork
  <2>1. Closed
    <3>1. ASSUME enter("TpmUnseal"), pc' = "unseal", UNCHANGED result
          PROVE  Closed
      BY <3>1, EnterType DEF TypeOK, Result, Steps, Stages
    <3> QED
      BY <1>7, <1>d, <3>1 DEF CloseNetwork, Errors
  <2>2. gate' \in ReleaseStates
    BY SMT, <1>7, <1>e, GateTypes DEF CloseNetwork
  <2> QED
    BY <1>7, <1>a, <1>c, <1>e, <2>1, <2>2 DEF CloseNetwork
<1>8. CASE Unseal
  <2>1. Closed
    <3>1. CASE pc' = "unsealed" /\ UNCHANGED <<stage, stages, result>>
      BY <3>1 DEF TypeOK, Trail, Result, Steps
    <3> QED
      BY <1>8, <1>d, <3>1 DEF Unseal, Errors
  <2> QED
    BY <1>8, <1>a, <1>c, <1>e, <2>1 DEF Unseal
<1>9. CASE CheckUnsealed
  <2>1. Closed
    <3>1. ASSUME enter("AuthenticatePayload"), pc' = "tpm", UNCHANGED result
          PROVE  Closed
      BY <3>1, EnterType DEF TypeOK, Result, Steps, Stages
    <3> QED
      BY <1>9, <1>d, <3>1 DEF CheckUnsealed, Errors
  <2> QED
    BY <1>9, <1>a, <1>c, <1>e, <2>1 DEF CheckUnsealed
<1>10. CASE AcceptTpm
  <2>1. TpmEvidence_error # "Ok" => TpmEvidence_error \in Errors
    BY DEF TpmEvidence_error, Errors
  <2>2. \/ /\ session' = confirmed(session)
           /\ gate' = advance(gate, 1)
           /\ pc' = "payload"
           /\ UNCHANGED <<stage, stages, result>>
        \/ \E error \in Errors : fail(error) /\ UNCHANGED <<session, gate>>
    BY <1>10, <2>1, PolicyErrorType DEF AcceptTpm, Errors
  <2>3. Closed
    BY <2>2, <1>d DEF TypeOK, Trail, Result, Steps
  <2>4. confirmed(session) \in Sessions /\ advance(gate, 1) \in ReleaseStates
    BY SMT, <1>e, GateTypes DEF confirmed
  <2> QED
    BY <1>10, <1>a, <1>c, <1>e, <2>2, <2>3, <2>4 DEF AcceptTpm
<1>11. CASE OpenPayload
  <2>1. \/ /\ session' = authenticate_root(session)
           /\ gate' = advance(gate, 2)
           /\ pc' = "opened"
           /\ UNCHANGED <<stage, stages, result>>
        \/ \E error \in Errors : fail(error) /\ UNCHANGED <<session, gate>>
    BY <1>11, PolicyErrorType DEF OpenPayload, Errors
  <2>2. Closed
    BY <2>1, <1>d DEF TypeOK, Trail, Result, Steps
  <2>3. session' \in Sessions /\ gate' \in ReleaseStates
    BY SMT, <1>e, <2>1, GateTypes
  <2> QED
    BY <1>11, <1>a, <1>c, <1>e, <2>2, <2>3 DEF OpenPayload
<1>12. CASE ReleaseSession
  <2>1. \/ /\ session' = session_release(session)
           /\ pc' = "release"
           /\ UNCHANGED <<stage, stages, result>>
        \/ \E error \in Errors : fail(error) /\ UNCHANGED session
    BY <1>12, PolicyErrorType DEF ReleaseSession, Errors
  <2>2. Closed
    BY <2>1, <1>d DEF TypeOK, Trail, Result, Steps
  <2>3. session' \in Sessions
    BY <1>e, <2>1, GateTypes
  <2> QED
    BY <1>12, <1>a, <1>c, <1>e, <2>2, <2>3 DEF ReleaseSession
<1>13. CASE Release
  <2>1. \/ gate' = advance(gate, 3) /\ finish("Ok", failures)
        \/ \E error \in Errors : fail(error) /\ UNCHANGED gate
    BY <1>13 DEF Release, Errors
  <2>2. failures \in [Providers -> Kinds \cup {"none"}]
    BY DEF TypeOK
  <2>3. Closed
    BY <2>1, <2>2, <1>d, FinishType
  <2>4. gate' \in ReleaseStates
    BY SMT, <1>e, <2>1, GateTypes
  <2> QED
    BY <1>13, <1>a, <1>c, <1>e, <2>3, <2>4 DEF Release
<1>14. ASSUME NEW p \in Providers, Poll(p) PROVE TypeOK'
  <2>1. Closed
    BY <1>14, <1>b DEF Poll
  <2>2. Loop
    BY <1>14 DEF Poll, TypeOK
  <2> QED
    BY <1>14, <1>a, <1>e, <2>1, <2>2 DEF Poll
<1>15. ASSUME NEW p \in Providers, NEW kind \in Kinds \cup {"none"},
              Satisfy(p, kind)
       PROVE  TypeOK'
  <2>1. take(p, kind)
    BY <1>15 DEF Satisfy
  <2>2. Closed
    <3>1. CASE pc' = "accept" /\ UNCHANGED <<stage, stages, result>>
      BY <3>1 DEF TypeOK, Trail, Result, Steps
    <3> QED
      BY <1>15, <1>d, <3>1 DEF Satisfy, Errors
  <2>3. Loop
    BY <1>15, <2>1, TakeType DEF Satisfy, take, TypeOK
  <2>4. report' \in [Providers -> Outcomes]
    BY <1>15, <2>1, TakeType DEF Satisfy, Outcomes
  <2> QED
    BY <1>a, <1>e, <2>1, <2>2, <2>3, <2>4 DEF take
<1>16. ASSUME NEW p \in Providers, NEW kind \in Kinds \cup {"none"},
              Continue(p, kind)
       PROVE  TypeOK'
  <2>1. take(p, kind)
    BY <1>16 DEF Continue
  <2>2. failures' \in [Providers -> Kinds \cup {"none"}]
    BY <2>1, TakeType
  <2>3. Closed
    BY <1>16, <1>b, <2>2, FinishType DEF Continue, Errors
  <2>4. queued' \in 0..N /\ pending' \in SUBSET Providers
    BY SMT, <1>16, LeavesAssumption DEF Continue, TypeOK, LeavesAssumption
  <2>5. Loop
    BY <2>1, <2>4, TakeType DEF take, TypeOK
  <2>6. report' \in [Providers -> Outcomes]
    BY <1>16, <2>1, TakeType DEF Continue
  <2> QED
    BY SMT, <1>a, <1>e, <2>1, <2>3, <2>5, <2>6 DEF take
<1>17. CASE Timeout
  <2>1. failures' \in [Providers -> Kinds \cup {"none"}]
    BY <1>17, KindsAssumption DEF Timeout, timed_out, TypeOK, KindsAssumption
  <2>2. Closed
    BY <1>17, <2>1, FinishType DEF Timeout, Errors
  <2>3. Loop
    BY <1>17, <2>1 DEF Timeout, TypeOK
  <2>4. report' \in [Providers -> Outcomes]
    BY <1>17, <1>e DEF Timeout, cancel_observations, Outcomes
  <2> QED
    BY <1>17, <1>a, <1>e, <2>2, <2>3, <2>4 DEF Timeout
<1>18. CASE UNCHANGED vars
  BY <1>18, <1>a, <1>b, <1>c, <1>e DEF vars
<1> QED
  BY <1>1, <1>2, <1>3, <1>4, <1>5, <1>6, <1>7, <1>8, <1>9, <1>10, <1>11, <1>12,
     <1>13, <1>14, <1>15, <1>16, <1>17, <1>18
     DEF Next, Synchronous, Answer

\* The state of an unlock operation always has its type.
THEOREM TypeCorrect == Spec => []TypeOK
  BY InitType, StepType, PTL DEF Spec

-----------------------------------------------------------------------------
(* The inductive invariant                                                 *)

\* Before anything was asked all parts agree that nothing was.
LEMMA InitCoherent == Init => Coherent
<1> SUFFICES ASSUME Init PROVE Coherent
  BY SMT
<1>1. NetworkState
  BY QuorumAssumption DEF Init, NetworkState, Answered, Satisfied, QuorumAssumption
<1>2. SessionState
  BY SMT, QuorumAssumption
     DEF Init, SessionState, new_session, Begun, Satisfied, TpmTaken, Opened,
         QuorumAssumption
<1>3. GateState
  BY SMT DEF Init, GateState, new_session, new_release, Satisfied, TpmTaken, Opened
<1>4. FaultState
  BY DEF Init, FaultState, Begun, Asked, Satisfied, Unsealed, TpmTaken, Opened
<1> QED
  BY <1>1, <1>2, <1>3, <1>4 DEF Coherent

\* The network loop, while the operation waits for answers, and after it.
LEMMA StepNetwork == TypeOK /\ Coherent /\ [Next]_vars => NetworkState'
<1> SUFFICES ASSUME TypeOK, Coherent, [Next]_vars PROVE NetworkState'
  OBVIOUS
<1> USE DEF environment, network
<1>1. NetworkState
  BY DEF Coherent
<1>2. ASSUME UNCHANGED <<healthy, available, report, queued, pending>>,
             expired => expired',
             pc # "network",
             \/ pc' \in {pc, "done"}
             \/ pc = "begin" /\ pc' = "run"
             \/ (pc = "accept" \/ Satisfied) /\ Satisfied'
      PROVE  NetworkState'
  BY <1>1, <1>2, QuorumAssumption DEF NetworkState, Answered, Satisfied
<1>3. CASE Tick
  BY <1>1, <1>3 DEF Tick, NetworkState, Answered, Satisfied
<1>4. CASE RefuseEnvelope \/ NestedRuntime
  BY <1>2, <1>4 DEF RefuseEnvelope, NestedRuntime, fail, finish
<1>5. CASE Begin
  <2>1. available = {} /\ queued = 0 /\ pending = {}
    BY SMT, <1>1, <1>5 DEF Begin, NetworkState, Answered
  <2>2. /\ report' = [p \in Providers |-> "NotStarted"]
        /\ UNCHANGED <<healthy, expired, available, queued, pending>>
        /\ pc' \in {"run", "done"}
    BY <1>5 DEF Begin, fail, finish
  <2>3. Answered' = {} /\ {p \in Providers : report'[p] = "Authenticated"} = {}
    BY <2>2 DEF Answered
  <2>4. \A p \in healthy : report'[p] # "Failed"
    BY <2>2 DEF TypeOK
  <2> QED
    BY <2>1, <2>2, <2>3, <2>4, QuorumAssumption
       DEF NetworkState, Satisfied, QuorumAssumption
<1>6. CASE StartNetwork
  <2>1. available = {} /\ Answered = {}
    BY SMT, <1>1, <1>6 DEF StartNetwork, NetworkState, Answered
  <2>2. /\ queued' \in Nat /\ pending' = 1..queued' /\ pc' = "network"
        /\ UNCHANGED <<healthy, expired, available, report>>
    BY <1>6, LeavesAssumption, OperationsAssumption
       DEF StartNetwork, LeavesAssumption, OperationsAssumption
  <2>3. Answered' = {}
    BY <2>1, <2>2 DEF Answered
  <2>4. available' = {p \in Providers : report'[p] = "Authenticated"}
    BY <1>1, <2>2 DEF NetworkState
  <2>5. ~expired' => \A p \in healthy' : report'[p] # "Failed"
    BY <1>1, <2>2 DEF NetworkState
  <2>6. pending' = (1..queued') \ Answered'
    BY <2>2, <2>3
  <2> QED
    BY <2>1, <2>2, <2>3, <2>4, <2>5, <2>6, QuorumAssumption
       DEF NetworkState, Satisfied, QuorumAssumption
<1>7. ASSUME NEW id \in Leaves, AcceptNetwork(id) PROVE NetworkState'
  BY <1>2, <1>7 DEF AcceptNetwork, fail, finish
<1>8. CASE CloseNetwork
  BY <1>2, <1>8 DEF CloseNetwork, fail, finish, Satisfied
<1>9. CASE Unseal \/ CheckUnsealed
  BY <1>2, <1>9 DEF Unseal, CheckUnsealed, fail, finish, Satisfied
<1>10. CASE AcceptTpm
  BY <1>2, <1>10 DEF AcceptTpm, fail, finish, Satisfied
<1>11. CASE OpenPayload \/ ReleaseSession \/ Release
  BY <1>2, <1>11
     DEF OpenPayload, ReleaseSession, Release, fail, finish, Satisfied
<1>12. ASSUME NEW p \in Providers, Poll(p) PROVE NetworkState'
  BY <1>1, <1>12 DEF Poll, NetworkState, Answered, Satisfied
<1>13. ASSUME NEW p \in Providers, NEW kind \in Kinds \cup {"none"},
              take(p, kind)
       PROVE  /\ available' \subseteq healthy
              /\ available' =
                   {q \in Providers : observe(p, kind)[q] = "Authenticated"}
              /\ p <= queued
              /\ ~expired => \A q \in healthy : observe(p, kind)[q] # "Failed"
              /\ {q \in Providers :
                    observe(p, kind)[q] \in {"Authenticated", "Failed"}}
                   = Answered \cup {p}
  <2>1. pc = "network" /\ p \in (1..queued) \ Answered /\ kind \in recover_leaf(p)
    BY <1>1, <1>13 DEF take, NetworkState
  <2>2. kind = "none" => p \in healthy
    BY <2>1, KindsAssumption DEF recover_leaf, KindsAssumption
  <2>3. ~expired /\ p \in healthy => kind = "none"
    BY <2>1 DEF recover_leaf
  <2>4. \A q \in Providers :
          observe(p, kind)[q] =
            IF q = p THEN IF kind = "none" THEN "Authenticated" ELSE "Failed"
            ELSE report[q]
    BY DEF observe, TypeOK
  <2>5. available' = IF kind = "none" THEN available \cup {p} ELSE available
    BY <1>13 DEF take
  <2>6. p \notin available
    BY <1>1, <2>1 DEF NetworkState, Answered
  <2>7. p <= queued
    BY SMT, <2>1 DEF TypeOK
  <2>8. available' \subseteq healthy
    BY <1>1, <2>2, <2>5 DEF NetworkState
  <2>9. available' = {q \in Providers : observe(p, kind)[q] = "Authenticated"}
    BY <1>1, <2>4, <2>5, <2>6 DEF NetworkState
  <2>10. ~expired => \A q \in healthy : observe(p, kind)[q] # "Failed"
    <3>1. healthy \subseteq Providers
      BY DEF TypeOK
    <3> QED
      BY <1>1, <2>3, <2>4, <3>1 DEF NetworkState
  <2>11. {q \in Providers : observe(p, kind)[q] \in {"Authenticated", "Failed"}}
           = Answered \cup {p}
    BY <2>4 DEF Answered
  <2> QED
    BY <2>7, <2>8, <2>9, <2>10, <2>11
<1>14. ASSUME NEW p \in Providers, NEW kind \in Kinds \cup {"none"},
              Satisfy(p, kind)
       PROVE  NetworkState'
  <2>1. take(p, kind)
    BY <1>14 DEF Satisfy
  <2>2. observe(p, kind) \in [Providers -> Outcomes]
    BY <2>1, TakeType
  <2>3. \A q \in Providers, outcome_ \in {"Authenticated", "Failed"} :
          report'[q] = outcome_ <=> observe(p, kind)[q] = outcome_
    BY <1>14, <2>2 DEF Satisfy, cancel_observations
  <2>4. /\ UNCHANGED <<healthy, expired, queued>>
        /\ available' \in Quorums
        /\ pending' = {}
        /\ pc' \in {"accept", "done"}
    BY <1>14, <2>1 DEF Satisfy, take, fail, finish
  <2>5. /\ available' = {q \in Providers : report'[q] = "Authenticated"}
        /\ Answered' = Answered \cup {p}
        /\ p <= queued
        /\ ~expired => \A q \in healthy : report'[q] # "Failed"
    <3>1. healthy \subseteq Providers
      BY SMT DEF TypeOK
    <3> QED
      BY SMT, <1>13, <2>1, <2>3, <3>1 DEF Answered
  <2>6. \A q \in Answered' : q <= queued'
    BY <1>1, <2>4, <2>5 DEF NetworkState
  <2> QED
    BY <1>13, <2>1, <2>4, <2>5, <2>6 DEF NetworkState, Satisfied
<1>15. ASSUME NEW p \in Providers, NEW kind \in Kinds \cup {"none"},
              Continue(p, kind)
       PROVE  NetworkState'
  <2>1. take(p, kind)
    BY <1>15 DEF Continue
  <2>2. /\ UNCHANGED <<healthy, expired>>
        /\ available' \notin Quorums
        /\ report' = observe(p, kind)
        /\ pc' = IF pending' = {} THEN "done" ELSE "network"
    BY <1>15, <2>1 DEF Continue, take, fail, finish
  <2>3. Answered' = Answered \cup {p}
    BY SMT, <1>13, <2>1, <2>2 DEF Answered
  <2>4. /\ queued' \in {queued, queued + 1}
        /\ pending' = (1..queued') \ Answered'
    <3>1. N \in Nat /\ queued \in 0..N
      BY LeavesAssumption DEF TypeOK, LeavesAssumption
    <3>2. queued' = IF queued < N THEN queued + 1 ELSE queued
      BY <1>15 DEF Continue
    <3>3. /\ pending = (1..queued) \ Answered
          /\ \A q \in Answered : q <= queued
          /\ p <= queued
      BY <1>1, <1>13, <2>1 DEF take, NetworkState
    <3>4. pending' = (pending \ {p}) \cup ((queued + 1)..queued')
      BY <1>15 DEF Continue
    <3>5. 1..queued' = (1..queued) \cup ((queued + 1)..queued')
      BY SMT, <3>1, <3>2
    <3>6. \A q \in (queued + 1)..queued' : q \notin Answered \cup {p}
      BY SMT, <3>1, <3>2, <3>3
    <3>7. queued' \in {queued, queued + 1}
      BY <3>2
    <3>8. pending' = (1..queued') \ (Answered \cup {p})
      BY <3>3, <3>4, <3>5, <3>6
    <3> QED
      BY <2>3, <3>7, <3>8
  <2>5. \A q \in Answered' : q <= queued'
    <3>1. p <= queued /\ \A q \in Answered : q <= queued
      BY <1>1, <1>13, <2>1 DEF NetworkState
    <3>2. queued \in Nat /\ Answered' \subseteq Nat
      BY SMT DEF TypeOK, Answered
    <3> QED
      BY SMT, <2>3, <2>4, <3>1, <3>2
  <2>6. /\ available' \subseteq healthy
        /\ available' = {q \in Providers : observe(p, kind)[q] = "Authenticated"}
        /\ ~expired => \A q \in healthy : observe(p, kind)[q] # "Failed"
    BY <1>13, <2>1
  <2> QED
    BY <2>2, <2>4, <2>5, <2>6 DEF NetworkState, Satisfied
<1>16. CASE Timeout
  <2>1. \A q \in Providers, outcome_ \in {"Authenticated", "Failed"} :
          report'[q] = outcome_ <=> report[q] = outcome_
    BY <1>16 DEF Timeout, cancel_observations
  <2>2. /\ UNCHANGED <<healthy, expired, available, queued>>
        /\ pending' = {}
        /\ pc' = "done"
    BY <1>16 DEF Timeout, finish
  <2> QED
    BY <1>1, <2>1, <2>2 DEF NetworkState, Answered, Satisfied, TypeOK
<1>17. CASE UNCHANGED vars
  BY <1>1, <1>17 DEF vars, NetworkState, Answered, Satisfied
<1> QED
  BY <1>3, <1>4, <1>5, <1>6, <1>7, <1>8, <1>9, <1>10, <1>11, <1>12, <1>14,
     <1>15, <1>16, <1>17
     DEF Next, Synchronous, Answer

\* The session learns of each factor at its own step and never before.
LEMMA StepSession == TypeOK /\ Coherent /\ [Next]_vars => SessionState'
<1> SUFFICES ASSUME TypeOK, Coherent, [Next]_vars PROVE SessionState'
  BY SMT
<1> USE DEF environment, network, Begun, Satisfied, TpmTaken, Opened
<1>1. SessionState /\ session \in Sessions
  BY DEF Coherent, TypeOK
<1>2. ASSUME UNCHANGED <<session, live, available>>,
             \/ pc' \in {pc, "done"}
             \/ pc = "run" /\ pc' = "network"
             \/ pc = "unseal" /\ pc' = "unsealed"
             \/ pc = "unsealed" /\ pc' = "tpm"
      PROVE  SessionState'
  BY <1>1, <1>2 DEF SessionState
<1>3. CASE Tick
  BY <1>2, <1>3 DEF Tick
<1>4. CASE RefuseEnvelope \/ NestedRuntime \/ StartNetwork
  BY <1>2, <1>4 DEF RefuseEnvelope, NestedRuntime, StartNetwork, fail, finish
<1>5. CASE Begin
  <2>1. CASE UNCHANGED session /\ pc' = "done"
    BY <1>2, <1>5, <2>1 DEF Begin
  <2>2. CASE pc' = "run" /\ session' = authenticate_envelope(session)
    BY <1>1, <1>5, <2>2
       DEF Begin, SessionState, authenticate_envelope, Sessions
  <2> QED
    BY <1>5, <2>1, <2>2 DEF Begin, fail, finish
<1>6. ASSUME NEW id \in Leaves, AcceptNetwork(id) PROVE SessionState'
  <2>1. CASE UNCHANGED session
    BY <1>2, <1>6, <2>1 DEF AcceptNetwork, fail, finish
  <2>2. CASE session' = accept_network(session, id) /\ UNCHANGED pc
    <3>1. /\ session'.responses = session.responses \cup {id}
          /\ session'.network_satisfied <=> session'.responses \in Quorums
          /\ session'.envelope_authenticated = session.envelope_authenticated
          /\ session'.released = session.released
      BY <1>1, <2>2 DEF accept_network, Sessions
    <3> QED
      BY <1>1, <1>6, <2>2, <3>1 DEF AcceptNetwork, SessionState
  <2> QED
    BY <1>6, <2>1, <2>2 DEF AcceptNetwork
<1>7. CASE CloseNetwork
  BY <1>1, <1>7 DEF CloseNetwork, fail, finish, SessionState
<1>8. CASE Unseal \/ CheckUnsealed
  BY <1>2, <1>8 DEF Unseal, CheckUnsealed, fail, finish
<1>9. CASE AcceptTpm
  <2>1. CASE UNCHANGED session /\ pc' = "done"
    BY <1>2, <1>9, <2>1 DEF AcceptTpm
  <2>2. CASE pc' # "done"
    <3>1. /\ session' = confirmed(session)
          /\ pc' = "payload"
          /\ TpmEvidence_error = "Ok"
      BY <1>9, <2>2 DEF AcceptTpm, fail, finish
    <3>2. session.require_live => live
      BY <3>1 DEF TpmEvidence_error, Sessions
    <3>3. /\ session'.responses = session.responses
          /\ session'.network_satisfied = session.network_satisfied
          /\ session'.envelope_authenticated = session.envelope_authenticated
          /\ session'.require_live = session.require_live
          /\ session'.released = session.released
          /\ session'.tpm_authenticated = TRUE
          /\ live => session'.live_authorized = TRUE
      BY <1>1, <3>1
         DEF confirmed, confirm_tpm, confirm_live_authorization, Sessions
    <3> QED
      BY <1>1, <1>9, <3>1, <3>2, <3>3 DEF AcceptTpm, SessionState
  <2> QED
    BY <1>9, <2>1, <2>2 DEF AcceptTpm, fail, finish
<1>10. CASE OpenPayload
  <2>1. CASE UNCHANGED session /\ pc' = "done"
    BY <1>2, <1>10, <2>1 DEF OpenPayload
  <2>2. CASE session' = authenticate_root(session) /\ pc' = "opened"
    BY <1>1, <1>10, <2>2
       DEF OpenPayload, SessionState, authenticate_root, Sessions
  <2> QED
    BY <1>10, <2>1, <2>2 DEF OpenPayload, fail, finish
<1>11. CASE ReleaseSession
  <2>1. CASE UNCHANGED session /\ pc' = "done"
    BY <1>2, <1>11, <2>1 DEF ReleaseSession
  <2>2. CASE session' = session_release(session) /\ pc' = "release"
    BY <1>1, <1>11, <2>2
       DEF ReleaseSession, SessionState, session_release, Sessions
  <2> QED
    BY <1>11, <2>1, <2>2 DEF ReleaseSession, fail, finish
<1>12. CASE Release
  BY <1>2, <1>12 DEF Release, fail, finish
<1>13. ASSUME NEW p \in Providers, Poll(p) PROVE SessionState'
  BY <1>2, <1>13 DEF Poll
<1>14. ASSUME NEW p \in Providers, NEW kind \in Kinds \cup {"none"},
              Satisfy(p, kind) \/ Continue(p, kind)
       PROVE  SessionState'
  <2>1. /\ pc = "network"
        /\ UNCHANGED <<session, live>>
        /\ pc' \in {"accept", "network", "done"}
    BY <1>14 DEF Satisfy, Continue, take, fail, finish
  <2> QED
    BY <1>1, <2>1 DEF SessionState
<1>15. CASE Timeout
  BY <1>2, <1>15 DEF Timeout, finish
<1>16. CASE UNCHANGED vars
  BY <1>2, <1>16 DEF vars
<1> QED
  BY <1>3, <1>4, <1>5, <1>6, <1>7, <1>8, <1>9, <1>10, <1>11, <1>12, <1>13,
     <1>14, <1>15, <1>16
     DEF Next, Synchronous, Answer

\* The release gate is at the phase of the step, and knows the policy's mode.
LEMMA StepGate == TypeOK /\ Coherent /\ [Next]_vars => GateState'
<1> SUFFICES ASSUME TypeOK, Coherent, [Next]_vars PROVE GateState'
  BY SMT
<1> USE DEF environment, network, Satisfied, TpmTaken, Opened
<1>1. /\ GateState /\ session \in Sessions /\ gate \in ReleaseStates
      /\ pc \in Steps
  BY DEF Coherent, TypeOK
<1>2. session'.require_live = session.require_live
  BY <1>1
     DEF Next, Synchronous, Answer, vars, Tick, RefuseEnvelope, Begin,
         NestedRuntime, StartNetwork, AcceptNetwork, CloseNetwork, Unseal,
         CheckUnsealed, AcceptTpm, OpenPayload, ReleaseSession, Release, Poll,
         Satisfy, Continue, take, Timeout, Sessions, authenticate_envelope,
         accept_network, confirmed, confirm_tpm, confirm_live_authorization,
         authenticate_root, session_release
<1>3. gate'.require_live = gate.require_live
  BY <1>1
     DEF Next, Synchronous, Answer, vars, Tick, RefuseEnvelope, Begin,
         NestedRuntime, StartNetwork, AcceptNetwork, CloseNetwork, Unseal,
         CheckUnsealed, AcceptTpm, OpenPayload, ReleaseSession, Release, Poll,
         Satisfy, Continue, take, Timeout, ReleaseStates, advance
<1>4. ASSUME UNCHANGED gate,
             \/ pc' \in {pc, "done"}
             \/ pc \in {"begin", "run", "network"} /\ pc' \in {"run", "network", "accept"}
             \/ pc \in {"unseal", "unsealed"} /\ pc' \in {"unsealed", "tpm"}
             \/ pc = "opened" /\ pc' = "release"
      PROVE  GateState'
  BY <1>1, <1>2, <1>4 DEF GateState
<1>5. CASE \/ Tick \/ RefuseEnvelope \/ Begin \/ NestedRuntime \/ StartNetwork
           \/ Unseal \/ CheckUnsealed \/ ReleaseSession \/ Timeout
           \/ UNCHANGED vars
  BY <1>4, <1>5
     DEF Tick, RefuseEnvelope, Begin, NestedRuntime, StartNetwork, Unseal,
         CheckUnsealed, ReleaseSession, Timeout, vars, fail, finish
<1>6. ASSUME NEW id \in Leaves, AcceptNetwork(id) PROVE GateState'
  BY <1>4, <1>6 DEF AcceptNetwork, fail, finish
<1>7. CASE CloseNetwork \/ AcceptTpm \/ OpenPayload \/ Release
  BY SMT, <1>1, <1>2, <1>3, <1>7
     DEF CloseNetwork, AcceptTpm, OpenPayload, Release, GateState, advance,
         ReleaseStates, fail, finish
<1>8. ASSUME NEW p \in Providers, Poll(p) PROVE GateState'
  BY <1>4, <1>8 DEF Poll
<1>9. ASSUME NEW p \in Providers, NEW kind \in Kinds \cup {"none"},
             Satisfy(p, kind) \/ Continue(p, kind)
      PROVE  GateState'
  BY <1>4, <1>9 DEF Satisfy, Continue, take, fail, finish
<1> QED
  BY <1>5, <1>6, <1>7, <1>8, <1>9 DEF Next, Synchronous, Answer

\* A fault is ruled out by the step that would have met it.
LEMMA StepFault == TypeOK /\ Coherent /\ [Next]_vars => FaultState'
<1> SUFFICES ASSUME TypeOK, Coherent, [Next]_vars PROVE FaultState'
  BY SMT
<1> USE DEF environment, network, Begun, Asked, Satisfied, Unsealed, TpmTaken,
            Opened
<1>1. FaultState
  BY DEF Coherent
<1>2. fault' = fault
  BY DEF Next, Synchronous, Answer, vars, Tick, RefuseEnvelope, Begin,
         NestedRuntime, StartNetwork, AcceptNetwork, CloseNetwork, Unseal,
         CheckUnsealed, AcceptTpm, OpenPayload, ReleaseSession, Release, Poll,
         Satisfy, Continue, take, Timeout
<1>3. ASSUME \/ pc' \in {pc, "done"}
             \/ pc = "network" /\ pc' = "accept"
             \/ pc = "accept" /\ pc' = "unseal"
             \/ pc = "unsealed" /\ pc' = "tpm"
             \/ pc = "opened" /\ pc' = "release"
      PROVE  FaultState'
  BY <1>1, <1>2, <1>3 DEF FaultState
<1>4. CASE \/ Tick \/ RefuseEnvelope \/ NestedRuntime \/ CloseNetwork
           \/ CheckUnsealed \/ ReleaseSession \/ Release \/ Timeout
           \/ UNCHANGED vars
  BY <1>3, <1>4
     DEF Tick, RefuseEnvelope, NestedRuntime, CloseNetwork, CheckUnsealed,
         ReleaseSession, Release, Timeout, vars, fail, finish
<1>5. CASE Begin \/ StartNetwork \/ Unseal
  BY <1>1, <1>2, <1>5
     DEF Begin, StartNetwork, Unseal, FaultState, fail, finish
<1>6. CASE AcceptTpm
  BY <1>1, <1>2, <1>6
     DEF AcceptTpm, TpmEvidence_error, FaultState, fail, finish
<1>7. CASE OpenPayload
  BY <1>1, <1>2, <1>7 DEF OpenPayload, FaultState, fail, finish
<1>8. ASSUME NEW id \in Leaves, AcceptNetwork(id) PROVE FaultState'
  BY <1>3, <1>8 DEF AcceptNetwork, fail, finish
<1>9. ASSUME NEW p \in Providers, Poll(p) PROVE FaultState'
  BY <1>3, <1>9 DEF Poll
<1>10. ASSUME NEW p \in Providers, NEW kind \in Kinds \cup {"none"},
              Satisfy(p, kind) \/ Continue(p, kind)
       PROVE  FaultState'
  BY <1>3, <1>10 DEF Satisfy, Continue, take, fail, finish
<1> QED
  BY <1>4, <1>5, <1>6, <1>7, <1>8, <1>9, <1>10 DEF Next, Synchronous, Answer

\* At every moment the loop, the session, the gate and the faults that were
\* ruled out agree with the step UnlockOperation::run is at.
THEOREM StaysCoherent == Spec => [](TypeOK /\ Coherent)
<1>1. Init => TypeOK /\ Coherent
  BY InitType, InitCoherent
<1>2. TypeOK /\ Coherent /\ [Next]_vars => (TypeOK /\ Coherent)'
  BY StepType, StepNetwork, StepSession, StepGate, StepFault DEF Coherent
<1> QED
  BY <1>1, <1>2, PTL DEF Spec

-----------------------------------------------------------------------------
(* The safety properties                                                   *)

\* Nothing happens once the caller has its result.
LEMMA DoneIsFinal == TypeOK /\ pc = "done" /\ [Next]_vars => UNCHANGED vars
  BY DEF Next, Synchronous, Answer, Tick, RefuseEnvelope, Begin, NestedRuntime,
         StartNetwork, AcceptNetwork, CloseNetwork, Unseal, CheckUnsealed,
         AcceptTpm, OpenPayload, ReleaseSession, Release, Poll, Satisfy,
         Continue, take, Timeout

\* policy_error names a refusal; no error of a gate becomes a success.
LEMMA PolicyErrorNotOk == ASSUME NEW error PROVE policy_error(error) # "Ok"
  BY DEF policy_error

\* The status an operation ends with is the one its report was finished with.
LEMMA FinishStatus == ASSUME NEW status, NEW reported, finish(status, reported)
                      PROVE  pc' = "done" /\ result'.status = status
  BY DEF finish

\* A step of the operation's thread other than Release ends in no success.
LEMMA SynchronousNotOk == ASSUME Synchronous, ~Release PROVE ~Done({"Ok"})'
<1> DEFINE Fails == \E error : error # "Ok" /\ fail(error)
<1>1. CASE \/ RefuseEnvelope \/ Begin \/ NestedRuntime \/ StartNetwork
           \/ CloseNetwork \/ Unseal \/ CheckUnsealed
  <2>1. pc' # "done" \/ Fails
    BY <1>1
       DEF RefuseEnvelope, Begin, NestedRuntime, StartNetwork, CloseNetwork,
           Unseal, CheckUnsealed
  <2> QED
    BY <2>1, FinishStatus DEF fail, Done
<1>2. ASSUME NEW id \in Leaves, AcceptNetwork(id) PROVE ~Done({"Ok"})'
  <2>1. pc' = pc \/ fail(policy_error(accept_network_error(session, id)))
    BY <1>2 DEF AcceptNetwork
  <2>2. pc # "done"
    BY <1>2 DEF AcceptNetwork
  <2> QED
    BY <2>1, <2>2, PolicyErrorNotOk, FinishStatus DEF fail, Done
<1>3. CASE AcceptTpm
  <2>1. pc' = "payload" \/ Fails
    BY <1>3 DEF AcceptTpm
  <2> QED
    BY <2>1, FinishStatus DEF fail, Done
<1>4. CASE OpenPayload
  <2>1. pc' = "opened" \/ Fails
    BY <1>4 DEF OpenPayload
  <2> QED
    BY <2>1, FinishStatus DEF fail, Done
<1>5. CASE ReleaseSession
  <2>1. pc' = "release" \/ Fails
    BY <1>5 DEF ReleaseSession
  <2> QED
    BY <2>1, FinishStatus DEF fail, Done
<1> QED
  BY <1>1, <1>2, <1>3, <1>4, <1>5 DEF Synchronous

\* Neither an answer nor the deadline of the network loop ends in a success.
LEMMA NetworkNotOk ==
  ASSUME NEW p \in Providers, NEW kind \in Kinds \cup {"none"},
         Satisfy(p, kind) \/ Continue(p, kind) \/ Timeout
  PROVE  ~Done({"Ok"})'
<1>1. CASE Satisfy(p, kind)
  <2>1. pc' = "accept" \/ fail("InconsistentShares")
    BY <1>1 DEF Satisfy
  <2> QED
    BY SMT, <2>1, FinishStatus DEF fail, Done
<1>2. CASE Continue(p, kind)
  <2>1. pc' = "network" \/ finish("InsufficientFactors", failures')
    BY <1>2 DEF Continue, take
  <2> QED
    BY SMT, <2>1, FinishStatus DEF Done
<1>3. CASE Timeout
  BY SMT, <1>3, FinishStatus DEF Timeout, Done
<1> QED
  BY <1>1, <1>2, <1>3

\* Only the last step of run returns the credential.
LEMMA OnlyReleaseSucceeds ==
  ASSUME TypeOK, [Next]_vars, pc # "done", Done({"Ok"})'
  PROVE  Release /\ gate' = advance(gate, 3) /\ ~expired
<1>1. ~(Synchronous /\ ~Release)
  BY SynchronousNotOk
<1>2. ~(\E p \in Providers : Answer(p))
  BY NetworkNotOk DEF Answer
<1>3. ~Timeout
  BY SMT, FinishStatus DEF Timeout, Done
<1>4. ~(Tick \/ UNCHANGED vars \/ \E p \in Providers : Poll(p))
  BY DEF Tick, Poll, vars, Done
<1>5. Release
  BY <1>1, <1>2, <1>3, <1>4 DEF Next
<1>6. CASE release_release(gate, "own", ~expired)
  BY <1>5, <1>6 DEF Release, release_release
<1>7. CASE ~release_release(gate, "own", ~expired)
  <2>1. fail(IF expired THEN "DeadlineExceeded" ELSE "Policy")
    BY <1>5, <1>7 DEF Release
  <2> QED
    BY SMT, <2>1, FinishStatus DEF fail, Done
<1> QED
  BY <1>5, <1>6, <1>7

\* The credential is released with all of its evidence, before the deadline.
THEOREM ReleaseIsJustified == Spec => []ReleaseHasEvidence
<1>1. Init => ReleaseHasEvidence
  BY DEF Init, ReleaseHasEvidence, Done
<1>2. TypeOK /\ Coherent /\ ReleaseHasEvidence /\ [Next]_vars => ReleaseHasEvidence'
  <2> SUFFICES ASSUME TypeOK, Coherent, ReleaseHasEvidence, [Next]_vars,
                      Done({"Ok"})'
               PROVE  ReleaseHasEvidence'
    BY DEF ReleaseHasEvidence
  <2>1. CASE pc = "done"
    BY <2>1, DoneIsFinal DEF ReleaseHasEvidence, Done, vars, environment, network
  <2>2. CASE pc # "done"
    <3>1. Release /\ gate' = advance(gate, 3) /\ ~expired
      BY <2>2, OnlyReleaseSucceeds
    <3>2. /\ session.responses = available
          /\ available \in Quorums
          /\ available \subseteq healthy
          /\ \A p \in available : report[p] = "Authenticated"
          /\ session.released
          /\ session.root_authenticated
          /\ session.require_live => live
      BY <3>1
         DEF Release, Coherent, NetworkState, SessionState, Satisfied, TpmTaken,
             Opened
    <3>3. gate'.phase = 4
      BY SMT, <3>1 DEF advance, ReleaseStates, TypeOK
    <3>4. UNCHANGED <<session, available, healthy, report, live, expired>>
      BY <3>1 DEF Release, environment, network
    <3> QED
      BY <3>1, <3>2, <3>3, <3>4 DEF ReleaseHasEvidence
  <2> QED
    BY <2>1, <2>2
<1> QED
  BY <1>1, <1>2, StaysCoherent, PTL DEF Spec

\* Both gates accept what the operation gives them: in a coherent state none of
\* the methods called by run refuses, whatever the policy.
LEMMA GatesNeverRefuse ==
  ASSUME TypeOK, Coherent
  PROVE  /\ \A id \in available \ session.responses :
              pc = "accept" => accept_network_error(session, id) = "Ok"
         /\ pc = "accept" => release_network(gate, "own")
         /\ pc = "tpm" => require_authenticated(session) = "Ok"
         /\ pc = "tpm" /\ (session.require_live => live)
              => release_tpm(gate, "own", live)
         /\ pc = "payload" => authenticate_root_error(session) = "Ok"
         /\ pc = "payload" => release_payload(gate, "own")
         /\ pc = "opened" => session_release_error(session) = "Ok"
         /\ pc = "release" /\ ~expired => release_release(gate, "own", ~expired)
<1> USE DEF Begun, Satisfied, TpmTaken, Opened
<1>1. /\ session \in Sessions /\ gate \in ReleaseStates
      /\ SessionState /\ GateState
      /\ available \subseteq Leaves
  BY DEF TypeOK, Coherent
<1>2. pc \in {"accept", "tpm", "payload", "opened"}
        => require_authenticated(session) = "Ok"
  BY <1>1 DEF SessionState, require_authenticated
<1>3. pc \in {"payload", "opened"} => can_reconstruct(session)
  <2>1. pc \in {"payload", "opened"} => session.network_satisfied
    BY <1>1 DEF SessionState, Coherent, NetworkState
  <2> QED
    BY <1>1, <2>1 DEF SessionState, can_reconstruct
<1>4. \A id \in available \ session.responses :
        pc = "accept" => accept_network_error(session, id) = "Ok"
  BY <1>1, <1>2 DEF accept_network_error
<1>5. pc = "payload" => authenticate_root_error(session) = "Ok"
  BY <1>2, <1>3 DEF authenticate_root_error
<1>6. pc = "opened" => session_release_error(session) = "Ok"
  BY <1>1, <1>2, <1>3 DEF session_release_error, SessionState
<1>7. /\ pc = "accept" => release_network(gate, "own")
      /\ pc = "tpm" /\ (session.require_live => live)
           => release_tpm(gate, "own", live)
      /\ pc = "payload" => release_payload(gate, "own")
      /\ pc = "release" /\ ~expired => release_release(gate, "own", ~expired)
  BY SMT, <1>1
     DEF GateState, ReleaseStates, release_network, release_tpm,
         release_payload, release_release, advances
<1> QED
  BY <1>2, <1>4, <1>5, <1>6, <1>7

\* When every binding was answered and none is pending, a quorum of answering
\* providers would have been noticed, unless the deadline cut one off.
LEMMA InsufficientHasCause ==
  ASSUME TypeOK, Coherent, NEW p \in Providers, NEW kind \in Kinds \cup {"none"},
         Continue(p, kind), pending' = {}, [Next]_vars
  PROVE  expired \/ healthy \notin Quorums
<1> SUFFICES ASSUME ~expired, healthy \in Quorums PROVE FALSE
  OBVIOUS
<1>1. NetworkState' /\ TypeOK'
  BY StepNetwork, StepType
<1>2. /\ UNCHANGED <<healthy, expired>>
      /\ available' \notin Quorums
      /\ report' = observe(p, kind)
    BY DEF Continue, take, environment
<1>3. queued' = N
  <2>1. N \in Nat /\ queued \in 0..N
    BY LeavesAssumption DEF TypeOK, LeavesAssumption
  <2>2. queued' = IF queued < N THEN queued + 1 ELSE queued
    BY DEF Continue
  <2>3. (queued + 1)..queued' = {}
    BY DEF Continue
  <2>4. ~(queued < N)
    <3> SUFFICES ASSUME queued < N PROVE FALSE
      OBVIOUS
    <3>1. queued + 1 \in (queued + 1)..queued'
      BY SMT, <2>1, <2>2
    <3> QED
      BY <2>3, <3>1
  <2> QED
    BY SMT, <2>1, <2>2, <2>4
<1>4. Answered' = Providers
  <2>1. Answered' = Answered \cup {p}
    BY <1>2 DEF Answered, observe, TypeOK
  <2>2. pending' = (1..queued') \ Answered'
    BY SMT, <2>1, LeavesAssumption
       DEF Coherent, NetworkState, Continue, take, TypeOK, LeavesAssumption
  <2>3. Answered' \subseteq Providers
    BY DEF Answered
  <2> QED
    BY <1>3, <2>2, <2>3
<1>5. healthy \subseteq available'
  BY <1>1, <1>2, <1>4 DEF NetworkState, Answered, TypeOK
<1>6. available' \in SUBSET Leaves
  BY <1>1 DEF TypeOK
<1> QED
  BY <1>2, <1>5, <1>6, QuorumAssumption DEF QuorumAssumption

\* Every reported status has its cause; Policy is never reported.
THEOREM StatusIsTruthful == Spec => []StatusHasCause
<1>1. Init => StatusHasCause
  BY DEF Init, StatusHasCause
<1>2. TypeOK /\ Coherent /\ StatusHasCause /\ [Next]_vars => StatusHasCause'
  <2> SUFFICES ASSUME TypeOK, Coherent, StatusHasCause, [Next]_vars,
                      pc' = "done"
               PROVE  StatusHasCause'
    BY DEF StatusHasCause
  <2> USE DEF environment, network, fail, finish
  <2>1. CASE pc = "done"
    BY SMT, <2>1, DoneIsFinal DEF StatusHasCause, Done, vars
  <2>2. CASE RefuseEnvelope \/ Begin \/ NestedRuntime
    BY SMT, <2>2 DEF RefuseEnvelope, Begin, NestedRuntime, StatusHasCause, Done
  <2>3. ASSUME pc # "done", Tick \/ StartNetwork \/ UNCHANGED vars PROVE FALSE
    BY <2>3 DEF Tick, StartNetwork, vars
  <2>4. ASSUME NEW id \in Leaves, AcceptNetwork(id) PROVE FALSE
    <3>1. pc = "accept" /\ id \in available \ session.responses
      BY <2>4 DEF AcceptNetwork
    <3>2. accept_network_error(session, id) = "Ok"
      BY <3>1, GatesNeverRefuse
    <3> QED
      BY <2>4, <3>1, <3>2 DEF AcceptNetwork
  <2>5. CASE CloseNetwork
    <3>1. UNCHANGED expired /\ pc = "accept"
      BY <2>5 DEF CloseNetwork
    <3>2. release_network(gate, "own")
      BY <3>1, GatesNeverRefuse
    <3>3. expired /\ fail("DeadlineExceeded")
      BY <2>5, <3>2 DEF CloseNetwork
    <3> QED
      BY <3>1, <3>3, FinishStatus DEF StatusHasCause, Done
  <2>6. CASE Unseal \/ CheckUnsealed
    BY SMT, <2>6 DEF Unseal, CheckUnsealed, StatusHasCause, Done, enter
  <2>7. CASE AcceptTpm
    <3>1. UNCHANGED <<fault, live, session>> /\ pc = "tpm"
      BY <2>7 DEF AcceptTpm
    <3>2. CASE session.require_live /\ ~live
      <4>1. fail("UnsupportedMode")
        BY <2>7, <3>2 DEF AcceptTpm, TpmEvidence_error
      <4> QED
        BY <3>1, <3>2, <4>1, FinishStatus DEF StatusHasCause, Done
    <3>3. CASE (session.require_live => live) /\ fault = "tpm_leaf"
      <4>1. fail("Crypto")
        BY <2>7, <3>3 DEF AcceptTpm, TpmEvidence_error
      <4> QED
        BY <3>1, <3>3, <4>1, FinishStatus DEF StatusHasCause, Done
    <3>4. CASE (session.require_live => live) /\ fault # "tpm_leaf"
      <4>1. TpmEvidence_error = "Ok"
        BY <3>4 DEF TpmEvidence_error
      <4>2. /\ require_authenticated(session) = "Ok"
            /\ release_tpm(gate, "own", live)
        BY <3>1, <3>4, GatesNeverRefuse
      <4> QED
        BY <2>7, <4>1, <4>2 DEF AcceptTpm
    <3> QED
      BY <3>2, <3>3, <3>4
  <2>8. CASE OpenPayload
    <3>1. UNCHANGED fault /\ pc = "payload"
      BY <2>8 DEF OpenPayload
    <3>2. authenticate_root_error(session) = "Ok" /\ release_payload(gate, "own")
      BY <3>1, GatesNeverRefuse
    <3>3. fault \in {"shares", "payload"} /\ fail("Crypto")
      BY <2>8, <3>2 DEF OpenPayload
    <3> QED
      BY <3>1, <3>3, FinishStatus DEF StatusHasCause, Done
  <2>9. CASE ReleaseSession
    <3>1. UNCHANGED expired /\ pc = "opened"
      BY <2>9 DEF ReleaseSession
    <3>2. session_release_error(session) = "Ok"
      BY <3>1, GatesNeverRefuse
    <3>3. expired /\ fail("DeadlineExceeded")
      BY <2>9, <3>2 DEF ReleaseSession
    <3> QED
      BY <3>1, <3>3, FinishStatus DEF StatusHasCause, Done
  <2>10. CASE Release
    <3>1. fault = "none"
      BY <2>10
         DEF Release, Coherent, FaultState, TypeOK, Faults, Begun, Asked,
             Satisfied, Unsealed, TpmTaken, Opened
    <3>2. UNCHANGED <<fault, expired>> /\ pc = "release"
      BY <2>10 DEF Release
    <3>3. CASE expired
      <4>1. fail("DeadlineExceeded")
        BY <2>10, <3>3 DEF Release, release_release
      <4> QED
        BY <3>2, <3>3, <4>1, FinishStatus DEF StatusHasCause, Done
    <3>4. CASE ~expired
      <4>1. release_release(gate, "own", ~expired)
        BY <3>2, <3>4, GatesNeverRefuse
      <4>2. finish("Ok", failures)
        BY <2>10, <4>1 DEF Release
      <4> QED
        BY <3>1, <3>2, <4>2, FinishStatus DEF StatusHasCause, Done
    <3> QED
      BY <3>3, <3>4
  <2>11. ASSUME NEW p \in Providers, Poll(p), pc # "done" PROVE FALSE
    BY <2>11 DEF Poll
  <2>12. ASSUME NEW p \in Providers, NEW kind \in Kinds \cup {"none"},
                Satisfy(p, kind)
         PROVE  StatusHasCause'
    BY SMT, <2>12 DEF Satisfy, take, StatusHasCause, Done
  <2>13. ASSUME NEW p \in Providers, NEW kind \in Kinds \cup {"none"},
                Continue(p, kind)
         PROVE  StatusHasCause'
    <3>1. pending' = {} /\ Done({"InsufficientFactors"})'
      BY SMT, <2>13 DEF Continue, take, Done
    <3>2. expired \/ healthy \notin Quorums
      BY <2>13, <3>1, InsufficientHasCause
    <3> QED
      BY <2>13, <3>1, <3>2 DEF Continue, take, StatusHasCause, Done
  <2>14. CASE Timeout
    BY <2>14 DEF Timeout, StatusHasCause, Done
  <2> QED
    BY <2>1, <2>2, <2>3, <2>4, <2>5, <2>6, <2>7, <2>8, <2>9, <2>10, <2>11,
       <2>12, <2>13, <2>14
       DEF Next, Synchronous, Answer
<1> QED
  BY <1>1, <1>2, StaysCoherent, PTL DEF Spec

\* No network operation survives the recovery phase, and the TPM is touched or
\* blamed only after a recorded quorum.
THEOREM NetworkComesFirst == Spec => []NetworkPrecedesTpm
<1>1. TypeOK /\ Coherent /\ pc # "done" => NetworkPrecedesTpm
  BY SMT DEF Coherent, NetworkState, SessionState, GateState, NetworkPrecedesTpm,
         Done, Satisfied, TpmTaken, Opened
<1>2. Init => NetworkPrecedesTpm
  BY <1>1, InitType, InitCoherent DEF Init
<1>3. /\ TypeOK /\ Coherent /\ (TypeOK /\ Coherent)'
      /\ NetworkPrecedesTpm /\ [Next]_vars
      => NetworkPrecedesTpm'
  <2> SUFFICES ASSUME TypeOK, Coherent, TypeOK', Coherent',
                      NetworkPrecedesTpm, [Next]_vars
               PROVE  NetworkPrecedesTpm'
    OBVIOUS
  <2>1. CASE pc' # "done"
    <3>1. pc' # "network" => pending' = {}
      BY DEF Coherent, NetworkState
    <3>2. ASSUME Satisfied'
          PROVE  /\ available' \in Quorums
                 /\ session'.responses = available'
                 /\ session'.network_satisfied
      BY <3>2 DEF Coherent, NetworkState, SessionState
    <3>3. Satisfied' => gate'.phase >= 1
      BY SMT, <2>1 DEF Coherent, GateState, TpmTaken, Opened
    <3> QED
      BY <2>1, <3>1, <3>2, <3>3 DEF NetworkPrecedesTpm, Done, Satisfied
  <2>2. CASE pc = "done"
    BY <2>2, DoneIsFinal DEF NetworkPrecedesTpm, Done, vars, network
  <2> USE DEF environment, network, fail, finish, enter
  <2>3. ASSUME pc # "done", Done({"Tpm", "Crypto", "Ok"})'
        PROVE  /\ Satisfied
               /\ UNCHANGED <<available, session>>
               /\ gate'.phase \in {gate.phase, 4}
    <3>1. Unseal \/ AcceptTpm \/ OpenPayload \/ Release
      <4> USE DEF Done, policy_error
      <4> HIDE DEF fail, finish, enter
      <4>1. ASSUME NEW p \in Providers, NEW kind \in Kinds \cup {"none"},
                   Satisfy(p, kind) \/ Continue(p, kind)
            PROVE  FALSE
        <5>1. \/ pc' \in {"accept", "network"}
              \/ fail("InconsistentShares")
              \/ finish("InsufficientFactors", failures')
          BY <4>1 DEF Satisfy, Continue, take
        <5> QED
          BY SMT, <2>3, <5>1, FinishStatus DEF fail
      <4>2. ~(\E p \in Providers : Poll(p)) /\ ~Tick /\ ~UNCHANGED vars
        BY <2>3 DEF Poll, Tick, vars
      <4>3. ASSUME RefuseEnvelope \/ Begin \/ NestedRuntime PROVE FALSE
        <5>1. pc' = "run" \/ \E error \in {"Envelope", "TargetMismatch",
                "UnsupportedMode", "DeadlineExceeded", "Runtime"} : fail(error)
          BY <4>3 DEF RefuseEnvelope, Begin, NestedRuntime
        <5> QED
          BY <2>3, <5>1, FinishStatus DEF fail
      <4>4. ~StartNetwork /\ ~CloseNetwork /\ ~Timeout
        <5>1. ~StartNetwork
          BY <2>3 DEF StartNetwork
        <5>2. ASSUME CloseNetwork PROVE FALSE
          <6>1. \/ pc' = "unseal"
                \/ fail("Policy")
                \/ fail("DeadlineExceeded")
            BY <5>2 DEF CloseNetwork
          <6> QED
            BY SMT, <2>3, <6>1, FinishStatus DEF fail
        <5>3. ~Timeout
          BY SMT, <2>3, FinishStatus DEF Timeout
        <5> QED
          BY <5>1, <5>2, <5>3
      <4>5. ASSUME NEW id \in Leaves, AcceptNetwork(id) PROVE FALSE
        <5>1. pc' = pc \/ fail(policy_error(accept_network_error(session, id)))
          BY <4>5 DEF AcceptNetwork
        <5>2. policy_error(accept_network_error(session, id))
                \in {"InsufficientFactors", "Policy"}
          BY DEF policy_error
        <5> HIDE DEF policy_error
        <5> QED
          BY <2>3, <5>1, <5>2, FinishStatus DEF fail
      <4>6. ASSUME CheckUnsealed \/ ReleaseSession PROVE FALSE
        <5>1. pc' \in {"tpm", "release"} \/ \E error \in {"DeadlineExceeded",
                "InsufficientFactors", "Policy"} : fail(error)
          BY <4>6 DEF CheckUnsealed, ReleaseSession
        <5> QED
          BY <2>3, <5>1, FinishStatus DEF fail
      <4> QED
        BY <4>1, <4>2, <4>3, <4>4, <4>5, <4>6 DEF Next, Synchronous, Answer
    <3> QED
      BY SMT, <2>3, <3>1
         DEF Unseal, AcceptTpm, OpenPayload, Release, Done, Satisfied, advance,
             TypeOK, ReleaseStates
  <2>4. CASE pc # "done" /\ pc' = "done"
    <3>1. pending' = {}
      BY <2>4 DEF Coherent, NetworkState
    <3>2. Done({"Tpm", "Crypto", "Ok"})' =>
            /\ available' \in Quorums
            /\ session'.responses = available'
            /\ session'.network_satisfied
            /\ gate'.phase >= 1
      <4>1. Satisfied =>
              /\ available \in Quorums
              /\ session.responses = available
              /\ session.network_satisfied
              /\ gate.phase >= 1
        BY <2>4, <1>1 DEF NetworkPrecedesTpm, Satisfied
      <4> QED
        BY SMT, <2>3, <2>4, <4>1
    <3> QED
      BY <2>4, <3>1, <3>2 DEF NetworkPrecedesTpm
  <2> QED
    BY <2>1, <2>2, <2>4
<1> QED
  BY <1>2, <1>3, StaysCoherent, PTL DEF Spec

-----------------------------------------------------------------------------
(* Refinement                                                              *)

\* The operation implements the abstract promise about the credential.
THEOREM ImplementsCustody == Spec => KeepsCustody
<1> USE DEF environment, network
<1>1. Init => custody!Init
  BY SMT DEF Init, custody!Init, outcome, new_release
<1>2. TypeOK /\ Coherent /\ (TypeOK /\ Coherent)' /\ [Next]_vars
        => [custody!Next]_custody!vars
  <2> SUFFICES ASSUME TypeOK, Coherent, TypeOK', Coherent', [Next]_vars
               PROVE  [custody!Next]_custody!vars
    OBVIOUS
  <2>1. CASE pc = "done"
    BY <2>1, DoneIsFinal DEF custody!vars, outcome, Done, vars
  <2> SUFFICES ASSUME pc # "done" PROVE [custody!Next]_custody!vars
    BY <2>1
  <2>2. outcome = "open"
    BY DEF outcome
  <2>3. ASSUME UNCHANGED <<available, expired>>, (gate.phase >= 2) = (gate'.phase >= 2),
               ~Done({"Ok"})'
        PROVE  [custody!Next]_custody!vars
    BY <2>2, <2>3
       DEF custody!Next, custody!Refuse, custody!vars, outcome
  <2>4. CASE Tick
    BY <2>2, <2>4 DEF Tick, custody!Next, custody!Expire, outcome
  <2>5. CASE \/ RefuseEnvelope \/ Begin \/ NestedRuntime \/ StartNetwork
             \/ CloseNetwork \/ Unseal \/ CheckUnsealed \/ ReleaseSession
    <3>1. UNCHANGED <<available, expired>>
      BY <2>5
         DEF RefuseEnvelope, Begin, NestedRuntime, StartNetwork, CloseNetwork,
             Unseal, CheckUnsealed, ReleaseSession
    <3>2. CASE CloseNetwork
      <4>1. pc = "accept" /\ gate' \in {gate, advance(gate, 0)}
        BY <3>2 DEF CloseNetwork
      <4>2. ~(gate.phase >= 2) /\ ~(gate'.phase >= 2)
        BY SMT, <4>1
           DEF advance, TypeOK, ReleaseStates, Coherent, GateState, Satisfied,
               TpmTaken, Opened
      <4>3. ~Done({"Ok"})'
        BY <3>2, <4>1, SynchronousNotOk DEF Synchronous, Release
      <4> QED
        BY SMT, <2>3, <3>1, <4>2, <4>3
    <3>3. CASE ~CloseNetwork
      <4>1. gate' = gate
        BY <2>5, <3>3
           DEF RefuseEnvelope, Begin, NestedRuntime, StartNetwork, Unseal,
               CheckUnsealed, ReleaseSession
      <4>2. pc # "release"
        BY <2>5, <3>3
           DEF RefuseEnvelope, Begin, NestedRuntime, StartNetwork, Unseal,
               CheckUnsealed, ReleaseSession
      <4>3. ~Done({"Ok"})'
        BY <2>5, <4>2, SynchronousNotOk DEF Synchronous, Release
      <4> QED
        BY <2>3, <3>1, <4>1, <4>3
    <3> QED
      BY <3>2, <3>3
  <2>6. ASSUME NEW id \in Leaves, AcceptNetwork(id)
        PROVE  [custody!Next]_custody!vars
    <3>1. UNCHANGED <<available, expired, gate>> /\ pc # "release"
      BY <2>6 DEF AcceptNetwork
    <3>2. ~Done({"Ok"})'
      BY <2>6, <3>1, SynchronousNotOk DEF Synchronous, Release
    <3> QED
      BY <2>3, <3>1, <3>2
  <2>7. CASE AcceptTpm
    <3>1. UNCHANGED <<available, expired>> /\ pc # "release"
      BY <2>7 DEF AcceptTpm
    <3>2. ~Done({"Ok"})'
      BY <2>7, <3>1, SynchronousNotOk DEF Synchronous, Release
    <3>3. CASE gate' = gate
      BY <2>3, <3>1, <3>2, <3>3
    <3>4. CASE gate' # gate
      <4>1. gate' = advance(gate, 1) /\ pc = "tpm" /\ pc' = "payload"
        BY <2>7, <3>4 DEF AcceptTpm
      <4>2. /\ available \in Quorums
            /\ gate.phase = 1 /\ gate'.phase = 2
        BY <4>1
           DEF Coherent, NetworkState, GateState, Satisfied, TpmTaken, Opened,
               TypeOK, ReleaseStates, advance
      <4> QED
        BY SMT, <2>2, <3>1, <4>1, <4>2 DEF custody!Next, custody!TakeTpm, outcome
    <3> QED
      BY <3>3, <3>4
  <2>8. CASE OpenPayload
    <3>1. UNCHANGED <<available, expired>> /\ pc = "payload"
      BY <2>8 DEF OpenPayload
    <3>2. ~Done({"Ok"})'
      BY <2>8, <3>1, SynchronousNotOk DEF Synchronous, Release
    <3>3. gate' \in {gate, advance(gate, 2)}
      BY <2>8 DEF OpenPayload
    <3>4. gate.phase >= 2 /\ gate'.phase >= 2
      BY SMT, <3>1, <3>3
         DEF Coherent, GateState, TpmTaken, Opened, TypeOK, ReleaseStates, advance
    <3> QED
      BY <2>3, <3>1, <3>2, <3>4
  <2>9. CASE Release
    <3>1. /\ available \in Quorums
          /\ gate.phase >= 2 /\ gate'.phase >= 2
          /\ UNCHANGED <<available, expired>>
      BY SMT, <2>9
         DEF Release, Coherent, NetworkState, GateState, Satisfied, TpmTaken,
             Opened, TypeOK, ReleaseStates, advance
    <3>2. CASE ~Done({"Ok"})'
      BY <2>3, <3>1, <3>2
    <3>3. CASE Done({"Ok"})'
      <4>1. ~expired
        BY <3>3, OnlyReleaseSucceeds
      <4> QED
        BY <2>2, <3>1, <3>3, <4>1
           DEF custody!Next, custody!Release, outcome, Done
    <3> QED
      BY <3>2, <3>3
  <2>10. ASSUME NEW p \in Providers, Poll(p) PROVE [custody!Next]_custody!vars
    <3>1. UNCHANGED <<available, expired, gate, pc>>
      BY <2>10 DEF Poll
    <3> QED
      BY <2>3, <3>1 DEF Done
  <2>11. ASSUME NEW p \in Providers, NEW kind \in Kinds \cup {"none"},
                Satisfy(p, kind) \/ Continue(p, kind)
         PROVE  [custody!Next]_custody!vars
    <3>1. /\ available' \in {available, available \cup {p}}
          /\ UNCHANGED <<expired, gate>>
          /\ ~Done({"Ok"})'
      BY <2>11, NetworkNotOk DEF Satisfy, Continue, take
    <3>2. CASE available' = available
      BY <2>3, <3>1, <3>2
    <3>3. CASE available' # available
      <4>1. p \in Leaves \ available /\ available' = available \cup {p}
        BY <3>1, <3>3
      <4>2. available \notin Quorums
        BY <2>11 DEF Satisfy, Continue, take, Coherent, NetworkState
      <4>3. outcome' \in {"open", "refused"}
        BY <3>1 DEF outcome
      <4> QED
        BY <2>2, <3>1, <4>1, <4>2, <4>3 DEF custody!Next, custody!Collect
    <3> QED
      BY <3>2, <3>3
  <2>12. CASE Timeout
    <3>1. UNCHANGED <<available, expired, gate>>
      BY <2>12 DEF Timeout
    <3>2. ~Done({"Ok"})'
      BY SMT, <2>12, FinishStatus DEF Timeout, Done
    <3> QED
      BY <2>3, <3>1, <3>2
  <2>13. CASE UNCHANGED vars
    BY <2>13 DEF custody!vars, outcome, Done, vars
  <2> QED
    BY <2>4, <2>5, <2>6, <2>7, <2>8, <2>9, <2>10, <2>11, <2>12, <2>13
       DEF Next, Synchronous, Answer
<1> QED
  BY <1>1, <1>2, StaysCoherent, PTL DEF Spec, KeepsCustody, custody!Spec

-----------------------------------------------------------------------------
(* The report and the failures                                             *)

\* What the report, the failures and the active stage are while the operation
\* runs: a provider has failed exactly if its observation says so.
ReportState ==
  /\ pc = "begin" => \A p \in Providers : report[p] = "absent"
  /\ pc \in {"run", "network"} =>
       \A p \in Providers : report[p] \in {"NotStarted", "Authenticated", "Failed"}
  /\ pc # "done" => \A p \in Providers : failures[p] # "none" <=> report[p] = "Failed"
  /\ pc \in {"begin", "run"} => stage = "Validate"
  /\ pc = "network" => stage = "Network"

\* The steps outside the network phase leave the report and the failures alone.
LEMMA QuietSteps ==
  ASSUME NEW id \in Leaves,
         \/ Tick \/ RefuseEnvelope \/ NestedRuntime \/ AcceptNetwork(id)
         \/ CloseNetwork \/ Unseal \/ CheckUnsealed \/ AcceptTpm
         \/ OpenPayload \/ ReleaseSession \/ Release
  PROVE  /\ UNCHANGED <<report, failures, available, queued>>
         /\ \/ UNCHANGED <<pc, stage>>
            \/ pc' \notin {"begin", "run", "network"} /\ pc # "done"
<1> USE DEF network, fail, finish
<1>1. CASE Tick \/ RefuseEnvelope \/ NestedRuntime
  BY <1>1 DEF Tick, RefuseEnvelope, NestedRuntime
<1>2. CASE AcceptNetwork(id) \/ CloseNetwork
  BY <1>2 DEF AcceptNetwork, CloseNetwork
<1>3. CASE Unseal \/ CheckUnsealed
  BY <1>3 DEF Unseal, CheckUnsealed
<1>4. CASE AcceptTpm
  BY <1>4 DEF AcceptTpm
<1>5. CASE OpenPayload
  BY <1>5 DEF OpenPayload
<1>6. CASE ReleaseSession \/ Release
  BY <1>6 DEF ReleaseSession, Release
<1> QED
  BY <1>1, <1>2, <1>3, <1>4, <1>5, <1>6

\* The loop takes an answer: its provider was asked and had none.
LEMMA TakeReports ==
  ASSUME TypeOK, Coherent, ReportState, NEW p \in Providers,
         NEW kind \in Kinds \cup {"none"}, take(p, kind)
  PROVE  /\ pc = "network" /\ p \in started /\ report[p] = "NotStarted"
         /\ observe(p, kind)[p] = IF kind = "none" THEN "Authenticated" ELSE "Failed"
         /\ failures'[p] = kind
         /\ \A q \in Providers \ {p} :
              observe(p, kind)[q] = report[q] /\ failures'[q] = failures[q]
<1>1. pc = "network" /\ p \in started /\ p \in pending
  BY DEF take
<1>2. report[p] = "NotStarted"
  BY <1>1 DEF ReportState, Coherent, NetworkState, Answered
<1> QED
  BY <1>1, <1>2 DEF TypeOK, take, observe

\* No provider has reported before the operation begins.
LEMMA InitReport == Init => ReportState
  BY DEF Init, ReportState, NoFailures

\* Every step keeps the reports in agreement with where the providers are.
LEMMA StepReport ==
  TypeOK /\ Coherent /\ ReportState /\ [Next]_vars => ReportState'
<1> SUFFICES ASSUME TypeOK, Coherent, ReportState, [Next]_vars
             PROVE  ReportState'
  OBVIOUS
<1>1. ASSUME NEW id \in Leaves,
             \/ Tick \/ RefuseEnvelope \/ NestedRuntime \/ AcceptNetwork(id)
             \/ CloseNetwork \/ Unseal \/ CheckUnsealed \/ AcceptTpm
             \/ OpenPayload \/ ReleaseSession \/ Release
      PROVE  ReportState'
  BY <1>1, QuietSteps DEF ReportState
<1>2. CASE UNCHANGED vars
  BY <1>2 DEF ReportState, vars, network
<1>3. CASE Begin
  <2>1. pc = "begin" /\ UNCHANGED failures
    BY <1>3 DEF Begin, network
  <2>2. \A p \in Providers : failures[p] = "none" /\ report'[p] = "NotStarted"
    BY <1>3, <2>1 DEF Begin, ReportState
  <2>3. pc' = "done" \/ (pc' = "run" /\ stage' = "Validate")
    BY <1>3, <2>1 DEF Begin, fail, finish, ReportState
  <2> QED
    BY <2>1, <2>2, <2>3 DEF ReportState
<1>4. CASE StartNetwork
  BY <1>4 DEF StartNetwork, enter, ReportState
<1>5. ASSUME NEW p \in Providers, Poll(p) PROVE ReportState'
  BY <1>5 DEF Poll, ReportState
<1>6. ASSUME NEW p \in Providers, NEW kind \in Kinds \cup {"none"}, Satisfy(p, kind)
      PROVE  ReportState'
  <2>1. take(p, kind) /\ report' = cancel_observations(observe(p, kind), "CanceledQuorum")
    BY <1>6 DEF Satisfy
  <2>2. pc' \in {"done", "accept"}
    BY <1>6 DEF Satisfy, fail, finish
  <2>3. ASSUME NEW q \in Providers
        PROVE  failures'[q] # "none" <=> report'[q] = "Failed"
    BY SMT, <2>1, TakeReports DEF cancel_observations, ReportState
  <2> QED
    BY <2>2, <2>3 DEF ReportState
<1>7. ASSUME NEW p \in Providers, NEW kind \in Kinds \cup {"none"}, Continue(p, kind)
      PROVE  ReportState'
  <2>1. take(p, kind) /\ report' = observe(p, kind)
    BY <1>7 DEF Continue
  <2>2. pc' = "done" \/ UNCHANGED <<pc, stage>>
    BY <1>7 DEF Continue, finish
  <2>3. ASSUME NEW q \in Providers
        PROVE  /\ failures'[q] # "none" <=> report'[q] = "Failed"
               /\ report'[q] \in {"NotStarted", "Authenticated", "Failed"}
    BY SMT, <2>1, TakeReports DEF ReportState
  <2> QED
    BY <2>1, <2>2, <2>3, TakeReports DEF ReportState
<1>8. CASE Timeout
  BY <1>8 DEF Timeout, finish, ReportState
<1>9. 1 \in Leaves
  BY SMT, LeavesAssumption
<1> QED
  BY <1>1, <1>2, <1>3, <1>4, <1>5, <1>6, <1>7, <1>8, <1>9
     DEF Next, Synchronous, Answer

\* The reports agree with the providers in every reachable state.
LEMMA StaysReported == Spec => [](TypeOK /\ Coherent /\ ReportState)
<1>1. Init => TypeOK /\ Coherent /\ ReportState
  BY InitType, InitCoherent, InitReport
<1>2. /\ TypeOK /\ Coherent /\ ReportState /\ [Next]_vars
      => (TypeOK /\ Coherent /\ ReportState)'
  BY StepType, StepNetwork, StepSession, StepGate, StepFault, StepReport DEF Coherent
<1> QED
  BY <1>1, <1>2, PTL DEF Spec

\* Once the loop has taken an answer, or closed a provider's observation, the
\* report keeps it: cancel_observations passes over what is already there.
THEOREM ReportIsFinal == Spec => AnswersStand
<1>1. ASSUME TypeOK, Coherent, ReportState, [Next]_vars,
             NEW q \in Providers, report[q] \notin {"absent", "NotStarted"}
      PROVE  report'[q] = report[q]
  <2>1. ASSUME NEW id \in Leaves,
               \/ Tick \/ RefuseEnvelope \/ NestedRuntime \/ AcceptNetwork(id)
               \/ CloseNetwork \/ Unseal \/ CheckUnsealed \/ AcceptTpm
               \/ OpenPayload \/ ReleaseSession \/ Release
        PROVE  report'[q] = report[q]
    BY <2>1, QuietSteps
  <2>2. CASE UNCHANGED vars \/ StartNetwork
    BY <2>2 DEF vars, StartNetwork
  <2>3. CASE Begin
    BY <1>1, <2>3 DEF Begin, ReportState
  <2>4. ASSUME NEW p \in Providers, Poll(p) PROVE report'[q] = report[q]
    BY <2>4 DEF Poll
  <2>5. ASSUME NEW p \in Providers, NEW kind \in Kinds \cup {"none"},
               Satisfy(p, kind) \/ Continue(p, kind)
        PROVE  report'[q] = report[q]
    <3>1. /\ take(p, kind)
          /\ \/ report' = observe(p, kind)
             \/ report' = cancel_observations(observe(p, kind), "CanceledQuorum")
      BY <2>5 DEF Satisfy, Continue
    <3>2. /\ report[p] = "NotStarted"
          /\ \A x \in Providers \ {p} : observe(p, kind)[x] = report[x]
      BY <1>1, <3>1, TakeReports
    <3>3. observe(p, kind)[q] = report[q]
      BY <1>1, <3>2
    <3> QED
      BY <1>1, <3>1, <3>3 DEF cancel_observations
  <2>6. CASE Timeout
    BY <1>1, <2>6 DEF Timeout, cancel_observations
  <2>7. 1 \in Leaves
    BY SMT, LeavesAssumption
  <2> QED
    BY <1>1, <2>1, <2>2, <2>3, <2>4, <2>5, <2>6, <2>7 DEF Next, Synchronous, Answer
<1>2. /\ TypeOK /\ Coherent /\ ReportState /\ [Next]_vars
      => [\A p \in Providers :
            report[p] \notin {"absent", "NotStarted"} => report'[p] = report[p]]_vars
  BY <1>1
<1> QED
  BY <1>2, StaysReported, PTL DEF Spec, AnswersStand

-----------------------------------------------------------------------------
(* What the caller is told                                                 *)

\* An error without provider failures, other than the two that name some.
LEMMA FailDiagnoses ==
  ASSUME NEW error, fail(error), error \notin {"Ok", "InsufficientFactors"},
         error = "DeadlineExceeded" /\ stage = "Network" => available' \in Quorums
  PROVE  DiagnosticsExact'
<1>1. /\ result'.status = error /\ stage' = stage
      /\ \A p \in Providers : result'.failures[p] = "none"
  BY SMT DEF fail, finish, NoFailures
<1> QED
  BY <1>1 DEF DiagnosticsExact, Done

\* The credential is released with the failures of the providers that failed.
LEMMA ReleaseDiagnoses ==
  ASSUME ReportState, Release, finish("Ok", failures)
  PROVE  DiagnosticsExact'
<1>1. pc = "release" /\ UNCHANGED report
  BY DEF Release
<1>2. pc' = "done" /\ result'.status = "Ok" /\ result'.failures = failures
  BY SMT DEF finish
<1>3. \A p \in Providers : result'.failures[p] # "none" <=> report'[p] = "Failed"
  BY <1>1, <1>2 DEF ReportState
<1> QED
  BY <1>2, <1>3 DEF DiagnosticsExact, Done

\* The loop ends without a quorum: everyone was asked, and has answered.
LEMMA ContinueDiagnoses ==
  ASSUME TypeOK, Coherent, ReportState, NEW p \in Providers,
         NEW kind \in Kinds \cup {"none"}, Continue(p, kind), pending' = {}
  PROVE  DiagnosticsExact'
<1>1. /\ take(p, kind) /\ report' = observe(p, kind)
      /\ finish("InsufficientFactors", failures')
  BY DEF Continue
<1>2. /\ pc' = "done" /\ result'.status = "InsufficientFactors"
      /\ result'.failures = failures'
  BY SMT, <1>1 DEF finish
<1>3. \A q \in Providers : failures'[q] # "none" <=> report'[q] = "Failed"
  BY SMT, <1>1, TakeReports DEF ReportState
<1>4. \A q \in Providers : report'[q] = "Authenticated" => q \in available'
  <2>1. available' = IF kind = "none" THEN available \cup {p} ELSE available
    BY <1>1 DEF take
  <2> QED
    BY SMT, <1>1, <2>1, TakeReports DEF Coherent, NetworkState
<1>5. \A q \in Providers : report'[q] \in {"Authenticated", "Failed"}
  <2>1. N \in Nat /\ queued \in 0..N /\ ~(queued < N)
    <3>1. N \in Nat /\ queued \in 0..N
      BY LeavesAssumption DEF TypeOK
    <3>2. queued' = IF queued < N THEN queued + 1 ELSE queued
      BY DEF Continue
    <3>3. (queued + 1)..queued' = {}
      BY DEF Continue
    <3> QED
      BY SMT, <3>1, <3>2, <3>3
  <2>2. queued = N
    BY SMT, <2>1
  <2>3. pending \subseteq {p}
    BY DEF Continue
  <2>4. \A q \in Providers \ {p} : q \in Answered
    BY <1>1, <2>2, <2>3, TakeReports DEF Coherent, NetworkState
  <2> QED
    BY SMT, <1>1, <2>4, TakeReports DEF Answered
<1>6. available' \subseteq Providers
  BY <1>1 DEF take, TypeOK
<1> QED
  BY <1>2, <1>3, <1>4, <1>5, <1>6 DEF DiagnosticsExact, Done

\* The deadline passes in the loop: the providers that failed, and those that were
\* pushed and have not answered, make up all that were pushed and gave no share.
LEMMA TimeoutDiagnoses ==
  ASSUME TypeOK, Coherent, ReportState, Timeout
  PROVE  DiagnosticsExact'
<1>1. /\ pc = "network" /\ finish("DeadlineExceeded", failures')
      /\ failures' = [p \in Providers |-> timed_out(p)]
      /\ UNCHANGED <<available, queued>>
  BY DEF Timeout
<1>2. /\ pc' = "done" /\ result'.status = "DeadlineExceeded"
      /\ result'.failures = failures' /\ stage' = stage
  BY SMT, <1>1 DEF finish
<1>3. stage = "Network" /\ available \notin Quorums
  BY <1>1 DEF ReportState, Coherent, NetworkState
<1>4. \A p \in Providers : failures'[p] # "none" <=> p \in (1..queued) \ available
  <2>1. ASSUME NEW p \in Providers
        PROVE  timed_out(p) # "none" <=> p <= queued /\ p \notin available
    <3>1. failures[p] # "none" <=> report[p] = "Failed"
      BY <1>1 DEF ReportState
    <3>2. failures[p] # "none" => p <= queued /\ p \notin available
      BY <3>1 DEF Coherent, NetworkState, Answered
    <3> QED
      BY SMT, <3>2 DEF timed_out
  <2>2. \A p \in Providers : p <= queued <=> p \in 1..queued
    BY SMT, LeavesAssumption DEF TypeOK
  <2> QED
    BY <1>1, <2>1, <2>2
<1>5. (1..queued) \ available \subseteq Providers
  BY SMT, LeavesAssumption DEF TypeOK
<1> QED
  BY <1>1, <1>2, <1>3, <1>4, <1>5 DEF DiagnosticsExact, Done

\* The failures handed to the caller are exact, however the operation ends.
THEOREM DiagnosticsAreExact == Spec => []DiagnosticsExact
<1>1. Init => DiagnosticsExact
  BY DEF Init, DiagnosticsExact
<1>2. /\ TypeOK /\ Coherent /\ ReportState /\ DiagnosticsExact /\ [Next]_vars
      => DiagnosticsExact'
  <2> SUFFICES ASSUME TypeOK, Coherent, ReportState, DiagnosticsExact, [Next]_vars,
                      pc' = "done"
               PROVE  DiagnosticsExact'
    BY DEF DiagnosticsExact
  <2>q. pc \in {"accept", "unseal", "unsealed", "tpm", "payload", "opened", "release"}
          => available \in Quorums
    BY DEF Coherent, NetworkState, Satisfied
  <2>1. CASE pc = "done"
    <3>1. UNCHANGED vars
      BY <2>1, DoneIsFinal
    <3> QED
      BY <3>1 DEF DiagnosticsExact, Done, vars, network
  <2>2. CASE RefuseEnvelope \/ NestedRuntime \/ Unseal
    <3>1. fail("Envelope") \/ fail("Runtime") \/ fail("Tpm")
      BY <2>2 DEF RefuseEnvelope, NestedRuntime, Unseal
    <3> QED
      BY <3>1, FailDiagnoses
  <2>3. CASE Begin
    <3>1. stage # "Network"
      BY <2>3 DEF Begin, ReportState
    <3>2. fail("TargetMismatch") \/ fail("UnsupportedMode") \/ fail("DeadlineExceeded")
      BY <2>3 DEF Begin
    <3> QED
      BY <3>1, <3>2, FailDiagnoses
  <2>4. ASSUME pc # "done", Tick \/ StartNetwork \/ UNCHANGED vars PROVE FALSE
    BY <2>4 DEF Tick, StartNetwork, vars
  <2>5. ASSUME NEW id \in Leaves, AcceptNetwork(id) PROVE FALSE
    <3>1. pc = "accept" /\ id \in available \ session.responses
      BY <2>5 DEF AcceptNetwork
    <3>2. accept_network_error(session, id) = "Ok"
      BY <3>1, GatesNeverRefuse
    <3> QED
      BY <2>5, <3>1, <3>2 DEF AcceptNetwork
  <2>6. CASE CloseNetwork \/ CheckUnsealed
    <3>1. /\ pc \in {"accept", "unsealed"} /\ UNCHANGED available
          /\ fail("Policy") \/ fail("DeadlineExceeded")
      BY <2>6 DEF CloseNetwork, CheckUnsealed, network
    <3> QED
      BY <2>q, <3>1, FailDiagnoses
  <2>7. CASE AcceptTpm
    <3>1. pc = "tpm" /\ require_authenticated(session) = "Ok"
      BY <2>7, GatesNeverRefuse DEF AcceptTpm
    <3>2. \/ TpmEvidence_error # "Ok" /\ fail(TpmEvidence_error)
          \/ fail("Policy")
      BY <2>7, <3>1 DEF AcceptTpm
    <3>3. TpmEvidence_error \in {"Ok", "UnsupportedMode", "Crypto"}
      BY DEF TpmEvidence_error
    <3> QED
      BY <3>2, <3>3, FailDiagnoses
  <2>8. CASE OpenPayload
    <3>1. pc = "payload" /\ authenticate_root_error(session) = "Ok"
      BY <2>8, GatesNeverRefuse DEF OpenPayload
    <3>2. fail("Crypto") \/ fail("Policy")
      BY <2>8, <3>1 DEF OpenPayload
    <3> QED
      BY <3>2, FailDiagnoses
  <2>9. CASE ReleaseSession
    <3>1. pc = "opened" /\ UNCHANGED available /\ session_release_error(session) = "Ok"
      BY <2>9, GatesNeverRefuse DEF ReleaseSession, network
    <3>2. fail("DeadlineExceeded")
      BY <2>9, <3>1 DEF ReleaseSession
    <3> QED
      BY <2>q, <3>1, <3>2, FailDiagnoses
  <2>10. CASE Release
    <3>1. pc = "release" /\ UNCHANGED available
      BY <2>10 DEF Release, network
    <3>2. finish("Ok", failures) \/ fail("DeadlineExceeded") \/ fail("Policy")
      BY <2>10 DEF Release
    <3>3. CASE finish("Ok", failures)
      BY <2>10, <3>3, ReleaseDiagnoses
    <3>4. CASE fail("DeadlineExceeded") \/ fail("Policy")
      BY <2>q, <3>1, <3>4, FailDiagnoses
    <3> QED
      BY <3>2, <3>3, <3>4
  <2>11. ASSUME NEW p \in Providers, Poll(p) PROVE FALSE
    BY <2>11 DEF Poll
  <2>12. ASSUME NEW p \in Providers, NEW kind \in Kinds \cup {"none"}, Satisfy(p, kind)
         PROVE  DiagnosticsExact'
    <3>1. fail("InconsistentShares")
      BY <2>12 DEF Satisfy
    <3> QED
      BY <3>1, FailDiagnoses
  <2>13. ASSUME NEW p \in Providers, NEW kind \in Kinds \cup {"none"}, Continue(p, kind)
         PROVE  DiagnosticsExact'
    <3>1. pending' = {}
      BY <2>13 DEF Continue, take
    <3> QED
      BY <2>13, <3>1, ContinueDiagnoses
  <2>14. CASE Timeout
    BY <2>14, TimeoutDiagnoses
  <2> QED
    BY <2>1, <2>2, <2>3, <2>4, <2>5, <2>6, <2>7, <2>8, <2>9, <2>10, <2>11, <2>12,
       <2>13, <2>14
       DEF Next, Synchronous, Answer
<1> QED
  BY <1>1, <1>2, StaysReported, PTL DEF Spec

-----------------------------------------------------------------------------
(* The concurrency window                                                  *)

\* The window of recover_network_observed: the first bindings fill it, and each
\* answer that does not end the loop lets the next binding in.
THEOREM WindowStaysFull == Spec => []WindowIsFull
<1>1. Init => WindowIsFull
  BY DEF Init, WindowIsFull
<1>2. TypeOK /\ Coherent /\ NetworkState' /\ WindowIsFull /\ [Next]_vars => WindowIsFull'
  <2> SUFFICES ASSUME TypeOK, Coherent, NetworkState', WindowIsFull, [Next]_vars,
                      pc' = "network"
               PROVE  WindowIsFull'
    BY DEF WindowIsFull
  <2>1. pending' = (1..queued') \ Answered'
    BY DEF NetworkState
  <2>2. N \in Nat \ {0} /\ MaxOperations \in Nat \ {0} /\ queued \in 0..N
    BY LeavesAssumption, OperationsAssumption DEF TypeOK
  <2>3. CASE StartNetwork
    <3>1. /\ queued' = IF N < MaxOperations THEN N ELSE MaxOperations
          /\ pending' = 1..queued'
      BY <2>3 DEF StartNetwork
    <3>2. /\ queued' \in Nat \ {0} /\ queued' <= MaxOperations
          /\ queued' < N => queued' = MaxOperations
      BY SMT, <2>2, <3>1
    <3>3. Cardinality(1..queued') = queued'
      <4>1. 1 \in Int /\ queued' \in Int /\ ~(1 > queued')
        BY SMT, <3>2
      <4>2. Cardinality(1..queued') = queued' - 1 + 1
        BY <4>1, FS_Interval
      <4> QED
        BY SMT, <3>2, <4>2
    <3>4. 1 \in 1..queued'
      BY SMT, <3>2
    <3> QED
      BY <2>1, <3>1, <3>2, <3>3, <3>4 DEF WindowIsFull
  <2>4. CASE UNCHANGED <<pc, queued, pending, report>>
    BY <2>4 DEF WindowIsFull, Answered
  <2>5. ASSUME NEW p \in Providers, NEW kind \in Kinds \cup {"none"}, Continue(p, kind)
        PROVE  WindowIsFull'
    <3>1. /\ pc = "network" /\ p \in pending /\ pending' # {}
          /\ queued' = IF queued < N THEN queued + 1 ELSE queued
          /\ pending' = (pending \ {p}) \cup ((queued + 1)..queued')
      BY <2>5 DEF Continue, take, finish
    <3>2. /\ IsFiniteSet(pending) /\ Cardinality(pending) \in Nat
          /\ Cardinality(pending) <= MaxOperations
          /\ queued < N => Cardinality(pending) = MaxOperations
      <4>1. 1 \in Int /\ queued \in Int
        BY SMT, <2>2
      <4>2. IsFiniteSet(pending)
        BY <3>1, <4>1, FS_Interval, FS_Subset DEF WindowIsFull
      <4> QED
        BY <3>1, <4>2, FS_CardinalityType DEF WindowIsFull
    <3>3. IsFiniteSet(pending \ {p}) /\ Cardinality(pending \ {p}) = Cardinality(pending) - 1
      BY <3>1, <3>2, FS_RemoveElement
    <3>4. CASE queued < N
      <4>1. queued' = queued + 1 /\ pending' = (pending \ {p}) \cup {queued + 1}
        <5>1. queued' = queued + 1 /\ (queued + 1)..queued' = {queued + 1}
          BY SMT, <2>2, <3>1, <3>4
        <5> QED
          BY <3>1, <5>1
      <4>2. queued + 1 \notin pending \ {p}
        BY SMT, <2>2, <3>1 DEF WindowIsFull
      <4>3. Cardinality(pending') = Cardinality(pending \ {p}) + 1
        BY <3>3, <4>1, <4>2, FS_AddElement
      <4>4. Cardinality(pending') = MaxOperations
        BY SMT, <2>2, <3>2, <3>3, <3>4, <4>3
      <4>5. MaxOperations <= MaxOperations
        BY SMT, <2>2
      <4> QED
        BY <2>1, <3>1, <4>4, <4>5 DEF WindowIsFull
    <3>5. CASE ~(queued < N)
      <4>1. queued' = queued /\ (queued + 1)..queued' = {}
        BY SMT, <2>2, <3>1, <3>5
      <4>2. pending' = pending \ {p}
        BY <3>1, <4>1
      <4>3. Cardinality(pending') <= MaxOperations /\ ~(queued' < N)
        BY SMT, <2>2, <3>2, <3>3, <3>5, <4>1, <4>2
      <4> QED
        BY <2>1, <3>1, <4>3 DEF WindowIsFull
    <3> QED
      BY <3>4, <3>5
  <2>6. CASE UNCHANGED vars \/ Tick \/ \E p \in Providers : Poll(p)
    BY <2>4, <2>6 DEF vars, network, Tick, Poll
  <2> QED
    <3> USE DEF fail, finish, enter
    <3>1. ~(RefuseEnvelope \/ Begin \/ NestedRuntime \/ Timeout)
      BY DEF RefuseEnvelope, Begin, NestedRuntime, Timeout
    <3>2. ~(\E id \in Leaves : AcceptNetwork(id)) /\ ~CloseNetwork
      BY DEF AcceptNetwork, CloseNetwork
    <3>3. ~(Unseal \/ CheckUnsealed \/ AcceptTpm)
      BY DEF Unseal, CheckUnsealed, AcceptTpm
    <3>4. ~(OpenPayload \/ ReleaseSession \/ Release)
      BY DEF OpenPayload, ReleaseSession, Release
    <3>5. ~(\E p \in Providers, kind \in Kinds \cup {"none"} : Satisfy(p, kind))
      BY DEF Satisfy
    <3> QED
      BY <2>3, <2>5, <2>6, <3>1, <3>2, <3>3, <3>4, <3>5 DEF Next, Synchronous, Answer
<1>3. TypeOK /\ Coherent /\ WindowIsFull /\ [Next]_vars => WindowIsFull'
  BY <1>2, StepNetwork
<1> QED
  BY <1>1, <1>3, StaysCoherent, PTL DEF Spec

-----------------------------------------------------------------------------
(* Plans and quorums: what the gates assume of the quorums holds of the     *)
(* sets that satisfy a compiled plan (QuorumAssumption, PolicyPlan).        *)

\* What leaf_checked and threshold_checked certify of a gate: a leaf reads one of the n
\* answers, and a threshold is possible and has earlier gates as children.
SoundGate(node, position, n) ==
  \/ node.kind = "leaf" /\ node.response \in 1..n
  \/ /\ node.kind = "threshold"
     /\ node.children \in Seq(1..position)
     /\ node.required \in 1..Len(node.children)

SoundPlan(gates, n) ==
  /\ n \in Nat
  /\ Len(gates) \in Nat \ {0}
  /\ \A g \in 1..Len(gates) : SoundGate(gates[g], g - 1, n)

\* A set that has 0 and with each number the next one has them all.
LEMMA Induction ==
  ASSUME NEW S, 0 \in S, \A n \in Nat : n \in S => n + 1 \in S
  PROVE  Nat \subseteq S
<1> SUFFICES ASSUME Nat \ S # {} PROVE FALSE
  OBVIOUS
<1> DEFINE R == OpToRel(<, Nat)
<1>1. IsWellFoundedOn(R, Nat)
  BY NatLessThanWellFounded
<1>2. \A x, y \in Nat : <<x, y>> \in R <=> x < y
  BY DEF OpToRel
<1> HIDE DEF R
<1>3. PICK x \in Nat \ S : \A y \in Nat \ S : ~(<<y, x>> \in R)
  BY <1>1, WFMin
<1>4. x # 0 /\ x \in Nat
  BY <1>3
<1>5. x - 1 \in Nat /\ x - 1 < x /\ (x - 1) + 1 = x
  BY SMT, <1>4
<1>6. x - 1 \in S
  BY <1>2, <1>3, <1>5
<1> QED
  BY <1>3, <1>5, <1>6

\* The values of the gates before each gate.
Prefixes(f, gates, responses, k) ==
  f = [n \in 0..k |->
        IF n = 0 THEN <<>>
        ELSE Append(f[n - 1], evaluate_gate(gates[n], f[n - 1], responses))]

\* The function that evaluated_prefix defines by recursion exists.
LEMMA PrefixesExist ==
  ASSUME NEW gates, NEW responses
  PROVE  \A k \in Nat : \E f : Prefixes(f, gates, responses, k)
<1> DEFINE more(n, v) == Append(v, evaluate_gate(gates[n], v, responses))
           S == {k \in Nat : \E f : Prefixes(f, gates, responses, k)}
<1>1. \A f, k : Prefixes(f, gates, responses, k) <=>
        f = [n \in 0..k |-> IF n = 0 THEN <<>> ELSE more(n, f[n - 1])]
  BY DEF Prefixes
<1> HIDE DEF more
<1>2. 0 \in S
  <2> DEFINE f == [n \in 0..0 |-> <<>>]
  <2>1. \A n \in 0..0 : n = 0
    BY SMT
  <2>2. f = [n \in 0..0 |-> IF n = 0 THEN <<>> ELSE more(n, f[n - 1])]
    BY <2>1
  <2> QED
    BY <1>1, <2>2
<1>3. ASSUME NEW k \in Nat, k \in S PROVE k + 1 \in S
  <2>1. PICK f : Prefixes(f, gates, responses, k)
    BY <1>3
  <2> DEFINE g == [n \in 0..(k + 1) |-> IF n = k + 1 THEN more(k + 1, f[k]) ELSE f[n]]
             h == [n \in 0..(k + 1) |-> IF n = 0 THEN <<>> ELSE more(n, g[n - 1])]
  <2>2. /\ k + 1 \in Nat /\ k + 1 # 0 /\ (k + 1) - 1 = k /\ k # k + 1
        /\ k \in 0..(k + 1) /\ 0 \in 0..k
        /\ \A n \in 0..(k + 1) : n # k + 1 => n \in 0..k
        /\ \A n \in 0..k : n # 0 => n - 1 \in 0..(k + 1) /\ n - 1 # k + 1
    BY SMT
  <2>3. \A n \in 0..k : f[n] = IF n = 0 THEN <<>> ELSE more(n, f[n - 1])
    <3>1. f = [n \in 0..k |-> IF n = 0 THEN <<>> ELSE more(n, f[n - 1])]
      BY <1>1, <2>1
    <3> QED
      BY <3>1
  <2>4. ASSUME NEW n \in 0..(k + 1) PROVE g[n] = h[n]
    <3>1. CASE n = k + 1
      <4>1. g[k] = f[k]
        BY <2>2
      <4>2. h[n] = more(k + 1, g[(k + 1) - 1])
        BY <2>2, <3>1
      <4> QED
        BY <2>2, <3>1, <4>1, <4>2
    <3>2. CASE n = 0
      BY <2>2, <2>3, <3>2
    <3>3. CASE n # 0 /\ n # k + 1
      <4>1. n \in 0..k /\ g[n] = f[n] /\ h[n] = more(n, g[n - 1])
        BY <2>2, <3>3
      <4>2. g[n - 1] = f[n - 1]
        BY <2>2, <3>3, <4>1
      <4> QED
        BY <2>3, <3>3, <4>1, <4>2
    <3> QED
      BY <3>1, <3>2, <3>3
  <2>5. g = h
    BY <2>4
  <2>6. Prefixes(g, gates, responses, k + 1)
    <3>1. Prefixes(g, gates, responses, k + 1) <=> g = h
      <4> HIDE DEF g
      <4> QED
        BY <1>1
    <3> QED
      BY <2>5, <3>1
  <2> QED
    BY <2>2, <2>6
<1> HIDE DEF S
<1>4. Nat \subseteq S
  BY <1>2, <1>3, Induction
<1> QED
  BY <1>4 DEF S

\* Evaluation gate by gate, from no value to one per gate.
Evaluation(f, gates, responses) ==
  /\ f[0] = <<>>
  /\ \A n \in 0..Len(gates) : n # Len(gates) =>
       f[n + 1] = Append(f[n], evaluate_gate(gates[n + 1], f[n], responses))
  /\ evaluated_prefix(gates, responses) = f[Len(gates)]

\* evaluated_prefix is where such an evaluation ends.
LEMMA EvaluationExists ==
  ASSUME NEW gates, Len(gates) \in Nat, NEW responses
  PROVE  \E f : Evaluation(f, gates, responses)
<1> DEFINE L == Len(gates)
           more(n, v) == Append(v, evaluate_gate(gates[n], v, responses))
           prefix == CHOOSE f : Prefixes(f, gates, responses, L)
<1>1. Prefixes(prefix, gates, responses, L)
  BY PrefixesExist
<1>2. evaluated_prefix(gates, responses) = prefix[L]
  BY DEF evaluated_prefix, Prefixes
<1> HIDE DEF prefix
<1>3. \A n \in 0..L : prefix[n] = IF n = 0 THEN <<>> ELSE more(n, prefix[n - 1])
  BY <1>1 DEF Prefixes
<1> HIDE DEF more
<1>4. 0 \in 0..L /\ \A n \in 0..L : n # L => n + 1 \in 0..L /\ n + 1 # 0 /\ (n + 1) - 1 = n
  BY SMT
<1>5. prefix[0] = <<>>
  BY <1>3, <1>4
<1>6. ASSUME NEW n \in 0..L, n # L
      PROVE  prefix[n + 1] = more(n + 1, prefix[n])
  <2>1. prefix[n + 1] = more(n + 1, prefix[(n + 1) - 1])
    BY <1>3, <1>4, <1>6
  <2> QED
    BY <1>4, <1>6, <2>1
<1>7. Evaluation(prefix, gates, responses)
  BY <1>2, <1>5, <1>6 DEF Evaluation, more
<1> QED
  BY <1>7

Truth == BOOLEAN

\* Three relations between the values under no answer, under all of them, and under some
\* answers and more.
Ordered(e, a, f, h, k) ==
  /\ e \in Seq(Truth) /\ a \in Seq(Truth) /\ f \in Seq(Truth) /\ h \in Seq(Truth)
  /\ Len(e) = k /\ Len(a) = k /\ Len(f) = k /\ Len(h) = k
  /\ \A i \in 1..k : ~e[i] /\ a[i] /\ (f[i] => h[i])

\* A sound gate keeps them.
LEMMA GateOrdered ==
  ASSUME NEW node, NEW k \in Nat, NEW n \in Nat, SoundGate(node, k, n),
         NEW R, NEW Q, R \subseteq Q,
         NEW e, NEW a, NEW f, NEW h, Ordered(e, a, f, h, k)
  PROVE  /\ ~evaluate_gate(node, e, {})
         /\ evaluate_gate(node, a, 1..n)
         /\ evaluate_gate(node, f, R) => evaluate_gate(node, h, Q)
<1>1. CASE node.kind = "leaf"
  <2>1. node.response \in 1..n
    BY <1>1 DEF SoundGate
  <2> QED
    BY <1>1, <2>1 DEF evaluate_gate
<1>2. CASE node.kind # "leaf"
  <2> DEFINE children == node.children
             C == Len(children)
             True(v) == {i \in DOMAIN children : v[children[i]]}
  <2>1. children \in Seq(1..k) /\ node.required \in 1..C
    BY <1>2 DEF SoundGate
  <2>2. C \in Nat /\ DOMAIN children = 1..C /\ \A i \in 1..C : children[i] \in 1..k
    BY SMT, <2>1
  <2>3. node.required # 0 /\ node.required <= C /\ node.required \in Nat
    BY SMT, <2>1, <2>2
  <2>4. \A i \in DOMAIN children : children[i] <= k
    BY SMT, <2>2
  <2>5. IsFiniteSet(1..C) /\ Cardinality(1..C) = C
    <3>1. 1 \in Int /\ C \in Int
      BY SMT, <2>2
    <3>2. IsFiniteSet(1..C) /\ Cardinality(1..C) = IF 1 > C THEN 0 ELSE C - 1 + 1
      BY <3>1, FS_Interval
    <3>3. (IF 1 > C THEN 0 ELSE C - 1 + 1) = C
      <4> HIDE DEF C
      <4> QED
        BY SMT, <2>2
    <3> HIDE DEF C
    <3> QED
      BY SMT, <3>2, <3>3
  <2>6. Len(e) = k /\ Len(a) = k /\ Len(f) = k /\ Len(h) = k
    BY DEF Ordered
  <2>7. True(e) = {} /\ True(a) = 1..C /\ True(f) \subseteq True(h) /\ True(h) \subseteq 1..C
    <3>1. \A i \in 1..k : ~e[i] /\ a[i] /\ (f[i] => h[i])
      BY DEF Ordered
    <3> QED
      BY <2>2, <3>1
  <2> HIDE DEF True
  <2>8. ~(Cardinality(True(e)) >= node.required)
    <3>1. Cardinality(True(e)) = 0
      BY <2>7, FS_EmptySet
    <3> QED
      BY SMT, <2>3, <3>1
  <2>9. Cardinality(True(a)) >= node.required
    <3>1. Cardinality(True(a)) = C
      BY <2>5, <2>7
    <3> QED
      BY SMT, <2>2, <2>3, <3>1
  <2>10. Cardinality(True(f)) >= node.required => Cardinality(True(h)) >= node.required
    <3>1. IsFiniteSet(True(h))
      BY <2>5, <2>7, FS_Subset
    <3>2. Cardinality(True(f)) <= Cardinality(True(h)) /\ IsFiniteSet(True(f))
      BY <2>7, <3>1, FS_Subset
    <3>3. Cardinality(True(f)) \in Nat /\ Cardinality(True(h)) \in Nat
      BY <3>1, <3>2, FS_CardinalityType
    <3> QED
      BY SMT, <2>3, <3>2, <3>3
  <2> QED
    BY <1>2, <2>3, <2>4, <2>6, <2>8, <2>9, <2>10 DEF evaluate_gate, True
<1> QED
  BY <1>1, <1>2

\* One value more.
Longer(z, x, y, k) ==
  /\ z \in Seq(Truth) /\ Len(z) = k + 1
  /\ \A i \in 1..k : z[i] = x[i]
  /\ z[k + 1] = y

\* Append adds it behind the others.
LEMMA ValueAppended ==
  ASSUME NEW x \in Seq(Truth), NEW y \in Truth, NEW k \in Nat, Len(x) = k
  PROVE  Longer(Append(x, y), x, y, k)
  BY SMT DEF Longer

\* The relations hold of the values of a sound plan.
LEMMA PlanOrdered ==
  ASSUME NEW gates, NEW n, SoundPlan(gates, n), NEW R, NEW Q, R \subseteq Q,
         NEW e, NEW a, NEW f, NEW h,
         Evaluation(e, gates, {}), Evaluation(a, gates, 1..n),
         Evaluation(f, gates, R), Evaluation(h, gates, Q)
  PROVE  Ordered(e[Len(gates)], a[Len(gates)], f[Len(gates)], h[Len(gates)], Len(gates))
<1> DEFINE L == Len(gates)
           S == {k \in Nat : k \in 0..L => Ordered(e[k], a[k], f[k], h[k], k)}
<1>1. 0 \in S
  <2>1. <<>> \in Seq(Truth) /\ Len(<<>>) = 0 /\ \A i \in 1..0 : FALSE
    BY SMT
  <2>2. e[0] = <<>> /\ a[0] = <<>> /\ f[0] = <<>> /\ h[0] = <<>>
    BY DEF Evaluation
  <2>3. Ordered(e[0], a[0], f[0], h[0], 0)
    BY <2>1, <2>2 DEF Ordered
  <2> QED
    BY <2>3
<1>2. ASSUME NEW k \in Nat, k \in S PROVE k + 1 \in S
  <2>1. k + 1 \in Nat
    BY SMT
  <2> SUFFICES ASSUME k + 1 \in 0..L
               PROVE  Ordered(e[k + 1], a[k + 1], f[k + 1], h[k + 1], k + 1)
    BY <2>1
  <2>2. k \in 0..L /\ k # L /\ k + 1 \in 1..L /\ (k + 1) - 1 = k
    BY SMT DEF SoundPlan
  <2>3. Ordered(e[k], a[k], f[k], h[k], k)
    BY <1>2, <2>2
  <2> DEFINE g == gates[k + 1]
  <2>4. /\ e[k + 1] = Append(e[k], evaluate_gate(g, e[k], {}))
        /\ a[k + 1] = Append(a[k], evaluate_gate(g, a[k], 1..n))
        /\ f[k + 1] = Append(f[k], evaluate_gate(g, f[k], R))
        /\ h[k + 1] = Append(h[k], evaluate_gate(g, h[k], Q))
    BY <2>2 DEF Evaluation
  <2>5. SoundGate(g, k, n) /\ n \in Nat
    <3>1. SoundGate(gates[k + 1], (k + 1) - 1, n)
      BY <2>2 DEF SoundPlan
    <3> QED
      BY <2>2, <3>1 DEF SoundPlan
  <2>6. \A v, r : evaluate_gate(g, v, r) \in Truth
    <3>1. CASE g.kind = "leaf"
      BY SMT, <3>1 DEF evaluate_gate, Truth
    <3>2. CASE g.kind # "leaf"
      BY SMT, <3>2 DEF evaluate_gate, Truth
    <3> QED
      BY <3>1, <3>2
  <2>7. /\ ~evaluate_gate(g, e[k], {})
        /\ evaluate_gate(g, a[k], 1..n)
        /\ evaluate_gate(g, f[k], R) => evaluate_gate(g, h[k], Q)
    BY <2>3, <2>5, GateOrdered
  <2>8. \A i \in 1..(k + 1) : i \in 1..k \/ i = k + 1
    BY SMT
  <2>9. /\ e[k] \in Seq(Truth) /\ a[k] \in Seq(Truth)
         /\ f[k] \in Seq(Truth) /\ h[k] \in Seq(Truth)
         /\ Len(e[k]) = k /\ Len(a[k]) = k /\ Len(f[k]) = k /\ Len(h[k]) = k
         /\ \A i \in 1..k : ~e[k][i] /\ a[k][i] /\ (f[k][i] => h[k][i])
    BY <2>3 DEF Ordered
  <2> DEFINE ye == evaluate_gate(g, e[k], {})
             ya == evaluate_gate(g, a[k], 1..n)
             yf == evaluate_gate(g, f[k], R)
             yh == evaluate_gate(g, h[k], Q)
  <2>10. /\ ye \in Truth /\ ya \in Truth /\ yf \in Truth /\ yh \in Truth
         /\ e[k + 1] = Append(e[k], ye) /\ a[k + 1] = Append(a[k], ya)
         /\ f[k + 1] = Append(f[k], yf) /\ h[k + 1] = Append(h[k], yh)
         /\ ~ye /\ ya /\ (yf => yh)
    BY <2>4, <2>6, <2>7
  <2> HIDE DEF ye, ya, yf, yh
  <2>11. /\ Longer(e[k + 1], e[k], ye, k) /\ Longer(a[k + 1], a[k], ya, k)
         /\ Longer(f[k + 1], f[k], yf, k) /\ Longer(h[k + 1], h[k], yh, k)
    BY <2>9, <2>10, ValueAppended
  <2>12. \A i \in 1..(k + 1) :
           ~e[k + 1][i] /\ a[k + 1][i] /\ (f[k + 1][i] => h[k + 1][i])
    BY <2>8, <2>9, <2>10, <2>11 DEF Longer
  <2> QED
    BY <2>11, <2>12 DEF Ordered, Longer
<1> HIDE DEF S
<1>3. Nat \subseteq S
  BY <1>1, <1>2, Induction
<1>4. L \in Nat /\ L \in 0..L
  BY SMT DEF SoundPlan
<1> QED
  BY <1>3, <1>4 DEF S

\* What Gates assumes of the quorums is true of every plan that the checker can accept:
\* no answers satisfy none, all answers satisfy each, and an answer more never makes
\* evaluate_network turn from true to false.
THEOREM PlansMakeQuorums ==
  ASSUME NEW gates, NEW n, SoundPlan(gates, n)
  PROVE  /\ SatisfyingSets(gates, n) \subseteq SUBSET (1..n)
         /\ {} \notin SatisfyingSets(gates, n)
         /\ 1..n \in SatisfyingSets(gates, n)
         /\ \A R \in SatisfyingSets(gates, n) : \A Q \in SUBSET (1..n) :
              R \subseteq Q => Q \in SatisfyingSets(gates, n)
<1> DEFINE L == Len(gates)
<1>1. L \in Nat /\ L > 0 /\ L \in 1..L
  BY SMT DEF SoundPlan
<1>2. PICK e : Evaluation(e, gates, {})
  BY <1>1, EvaluationExists
<1>3. PICK a : Evaluation(a, gates, 1..n)
  BY <1>1, EvaluationExists
<1>4. ASSUME NEW R, NEW Q, R \subseteq Q
      PROVE  /\ ~evaluate_network(gates, {})
             /\ evaluate_network(gates, 1..n)
             /\ evaluate_network(gates, R) => evaluate_network(gates, Q)
  <2>1. PICK f : Evaluation(f, gates, R)
    BY <1>1, EvaluationExists
  <2>2. PICK h : Evaluation(h, gates, Q)
    BY <1>1, EvaluationExists
  <2>3. Ordered(e[L], a[L], f[L], h[L], L)
    BY <1>2, <1>3, <1>4, <2>1, <2>2, PlanOrdered
  <2>4. ~e[L][L] /\ a[L][L] /\ (f[L][L] => h[L][L])
    BY <1>1, <2>3 DEF Ordered
  <2>5. /\ evaluated_prefix(gates, {}) = e[L] /\ evaluated_prefix(gates, 1..n) = a[L]
        /\ evaluated_prefix(gates, R) = f[L] /\ evaluated_prefix(gates, Q) = h[L]
    BY <1>2, <1>3, <2>1, <2>2 DEF Evaluation
  <2> QED
    BY <1>1, <2>4, <2>5 DEF evaluate_network
<1>5. ~evaluate_network(gates, {}) /\ evaluate_network(gates, 1..n)
  BY <1>4
<1> QED
  BY <1>4, <1>5 DEF SatisfyingSets

-----------------------------------------------------------------------------
(* The gates alone, their methods called in any order (GateApi).            *)

\* Every method of both gates keeps their types.
THEOREM GatesTypeCorrect == GatesSpec => []GatesTypeOK
<1>1. InitGates => GatesTypeOK
  BY SMT DEF InitGates, GatesTypeOK, Sessions, new_session, ReleaseStates,
         new_release
<1>2. GatesTypeOK /\ [NextGates]_gateVars => GatesTypeOK'
  <2> SUFFICES ASSUME GatesTypeOK, [NextGates]_gateVars PROVE GatesTypeOK'
    OBVIOUS
  <2>1. CASE AuthenticateEnvelope \/ ConfirmTpm \/ ConfirmLive
    BY <2>1
       DEF GatesTypeOK, Sessions, AuthenticateEnvelope, ConfirmTpm,
           ConfirmLive, authenticate_envelope, confirm_tpm,
           confirm_live_authorization
  <2>2. CASE AuthenticateRoot \/ SessionRelease
    BY <2>2
       DEF GatesTypeOK, Sessions, AuthenticateRoot, SessionRelease,
           authenticate_root, session_release
  <2>3. ASSUME NEW id \in 0..(N + 1), CallAcceptNetwork(id) PROVE GatesTypeOK'
    <3> DEFINE responses == session.responses \cup {id}
               satisfied == responses \in Quorums
    <3>1. session' = [session EXCEPT !.responses = responses,
                                     !.network_satisfied = satisfied]
      BY <2>3 DEF CallAcceptNetwork, accept_network
    <3>2. responses \in SUBSET Leaves /\ satisfied \in BOOLEAN
      BY SMT, <2>3
         DEF GatesTypeOK, Sessions, CallAcceptNetwork, accept_network_error,
             require_authenticated
    <3> HIDE DEF responses, satisfied
    <3> QED
      BY <2>3, <3>1, <3>2 DEF GatesTypeOK, Sessions, CallAcceptNetwork
  <2>4. ASSUME NEW context \in Contexts, NEW flag \in BOOLEAN,
               \/ Network(context) \/ Tpm(context, flag)
               \/ Payload(context) \/ GateRelease(context, flag)
        PROVE  GatesTypeOK'
    <3>1. 0 \in 0..3 /\ 1 \in 0..3 /\ 2 \in 0..3 /\ 3 \in 0..3
      BY SMT
    <3>2. PICK expected \in 0..3,
               evidence \in {"network", "tpm", "payload", "release"},
               said \in BOOLEAN :
                 /\ gate' = advance(gate, expected)
                 /\ Accept(evidence, context, said)
                 /\ session' = session
      BY <2>4, <3>1 DEF Network, Tpm, Payload, GateRelease
    <3>3. gate' \in ReleaseStates
      BY SMT, <3>2 DEF GatesTypeOK, ReleaseStates, advance
    <3>4. calls' \in Seq(Calls)
      BY SMT, <3>2 DEF GatesTypeOK, Accept, Calls
    <3> QED
      BY <3>2, <3>3, <3>4 DEF GatesTypeOK
  <2>5. CASE UNCHANGED gateVars
    BY <2>5 DEF GatesTypeOK, gateVars
  <2> QED
    BY <2>1, <2>2, <2>3, <2>4, <2>5 DEF NextGates
<1> QED
  BY <1>1, <1>2, PTL DEF GatesSpec

\* However PolicySession is called, a released session has all its factors.
THEOREM SessionIsJustified == GatesSpec => []SessionReleaseJustified
<1>1. InitGates => SessionReleaseJustified
  BY SMT, QuorumAssumption
     DEF InitGates, SessionReleaseJustified, new_session, QuorumAssumption
<1>2. GatesTypeOK /\ SessionReleaseJustified /\ [NextGates]_gateVars
        => SessionReleaseJustified'
  <2> SUFFICES ASSUME GatesTypeOK, SessionReleaseJustified, [NextGates]_gateVars
               PROVE  SessionReleaseJustified'
    OBVIOUS
  <2> USE DEF GatesTypeOK, Sessions, SessionReleaseJustified, require_authenticated
  <2>1. CASE AuthenticateEnvelope \/ ConfirmTpm \/ ConfirmLive
    BY <2>1
       DEF AuthenticateEnvelope, ConfirmTpm, ConfirmLive,
           authenticate_envelope, confirm_tpm, confirm_live_authorization
  <2>2. CASE AuthenticateRoot
    BY <2>2 DEF AuthenticateRoot, authenticate_root
  <2>3. ASSUME NEW id \in 0..(N + 1), CallAcceptNetwork(id)
        PROVE  SessionReleaseJustified'
    <3>1. ~session.released
      BY <2>3 DEF CallAcceptNetwork, accept_network_error
    <3>2. /\ session'.network_satisfied <=> session'.responses \in Quorums
          /\ session'.released = session.released
      BY <2>3 DEF CallAcceptNetwork, accept_network
    <3> QED
      BY <3>1, <3>2
  <2>4. CASE SessionRelease
    <3>1. can_reconstruct(session) /\ session.root_authenticated
      BY <2>4 DEF SessionRelease, session_release_error
    <3> QED
      BY <2>4, <3>1 DEF SessionRelease, session_release, can_reconstruct
  <2>5. ASSUME UNCHANGED session PROVE SessionReleaseJustified'
    BY <2>5
  <2> QED
    BY <2>1, <2>2, <2>3, <2>4, <2>5
       DEF NextGates, gateVars, Network, Tpm, Payload, GateRelease
<1> QED
  BY <1>1, <1>2, GatesTypeCorrect, PTL DEF GatesSpec

\* A released session never changes again.
THEOREM SessionIsFrozen == GatesSpec => SessionFrozen
<1>1. [NextGates]_gateVars => [session.released => session' = session]_session
  BY DEF NextGates, gateVars, AuthenticateEnvelope, CallAcceptNetwork, ConfirmTpm,
         ConfirmLive, AuthenticateRoot, SessionRelease, Network, Tpm,
         Payload, GateRelease, authenticate_envelope_error,
         accept_network_error, authenticate_root_error, session_release_error,
         require_authenticated
<1> QED
  BY <1>1, PTL DEF GatesSpec, SessionFrozen

\* The phase of the release gate counts the evidence it accepted, in order, all
\* of it for the gate's own context.
THEOREM GateIsJustified == GatesSpec => []GateReleaseJustified
<1>1. InitGates => GateReleaseJustified
  BY SMT DEF InitGates, GateReleaseJustified, new_release
<1>2. GatesTypeOK /\ GateReleaseJustified /\ [NextGates]_gateVars
        => GateReleaseJustified'
  <2> SUFFICES ASSUME GatesTypeOK, GateReleaseJustified, [NextGates]_gateVars
               PROVE  GateReleaseJustified'
    OBVIOUS
  <2>1. ASSUME UNCHANGED <<gate, calls>> PROVE GateReleaseJustified'
    BY <2>1 DEF GateReleaseJustified
  <2>2. ASSUME NEW context \in Contexts, NEW flag \in BOOLEAN,
               NEW expected \in 0..3,
               advances(gate, context, expected, flag),
               expected = 3 => flag,
               gate' = advance(gate, expected),
               Accept(Order[expected + 1], context, flag)
        PROVE  GateReleaseJustified'
    <3> DEFINE call == [evidence |-> Order[expected + 1], context |-> context,
                        flag |-> flag]
    <3>1. /\ gate.phase = expected
          /\ gate'.phase = expected + 1
          /\ gate'.context = gate.context
          /\ gate'.require_live = gate.require_live
      BY SMT, <2>2 DEF GatesTypeOK, ReleaseStates, advances, advance
    <3>2. /\ calls \in Seq(Calls)
          /\ Len(calls) = expected
          /\ calls' = Append(calls, call)
      BY SMT, <2>2, <3>1 DEF GatesTypeOK, GateReleaseJustified, Accept
    <3>3. /\ call.context = gate.context
          /\ expected = 1 /\ gate.require_live => call.flag
          /\ expected = 3 => call.flag
          /\ call.evidence = Order[expected + 1]
      BY SMT, <2>2 DEF advances
    <3> HIDE DEF call
    <3>4. /\ Len(calls') = expected + 1
          /\ calls'[expected + 1] = call
          /\ \A i \in 1..expected : calls'[i] = calls[i]
      BY SMT, <3>2
    <3> QED
      BY SMT, <3>1, <3>2, <3>3, <3>4 DEF GateReleaseJustified
  <2>3. /\ Order[0 + 1] = "network" /\ Order[1 + 1] = "tpm"
        /\ Order[2 + 1] = "payload" /\ Order[3 + 1] = "release"
    BY SMT DEF Order
  <2>4. /\ 0 \in 0..3 /\ 1 \in 0..3 /\ 2 \in 0..3 /\ 3 \in 0..3
        /\ 0 # 3 /\ 1 # 3 /\ 2 # 3 /\ FALSE \in BOOLEAN
    BY SMT
  <2>5. ASSUME NEW context \in Contexts, Network(context)
        PROVE  GateReleaseJustified'
    <3>1. /\ advances(gate, context, 0, FALSE) /\ gate' = advance(gate, 0)
          /\ Accept(Order[0 + 1], context, FALSE)
      BY <2>3, <2>5 DEF Network, release_network
    <3> QED
      BY <2>2, <2>4, <3>1
  <2>6. ASSUME NEW context \in Contexts, NEW alive \in BOOLEAN, Tpm(context, alive)
        PROVE  GateReleaseJustified'
    <3>1. /\ advances(gate, context, 1, alive) /\ gate' = advance(gate, 1)
          /\ Accept(Order[1 + 1], context, alive)
      BY <2>3, <2>6 DEF Tpm, release_tpm
    <3> QED
      BY <2>2, <2>4, <3>1
  <2>7. ASSUME NEW context \in Contexts, Payload(context)
        PROVE  GateReleaseJustified'
    <3>1. /\ advances(gate, context, 2, FALSE) /\ gate' = advance(gate, 2)
          /\ Accept(Order[2 + 1], context, FALSE)
      BY <2>3, <2>7 DEF Payload, release_payload
    <3> QED
      BY <2>2, <2>4, <3>1
  <2>8. ASSUME NEW context \in Contexts, NEW within \in BOOLEAN,
               GateRelease(context, within)
        PROVE  GateReleaseJustified'
    <3>1. /\ within /\ advances(gate, context, 3, FALSE) /\ gate' = advance(gate, 3)
          /\ Accept(Order[3 + 1], context, within)
      BY <2>3, <2>8 DEF GateRelease, release_release
    <3>2. advances(gate, context, 3, within)
      BY SMT, <3>1 DEF advances
    <3> QED
      BY <2>2, <2>4, <3>1, <3>2
  <2> QED
    BY <2>1, <2>5, <2>6, <2>7, <2>8
       DEF NextGates, gateVars, AuthenticateEnvelope, CallAcceptNetwork, ConfirmTpm,
           ConfirmLive, AuthenticateRoot, SessionRelease
<1> QED
  BY <1>1, <1>2, GatesTypeCorrect, PTL DEF GatesSpec
=============================================================================
