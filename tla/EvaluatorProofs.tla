--------------------------- MODULE EvaluatorProofs --------------------------
(***************************************************************************)
(* Proofs about the evaluator service, for every set of connections and     *)
(* every pair of limits: the gauge of admitted work, the observations of    *)
(* the stage timers, and what a response says.                              *)
(*                                                                          *)
(* None of the three properties is inductive.  The gauge is bounded because *)
(* permits and the tasks that hold one add up to the limit, and the gauge   *)
(* counts a subset of those tasks.  A timer is observed once because each   *)
(* step of a task only ends timers that are not yet dropped there.  A       *)
(* response is truthful because the worker's task starts after the          *)
(* frontend's checks and ends before the frontend reads its reply.          *)
(***************************************************************************)
EXTENDS Evaluator, FiniteSetTheorems, TLAPS

\* Most of what follows is reasoning about sets and functions, which is what Zenon
\* is good at; a leaf that needs arithmetic or records cites SMT.
USE Zenon

-----------------------------------------------------------------------------
(* The inductive invariant                                                 *)

Waiting == {"none", "backlog", "rejected", "admitted"}

Ended == {"leave", "left", "gone"}

Steps == Waiting \cup Ended \cup Serving \cup Handling

\* The steps at which a task owns a permit, and those at which it is counted by
\* the gauge.
Holding == {"admitted", "leave", "left"} \cup Serving \cup Handling

Counted == {"leave"} \cup Serving \cup Handling

Tasks(r, steps) == {c \in Connections : task[r][c] \in steps}

TasksType == task \in [Roles -> [Connections -> Steps]]

TimersType ==
  /\ timers \in [Roles -> [Connections -> [Stages -> {"none", "open", "dropped"}]]]
  /\ terminal \in [Roles -> [Connections -> [Stages -> Nat]]]

TypeOK ==
  /\ TasksType
  /\ TimersType
  /\ permits \in [Roles -> Nat]
  /\ inflight \in [Roles -> Nat]
  /\ request \in [Connections -> BOOLEAN]
  /\ reply \in [Connections -> {"none", "refused", "status", "full"}]
  /\ evaluated \in [Connections -> BOOLEAN]
  /\ http \in [Connections -> {0, 200, 400, 404, 503}]

\* Free permits and permits in use add up to the limit of the semaphore, and
\* the gauge is the number of tasks between metrics.enter and the drop of
\* _inflight.
PermitsAddUp(r) ==
  /\ IsFiniteSet(Tasks(r, Holding))
  /\ permits[r] + Cardinality(Tasks(r, Holding)) = limit[r]
  /\ inflight[r] = Cardinality(Tasks(r, Counted))

\* The observations of a task so far: one for each dropped timer, and no timer
\* outlives its task.
Counts(r, c) ==
  /\ \A s \in Stages :
       terminal[r][c][s] = IF timers[r][c][s] = "dropped" THEN 1 ELSE 0
  /\ task[r][c] \in Ended => \A s \in Stages : timers[r][c][s] # "open"

\* The timers that the rest of the frontend's task may still end.
FrontendTimers(c) ==
  /\ task["frontend"][c] \in Waiting \cup {"tls"} =>
       \A s \in Stages : timers["frontend"][c][s] # "dropped"
  /\ task["frontend"][c] \in {"header", "body"} =>
       \A s \in Stages \ {"tls"} : timers["frontend"][c][s] # "dropped"
  /\ task["frontend"][c] \in Exchanging =>
       \A s \in {"connection", "http", "ipc"} :
         timers["frontend"][c][s] # "dropped"
  /\ task["frontend"][c] = "flush" =>
       timers["frontend"][c]["connection"] # "dropped"

\* The timers that the rest of the worker's task may still end.
WorkerTimers(c) ==
  /\ task["worker"][c] \in Waiting \cup {"read"} =>
       \A s \in Stages : timers["worker"][c][s] # "dropped"
  /\ task["worker"][c] \in Handling =>
       timers["worker"][c]["worker"] # "dropped"

\* The frontend's steps up to its connection to the worker.
Unasked == Waiting \cup {"tls", "header", "body", "connect"}

\* How the two tasks of a connection know of each other.
Exchange(c) ==
  /\ task["frontend"][c] \in Unasked => task["worker"][c] = "none"
  /\ task["frontend"][c] \in Unasked \cup Exchanging => http[c] = 0
  /\ task["worker"][c] \in {"status", "response"} => evaluated[c] /\ request[c]
  /\ reply[c] = "full" =>
       evaluated[c] /\ request[c] /\ task["worker"][c] \in Ended
  /\ http[c] = 200 => reply[c] = "full"
  /\ http[c] \in {400, 404} => task["worker"][c] = "none"

Gauges == \A r \in Roles : PermitsAddUp(r)

Watched(r, c) ==
  /\ Counts(r, c)
  /\ r = "frontend" => FrontendTimers(c)
  /\ r = "worker" => WorkerTimers(c)

Observed == \A r \in Roles, c \in Connections : Watched(r, c)

Exchanges == \A c \in Connections : Exchange(c)

Inv == TypeOK /\ Gauges /\ Observed /\ Exchanges

-----------------------------------------------------------------------------
(* Types                                                                   *)

\* What observe does to the timers of one task, and that it leaves those of
\* every other task alone.
LEMMA ObserveEffect ==
  ASSUME TypeOK, NEW r \in Roles, NEW c \in Connections,
         NEW finished, NEW dropped, NEW opened,
         observe(r, c, finished, dropped, opened)
  PROVE  /\ TimersType'
         /\ \A q \in Roles, d \in Connections :
              <<q, d>> # <<r, c>> =>
                timers'[q][d] = timers[q][d] /\ terminal'[q][d] = terminal[q][d]
         /\ \A s \in Stages :
              /\ timers'[r][c][s] = IF s \in finished \cup dropped THEN "dropped"
                                    ELSE IF s \in opened THEN "open"
                                    ELSE timers[r][c][s]
              /\ terminal'[r][c][s] = IF s \in finished \cup dropped
                                      THEN terminal[r][c][s] + 1
                                      ELSE terminal[r][c][s]
BY SMT DEF TypeOK, TimersType, observe

\* What goto does to the tasks.
LEMMA GotoEffect ==
  ASSUME TypeOK, NEW r \in Roles, NEW c \in Connections, NEW step \in Steps,
         goto(r, c, step)
  PROVE  /\ TasksType'
         /\ task'[r][c] = step
         /\ \A q \in Roles, d \in Connections :
              <<q, d>> # <<r, c>> => task'[q][d] = task[q][d]
BY SMT DEF TypeOK, TasksType, goto

\* A task that concludes goes to "leave", and every timer that it opened or
\* finishes now is dropped.
LEMMA ConcludeEffect ==
  ASSUME TypeOK, NEW r \in Roles, NEW c \in Connections, NEW finished,
         conclude(r, c, finished)
  PROVE  /\ TasksType'
         /\ task'[r][c] = "leave"
         /\ \A q \in Roles, d \in Connections :
              <<q, d>> # <<r, c>> =>
                /\ task'[q][d] = task[q][d]
                /\ timers'[q][d] = timers[q][d]
                /\ terminal'[q][d] = terminal[q][d]
         /\ TimersType'
         /\ \A s \in Stages :
              IF s \in finished \cup {outer(r)} \/ timers[r][c][s] = "open"
              THEN /\ timers'[r][c][s] = "dropped"
                   /\ terminal'[r][c][s] = terminal[r][c][s] + 1
              ELSE /\ timers'[r][c][s] = timers[r][c][s]
                   /\ terminal'[r][c][s] = terminal[r][c][s]
<1> DEFINE F == finished \cup {outer(r)}
           D == Open(r, c) \ F
<1>1. goto(r, c, "leave") /\ observe(r, c, F, D, {})
  BY DEF conclude
<1>2. "leave" \in Steps
  BY DEF Steps, Ended
<1>3. \A s \in Stages : s \in F \cup D <=> s \in F \/ timers[r][c][s] = "open"
  BY DEF Open
<1> HIDE DEF F, D
<1>4. \A s \in Stages :
        /\ timers'[r][c][s] = IF s \in F \cup D THEN "dropped"
                              ELSE IF s \in {} THEN "open" ELSE timers[r][c][s]
        /\ terminal'[r][c][s] = IF s \in F \cup D THEN terminal[r][c][s] + 1
                                ELSE terminal[r][c][s]
  BY SMT, <1>1, ObserveEffect
<1>5. \A s \in Stages :
        IF s \in F \/ timers[r][c][s] = "open"
        THEN /\ timers'[r][c][s] = "dropped"
             /\ terminal'[r][c][s] = terminal[r][c][s] + 1
        ELSE /\ timers'[r][c][s] = timers[r][c][s]
             /\ terminal'[r][c][s] = terminal[r][c][s]
  BY <1>3, <1>4
<1>6. QED
  BY SMT, <1>1, <1>2, <1>5, GotoEffect, ObserveEffect DEF F

\* What ConnectWorker does to the tasks.
LEMMA ConnectWorkerEffect ==
  ASSUME TypeOK, NEW c \in Connections, ConnectWorker(c)
  PROVE  /\ TasksType'
         /\ task'["frontend"][c] = "send"
         /\ task'["worker"][c] = "backlog"
         /\ \A q \in Roles, d \in Connections : d # c => task'[q][d] = task[q][d]
<1>1. "send" \in Steps /\ "backlog" \in Steps
  BY DEF Steps, Waiting, Serving, Exchanging
<1>2. task' = [task EXCEPT !["frontend"][c] = "send", !["worker"][c] = "backlog"]
  BY DEF ConnectWorker
<1>3. QED
  BY SMT, <1>1, <1>2 DEF TypeOK, TasksType, Roles

\* A step is one of these, for some connection.
LEMMA Cases ==
  ASSUME Next
  PROVE  \E c \in Connections :
           \/ Connect(c) \/ Tls(c) \/ Head(c) \/ Body(c) \/ ConnectWorker(c)
           \/ Send(c) \/ Shutdown(c) \/ Receive(c) \/ ExchangeFails(c) \/ ServeReturns(c)
           \/ ConnectionDeadline(c) \/ Read(c) \/ Write(c) \/ HandleFails(c)
           \/ \E r \in Roles : Accept(r, c) \/ Spawn(r, c) \/ DropGuards(r, c)
BY DEF Next, Progress, Handle, Admit

\* goto, observe, conclude and respond keep the types.
LEMMA EffectType ==
  ASSUME TypeOK, NEW r \in Roles, NEW c \in Connections
  PROVE  /\ \A step \in Steps : goto(r, c, step) => TasksType'
         /\ \A finished, dropped, opened :
              observe(r, c, finished, dropped, opened) => TimersType'
         /\ \A finished : conclude(r, c, finished) => TasksType' /\ TimersType'
<1>1. ASSUME NEW step \in Steps, goto(r, c, step)
      PROVE  TasksType'
  BY <1>1, GotoEffect
<1>2. ASSUME NEW finished, NEW dropped, NEW opened,
             observe(r, c, finished, dropped, opened)
      PROVE  TimersType'
  BY <1>2, ObserveEffect
<1>3. ASSUME NEW finished, conclude(r, c, finished)
      PROVE  TasksType' /\ TimersType'
  BY <1>3, ConcludeEffect
<1>4. QED
  BY <1>1, <1>2, <1>3

\* A response keeps the types.
LEMMA RespondType ==
  ASSUME TypeOK, NEW c \in Connections, NEW status \in {200, 400, 404, 503},
         NEW finished, respond(c, status, finished)
  PROVE  /\ TasksType' /\ TimersType'
         /\ http' \in [Connections -> {0, 200, 400, 404, 503}]
<1>1. /\ goto("frontend", c, "flush")
      /\ observe("frontend", c, finished \cup {"http"}, {}, {})
      /\ http' = [http EXCEPT ![c] = status]
  BY DEF respond
<1>2. "frontend" \in Roles /\ "flush" \in Steps
  BY SMT DEF Roles, Steps, Serving
<1>3. TasksType' /\ TimersType'
  BY <1>1, <1>2, EffectType
<1>4. http' \in [Connections -> {0, 200, 400, 404, 503}]
  BY SMT, <1>1 DEF TypeOK
<1>5. QED
  BY SMT, <1>3, <1>4

\* Every step that keeps the gauges numbers keeps the types.
LEMMA StepType ==
  ASSUME TypeOK, Next, inflight' \in [Roles -> Nat]
  PROVE  TypeOK'
<1>0. PICK c \in Connections :
        \/ Connect(c) \/ Tls(c) \/ Head(c) \/ Body(c) \/ ConnectWorker(c)
        \/ Send(c) \/ Shutdown(c) \/ Receive(c) \/ ExchangeFails(c) \/ ServeReturns(c)
        \/ ConnectionDeadline(c) \/ Read(c) \/ Write(c) \/ HandleFails(c)
        \/ \E r \in Roles : Accept(r, c) \/ Spawn(r, c) \/ DropGuards(r, c)
  BY Cases
<1>s. Waiting \cup Ended \cup Serving \cup Handling \subseteq Steps
  BY DEF Steps
<1>r. "frontend" \in Roles /\ "worker" \in Roles
  BY DEF Roles
<1>u. /\ UNCHANGED observations => TimersType'
      /\ UNCHANGED http => http' \in [Connections -> {0, 200, 400, 404, 503}]
      /\ UNCHANGED evaluated => evaluated' \in [Connections -> BOOLEAN]
      /\ UNCHANGED permits => permits' \in [Roles -> Nat]
      /\ UNCHANGED request => request' \in [Connections -> BOOLEAN]
      /\ UNCHANGED reply =>
           reply' \in [Connections -> {"none", "refused", "status", "full"}]
      /\ UNCHANGED ipc => UNCHANGED request /\ UNCHANGED reply
  BY SMT DEF TypeOK, TimersType, observations, ipc
<1>1. CASE Connect(c)
  <2>1. TasksType'
    BY <1>1, <1>s, <1>r, EffectType DEF Connect, Waiting
  <2>2. QED
    BY <1>1, <1>u, <2>1 DEF Connect, TypeOK
<1>2. CASE Tls(c)
  <2>1. TasksType' /\ TimersType'
    BY <1>2, <1>s, <1>r, EffectType DEF Tls, Serving
  <2>2. QED
    BY SMT, <1>2, <1>u, <2>1 DEF Tls, TypeOK
<1>3. CASE Head(c)
  <2>1. TasksType' /\ TimersType' /\ http' \in [Connections -> {0, 200, 400, 404, 503}]
    BY SMT, <1>3, <1>s, <1>r, <1>u, EffectType, RespondType DEF Head, Serving
  <2>2. QED
    BY SMT, <1>3, <1>u, <2>1 DEF Head, TypeOK
<1>4. CASE Body(c)
  <2>1. TasksType' /\ TimersType' /\ http' \in [Connections -> {0, 200, 400, 404, 503}]
    BY SMT, <1>4, <1>s, <1>r, <1>u, EffectType, RespondType DEF Body, Serving, Exchanging
  <2>2. QED
    BY <1>4, <1>u, <2>1 DEF Body, TypeOK
<1>5. CASE ConnectWorker(c)
  <2>1. TasksType'
    BY <1>5, ConnectWorkerEffect
  <2>2. QED
    BY <1>5, <1>u, <2>1 DEF ConnectWorker, TypeOK
<1>6. CASE Send(c)
  <2>1. TasksType'
    BY <1>6, <1>s, <1>r, EffectType DEF Send, Serving, Exchanging
  <2>2. request' \in [Connections -> BOOLEAN]
    BY <1>6 DEF Send, TypeOK
  <2>3. QED
    BY <1>6, <1>u, <2>1, <2>2 DEF Send, TypeOK
<1>w. CASE Shutdown(c)
  <2>1. TasksType'
    BY <1>w, <1>s, <1>r, EffectType DEF Shutdown, Serving, Exchanging
  <2>2. QED
    BY <1>w, <1>u, <2>1 DEF Shutdown, TypeOK
<1>7. CASE Receive(c)
  <2>1. TasksType' /\ TimersType' /\ http' \in [Connections -> {0, 200, 400, 404, 503}]
    BY SMT, <1>7, RespondType DEF Receive
  <2>2. QED
    BY <1>7, <1>u, <2>1 DEF Receive, TypeOK
<1>8. CASE ExchangeFails(c)
  <2>1. TasksType' /\ TimersType' /\ http' \in [Connections -> {0, 200, 400, 404, 503}]
    BY SMT, <1>8, RespondType DEF ExchangeFails
  <2>2. QED
    BY SMT, <1>8, <1>u, <2>1 DEF ExchangeFails, TypeOK
<1>9. CASE ServeReturns(c)
  BY <1>9, <1>r, <1>u, EffectType DEF ServeReturns, TypeOK
<1>10. CASE ConnectionDeadline(c)
  BY <1>10, <1>r, <1>u, EffectType DEF ConnectionDeadline, TypeOK
<1>11. CASE Read(c)
  <2>1. TasksType' /\ TimersType'
    BY <1>11, <1>s, <1>r, EffectType DEF Read, Handling
  <2>2. evaluated' \in [Connections -> BOOLEAN]
    <3>1. UNCHANGED evaluated \/ evaluated' = [evaluated EXCEPT ![c] = TRUE]
      BY <1>11 DEF Read
    <3>2. CASE evaluated' = [evaluated EXCEPT ![c] = TRUE]
      BY <3>2 DEF TypeOK
    <3>3. QED
      BY <1>u, <3>1, <3>2
  <2>3. QED
    BY SMT, <1>11, <1>u, <2>1, <2>2 DEF Read, TypeOK
<1>12. CASE Write(c)
  <2>1. TasksType' /\ TimersType'
    BY SMT, <1>12, <1>s, <1>r, <1>u, EffectType DEF Write, Handling
  <2>2. reply' \in [Connections -> {"none", "refused", "status", "full"}]
    BY SMT, <1>12 DEF Write, TypeOK
  <2>3. QED
    BY <1>12, <1>u, <2>1, <2>2 DEF Write, TypeOK
<1>13. CASE HandleFails(c)
  BY <1>13, <1>r, <1>u, EffectType DEF HandleFails, TypeOK
<1>14. ASSUME NEW r \in Roles, Accept(r, c)
       PROVE  TypeOK'
  <2>1. TasksType'
    BY <1>14, <1>s, EffectType DEF Accept, Waiting
  <2>2. permits' \in [Roles -> Nat]
    BY SMT, <1>14 DEF Accept, TypeOK
  <2>3. QED
    BY <1>14, <1>u, <2>1, <2>2 DEF Accept, TypeOK
<1>15. ASSUME NEW r \in Roles, Spawn(r, c)
       PROVE  TypeOK'
  <2>1. (IF r = "frontend" THEN "tls" ELSE "read") \in Steps
    BY <1>s DEF Serving, Handling
  <2>2. TasksType' /\ TimersType'
    BY <1>15, <2>1, EffectType DEF Spawn
  <2>3. QED
    BY <1>15, <1>u, <2>2 DEF Spawn, TypeOK
<1>16. ASSUME NEW r \in Roles, DropGuards(r, c)
       PROVE  TypeOK'
  <2>1. TasksType'
    BY <1>16, <1>s, EffectType DEF DropGuards, Ended
  <2>2. permits' \in [Roles -> Nat]
    BY SMT, <1>16 DEF DropGuards, TypeOK
  <2>3. QED
    BY <1>16, <1>u, <2>1, <2>2 DEF DropGuards, TypeOK
<1>17. QED
  BY <1>0, <1>1, <1>2, <1>3, <1>4, <1>5, <1>6, <1>w, <1>7, <1>8, <1>9, <1>10, <1>11,
     <1>12, <1>13, <1>14, <1>15, <1>16

-----------------------------------------------------------------------------
(* The gauge                                                               *)

\* A move of one task adds it to the tasks at a set of steps, or removes it.
LEMMA GotoTasks ==
  ASSUME TypeOK, NEW r \in Roles, NEW c \in Connections, NEW step \in Steps,
         goto(r, c, step), NEW S
  PROVE  /\ \A q \in Roles \ {r} : Tasks(q, S)' = Tasks(q, S)
         /\ step \in S => Tasks(r, S)' = Tasks(r, S) \cup {c}
         /\ step \notin S => Tasks(r, S)' = Tasks(r, S) \ {c}
BY SMT, GotoEffect DEF Tasks

\* The tasks that the gauge counts hold permits.
LEMMA CountedHolds ==
  \A r \in Roles : Tasks(r, Counted) \subseteq Tasks(r, Holding)
BY DEF Tasks, Counted, Holding

\* A move that neither takes nor returns a permit keeps the sums.
LEMMA MoveKeepsGauges ==
  ASSUME TypeOK, Gauges, NEW r \in Roles, NEW c \in Connections,
         NEW step \in Steps, goto(r, c, step),
         step \in Holding <=> task[r][c] \in Holding,
         step \in Counted <=> task[r][c] \in Counted,
         UNCHANGED <<permits, inflight>>
  PROVE  Gauges'
<1>1. \A q \in Roles : /\ Tasks(q, Holding)' = Tasks(q, Holding)
                       /\ Tasks(q, Counted)' = Tasks(q, Counted)
  <2>1. /\ \A q \in Roles \ {r} : Tasks(q, Holding)' = Tasks(q, Holding)
        /\ step \in Holding => Tasks(r, Holding)' = Tasks(r, Holding) \cup {c}
        /\ step \notin Holding => Tasks(r, Holding)' = Tasks(r, Holding) \ {c}
    BY GotoTasks
  <2>2. /\ \A q \in Roles \ {r} : Tasks(q, Counted)' = Tasks(q, Counted)
        /\ step \in Counted => Tasks(r, Counted)' = Tasks(r, Counted) \cup {c}
        /\ step \notin Counted => Tasks(r, Counted)' = Tasks(r, Counted) \ {c}
    BY GotoTasks
  <2>3. /\ c \in Tasks(r, Holding) <=> step \in Holding
        /\ c \in Tasks(r, Counted) <=> step \in Counted
    BY DEF Tasks
  <2>4. Tasks(r, Holding)' = Tasks(r, Holding)
    BY <2>1, <2>3
  <2>5. Tasks(r, Counted)' = Tasks(r, Counted)
    BY <2>2, <2>3
  <2>6. QED
    BY <2>1, <2>2, <2>4, <2>5
<1>2. QED
  BY <1>1 DEF Gauges, PermitsAddUp

\* The sums of the other process.
LEMMA OtherGauges ==
  ASSUME TypeOK, Gauges, NEW r \in Roles, NEW c \in Connections,
         NEW step \in Steps, goto(r, c, step), NEW q \in Roles \ {r},
         permits'[q] = permits[q], inflight'[q] = inflight[q]
  PROVE  PermitsAddUp(q)'
<1>1. Tasks(q, Holding)' = Tasks(q, Holding)
  BY GotoTasks
<1>2. Tasks(q, Counted)' = Tasks(q, Counted)
  BY GotoTasks
<1>3. QED
  BY <1>1, <1>2 DEF Gauges, PermitsAddUp

\* try_acquire_owned takes the permit of the connection that is admitted.
LEMMA AcceptGauges ==
  ASSUME TypeOK, Gauges, NEW r \in Roles, NEW c \in Connections, Accept(r, c)
  PROVE  Gauges'
<1>1. /\ "rejected" \in Steps /\ "admitted" \in Steps
      /\ "rejected" \notin Holding /\ "rejected" \notin Counted
      /\ "backlog" \notin Holding /\ "backlog" \notin Counted
      /\ "admitted" \in Holding /\ "admitted" \notin Counted
  BY DEF Steps, Waiting, Holding, Counted, Serving, Exchanging, Handling
<1>2. task[r][c] = "backlog" /\ UNCHANGED inflight
  BY DEF Accept
<1>3. CASE goto(r, c, "rejected") /\ UNCHANGED permits
  BY <1>1, <1>2, <1>3, MoveKeepsGauges
<1>4. CASE /\ goto(r, c, "admitted")
           /\ permits[r] > 0
           /\ permits' = [permits EXCEPT ![r] = @ - 1]
  <2>1. Tasks(r, Holding)' = Tasks(r, Holding) \cup {c}
    BY SMT, <1>1, <1>4, GotoTasks
  <2>2. Tasks(r, Counted)' = Tasks(r, Counted) \ {c}
    BY SMT, <1>1, <1>4, GotoTasks
  <2>3. c \notin Tasks(r, Holding) /\ c \notin Tasks(r, Counted)
    BY <1>1, <1>2 DEF Tasks
  <2>4. Tasks(r, Counted)' = Tasks(r, Counted)
    BY <2>2, <2>3
  <2>5. /\ IsFiniteSet(Tasks(r, Holding))
        /\ permits[r] + Cardinality(Tasks(r, Holding)) = limit[r]
        /\ inflight[r] = Cardinality(Tasks(r, Counted))
    BY DEF Gauges, PermitsAddUp
  <2>6. /\ IsFiniteSet(Tasks(r, Holding)')
        /\ Cardinality(Tasks(r, Holding)') = Cardinality(Tasks(r, Holding)) + 1
    BY <2>1, <2>3, <2>5, FS_AddElement
  <2>7. permits[r] \in Nat /\ permits'[r] = permits[r] - 1
    BY SMT, <1>4 DEF TypeOK
  <2>8. Cardinality(Tasks(r, Holding)) \in Nat
    BY <2>5, FS_CardinalityType
  <2>9. permits'[r] + Cardinality(Tasks(r, Holding)') = limit[r]
    BY SMT, <2>5, <2>6, <2>7, <2>8
  <2>10. PermitsAddUp(r)'
    BY <1>2, <2>4, <2>5, <2>6, <2>9 DEF PermitsAddUp
  <2>11. \A q \in Roles \ {r} : permits'[q] = permits[q]
    BY SMT, <1>4 DEF TypeOK
  <2>12. \A q \in Roles \ {r} : PermitsAddUp(q)'
    BY <1>1, <1>2, <1>4, <2>11, OtherGauges
  <2>13. QED
    BY <2>10, <2>12 DEF Gauges
<1>5. QED
  BY <1>3, <1>4 DEF Accept

\* metrics.enter counts the task that starts.
LEMMA SpawnGauges ==
  ASSUME TypeOK, Gauges, NEW r \in Roles, NEW c \in Connections, Spawn(r, c)
  PROVE  Gauges'
<1> DEFINE step == IF r = "frontend" THEN "tls" ELSE "read"
<1>1. /\ step \in Steps /\ step \in Holding /\ step \in Counted
      /\ "admitted" \in Holding /\ "admitted" \notin Counted
  BY DEF Steps, Holding, Counted, Serving, Exchanging, Handling
<1>2. /\ task[r][c] = "admitted" /\ goto(r, c, step) /\ UNCHANGED permits
      /\ inflight' = [inflight EXCEPT ![r] = @ + 1]
  BY DEF Spawn
<1> HIDE DEF step
<1>3. Tasks(r, Holding)' = Tasks(r, Holding) \cup {c}
  BY SMT, <1>1, <1>2, GotoTasks
<1>4. Tasks(r, Counted)' = Tasks(r, Counted) \cup {c}
  BY SMT, <1>1, <1>2, GotoTasks
<1>5. c \in Tasks(r, Holding) /\ c \notin Tasks(r, Counted)
  BY <1>1, <1>2 DEF Tasks
<1>6. Tasks(r, Holding)' = Tasks(r, Holding)
  BY <1>3, <1>5
<1>7. PermitsAddUp(r)
  BY DEF Gauges
<1>8. IsFiniteSet(Tasks(r, Counted))
  BY <1>7, CountedHolds, FS_Subset DEF PermitsAddUp
<1>9. Cardinality(Tasks(r, Counted)') = Cardinality(Tasks(r, Counted)) + 1
  BY <1>4, <1>5, <1>8, FS_AddElement
<1>10. inflight'[r] = inflight[r] + 1
  BY SMT, <1>2 DEF TypeOK
<1>11. PermitsAddUp(r)'
  BY <1>2, <1>6, <1>7, <1>9, <1>10 DEF PermitsAddUp
<1>12. \A q \in Roles \ {r} : inflight'[q] = inflight[q]
  BY SMT, <1>2 DEF TypeOK
<1>13. \A q \in Roles \ {r} : PermitsAddUp(q)'
  BY <1>1, <1>2, <1>12, OtherGauges
<1>14. QED
  BY SMT, <1>11, <1>13 DEF Gauges

\* A task that ends leaves the gauge first and returns its permit second.
LEMMA DropGauges ==
  ASSUME TypeOK, Gauges, NEW r \in Roles, NEW c \in Connections, DropGuards(r, c)
  PROVE  Gauges'
<1>1. /\ "left" \in Steps /\ "gone" \in Steps
      /\ "leave" \in Holding /\ "leave" \in Counted
      /\ "left" \in Holding /\ "left" \notin Counted
      /\ "gone" \notin Holding /\ "gone" \notin Counted
  BY DEF Steps, Ended, Holding, Counted, Serving, Exchanging, Handling
<1>2. PermitsAddUp(r)
  BY SMT DEF Gauges
<1>3. IsFiniteSet(Tasks(r, Counted))
  BY SMT, <1>2, CountedHolds, FS_Subset DEF PermitsAddUp
<1>4. /\ Cardinality(Tasks(r, Counted)) \in Nat
      /\ Cardinality(Tasks(r, Holding)) \in Nat
  BY <1>2, <1>3, FS_CardinalityType DEF PermitsAddUp
<1>5. CASE /\ task[r][c] = "leave" /\ goto(r, c, "left") /\ UNCHANGED permits
           /\ inflight' = [inflight EXCEPT ![r] = @ - 1]
  <2>1. Tasks(r, Holding)' = Tasks(r, Holding) \cup {c}
    BY SMT, <1>1, <1>5, GotoTasks
  <2>2. Tasks(r, Counted)' = Tasks(r, Counted) \ {c}
    BY SMT, <1>1, <1>5, GotoTasks
  <2>3. c \in Tasks(r, Holding) /\ c \in Tasks(r, Counted)
    BY <1>1, <1>5 DEF Tasks
  <2>4. Tasks(r, Holding)' = Tasks(r, Holding)
    BY <2>1, <2>3
  <2>5. Cardinality(Tasks(r, Counted)') = Cardinality(Tasks(r, Counted)) - 1
    BY <1>3, <2>2, <2>3, FS_RemoveElement
  <2>6. inflight'[r] = inflight[r] - 1
    BY SMT, <1>5 DEF TypeOK
  <2>7. PermitsAddUp(r)'
    BY <1>2, <1>5, <2>4, <2>5, <2>6 DEF PermitsAddUp
  <2>8. \A q \in Roles \ {r} : inflight'[q] = inflight[q]
    BY SMT, <1>5 DEF TypeOK
  <2>9. \A q \in Roles \ {r} : PermitsAddUp(q)'
    BY <1>1, <1>5, <2>8, OtherGauges
  <2>10. QED
    BY SMT, <2>7, <2>9 DEF Gauges
<1>6. CASE /\ task[r][c] = "left" /\ goto(r, c, "gone") /\ UNCHANGED inflight
           /\ permits' = [permits EXCEPT ![r] = @ + 1]
  <2>1. Tasks(r, Holding)' = Tasks(r, Holding) \ {c}
    BY SMT, <1>1, <1>6, GotoTasks
  <2>2. Tasks(r, Counted)' = Tasks(r, Counted) \ {c}
    BY SMT, <1>1, <1>6, GotoTasks
  <2>3. c \in Tasks(r, Holding) /\ c \notin Tasks(r, Counted)
    BY <1>1, <1>6 DEF Tasks
  <2>4. Tasks(r, Counted)' = Tasks(r, Counted)
    BY <2>2, <2>3
  <2>5. /\ IsFiniteSet(Tasks(r, Holding)')
        /\ Cardinality(Tasks(r, Holding)') = Cardinality(Tasks(r, Holding)) - 1
    BY <1>2, <2>1, <2>3, FS_RemoveElement DEF PermitsAddUp
  <2>6. permits[r] \in Nat /\ permits'[r] = permits[r] + 1
    BY SMT, <1>6 DEF TypeOK
  <2>7. permits'[r] + Cardinality(Tasks(r, Holding)') = limit[r]
    BY SMT, <1>2, <1>4, <2>5, <2>6 DEF PermitsAddUp
  <2>8. PermitsAddUp(r)'
    BY <1>2, <1>6, <2>4, <2>5, <2>7 DEF PermitsAddUp
  <2>9. \A q \in Roles \ {r} : permits'[q] = permits[q]
    BY SMT, <1>6 DEF TypeOK
  <2>10. \A q \in Roles \ {r} : PermitsAddUp(q)'
    BY <1>1, <1>6, <2>9, OtherGauges
  <2>11. QED
    BY SMT, <2>8, <2>10 DEF Gauges
<1>7. QED
  BY <1>5, <1>6 DEF DropGuards

\* The frontend's connection to the worker takes no permit in either process.
LEMMA ConnectWorkerGauges ==
  ASSUME TypeOK, Gauges, Exchanges, NEW c \in Connections, ConnectWorker(c)
  PROVE  Gauges'
<1>1. task["frontend"][c] = "connect" /\ task["worker"][c] = "none"
  BY DEF ConnectWorker, Exchanges, Exchange, Unasked
<1>2. /\ {"connect", "send"} \subseteq Holding /\ {"connect", "send"} \subseteq Counted
      /\ {"none", "backlog"} \cap Holding = {} /\ {"none", "backlog"} \cap Counted = {}
  BY DEF Holding, Counted, Serving, Exchanging, Handling
<1>3. \A q \in Roles : /\ Tasks(q, Holding)' = Tasks(q, Holding)
                       /\ Tasks(q, Counted)' = Tasks(q, Counted)
  BY SMT, <1>1, <1>2, ConnectWorkerEffect DEF Tasks, Roles
<1>4. UNCHANGED <<permits, inflight>>
  BY DEF ConnectWorker
<1>5. QED
  BY <1>3, <1>4 DEF Gauges, PermitsAddUp

\* Every other step of a task moves it between steps of one kind.
LEMMA ServeKeepsGauges ==
  ASSUME TypeOK, Gauges, NEW r \in Roles, NEW c \in Connections,
         task[r][c] \in Serving \cup Handling,
         NEW step \in {"leave"} \cup Serving \cup Handling, goto(r, c, step),
         UNCHANGED <<permits, inflight>>
  PROVE  Gauges'
<1>1. step \in Steps
  BY DEF Steps, Ended
<1>2. /\ step \in Holding /\ task[r][c] \in Holding
      /\ step \in Counted /\ task[r][c] \in Counted
  BY DEF Holding, Counted
<1>3. QED
  BY <1>1, <1>2, MoveKeepsGauges

\* Every step keeps the permits and gauges in agreement with the connections.
LEMMA StepGauges ==
  ASSUME TypeOK, Gauges, Exchanges, Next
  PROVE  Gauges'
<1>0. PICK c \in Connections :
        \/ Connect(c) \/ Tls(c) \/ Head(c) \/ Body(c) \/ ConnectWorker(c)
        \/ Send(c) \/ Shutdown(c) \/ Receive(c) \/ ExchangeFails(c) \/ ServeReturns(c)
        \/ ConnectionDeadline(c) \/ Read(c) \/ Write(c) \/ HandleFails(c)
        \/ \E r \in Roles : Accept(r, c) \/ Spawn(r, c) \/ DropGuards(r, c)
  BY Cases
<1>r. "frontend" \in Roles /\ "worker" \in Roles
  BY DEF Roles
<1>1. CASE Connect(c)
  <2>1. /\ "none" \notin Holding /\ "none" \notin Counted
        /\ "backlog" \notin Holding /\ "backlog" \notin Counted
        /\ "backlog" \in Steps
    BY DEF Steps, Waiting, Holding, Counted, Serving, Exchanging, Handling
  <2>2. QED
    BY <1>1, <1>r, <2>1, MoveKeepsGauges DEF Connect
<1>2. CASE Tls(c) \/ Head(c) \/ Body(c) \/ Send(c) \/ Shutdown(c)
  <2>1. /\ task["frontend"][c] \in Serving
        /\ UNCHANGED <<permits, inflight>>
        /\ \E step \in {"leave"} \cup Serving : goto("frontend", c, step)
    BY <1>2 DEF Tls, Head, Body, Send, Shutdown, conclude, respond, Serving, Exchanging
  <2>2. QED
    BY <1>r, <2>1, ServeKeepsGauges
<1>3. CASE Receive(c) \/ ExchangeFails(c) \/ ServeReturns(c) \/ ConnectionDeadline(c)
  <2>1. /\ task["frontend"][c] \in Serving
        /\ UNCHANGED <<permits, inflight>>
        /\ \E step \in {"leave"} \cup Serving : goto("frontend", c, step)
    BY <1>3
    DEF Receive, ExchangeFails, ServeReturns, ConnectionDeadline, conclude, respond,
        Serving, Exchanging
  <2>2. QED
    BY SMT, <1>r, <2>1, ServeKeepsGauges
<1>4. CASE ConnectWorker(c)
  BY <1>4, ConnectWorkerGauges
<1>5. CASE Read(c) \/ Write(c) \/ HandleFails(c)
  <2>1. /\ task["worker"][c] \in Handling
        /\ UNCHANGED <<permits, inflight>>
        /\ \E step \in {"leave"} \cup Handling : goto("worker", c, step)
    BY <1>5 DEF Read, Write, HandleFails, conclude, Handling
  <2>2. QED
    BY <1>r, <2>1, ServeKeepsGauges
<1>6. ASSUME NEW r \in Roles, Accept(r, c) \/ Spawn(r, c) \/ DropGuards(r, c)
      PROVE  Gauges'
  BY <1>6, AcceptGauges, SpawnGauges, DropGauges
<1>7. QED
  BY <1>0, <1>1, <1>2, <1>3, <1>4, <1>5, <1>6

\* The gauge stays a natural number, which StepType needs of the step.
LEMMA StepInflight ==
  ASSUME TypeOK, Next, Gauges'
  PROVE  inflight' \in [Roles -> Nat]
<1>1. \A r \in Roles : inflight'[r] \in Nat
  <2>1. ASSUME NEW r \in Roles
        PROVE  inflight'[r] \in Nat
    <3>1. PermitsAddUp(r)'
      BY DEF Gauges
    <3>2. Tasks(r, Counted)' \subseteq Tasks(r, Holding)'
      BY DEF Tasks, Counted, Holding
    <3>3. Cardinality(Tasks(r, Counted)') \in Nat
      BY <3>1, <3>2, FS_Subset, FS_CardinalityType DEF PermitsAddUp
    <3>4. QED
      BY <3>1, <3>3 DEF PermitsAddUp
  <2>2. QED
    BY <2>1
<1>2. \/ UNCHANGED inflight
      \/ \E r \in Roles : \/ inflight' = [inflight EXCEPT ![r] = @ + 1]
                         \/ inflight' = [inflight EXCEPT ![r] = @ - 1]
  BY DEF Next, Progress, Handle, Admit, Connect, Accept, Spawn, DropGuards, Tls,
         Head, Body, ConnectWorker, Send, Shutdown, Receive, ExchangeFails, ServeReturns,
         ConnectionDeadline, Read, Write, HandleFails
<1>3. QED
  BY SMT, <1>1, <1>2 DEF TypeOK

-----------------------------------------------------------------------------
(* The observations                                                        *)

\* A step of one task leaves the observations of the others alone.
LEMMA OtherWatched ==
  ASSUME Observed, NEW r \in Roles, NEW c \in Connections, Watched(r, c)',
         \A q \in Roles, d \in Connections :
           <<q, d>> # <<r, c>> =>
             /\ task'[q][d] = task[q][d]
             /\ timers'[q][d] = timers[q][d]
             /\ terminal'[q][d] = terminal[q][d]
  PROVE  Observed'
<1>1. SUFFICES ASSUME NEW q \in Roles, NEW d \in Connections, <<q, d>> # <<r, c>>
               PROVE  Watched(q, d)'
  BY DEF Observed
<1>2. /\ task'[q][d] = task[q][d]
      /\ timers'[q][d] = timers[q][d]
      /\ terminal'[q][d] = terminal[q][d]
  BY <1>1
<1>3. Watched(q, d)
  BY DEF Observed
<1>4. QED
  BY SMT, <1>2, <1>3 DEF Watched, Counts, FrontendTimers, WorkerTimers

\* A step that ends and opens timers which are not dropped counts each once.
LEMMA GotoCounts ==
  ASSUME TypeOK, Observed, NEW r \in Roles, NEW c \in Connections,
         NEW step \in Steps \ Ended, NEW finished, NEW opened,
         goto(r, c, step), observe(r, c, finished, {}, opened),
         \A s \in Stages : s \in finished \cup opened => timers[r][c][s] # "dropped"
  PROVE  Counts(r, c)'
<1>1. task'[r][c] = step
  BY GotoEffect
<1>2. \A s \in Stages :
        /\ timers'[r][c][s] = IF s \in finished \cup {} THEN "dropped"
                              ELSE IF s \in opened THEN "open" ELSE timers[r][c][s]
        /\ terminal'[r][c][s] = IF s \in finished \cup {} THEN terminal[r][c][s] + 1
                                ELSE terminal[r][c][s]
  BY SMT, ObserveEffect
<1>3. \A s \in Stages :
        terminal[r][c][s] = IF timers[r][c][s] = "dropped" THEN 1 ELSE 0
  BY DEF Observed, Watched, Counts
<1>4. \A s \in Stages :
        terminal'[r][c][s] = IF timers'[r][c][s] = "dropped" THEN 1 ELSE 0
  BY SMT, <1>2, <1>3
<1>5. QED
  BY <1>1, <1>4 DEF Counts

\* A task that concludes, by itself or at its deadline, ends every open timer.
LEMMA ConcludeWatched ==
  ASSUME TypeOK, Observed, NEW r \in Roles, NEW c \in Connections, NEW finished,
         conclude(r, c, finished),
         \A s \in Stages : s \in finished \cup {outer(r)} => timers[r][c][s] # "dropped"
  PROVE  Observed'
<1>1. /\ task'[r][c] = "leave"
      /\ \A s \in Stages :
           IF s \in finished \cup {outer(r)} \/ timers[r][c][s] = "open"
           THEN /\ timers'[r][c][s] = "dropped"
                /\ terminal'[r][c][s] = terminal[r][c][s] + 1
           ELSE /\ timers'[r][c][s] = timers[r][c][s]
                /\ terminal'[r][c][s] = terminal[r][c][s]
  BY SMT, ConcludeEffect
<1>2. \A s \in Stages :
        terminal[r][c][s] = IF timers[r][c][s] = "dropped" THEN 1 ELSE 0
  BY DEF Observed, Watched, Counts
<1>3. Counts(r, c)'
  BY SMT, <1>1, <1>2 DEF Counts
<1>4. FrontendTimers(c)' \/ r # "frontend"
  BY <1>1 DEF FrontendTimers, Waiting, Exchanging
<1>5. WorkerTimers(c)' \/ r # "worker"
  BY <1>1 DEF WorkerTimers, Waiting, Handling
<1>6. Watched(r, c)'
  BY <1>3, <1>4, <1>5 DEF Watched
<1>7. QED
  BY SMT, <1>6, ConcludeEffect, OtherWatched

\* A step that moves one task and observes nothing.
LEMMA MoveWatched ==
  ASSUME TypeOK, Observed, NEW r \in Roles, NEW c \in Connections,
         NEW step \in Steps, goto(r, c, step), UNCHANGED observations,
         \/ task[r][c] \in Waiting /\ step \in Waiting
         \/ task[r][c] \in Exchanging /\ step \in Exchanging
         \/ task[r][c] \in Handling /\ step \in Handling \ {"read"}
         \/ task[r][c] \in Ended /\ step \in Ended
  PROVE  Observed'
<1>1. task'[r][c] = step /\ timers' = timers /\ terminal' = terminal
  BY GotoEffect DEF observations
<1>2. Watched(r, c)
  BY DEF Observed
<1>3. Counts(r, c)'
  BY <1>1, <1>2
  DEF Watched, Counts, Waiting, Exchanging, Handling, Ended
<1>4. FrontendTimers(c)' \/ r # "frontend"
  BY <1>1, <1>2
  DEF Watched, FrontendTimers, Waiting, Exchanging, Handling, Ended
<1>5. WorkerTimers(c)' \/ r # "worker"
  BY <1>1, <1>2
  DEF Watched, WorkerTimers, Waiting, Exchanging, Handling, Ended
<1>6. QED
  BY SMT, <1>1, <1>3, <1>4, <1>5, GotoEffect, OtherWatched DEF Watched

\* A step that moves one task and observes: what is left to show is that the
\* timers it may still end are not among those it dropped.
LEMMA ObserveWatched ==
  ASSUME TypeOK, Observed, NEW r \in Roles, NEW c \in Connections,
         NEW step \in Steps \ Ended, NEW finished, NEW opened,
         goto(r, c, step), observe(r, c, finished, {}, opened),
         \A s \in Stages : s \in finished \cup opened => timers[r][c][s] # "dropped",
         r = "frontend" => FrontendTimers(c)',
         r = "worker" => WorkerTimers(c)'
  PROVE  Observed'
<1>1. Counts(r, c)'
  BY GotoCounts
<1>2. Watched(r, c)'
  BY <1>1 DEF Watched
<1>3. \A q \in Roles, d \in Connections :
        <<q, d>> # <<r, c>> => task'[q][d] = task[q][d]
  BY SMT, GotoEffect
<1>4. \A q \in Roles, d \in Connections :
        <<q, d>> # <<r, c>> =>
          timers'[q][d] = timers[q][d] /\ terminal'[q][d] = terminal[q][d]
  BY SMT, ObserveEffect
<1>5. QED
  BY <1>2, <1>3, <1>4, OtherWatched

\* A response ends the timers of the request, and the connection's goes on.
LEMMA RespondWatched ==
  ASSUME TypeOK, Observed, NEW c \in Connections, NEW status, NEW finished,
         respond(c, status, finished),
         \A s \in Stages :
           s \in finished \cup {"http", "connection"} =>
             timers["frontend"][c][s] # "dropped",
         "connection" \notin finished
  PROVE  Observed'
<1>1. /\ goto("frontend", c, "flush")
      /\ observe("frontend", c, finished \cup {"http"}, {}, {})
  BY DEF respond
<1>2. /\ "frontend" \in Roles /\ "flush" \in Steps \ Ended
      /\ "connection" \in Stages
  BY DEF Roles, Steps, Serving, Ended, Stages
<1>3. task'["frontend"][c] = "flush"
  BY <1>1, <1>2, GotoEffect
<1>4. timers'["frontend"][c]["connection"] # "dropped"
  <2>1. timers'["frontend"][c]["connection"] = timers["frontend"][c]["connection"]
    BY SMT, <1>1, <1>2, ObserveEffect
  <2>2. QED
    BY <1>2, <2>1
<1>5. FrontendTimers(c)'
  BY <1>3, <1>4 DEF FrontendTimers, Waiting, Exchanging
<1>6. \A s \in Stages :
        s \in (finished \cup {"http"}) \cup {} => timers["frontend"][c][s] # "dropped"
  OBVIOUS
<1>7. QED
  BY SMT, <1>1, <1>2, <1>5, <1>6, ObserveWatched

\* The frontend's steps between its first await and its exchange.
LEMMA FrontendWatched ==
  ASSUME TypeOK, Observed, NEW c \in Connections, Tls(c) \/ Head(c) \/ Body(c)
  PROVE  Observed'
<1>r. "frontend" \in Roles
  BY DEF Roles
<1>s. {"header", "body", "connect"} \subseteq Steps \ Ended
  BY DEF Steps, Ended, Serving, Exchanging
<1>t. FrontendTimers(c)
  BY <1>r DEF Observed, Watched
<1>o. outer("frontend") = "connection"
  BY DEF outer
<1>1. CASE Tls(c)
  <2>1. \A s \in Stages : timers["frontend"][c][s] # "dropped"
    BY <1>1, <1>t DEF Tls, FrontendTimers
  <2>2. CASE goto("frontend", c, "header") /\ observe("frontend", c, {"tls"}, {}, {})
    <3>1. task'["frontend"][c] = "header"
      BY SMT, <1>r, <1>s, <2>2, GotoEffect
    <3>2. \A s \in Stages \ {"tls"} :
            timers'["frontend"][c][s] = timers["frontend"][c][s]
      BY SMT, <1>r, <2>2, ObserveEffect
    <3>3. FrontendTimers(c)'
      BY <2>1, <3>1, <3>2 DEF FrontendTimers, Waiting, Exchanging
    <3>4. QED
      BY <1>r, <1>s, <2>1, <2>2, <3>3, ObserveWatched
  <2>3. CASE conclude("frontend", c, {"tls"})
    BY <1>r, <2>1, <2>3, ConcludeWatched
  <2>4. QED
    BY <1>1, <2>2, <2>3 DEF Tls
<1>2. CASE Head(c)
  <2>1. \A s \in Stages \ {"tls"} : timers["frontend"][c][s] # "dropped"
    BY <1>2, <1>t DEF Head, FrontendTimers
  <2>2. CASE respond(c, 404, {})
    BY SMT, <2>1, <2>2, RespondWatched
  <2>3. CASE respond(c, 400, {"validation"})
    BY SMT, <2>1, <2>3, RespondWatched
  <2>4. CASE /\ goto("frontend", c, "body")
             /\ observe("frontend", c, {}, {}, {"http", "validation"})
    <3>1. task'["frontend"][c] = "body"
      BY SMT, <1>r, <1>s, <2>4, GotoEffect
    <3>2. \A s \in Stages :
            \/ timers'["frontend"][c][s] = "open"
            \/ timers'["frontend"][c][s] = timers["frontend"][c][s]
      BY SMT, <1>r, <2>4, ObserveEffect
    <3>3. FrontendTimers(c)'
      BY <2>1, <3>1, <3>2 DEF FrontendTimers, Waiting, Exchanging
    <3>4. QED
      BY SMT, <1>r, <1>s, <2>1, <2>4, <3>3, ObserveWatched
  <2>5. QED
    BY <1>2, <2>2, <2>3, <2>4 DEF Head
<1>3. CASE Body(c)
  <2>1. \A s \in Stages \ {"tls"} : timers["frontend"][c][s] # "dropped"
    BY <1>3, <1>t DEF Body, FrontendTimers
  <2>2. CASE respond(c, 400, {"validation"})
    BY SMT, <2>1, <2>2, RespondWatched
  <2>3. CASE /\ goto("frontend", c, "connect")
             /\ observe("frontend", c, {"validation"}, {}, {"ipc"})
    <3>1. task'["frontend"][c] = "connect"
      BY SMT, <1>r, <1>s, <2>3, GotoEffect
    <3>2. \A s \in Stages \ {"validation"} :
            \/ timers'["frontend"][c][s] = "open"
            \/ timers'["frontend"][c][s] = timers["frontend"][c][s]
      BY SMT, <1>r, <2>3, ObserveEffect
    <3>3. FrontendTimers(c)'
      BY <2>1, <3>1, <3>2 DEF FrontendTimers, Waiting, Exchanging, Stages
    <3>4. QED
      BY SMT, <1>r, <1>s, <2>1, <2>3, <3>3, ObserveWatched
  <2>4. QED
    BY <1>3, <2>2, <2>3 DEF Body
<1>4. QED
  BY <1>1, <1>2, <1>3

\* The end of the frontend's exchange, and of its task.
LEMMA ServeWatched ==
  ASSUME TypeOK, Observed, NEW c \in Connections,
         \/ Receive(c) \/ ExchangeFails(c) \/ ServeReturns(c) \/ ConnectionDeadline(c)
  PROVE  Observed'
<1>r. "frontend" \in Roles /\ outer("frontend") = "connection"
  BY DEF Roles, outer
<1>t. FrontendTimers(c)
  BY <1>r DEF Observed, Watched
<1>1. CASE Receive(c) \/ ExchangeFails(c)
  <2>1. task["frontend"][c] \in Exchanging /\ \E status : respond(c, status, {"ipc"})
    BY SMT, <1>1 DEF Receive, ExchangeFails, Exchanging
  <2>2. \A s \in {"connection", "http", "ipc"} : timers["frontend"][c][s] # "dropped"
    BY <1>t, <2>1 DEF FrontendTimers
  <2>3. QED
    BY SMT, <2>1, <2>2, RespondWatched
<1>2. CASE ServeReturns(c) \/ ConnectionDeadline(c)
  <2>1. task["frontend"][c] \in Serving /\ conclude("frontend", c, {})
    BY <1>2 DEF ServeReturns, ConnectionDeadline
  <2>2. timers["frontend"][c]["connection"] # "dropped"
    BY <1>t, <2>1 DEF FrontendTimers, Serving, Stages
  <2>3. QED
    BY SMT, <1>r, <2>1, <2>2, ConcludeWatched
<1>3. QED
  BY <1>1, <1>2

\* The worker's task.
LEMMA WorkerWatched ==
  ASSUME TypeOK, Observed, NEW c \in Connections, Read(c) \/ Write(c) \/ HandleFails(c)
  PROVE  Observed'
<1>r. "worker" \in Roles /\ outer("worker") = "worker"
  BY DEF Roles, outer
<1>s. /\ {"status", "refuse", "response"} \subseteq Steps \ Ended
      /\ {"status", "refuse", "response"} \subseteq Handling \ {"read"}
  BY DEF Steps, Ended, Handling
<1>t. WorkerTimers(c)
  BY <1>r DEF Observed, Watched
<1>c. ASSUME task["worker"][c] \in Handling, conclude("worker", c, {})
      PROVE  Observed'
  <2>1. timers["worker"][c]["worker"] # "dropped"
    BY <1>t, <1>c DEF WorkerTimers
  <2>2. QED
    BY SMT, <1>c, <1>r, <2>1, ConcludeWatched
<1>1. CASE Read(c)
  <2>1. /\ \A s \in Stages : timers["worker"][c][s] # "dropped"
    BY <1>1, <1>t DEF Read, WorkerTimers
  <2>2. PICK step \in {"status", "refuse"},
             finished \in {{"validation", "crypto"}, {"validation"}} :
          goto("worker", c, step) /\ observe("worker", c, finished, {}, {})
    BY <1>1 DEF Read
  <2>3. task'["worker"][c] = step
    BY SMT, <1>r, <1>s, <2>2, GotoEffect
  <2>4. timers'["worker"][c]["worker"] = timers["worker"][c]["worker"]
    BY SMT, <1>r, <2>2, ObserveEffect DEF Stages
  <2>5. WorkerTimers(c)'
    BY <2>1, <2>3, <2>4 DEF WorkerTimers, Waiting, Stages
  <2>6. QED
    BY SMT, <1>r, <1>s, <2>1, <2>2, <2>5, ObserveWatched
<1>2. CASE Write(c)
  <2>1. CASE task["worker"][c] \in {"refuse", "response"} /\ conclude("worker", c, {})
    BY <1>s, <1>c, <2>1
  <2>2. CASE /\ task["worker"][c] = "status" /\ goto("worker", c, "response")
             /\ UNCHANGED observations
    BY <1>r, <1>s, <2>2, MoveWatched
  <2>3. QED
    BY <1>2, <2>1, <2>2 DEF Write
<1>3. CASE HandleFails(c)
  BY <1>3, <1>c DEF HandleFails
<1>4. QED
  BY SMT, <1>1, <1>2, <1>3

\* A task that starts opens its own timer and that of its first stage.
LEMMA SpawnWatched ==
  ASSUME TypeOK, Observed, NEW r \in Roles, NEW c \in Connections, Spawn(r, c)
  PROVE  Observed'
<1> DEFINE step == IF r = "frontend" THEN "tls" ELSE "read"
           opened == {outer(r), IF r = "frontend" THEN "tls" ELSE "validation"}
<1>1. goto(r, c, step) /\ observe(r, c, {}, {}, opened) /\ task[r][c] = "admitted"
  BY DEF Spawn
<1>2. step \in Steps \ Ended
  BY DEF Steps, Serving, Handling, Ended
<1>3. step \in {"tls", "read"} /\ (r = "frontend" => step = "tls")
  OBVIOUS
<1> HIDE DEF step, opened
<1>4. \A s \in Stages : timers[r][c][s] # "dropped"
  BY <1>1 DEF Observed, Watched, FrontendTimers, WorkerTimers, Waiting, Roles
<1>5. \A s \in Stages : timers'[r][c][s] # "dropped"
  <2>1. \A s \in Stages : timers'[r][c][s] \in {"open", timers[r][c][s]}
    BY SMT, <1>1, ObserveEffect
  <2>2. QED
    BY <1>4, <2>1
<1>6. task'[r][c] = step
  BY <1>1, <1>2, GotoEffect
<1>7. r = "frontend" => FrontendTimers(c)'
  BY <1>3, <1>5, <1>6 DEF FrontendTimers, Exchanging, Stages
<1>8. r = "worker" => WorkerTimers(c)'
  BY <1>3, <1>5, <1>6 DEF WorkerTimers, Stages
<1>9. QED
  BY <1>1, <1>2, <1>4, <1>7, <1>8, ObserveWatched

\* Every step keeps the observations in agreement with where the handlers are.
LEMMA StepObserved ==
  ASSUME TypeOK, Observed, Exchanges, Next
  PROVE  Observed'
<1>0. PICK c \in Connections :
        \/ Connect(c) \/ Tls(c) \/ Head(c) \/ Body(c) \/ ConnectWorker(c)
        \/ Send(c) \/ Shutdown(c) \/ Receive(c) \/ ExchangeFails(c) \/ ServeReturns(c)
        \/ ConnectionDeadline(c) \/ Read(c) \/ Write(c) \/ HandleFails(c)
        \/ \E r \in Roles : Accept(r, c) \/ Spawn(r, c) \/ DropGuards(r, c)
  BY SMT, Cases
<1>r. "frontend" \in Roles /\ "worker" \in Roles
  BY SMT DEF Roles
<1>s. Waiting \cup Ended \cup Exchanging \subseteq Steps
  BY DEF Steps, Serving
<1>1. CASE Connect(c)
  BY <1>1, <1>r, <1>s, MoveWatched DEF Connect, Waiting
<1>2. CASE Send(c) \/ Shutdown(c)
  BY <1>2, <1>r, <1>s, MoveWatched DEF Send, Shutdown, Exchanging
<1>3. CASE ConnectWorker(c)
  <2>1. task["frontend"][c] = "connect" /\ task["worker"][c] = "none"
    BY <1>3 DEF ConnectWorker, Exchanges, Exchange, Unasked
  <2>2. timers' = timers /\ terminal' = terminal
    BY <1>3 DEF ConnectWorker, observations
  <2>3. Watched("frontend", c) /\ Watched("worker", c)
    BY <1>r DEF Observed
  <2>4. Watched("frontend", c)'
    BY <1>3, <2>1, <2>2, <2>3, ConnectWorkerEffect
    DEF Watched, Counts, FrontendTimers, Waiting, Exchanging, Ended
  <2>5. Watched("worker", c)'
    BY <1>3, <2>1, <2>2, <2>3, ConnectWorkerEffect
    DEF Watched, Counts, WorkerTimers, Waiting, Handling, Ended
  <2>6. ASSUME NEW q \in Roles, NEW d \in Connections, d # c
        PROVE  Watched(q, d)'
    <3>1. task'[q][d] = task[q][d]
      BY <1>3, <2>6, ConnectWorkerEffect
    <3>2. Watched(q, d)
      BY DEF Observed
    <3>3. QED
      BY SMT, <2>2, <3>1, <3>2 DEF Watched, Counts, FrontendTimers, WorkerTimers
  <2>7. QED
    BY <2>4, <2>5, <2>6 DEF Observed, Roles
<1>4. ASSUME NEW r \in Roles, Accept(r, c)
      PROVE  Observed'
  BY <1>4, <1>s, MoveWatched DEF Accept, Waiting
<1>5. ASSUME NEW r \in Roles, DropGuards(r, c)
      PROVE  Observed'
  BY <1>5, <1>s, MoveWatched DEF DropGuards, Ended
<1>6. QED
  BY <1>0, <1>1, <1>2, <1>3, <1>4, <1>5, FrontendWatched, ServeWatched,
     WorkerWatched, SpawnWatched

-----------------------------------------------------------------------------
(* The exchange                                                            *)

\* A step of one connection leaves the exchanges of the others alone.
LEMMA OtherExchanges ==
  ASSUME Exchanges, NEW c \in Connections, Exchange(c)',
         \A q \in Roles, d \in Connections : d # c => task'[q][d] = task[q][d],
         \A d \in Connections \ {c} :
           /\ request'[d] = request[d] /\ reply'[d] = reply[d]
           /\ evaluated'[d] = evaluated[d] /\ http'[d] = http[d]
  PROVE  Exchanges'
BY SMT DEF Exchanges, Exchange, Roles

\* A move of one task, with what the connection's variables must still satisfy.
LEMMA MoveExchange ==
  ASSUME TypeOK, Exchanges, NEW r \in Roles, NEW c \in Connections,
         NEW step \in Steps, goto(r, c, step), UNCHANGED <<ipc, evaluated, http>>,
         \/ /\ r = "frontend"
            /\ \/ step \in {"leave", "left", "gone"}
               \/ step \in Unasked /\ task[r][c] \in Unasked
               \/ {step, task[r][c]} \subseteq Exchanging \ {"connect"}
         \/ /\ r = "worker"
            /\ task[r][c] # "none"
            /\ step \notin {"status", "response"}
            /\ task[r][c] \in Ended => step \in Ended
  PROVE  Exchanges'
<1>1. /\ task'[r][c] = step
      /\ \A q \in Roles, d \in Connections :
           <<q, d>> # <<r, c>> => task'[q][d] = task[q][d]
  BY SMT, GotoEffect
<1>2. Exchange(c)
  BY DEF Exchanges
<1>3. request' = request /\ reply' = reply /\ evaluated' = evaluated /\ http' = http
  BY DEF ipc
<1>4. Exchange(c)'
  <2>1. CASE r = "frontend"
    <3>1. task'["frontend"][c] = step /\ task'["worker"][c] = task["worker"][c]
      BY <1>1, <2>1 DEF Roles
    <3>2. QED
      BY SMT, <1>2, <1>3, <2>1, <3>1 DEF Exchange, Unasked, Waiting, Exchanging
  <2>2. CASE r = "worker"
    <3>1. task'["worker"][c] = step /\ task'["frontend"][c] = task["frontend"][c]
      BY <1>1, <2>2 DEF Roles
    <3>2. /\ task["worker"][c] # "none" /\ step \notin {"status", "response"}
          /\ task["worker"][c] \in Ended => step \in Ended
      BY <2>2
    <3>3. task["frontend"][c] \notin Unasked /\ http[c] \notin {400, 404}
      BY <1>2, <3>2 DEF Exchange
    <3>4. QED
      BY SMT, <1>2, <1>3, <3>1, <3>2, <3>3 DEF Exchange
  <2>3. QED
    BY <2>1, <2>2 DEF Roles
<1>5. QED
  BY <1>1, <1>3, <1>4, OtherExchanges

\* A response of the frontend: 200 needs a full reply, and 400 and 404 come
\* before the worker is asked.
LEMMA RespondExchange ==
  ASSUME TypeOK, Exchanges, NEW c \in Connections,
         NEW status \in {200, 400, 404, 503}, NEW finished,
         respond(c, status, finished), UNCHANGED <<ipc, evaluated>>,
         status = 200 => reply[c] = "full",
         status \in {400, 404} => task["frontend"][c] \in Unasked
  PROVE  Exchanges'
<1>1. goto("frontend", c, "flush") /\ http' = [http EXCEPT ![c] = status]
  BY DEF respond
<1>2. "frontend" \in Roles /\ "worker" \in Roles /\ "flush" \in Steps
  BY DEF Roles, Steps, Serving
<1>3. /\ task'["frontend"][c] = "flush" /\ task'["worker"][c] = task["worker"][c]
      /\ \A q \in Roles, d \in Connections : d # c => task'[q][d] = task[q][d]
  BY SMT, <1>1, <1>2, GotoEffect
<1>4. /\ http'[c] = status
      /\ \A d \in Connections \ {c} : http'[d] = http[d]
  BY SMT, <1>1 DEF TypeOK
<1>5. Exchange(c)
  BY SMT DEF Exchanges
<1>6. request' = request /\ reply' = reply /\ evaluated' = evaluated
  BY DEF ipc
<1>7. Exchange(c)'
  BY SMT, <1>3, <1>4, <1>5, <1>6 DEF Exchange, Unasked, Waiting, Exchanging
<1>8. QED
  BY SMT, <1>3, <1>4, <1>6, <1>7, OtherExchanges

\* The worker reads and writes.
LEMMA WorkerExchange ==
  ASSUME TypeOK, Exchanges, NEW c \in Connections, Read(c) \/ Write(c)
  PROVE  Exchanges'
<1>1. "worker" \in Roles /\ "frontend" \in Roles
  BY DEF Roles
<1>2. {"status", "refuse", "response", "leave"} \subseteq Steps
  BY DEF Steps, Handling, Ended
<1>3. Exchange(c)
  BY DEF Exchanges
<1>4. CASE Read(c)
  <2>1. PICK step \in {"status", "refuse"} :
          /\ goto("worker", c, step)
          /\ \/ step = "status" /\ request[c] /\ evaluated' = [evaluated EXCEPT ![c] = TRUE]
             \/ step = "refuse" /\ UNCHANGED evaluated
    BY <1>4 DEF Read
  <2>2. task["worker"][c] = "read" /\ UNCHANGED <<request, reply, http>>
    BY <1>4 DEF Read, ipc
  <2>3. /\ task'["worker"][c] = step /\ task'["frontend"][c] = task["frontend"][c]
        /\ \A q \in Roles, d \in Connections : d # c => task'[q][d] = task[q][d]
    BY SMT, <1>1, <1>2, <2>1, GotoEffect
  <2>4. /\ step = "status" => evaluated'[c] /\ request[c]
        /\ \A d \in Connections \ {c} : evaluated'[d] = evaluated[d]
    BY SMT, <2>1 DEF TypeOK
  <2>5. reply[c] # "full" /\ http[c] \notin {200, 400, 404}
    BY <1>3, <2>2 DEF Exchange, Ended
  <2>6. Exchange(c)'
    BY SMT, <1>3, <2>2, <2>3, <2>4, <2>5 DEF Exchange
  <2>7. QED
    BY <2>2, <2>3, <2>4, <2>6, OtherExchanges
<1>5. CASE Write(c)
  <2>1. PICK step \in {"response", "leave"}, word \in {"refused", "status", "full"} :
          /\ goto("worker", c, step)
          /\ reply' = [reply EXCEPT ![c] = word]
          /\ step = "response" => task["worker"][c] = "status" /\ word = "status"
          /\ word = "full" => task["worker"][c] = "response"
          /\ task["worker"][c] \in {"refuse", "status", "response"}
    BY <1>5 DEF Write, conclude
  <2>2. UNCHANGED <<request, evaluated, http>>
    BY <1>5 DEF Write
  <2>3. /\ task'["worker"][c] = step /\ task'["frontend"][c] = task["frontend"][c]
        /\ \A q \in Roles, d \in Connections : d # c => task'[q][d] = task[q][d]
    BY SMT, <1>1, <1>2, <2>1, GotoEffect
  <2>4. reply'[c] = word /\ \A d \in Connections \ {c} : reply'[d] = reply[d]
    BY SMT, <2>1 DEF TypeOK
  <2>5. reply[c] # "full" /\ http[c] \notin {200, 400, 404}
    BY SMT, <1>3, <2>1 DEF Exchange, Ended
  <2>6. word = "full" => step = "leave"
    BY <2>1
  <2>7. Exchange(c)'
    BY SMT, <1>3, <2>1, <2>2, <2>3, <2>4, <2>5, <2>6 DEF Exchange, Ended
  <2>8. QED
    BY <2>2, <2>3, <2>4, <2>7, OtherExchanges
<1>6. QED
  BY <1>4, <1>5

\* Every step keeps what an exchange between the processes has established.
LEMMA StepExchanges ==
  ASSUME TypeOK, Exchanges, Next
  PROVE  Exchanges'
<1>0. PICK c \in Connections :
        \/ Connect(c) \/ Tls(c) \/ Head(c) \/ Body(c) \/ ConnectWorker(c)
        \/ Send(c) \/ Shutdown(c) \/ Receive(c) \/ ExchangeFails(c) \/ ServeReturns(c)
        \/ ConnectionDeadline(c) \/ Read(c) \/ Write(c) \/ HandleFails(c)
        \/ \E r \in Roles : Accept(r, c) \/ Spawn(r, c) \/ DropGuards(r, c)
  BY Cases
<1>r. "frontend" \in Roles /\ "worker" \in Roles
  BY DEF Roles
<1>s. Waiting \cup Ended \cup Serving \cup Handling \subseteq Steps
  BY DEF Steps
<1>1. CASE Connect(c) \/ Tls(c)
  <2>1. /\ task["frontend"][c] \in Unasked
        /\ UNCHANGED <<ipc, evaluated, http>>
        /\ \E step \in {"backlog", "header", "leave"} : goto("frontend", c, step)
    BY <1>1 DEF Connect, Tls, conclude, Unasked, Waiting
  <2>2. /\ {"backlog", "header"} \subseteq Unasked
        /\ {"backlog", "header", "leave"} \subseteq Steps
    BY <1>s DEF Unasked, Waiting, Ended, Serving
  <2>3. QED
    BY <1>r, <2>1, <2>2, MoveExchange
<1>2. CASE Head(c) \/ Body(c)
  <2>1. task["frontend"][c] \in Unasked /\ UNCHANGED <<ipc, evaluated>>
    BY <1>2 DEF Head, Body, Unasked
  <2>2. CASE \E status \in {400, 404}, finished \in {{}, {"validation"}} :
               respond(c, status, finished)
    BY SMT, <2>1, <2>2, RespondExchange
  <2>3. CASE /\ \E step \in {"body", "connect"} : goto("frontend", c, step)
             /\ UNCHANGED http
    <3>1. {"body", "connect"} \subseteq Unasked /\ {"body", "connect"} \subseteq Steps
      BY <1>s DEF Unasked, Serving, Exchanging
    <3>2. QED
      BY <1>r, <2>1, <2>3, <3>1, MoveExchange
  <2>4. QED
    BY SMT, <1>2, <2>2, <2>3 DEF Head, Body
<1>3. CASE ConnectWorker(c)
  <2>1. /\ task["frontend"][c] = "connect"
        /\ request' = request /\ reply' = reply /\ evaluated' = evaluated /\ http' = http
    BY <1>3 DEF ConnectWorker, ipc
  <2>2. Exchange(c)
    BY DEF Exchanges
  <2>3. task["worker"][c] = "none" /\ http[c] = 0 /\ reply[c] # "full"
    BY <2>1, <2>2 DEF Exchange, Unasked, Ended
  <2>4. /\ task'["frontend"][c] = "send" /\ task'["worker"][c] = "backlog"
        /\ \A q \in Roles, d \in Connections : d # c => task'[q][d] = task[q][d]
    BY <1>3, ConnectWorkerEffect
  <2>5. Exchange(c)'
    BY SMT, <2>1, <2>3, <2>4 DEF Exchange, Unasked, Waiting
  <2>6. QED
    BY <2>1, <2>4, <2>5, OtherExchanges
<1>4. CASE Send(c)
  <2>1. /\ task["frontend"][c] = "send" /\ goto("frontend", c, "shutdown")
        /\ request' = [request EXCEPT ![c] = TRUE]
        /\ reply' = reply /\ evaluated' = evaluated /\ http' = http
    BY <1>4 DEF Send
  <2>2. "shutdown" \in Steps
    BY <1>s DEF Serving, Exchanging
  <2>3. /\ task'["frontend"][c] = "shutdown" /\ task'["worker"][c] = task["worker"][c]
        /\ \A q \in Roles, d \in Connections : d # c => task'[q][d] = task[q][d]
    BY SMT, <1>r, <2>1, <2>2, GotoEffect
  <2>4. request'[c] /\ \A d \in Connections \ {c} : request'[d] = request[d]
    BY SMT, <2>1 DEF TypeOK
  <2>5. Exchange(c)
    BY SMT DEF Exchanges
  <2>6. Exchange(c)'
    BY SMT, <2>1, <2>3, <2>4, <2>5 DEF Exchange, Unasked, Waiting, Exchanging
  <2>7. QED
    BY <2>1, <2>3, <2>4, <2>6, OtherExchanges
<1>w. CASE Shutdown(c)
  <2>1. /\ task["frontend"][c] = "shutdown" /\ goto("frontend", c, "reply")
        /\ UNCHANGED <<ipc, evaluated, http>>
    BY <1>w DEF Shutdown
  <2>2. "reply" \in Steps /\ {"reply", "shutdown"} \subseteq Exchanging \ {"connect"}
    BY <1>s DEF Serving, Exchanging
  <2>3. QED
    BY <1>r, <2>1, <2>2, MoveExchange
<1>5. CASE Receive(c) \/ ExchangeFails(c)
  <2>1. /\ UNCHANGED <<ipc, evaluated>>
        /\ \E status \in {200, 503} :
             respond(c, status, {"ipc"}) /\ (status = 200 => reply[c] = "full")
    BY SMT, <1>5 DEF Receive, ExchangeFails
  <2>2. QED
    BY SMT, <2>1, RespondExchange
<1>6. CASE ServeReturns(c) \/ ConnectionDeadline(c)
  <2>1. goto("frontend", c, "leave") /\ UNCHANGED <<ipc, evaluated, http>>
    BY <1>6 DEF ServeReturns, ConnectionDeadline, conclude
  <2>2. QED
    BY <1>r, <1>s, <2>1, MoveExchange DEF Ended
<1>7. CASE HandleFails(c)
  <2>1. /\ goto("worker", c, "leave") /\ UNCHANGED <<ipc, evaluated, http>>
        /\ task["worker"][c] # "none"
    BY <1>7 DEF HandleFails, conclude, Handling
  <2>2. QED
    BY <1>r, <1>s, <2>1, MoveExchange DEF Ended
<1>8. ASSUME NEW r \in Roles, Accept(r, c) \/ Spawn(r, c) \/ DropGuards(r, c)
      PROVE  Exchanges'
  <2>1. UNCHANGED <<ipc, evaluated, http>>
    BY <1>8 DEF Accept, Spawn, DropGuards
  <2>2. PICK step \in {"rejected", "admitted", "tls", "read", "left", "gone"} :
          /\ goto(r, c, step)
          /\ \/ /\ task[r][c] \in {"backlog", "admitted"}
                /\ step \in {"rejected", "admitted"} \cup
                            IF r = "frontend" THEN {"tls"} ELSE {"read"}
             \/ task[r][c] \in Ended /\ step \in {"left", "gone"}
    BY <1>8 DEF Accept, Spawn, DropGuards, Ended
  <2>3. step \in Steps
    BY <1>s DEF Waiting, Ended, Serving, Handling
  <2>4. CASE r = "frontend"
    BY <2>1, <2>2, <2>3, <2>4, MoveExchange DEF Unasked, Waiting
  <2>5. CASE r = "worker"
    <3>1. /\ task[r][c] # "none" /\ step \notin {"status", "response"}
          /\ task[r][c] \in Ended => step \in Ended
      BY <2>2, <2>5 DEF Ended
    <3>2. QED
      BY <2>1, <2>2, <2>3, <2>5, <3>1, MoveExchange
  <2>6. QED
    BY <2>4, <2>5 DEF Roles
<1>9. QED
  BY <1>0, <1>1, <1>2, <1>3, <1>4, <1>w, <1>5, <1>6, <1>7, <1>8, WorkerExchange

-----------------------------------------------------------------------------
(* The theorems                                                            *)

\* The initial states satisfy the invariant.
LEMMA InitInv == Init => Inv
<1> SUFFICES ASSUME Init
             PROVE  Inv
  OBVIOUS
<1>1. "none" \in Steps /\ "none" \notin Holding /\ "none" \notin Counted
  BY DEF Steps, Waiting, Holding, Counted, Serving, Exchanging, Handling
<1>2. \A r \in Roles : limit[r] \in Nat
  BY LimitsAssumption DEF limit
<1>3. TypeOK
  BY <1>1, <1>2 DEF Init, TypeOK, TasksType, TimersType, limit
<1>4. Gauges
  <2>1. \A r \in Roles : Tasks(r, Holding) = {} /\ Tasks(r, Counted) = {}
    BY <1>1 DEF Init, Tasks
  <2>2. \A r \in Roles : permits[r] = limit[r] /\ inflight[r] = 0
    BY DEF Init
  <2>3. QED
    BY SMT, <1>2, <2>1, <2>2, FS_EmptySet DEF Gauges, PermitsAddUp
<1>5. Observed
  BY SMT DEF Init, Observed, Watched, Counts, FrontendTimers, WorkerTimers, Roles, Ended,
         Stages
<1>6. Exchanges
  BY SMT DEF Init, Exchanges, Exchange, Roles
<1>7. QED
  BY <1>3, <1>4, <1>5, <1>6 DEF Inv

\* Every step keeps the invariant.
LEMMA StepInv == Inv /\ [Next]_vars => Inv'
<1> SUFFICES ASSUME Inv, [Next]_vars
             PROVE  Inv'
  OBVIOUS
<1>1. CASE Next
  <2>1. Gauges' /\ Observed' /\ Exchanges'
    BY <1>1, StepGauges, StepObserved, StepExchanges DEF Inv
  <2>2. TypeOK'
    BY <1>1, <2>1, StepInflight, StepType DEF Inv
  <2>3. QED
    BY <2>1, <2>2 DEF Inv
<1>2. CASE UNCHANGED vars
  <2>1. /\ task' = task /\ permits' = permits /\ inflight' = inflight
        /\ timers' = timers /\ terminal' = terminal /\ request' = request
        /\ reply' = reply /\ evaluated' = evaluated /\ http' = http
    BY <1>2 DEF vars, observations, ipc
  <2>2. TypeOK'
    BY <2>1 DEF Inv, TypeOK, TasksType, TimersType
  <2>3. Gauges'
    BY <2>1 DEF Inv, Gauges, PermitsAddUp, Tasks
  <2>4. Observed'
    BY SMT, <2>1 DEF Inv, Observed, Watched, Counts, FrontendTimers, WorkerTimers
  <2>5. Exchanges'
    BY SMT, <2>1 DEF Inv, Exchanges, Exchange
  <2>6. QED
    BY <2>2, <2>3, <2>4, <2>5 DEF Inv
<1>3. QED
  BY <1>1, <1>2

\* The invariant holds in every reachable state.
LEMMA Invariant == Spec => []Inv
BY InitInv, StepInv, PTL DEF Spec

\* The exported gauge of each process covers all admitted work and stays within
\* the exported limit, for every limit and any number of connections, although
\* permit and gauge change at different moments (serve, Drop for Inflight).
THEOREM GaugeIsBounded == Spec => []GaugeWithinLimit
<1>1. Inv => GaugeWithinLimit
  <2> SUFFICES ASSUME Inv, NEW r \in Roles
               PROVE  /\ Cardinality(Tasks(r, Serving \cup Handling)) <= inflight[r]
                      /\ inflight[r] <= limit[r]
    BY DEF GaugeWithinLimit, Tasks
  <2>1. /\ PermitsAddUp(r) /\ permits[r] \in Nat
    BY SMT DEF Inv, Gauges, TypeOK
  <2>2. /\ IsFiniteSet(Tasks(r, Counted))
        /\ Cardinality(Tasks(r, Counted)) <= Cardinality(Tasks(r, Holding))
    BY <2>1, CountedHolds, FS_Subset DEF PermitsAddUp
  <2>3. Tasks(r, Serving \cup Handling) \subseteq Tasks(r, Counted)
    BY DEF Tasks, Counted
  <2>4. Cardinality(Tasks(r, Serving \cup Handling)) <= Cardinality(Tasks(r, Counted))
    BY <2>2, <2>3, FS_Subset
  <2>5. /\ Cardinality(Tasks(r, Counted)) \in Nat
        /\ Cardinality(Tasks(r, Holding)) \in Nat
    BY <2>1, <2>2, FS_CardinalityType DEF PermitsAddUp
  <2>6. QED
    BY SMT, <2>1, <2>2, <2>4, <2>5 DEF PermitsAddUp
<1>2. QED
  BY <1>1, Invariant, PTL

\* Every stage guard records exactly one terminal observation, whichever of the
\* two deadlines, the client or the other process ends its task (Timer::finish,
\* Drop for Timer).
THEOREM ObservedOnce == Spec => []OneObservation
<1>1. Inv => OneObservation
  BY DEF Inv, Observed, Watched, Counts, OneObservation, Ended
<1>2. QED
  BY <1>1, Invariant, PTL

\* A 200 carries a complete evaluation of this connection's complete request,
\* and a request that the frontend refuses never reaches the worker (evaluate,
\* exchange, handle).
THEOREM ResponseIsTruthful == Spec => []ResponseTruthful
<1>1. Inv => ResponseTruthful
  BY SMT DEF Inv, Exchanges, Exchange, ResponseTruthful
<1>2. QED
  BY <1>1, Invariant, PTL
=============================================================================
