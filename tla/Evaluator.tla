----------------------------- MODULE Evaluator ------------------------------
(***************************************************************************)
(* The evaluator service: the TLS frontend (leelod server.rs), the key      *)
(* worker behind its Unix socket (worker.rs), and the observations both     *)
(* keep (metrics.rs).                                                       *)
(*                                                                          *)
(* A connection c has a task in the frontend and, when the frontend asks    *)
(* the worker, one in the worker.  Each process has one accept loop, a      *)
(* semaphore of permits and a gauge of admitted work.  An action is what a  *)
(* task does between two awaits.  A deadline may fire at any await inside   *)
(* it and drops the future, and with it every open stage timer.  A deadline *)
(* of one process says nothing to the other: it only sees its stream end.   *)
(***************************************************************************)
EXTENDS Naturals, FiniteSets

CONSTANTS
  Connections,
  MAX_CONNECTIONS,   \* permits of the frontend
  MAX_WORK           \* permits of the worker

ASSUME LimitsAssumption ==
  /\ MAX_CONNECTIONS \in Nat \ {0}
  /\ MAX_WORK \in Nat \ {0}

Roles == {"frontend", "worker"}

limit == [r \in Roles |-> IF r = "frontend" THEN MAX_CONNECTIONS ELSE MAX_WORK]

Stages == {"connection", "tls", "http", "validation", "ipc", "worker", "crypto"}

VARIABLES
  task,      \* where the connection is in each process
  permits,   \* free permits of each semaphore
  inflight,  \* the gauge of each process
  timers,    \* per stage: a Timer was not created, is open, or was dropped
  terminal,  \* per stage: the number of terminal observations
  request,   \* every byte of the IPC request is written
  reply,     \* what the worker has written: none, refused, status or full
  evaluated, \* the worker's key was applied for this connection
  http       \* the status of the response, 0 while there is none

ipc == <<request, reply>>
observations == <<timers, terminal>>
vars == <<task, permits, inflight, observations, ipc, evaluated, http>>

Init ==
  /\ task = [r \in Roles |-> [c \in Connections |-> "none"]]
  /\ permits = limit
  /\ inflight = [r \in Roles |-> 0]
  /\ timers = [r \in Roles |-> [c \in Connections |-> [s \in Stages |-> "none"]]]
  /\ terminal = [r \in Roles |-> [c \in Connections |-> [s \in Stages |-> 0]]]
  /\ request = [c \in Connections |-> FALSE]
  /\ reply = [c \in Connections |-> "none"]
  /\ evaluated = [c \in Connections |-> FALSE]
  /\ http = [c \in Connections |-> 0]

-----------------------------------------------------------------------------
(* Observations                                                            *)

Open(r, c) == {s \in Stages : timers[r][c][s] = "open"}

\* A mistake: a timer that is dropped unfinished records nothing.
observe_lossy(r, c, finished, dropped, opened) ==
  /\ timers' = [timers EXCEPT ![r][c] =
                  [s \in Stages |-> IF s \in finished \cup dropped THEN "dropped"
                                    ELSE IF s \in opened THEN "open" ELSE @[s]]]
  /\ terminal' = [terminal EXCEPT ![r][c] =
                    [s \in Stages |-> IF s \in finished THEN @[s] + 1 ELSE @[s]]]

\* Timer::finish records an outcome, and Drop records Cancelled for a timer that
\* was not finished.  Stages in opened get a new Timer, in the same step for a
\* stage that begins and ends without an await.
observe(r, c, finished, dropped, opened) ==
  /\ timers' = [timers EXCEPT ![r][c] =
                  [s \in Stages |-> IF s \in finished \cup dropped THEN "dropped"
                                    ELSE IF s \in opened THEN "open" ELSE @[s]]]
  /\ terminal' = [terminal EXCEPT ![r][c] =
                    [s \in Stages |-> IF s \in finished \cup dropped
                                      THEN @[s] + 1 ELSE @[s]]]

goto(r, c, step) == task' = [task EXCEPT ![r][c] = step]

\* The task's future completes or is dropped by its deadline: the timers still
\* open inside are cancelled and the task's own timer is finished.
outer(r) == IF r = "frontend" THEN "connection" ELSE "worker"

conclude(r, c, finished) ==
  /\ goto(r, c, "leave")
  /\ observe(r, c, finished \cup {outer(r)},
             Open(r, c) \ (finished \cup {outer(r)}), {})

-----------------------------------------------------------------------------
(* Admission, the same in both processes                                   *)

\* A client connects; the kernel completes the connection.
Connect(c) ==
  /\ task["frontend"][c] = "none"
  /\ goto("frontend", c, "backlog")
  /\ UNCHANGED <<permits, inflight, observations, ipc, evaluated, http>>

\* The accept loop: one connection at a time.  The worker first refuses a peer
\* whose credentials are wrong or unreadable; without a permit the stream is
\* dropped.
Accept(r, c) ==
  /\ task[r][c] = "backlog"
  /\ \A d \in Connections : task[r][d] # "admitted"
  /\ \/ /\ r = "worker" \/ permits[r] = 0
        /\ goto(r, c, "rejected")
        /\ UNCHANGED permits
     \/ /\ permits[r] > 0
        /\ goto(r, c, "admitted")
        /\ permits' = [permits EXCEPT ![r] = @ - 1]
  /\ UNCHANGED <<inflight, observations, ipc, evaluated, http>>

\* metrics.enter and the spawned task up to its first await.
Spawn(r, c) ==
  /\ task[r][c] = "admitted"
  /\ goto(r, c, IF r = "frontend" THEN "tls" ELSE "read")
  /\ inflight' = [inflight EXCEPT ![r] = @ + 1]
  /\ observe(r, c, {}, {},
             {outer(r), IF r = "frontend" THEN "tls" ELSE "validation"})
  /\ UNCHANGED <<permits, ipc, evaluated, http>>

\* A mistake: the permit is dropped before the gauge.
DropGuards_swapped(r, c) ==
  /\ \/ /\ task[r][c] = "leave"
        /\ goto(r, c, "left")
        /\ permits' = [permits EXCEPT ![r] = @ + 1]
        /\ UNCHANGED inflight
     \/ /\ task[r][c] = "left"
        /\ goto(r, c, "gone")
        /\ inflight' = [inflight EXCEPT ![r] = @ - 1]
        /\ UNCHANGED permits
  /\ UNCHANGED <<observations, ipc, evaluated, http>>

\* The locals of the task are dropped in reverse order: _inflight, then _permit.
DropGuards(r, c) ==
  /\ \/ /\ task[r][c] = "leave"
        /\ goto(r, c, "left")
        /\ inflight' = [inflight EXCEPT ![r] = @ - 1]
        /\ UNCHANGED permits
     \/ /\ task[r][c] = "left"
        /\ goto(r, c, "gone")
        /\ permits' = [permits EXCEPT ![r] = @ + 1]
        /\ UNCHANGED inflight
  /\ UNCHANGED <<observations, ipc, evaluated, http>>

-----------------------------------------------------------------------------
(* The frontend's task                                                     *)

Exchanging == {"connect", "send", "shutdown", "reply"}

Serving == {"tls", "header", "body", "flush"} \cup Exchanging

\* acceptor.accept under its own deadline.
Tls(c) ==
  /\ task["frontend"][c] = "tls"
  /\ \/ goto("frontend", c, "header") /\ observe("frontend", c, {"tls"}, {}, {})
     \/ conclude("frontend", c, {"tls"})
  /\ UNCHANGED <<permits, inflight, ipc, evaluated, http>>

\* The handler returns a response, and observe_http records its status.
respond(c, status, finished) ==
  /\ goto("frontend", c, "flush")
  /\ http' = [http EXCEPT ![c] = status]
  /\ observe("frontend", c, finished \cup {"http"}, {}, {})

\* The request's head arrives: no route (404 stands for 405 too), headers that
\* evaluate refuses, or a body to read.
Head(c) ==
  /\ task["frontend"][c] = "header"
  /\ \/ respond(c, 404, {})
     \/ respond(c, 400, {"validation"})
     \/ /\ goto("frontend", c, "body")
        /\ observe("frontend", c, {}, {}, {"http", "validation"})
        /\ UNCHANGED http
  /\ UNCHANGED <<permits, inflight, ipc, evaluated>>

\* to_bytes and decode_request.
Body(c) ==
  /\ task["frontend"][c] = "body"
  /\ \/ respond(c, 400, {"validation"})
     \/ /\ goto("frontend", c, "connect")
        /\ observe("frontend", c, {"validation"}, {}, {"ipc"})
        /\ UNCHANGED http
  /\ UNCHANGED <<permits, inflight, ipc, evaluated>>

\* exchange connects to the worker's socket, whose kernel queues the stream.
ConnectWorker(c) ==
  /\ task["frontend"][c] = "connect"
  /\ task' = [task EXCEPT !["frontend"][c] = "send", !["worker"][c] = "backlog"]
  /\ UNCHANGED <<permits, inflight, observations, ipc, evaluated, http>>

\* exchange writes the request, ...
Send(c) ==
  /\ task["frontend"][c] = "send"
  /\ goto("frontend", c, "shutdown")
  /\ request' = [request EXCEPT ![c] = TRUE]
  /\ UNCHANGED <<permits, inflight, observations, reply, evaluated, http>>

\* ... and shuts its half of the stream down, which marks the end of the request.
Shutdown(c) ==
  /\ task["frontend"][c] = "shutdown"
  /\ goto("frontend", c, "reply")
  /\ UNCHANGED <<permits, inflight, observations, ipc, evaluated, http>>

\* The worker's end of the stream is dropped.
Closed(c) == task["worker"][c] \in {"rejected", "leave", "left", "gone"}

\* A mistake: the status byte is taken for the answer.
Receive_status(c) ==
  /\ task["frontend"][c] = "reply"
  /\ Closed(c)
  /\ respond(c, IF reply[c] \in {"status", "full"} THEN 200 ELSE 503, {"ipc"})
  /\ UNCHANGED <<permits, inflight, ipc, evaluated>>

\* read_to_end returns at the end of the stream; only an exact and complete
\* reply becomes a response.
Receive(c) ==
  /\ task["frontend"][c] = "reply"
  /\ Closed(c)
  /\ respond(c, IF reply[c] = "full" THEN 200 ELSE 503, {"ipc"})
  /\ UNCHANGED <<permits, inflight, ipc, evaluated>>

\* Any call of exchange fails, or IPC_DEADLINE drops it: the stream is closed.
ExchangeFails(c) ==
  /\ task["frontend"][c] \in Exchanging
  /\ respond(c, 503, {"ipc"})
  /\ UNCHANGED <<permits, inflight, ipc, evaluated>>

\* serve_connection returns: the response is out, or the head was late or
\* malformed, or the client is gone and the handler is dropped.
ServeReturns(c) ==
  /\ task["frontend"][c] \in Serving \ {"tls"}
  /\ conclude("frontend", c, {})
  /\ UNCHANGED <<permits, inflight, ipc, evaluated, http>>

\* A mistake: only the handshake is under the deadline.
ConnectionDeadline_tls(c) ==
  /\ task["frontend"][c] = "tls"
  /\ conclude("frontend", c, {})
  /\ UNCHANGED <<permits, inflight, ipc, evaluated, http>>

\* CONNECTION_DEADLINE drops whatever the connection is doing.
ConnectionDeadline(c) ==
  /\ task["frontend"][c] \in Serving
  /\ conclude("frontend", c, {})
  /\ UNCHANGED <<permits, inflight, ipc, evaluated, http>>

-----------------------------------------------------------------------------
(* The worker's task                                                       *)

Handling == {"read", "refuse", "status", "response"}

\* The frontend's half of the stream is shut down, or its end is dropped.
RequestEnds(c) == task["frontend"][c] \notin Exchanging \ {"reply"}

\* read_to_end returns at the end of the stream, also when the frontend has given
\* up before or after it wrote the whole request.  A whole request for this
\* key is evaluated before the next await; it may also name another key, hold
\* an invalid point or meet an error of the evaluation.
Read(c) ==
  /\ task["worker"][c] = "read"
  /\ RequestEnds(c)
  /\ \/ /\ request[c]
        /\ goto("worker", c, "status")
        /\ observe("worker", c, {"validation", "crypto"}, {}, {})
        /\ evaluated' = [evaluated EXCEPT ![c] = TRUE]
     \/ /\ request[c]
        /\ goto("worker", c, "refuse")
        /\ observe("worker", c, {"validation", "crypto"}, {}, {})
        /\ UNCHANGED evaluated
     \/ /\ goto("worker", c, "refuse")
        /\ observe("worker", c, {"validation"}, {}, {})
        /\ UNCHANGED evaluated
  /\ UNCHANGED <<permits, inflight, ipc, http>>

\* One write_all of handle.  The stream is shut down after the last one, and
\* the task ends.
Write(c) ==
  /\ \/ /\ task["worker"][c] = "refuse"
        /\ reply' = [reply EXCEPT ![c] = "refused"]
        /\ conclude("worker", c, {})
     \/ /\ task["worker"][c] = "status"
        /\ reply' = [reply EXCEPT ![c] = "status"]
        /\ goto("worker", c, "response")
        /\ UNCHANGED observations
     \/ /\ task["worker"][c] = "response"
        /\ reply' = [reply EXCEPT ![c] = "full"]
        /\ conclude("worker", c, {})
  /\ UNCHANGED <<permits, inflight, request, evaluated, http>>

\* A read or write of handle fails, or IPC_DEADLINE drops it at an await.
HandleFails(c) ==
  /\ task["worker"][c] \in Handling
  /\ conclude("worker", c, {})
  /\ UNCHANGED <<permits, inflight, ipc, evaluated, http>>

-----------------------------------------------------------------------------
Admit(r) == \E c \in Connections : Accept(r, c) \/ Spawn(r, c)

\* What the client or the worker does to a connection of the frontend.
Progress(c) ==
  \/ Tls(c)
  \/ Head(c)
  \/ Body(c)
  \/ ConnectWorker(c)
  \/ Send(c)
  \/ Shutdown(c)
  \/ Receive(c)
  \/ ExchangeFails(c)
  \/ ServeReturns(c)

Handle(c) == Read(c) \/ Write(c)

Next ==
  \/ \E c \in Connections : Connect(c) \/ Progress(c) \/ ConnectionDeadline(c)
  \/ \E c \in Connections : Handle(c) \/ HandleFails(c)
  \/ \E r \in Roles : Admit(r) \/ \E c \in Connections : DropGuards(r, c)

Spec == Init /\ [][Next]_vars

\* The accept loops run, tasks that end drop their guards, and both deadlines
\* fire.  Nothing is assumed of clients, or of one process by the other.
FairSpec ==
  /\ Spec
  /\ \A r \in Roles : WF_vars(Admit(r))
  /\ \A r \in Roles, c \in Connections : WF_vars(DropGuards(r, c))
  /\ \A c \in Connections :
       WF_vars(ConnectionDeadline(c)) /\ WF_vars(HandleFails(c))

-----------------------------------------------------------------------------
(* Properties                                                              *)

\* Every stage guard records exactly one terminal observation, whatever drops
\* it: while it is open there is none, afterwards one, and a task that left has
\* none open (Timer::finish, Drop for Timer).
OneObservation ==
  \A r \in Roles, c \in Connections, s \in Stages :
    /\ terminal[r][c][s] = IF timers[r][c][s] = "dropped" THEN 1 ELSE 0
    /\ task[r][c] = "gone" => timers[r][c][s] # "open"

\* The exported gauge covers all admitted work and never exceeds the exported
\* limit, although permit and gauge change at different moments and the worker
\* may still handle what the frontend gave up (serve, Drop for Inflight).
GaugeWithinLimit ==
  \A r \in Roles :
    /\ Cardinality({c \in Connections : task[r][c] \in Serving \cup Handling})
         <= inflight[r]
    /\ inflight[r] <= limit[r]

\* A 200 carries a complete evaluation of this connection's complete request,
\* and a request that the frontend refuses never reaches the worker (evaluate,
\* exchange, handle).
ResponseTruthful ==
  \A c \in Connections :
    /\ http[c] = 200 => evaluated[c] /\ request[c] /\ reply[c] = "full"
    /\ http[c] \in {400, 404} => task["worker"][c] = "none"

\* Whatever clients do, a connection that either process has in its backlog is
\* refused, or admitted and given up within its deadline: no permit is lost
\* (CONNECTION_DEADLINE, IPC_DEADLINE).
Drains ==
  \A r \in Roles, c \in Connections :
    task[r][c] # "none" ~> task[r][c] \in {"rejected", "gone"}
=============================================================================
