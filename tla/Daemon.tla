------------------------------- MODULE Daemon -------------------------------
(***************************************************************************)
(* The two leelod services as processes of a service manager: the startup   *)
(* of `leelod worker` and `leelod serve` (main.rs, worker.rs, server.rs),   *)
(* readiness, shutdown and the accept loop with its back-off (service.rs).  *)
(* What happens on an accepted connection is module Evaluator; the exporter *)
(* is only started here.  A delay is counted in units of FIRST_RETRY.       *)
(***************************************************************************)
EXTENDS Naturals, Sequences

CONSTANTS
  Services,     \* of "worker" and "frontend"
  MAX_RETRY,    \* the longest delay
  Errors,       \* what accept may fail with
  MAX_FAULTS,   \* bound on steps of the startup, notifications and accepts that fail
  MAX_KILLS, MAX_SIGNALS, MAX_PENDING  \* bounds

ASSUME RetryAssumption == MAX_RETRY \in Nat \ {0}

Temporary == {"interrupted", "aborted", "reset", "would_block"}
Resource == {"mfile", "nfile", "nobufs", "nomem"}
Network == {"netdown", "netunreach", "hostunreach", "hostdown", "proto", "noprotoopt",
            "opnotsupp"}

VARIABLES
  step,       \* service -> the step its process is at, or down
  events,     \* service -> the lifecycle events of its latest process
  socket,     \* service -> the path of its Unix socket: absent, bound, open to the
              \* peers, or stale
  exporter,   \* service -> off, on, or the stale path of one
  notified,   \* service -> the manager has been told that it is ready
  pending,    \* service -> connections that wait to be accepted
  retrying,   \* service -> the gauge leelo_listener_retrying
  failed,     \* service -> accepts that failed since one succeeded
  delay,      \* service -> how long the next wait is
  errors,     \* service -> class -> accept errors that were counted
  signal,     \* service -> a signal to stop is pending
  faults, kills, signals

loop == <<pending, retrying, failed, delay, errors>>
environment == <<faults, kills, signals>>
vars == <<step, events, socket, exporter, notified, loop, signal, environment>>

Classes == {"interrupted", "resource", "network", "other"}

Init ==
  /\ step = [s \in Services |-> "down"]
  /\ events = [s \in Services |-> <<>>]
  /\ socket = [s \in Services |-> "absent"]
  /\ exporter = [s \in Services |-> "off"]
  /\ notified = [s \in Services |-> FALSE]
  /\ pending = [s \in Services |-> 0]
  /\ retrying = [s \in Services |-> 0]
  /\ failed = [s \in Services |-> 0]
  /\ delay = [s \in Services |-> 1]
  /\ errors = [s \in Services |-> [c \in Classes |-> 0]]
  /\ signal = [s \in Services |-> FALSE]
  /\ faults = 0 /\ kills = 0 /\ signals = 0

\* A mistake: the manager hears before the peers can connect.
startup_eager(s) ==
  IF s = "worker"
  THEN <<"starting", "key_load", "socket_directory", "listener", "readiness", "permissions",
         "snapshot", "serving">>
  ELSE <<"starting", "tls_config", "readiness", "listener", "snapshot", "serving">>

\* The steps of worker::run and of server::run.
startup(s) ==
  IF s = "worker"
  THEN <<"starting", "key_load", "socket_directory", "listener", "permissions", "snapshot",
         "readiness", "serving">>
  ELSE <<"starting", "tls_config", "listener", "snapshot", "readiness", "serving">>

after(s) == startup(s)[(CHOOSE i \in DOMAIN startup(s) : startup(s)[i] = step[s]) + 1]

emit(s, event) == events' = [events EXCEPT ![s] = Append(@, event)]

\* The process is gone: what it bound stays on disk, what it counted does not.
gone(s) ==
  /\ step' = [step EXCEPT ![s] = "down"]
  /\ socket' = [socket EXCEPT ![s] = IF @ = "absent" \/ s = "frontend" THEN "absent" ELSE "stale"]
  /\ exporter' = [exporter EXCEPT ![s] = IF @ = "off" THEN "off" ELSE "stale"]
  /\ notified' = [notified EXCEPT ![s] = FALSE]
  /\ pending' = [pending EXCEPT ![s] = 0]
  /\ retrying' = [retrying EXCEPT ![s] = 0]
  /\ failed' = [failed EXCEPT ![s] = 0]
  /\ delay' = [delay EXCEPT ![s] = 1]
  /\ signal' = [signal EXCEPT ![s] = FALSE]

\* run returns an error: the event of what failed, if there is one, and the end of main.
fails(s, names) ==
  /\ events' = [events EXCEPT ![s] =
       @ \o [i \in DOMAIN names |-> <<names[i], "failure">>]
         \o <<<<"service_stop", "failure">>>>]
  /\ gone(s)

-----------------------------------------------------------------------------
(* The service manager                                                     *)

\* Requires= and After=, with Type=notify: the frontend starts behind a worker that
\* is ready.  A service is started at first and when it failed; stopping it is final.
Launch(s) ==
  /\ step[s] = "down"
  /\ events[s] # <<>> => events[s][Len(events[s])] # <<"service_stop", "success">>
  /\ s = "frontend" /\ "worker" \in Services => notified["worker"]
  /\ step' = [step EXCEPT ![s] = "starting"]
  /\ events' = [events EXCEPT ![s] = <<<<"service_start", "started">>>>]
  /\ errors' = [errors EXCEPT ![s] = [c \in Classes |-> 0]]
  /\ UNCHANGED <<socket, exporter, notified, pending, retrying, failed, delay, signal, environment>>

\* RuntimeDirectory= goes with the service.
RemoveDirectory(s) ==
  /\ step[s] = "down"
  /\ socket[s] = "stale" \/ exporter[s] = "stale"
  /\ socket' = [socket EXCEPT ![s] = "absent"]
  /\ exporter' = [exporter EXCEPT ![s] = "off"]
  /\ UNCHANGED <<step, events, notified, loop, signal, environment>>

Stop(s) ==
  /\ step[s] # "down" /\ ~signal[s]
  /\ signals < MAX_SIGNALS
  /\ signals' = signals + 1
  /\ signal' = [signal EXCEPT ![s] = TRUE]
  /\ UNCHANGED <<step, events, socket, exporter, notified, loop, faults, kills>>

\* A crash, an out-of-memory kill, or a signal before its handler is there.
Kill(s) ==
  /\ step[s] # "down"
  /\ kills < MAX_KILLS
  /\ kills' = kills + 1
  /\ gone(s)
  /\ UNCHANGED <<events, errors, faults, signals>>

-----------------------------------------------------------------------------
(* Startup and shutdown                                                    *)

\* A step that works.  bind refuses a path that exists.
Step(s) ==
  /\ step[s] \notin {"down", "serving", "sleeping", "snapshot"}
  /\ step[s] = "listener" => socket[s] # "stale"
  /\ step' = [step EXCEPT ![s] = after(s)]
  /\ socket' = [socket EXCEPT ![s] =
       CASE step[s] = "listener" -> IF s = "worker" THEN "bound" ELSE "open"
         [] step[s] = "permissions" -> "open"
         [] OTHER -> @]
  /\ notified' = [notified EXCEPT ![s] = @ \/ step[s] = "readiness"]
  /\ IF step[s] = "readiness" THEN emit(s, <<"service_ready", "success">>) ELSE UNCHANGED events
  /\ UNCHANGED <<exporter, loop, signal, environment>>

\* A critical step fails and the process ends.  The first one, registering the signal
\* handler, has no event of its own.
StepFails(s) ==
  /\ step[s] \notin {"down", "serving", "sleeping", "snapshot"}
  /\ \/ step[s] = "listener" /\ socket[s] = "stale" /\ UNCHANGED faults
     \/ faults < MAX_FAULTS /\ faults' = faults + 1
  /\ fails(s, IF step[s] = "starting" THEN <<>> ELSE <<"service_failed">>)
  /\ UNCHANGED <<errors, kills, signals>>

\* A mistake: a service without its exporter does not start.
Exporter_required(s) ==
  /\ step[s] = "snapshot"
  /\ \/ /\ exporter[s] # "stale"
        /\ exporter' = [exporter EXCEPT ![s] = "on"]
        /\ step' = [step EXCEPT ![s] = after(s)]
        /\ UNCHANGED <<events, socket, notified, pending, retrying, failed, delay, signal>>
     \/ fails(s, <<"service_failed">>)
  /\ UNCHANGED <<errors, environment>>

\* start_optional: a socket in a directory that passed the checks, no exporter that
\* was asked for, or an event; then the startup goes on.
Exporter(s) ==
  /\ step[s] = "snapshot"
  /\ step' = [step EXCEPT ![s] = after(s)]
  /\ \/ exporter[s] # "stale" /\ exporter' = [exporter EXCEPT ![s] = "on"] /\ UNCHANGED events
     \/ UNCHANGED <<exporter, events>>
     \/ emit(s, <<"telemetry_failed", "failure">>) /\ UNCHANGED exporter
  /\ UNCHANGED <<socket, notified, loop, signal, environment>>

\* until_shutdown: the signal wins where the operation waits, or before it began.
Shutdown(s) ==
  /\ signal[s]
  /\ \/ step[s] \in {"starting", "serving", "sleeping"}
     \/ s = "frontend" /\ step[s] = "listener"
  /\ emit(s, <<"service_stop", "success">>)
  /\ gone(s)
  /\ UNCHANGED <<errors, environment>>

-----------------------------------------------------------------------------
(* The accept loop                                                         *)

Arrive(s) ==
  /\ step[s] \in {"serving", "sleeping"}
  /\ pending[s] < MAX_PENDING
  /\ pending' = [pending EXCEPT ![s] = @ + 1]
  /\ UNCHANGED <<step, events, socket, exporter, notified, retrying, failed, delay, errors,
                 signal, environment>>

\* A mistake: the gauge of an outage outlives it.
Accept_stuck(s) ==
  /\ step[s] = "serving" /\ pending[s] > 0
  /\ pending' = [pending EXCEPT ![s] = @ - 1]
  /\ failed' = [failed EXCEPT ![s] = 0]
  /\ delay' = [delay EXCEPT ![s] = 1]
  /\ UNCHANGED <<step, events, socket, exporter, notified, retrying, errors, signal, environment>>

\* accept_observed returns; the next call begins with the first delay.
Accept(s) ==
  /\ step[s] = "serving" /\ pending[s] > 0
  /\ pending' = [pending EXCEPT ![s] = @ - 1]
  /\ retrying' = [retrying EXCEPT ![s] = 0]
  /\ failed' = [failed EXCEPT ![s] = 0]
  /\ delay' = [delay EXCEPT ![s] = 1]
  /\ UNCHANGED <<step, events, socket, exporter, notified, errors, signal, environment>>

temporary(error) == error \in Temporary \cup Resource \cup Network

class(error) ==
  CASE error = "interrupted" -> "interrupted"
    [] error \in Resource -> "resource"
    [] error \in Temporary \cup Network -> "network"
    [] OTHER -> "other"

accept_error(s, error) == errors' = [errors EXCEPT ![s][class(error)] = @ + 1]

AcceptFails(s, error) ==
  /\ step[s] = "serving"
  /\ faults < MAX_FAULTS
  /\ faults' = faults + 1
  /\ accept_error(s, error)
  /\ IF temporary(error)
     THEN /\ step' = [step EXCEPT ![s] = "sleeping"]
          /\ retrying' = [retrying EXCEPT ![s] = 1]
          /\ failed' = [failed EXCEPT ![s] = @ + 1]
          /\ UNCHANGED <<events, socket, exporter, notified, pending, delay, signal>>
     ELSE fails(s, <<"listener_failed">>)
  /\ UNCHANGED <<kills, signals>>

Wake(s) ==
  /\ step[s] = "sleeping"
  /\ step' = [step EXCEPT ![s] = "serving"]
  /\ delay' = [delay EXCEPT ![s] = IF @ * 2 > MAX_RETRY THEN MAX_RETRY ELSE @ * 2]
  /\ UNCHANGED <<events, socket, exporter, notified, pending, retrying, failed, errors, signal,
                 environment>>

-----------------------------------------------------------------------------

Next ==
  \E s \in Services :
    \/ Launch(s) \/ RemoveDirectory(s) \/ Stop(s) \/ Kill(s)
    \/ Step(s) \/ StepFails(s) \/ Exporter(s) \/ Shutdown(s)
    \/ Arrive(s) \/ Accept(s) \/ Wake(s)
    \/ \E error \in Errors : AcceptFails(s, error)

Spec == Init /\ [][Next]_vars

\* Processes are scheduled, timers fire, and the manager restarts what failed once
\* it has removed its runtime directory.
LiveSpec ==
  /\ Spec
  /\ \A s \in Services :
       /\ SF_vars(RemoveDirectory(s))
       /\ WF_vars(Launch(s))
       /\ WF_vars(Step(s) \/ Exporter(s) \/ StepFails(s))
       /\ WF_vars(Wake(s) \/ Accept(s))
       /\ WF_vars(Shutdown(s))

-----------------------------------------------------------------------------
(* Properties                                                              *)

\* The manager takes a service for ready only while its socket is there for its peers,
\* and so never starts the frontend behind a worker it cannot reach (ready).
ReadyMeansReachable ==
  \A s \in Services : notified[s] => socket[s] = "open" /\ step[s] \in {"serving", "sleeping"}

doubled[n \in Nat] == IF n = 0 THEN 1 ELSE 2 * doubled[n - 1]

\* The gauge and the delay follow the accepts that failed since one worked: the gauge
\* is up exactly while there are any, each wait is twice the one before up to the
\* longest, and an accept that works or a new process starts both again (Retry,
\* accept_observed).
OutageFollowsFailures ==
  \A s \in Services :
    LET waits == IF step[s] = "sleeping" THEN failed[s] - 1 ELSE failed[s] IN
    /\ retrying[s] = IF failed[s] > 0 THEN 1 ELSE 0
    /\ delay[s] = IF doubled[waits] > MAX_RETRY THEN MAX_RETRY ELSE doubled[waits]

\* Unless it is told to stop, a service comes to serve for good after the last kill,
\* failed step and failed accept, exporter or not, and every connection is accepted
\* (start_optional, accept_observed).
ServesAgain ==
  [](signals = 0) =>
    \A s \in Services : <>[](step[s] = "serving") /\ []<>(pending[s] = 0)
=============================================================================
