----------------------------- MODULE Collector ------------------------------
(***************************************************************************)
(* `leelo-collector events` (leelo-collector linux.rs) below the emitters   *)
(* that feed it.  The collector admits datagrams into its registry, writes  *)
(* what it admitted to a log of one current and one previous file, and      *)
(* rebuilds the registry from both files when it starts.  A log is the      *)
(* sequence of its complete lines and a flag for bytes behind the last      *)
(* newline; its size is counted in records.                                 *)
(***************************************************************************)
EXTENDS Emitter, Metrics

CONSTANTS
  Sources,     \* the pairs of component and emitter that the operator listed
  LOG_LIMIT,   \* records a log holds before it is rotated
  MAX_FAULTS,  \* bound on crashes and failed writes
  MAX_COPIES   \* bound on repeated datagrams

NoLog == [lines |-> <<>>, torn |-> FALSE]
NoRecord == [attempt |-> "none"]

VARIABLES
  state,     \* down, replaying, replayed, up, or writing the pending record
  metrics,   \* the registry
  current, previous,  \* the two logs
  pending,   \* the admitted record that is to be written
  faults, copies,     \* how much the environment has done
  evicted    \* some registry forgot an identity since the logs began

disk == <<current, previous>>
environment == <<faults, copies>>
vars == <<emitter, socket, channel, state, metrics, disk, pending, environment, evicted>>

Init ==
  /\ InitEmitter
  /\ socket = "absent"
  /\ state = "down"
  /\ metrics = default
  /\ current = NoLog /\ previous = NoLog
  /\ pending = NoRecord
  /\ faults = 0 /\ copies = 0
  /\ evicted = FALSE

enter(m) ==
  /\ metrics' = m
  /\ evicted' = (evicted \/ m.replay_evictions > 0)

Call(t) ==
  /\ EmitterStep(t)
  /\ UNCHANGED <<state, metrics, disk, pending, environment, evicted>>

\* A datagram comes twice, or late.
Copy ==
  /\ socket = "bound" /\ Len(queue) < CAPACITY
  /\ copies < MAX_COPIES
  /\ copies' = copies + 1
  /\ \E record \in sent : queue' = Append(queue, record)
  /\ UNCHANGED <<emitter, socket, sent, state, metrics, disk, pending, faults, evicted>>

-----------------------------------------------------------------------------
(* Start                                                                   *)

\* bind refuses a path that exists, so the socket of a dead collector has to go
\* first: the service manager removes the runtime directory.
RemoveSocket ==
  /\ state = "down"
  /\ socket = "stale"
  /\ socket' = "absent"
  /\ UNCHANGED <<emitter, channel, state, metrics, disk, pending, environment, evicted>>

Start ==
  /\ state = "down"
  /\ socket = "absent"
  /\ socket' = "bound"
  /\ state' = "replaying"
  /\ metrics' = default
  /\ UNCHANGED <<emitter, channel, disk, pending, environment, evicted>>

repaired(log) == [log EXCEPT !.torn = FALSE]

replayed(m, log) ==
  LET start == IF log.torn THEN [m EXCEPT !.rejected = @ + 1] ELSE m
      after[n \in 0..Len(log.lines)] ==
        IF n = 0 THEN start ELSE accept(after[n - 1], log.lines[n])
  IN after[Len(log.lines)]

\* A mistake: bytes behind the last newline stay in the file.
replay_unrepaired ==
  /\ state = "replaying"
  /\ state' = "replayed"
  /\ enter(replayed(replayed(metrics, previous), current))
  /\ UNCHANGED <<emitter, socket, channel, disk, pending, environment>>

\* The previous log, then the current one.  A record without its newline is cut
\* off and counted as rejected, even when it would parse.
replay ==
  /\ state = "replaying"
  /\ state' = "replayed"
  /\ previous' = repaired(previous)
  /\ current' = repaired(current)
  /\ enter(replayed(replayed(metrics, previous), current))
  /\ UNCHANGED <<emitter, socket, channel, pending, environment>>

Open ==
  /\ state = "replayed"
  /\ state' = "up"
  /\ UNCHANGED <<emitter, socket, channel, metrics, disk, pending, environment, evicted>>

-----------------------------------------------------------------------------
(* The receive loop                                                        *)

listed(record) == <<record.event.component, record.attempt>> \in Sources

\* read_event and accept.  A record that is not admitted is counted and the loop
\* goes on.
Receive ==
  /\ state = "up"
  /\ queue # <<>>
  /\ queue' = Tail(queue)
  /\ LET record == Head(queue) IN
     IF listed(record)
     THEN /\ enter(accept(metrics, record))
          /\ IF verdict(metrics, record) = "accepted"
             THEN state' = "writing" /\ pending' = record
             ELSE UNCHANGED <<state, pending>>
     ELSE /\ enter([metrics EXCEPT !.rejected = @ + 1])
          /\ UNCHANGED <<state, pending>>
  /\ UNCHANGED <<emitter, socket, sent, disk, environment>>

full == Len(current.lines) >= LOG_LIMIT

\* rename to the previous log; the current one is created again empty.
Rotate ==
  /\ state = "writing"
  /\ full
  /\ previous' = current
  /\ current' = NoLog
  /\ UNCHANGED <<emitter, socket, channel, state, metrics, pending, environment, evicted>>

Write ==
  /\ state = "writing"
  /\ ~full
  /\ state' = "up"
  /\ pending' = NoRecord
  /\ current' = [current EXCEPT !.lines = Append(@, pending)]
  /\ UNCHANGED <<emitter, socket, channel, metrics, previous, environment, evicted>>

fault == faults < MAX_FAULTS /\ faults' = faults + 1

\* A mistake: the record is forgotten when its write fails, so that a copy of it
\* is admitted, but what the write left behind is a whole line.
WriteFails_copied ==
  /\ state = "writing"
  /\ ~full
  /\ fault
  /\ state' = "up"
  /\ pending' = NoRecord
  /\ current' = [current EXCEPT !.lines = Append(@, pending)]
  /\ metrics' = [metrics EXCEPT !.write_failures = @ + 1,
                              !.order = SubSeq(@, 1, Len(@) - 1)]
  /\ UNCHANGED <<emitter, socket, channel, previous, copies, evicted>>

\* write_all fails, perhaps after a prefix, and set_len takes the prefix back.
WriteFails ==
  /\ state = "writing"
  /\ ~full
  /\ fault
  /\ state' = "up"
  /\ pending' = NoRecord
  /\ metrics' = [metrics EXCEPT !.write_failures = @ + 1]
  /\ UNCHANGED <<emitter, socket, channel, disk, copies, evicted>>

\* The metrics file is replaced once per second; only its failure shows here.
ExportFails ==
  /\ state = "up"
  /\ fault
  /\ metrics' = [metrics EXCEPT !.write_failures = @ + 1]
  /\ UNCHANGED <<emitter, socket, channel, state, disk, pending, copies, evicted>>

-----------------------------------------------------------------------------
(* The collector dies                                                      *)

cut(log) == {[lines |-> SubSeq(log.lines, 1, n), torn |-> b] :
               n \in 0..Len(log.lines), b \in BOOLEAN}

\* A receive error, a failed rename or rollback, a signal, or a power loss.  The
\* datagrams nobody read are gone.  A process that dies may leave a part of the
\* record it wrote.  Nothing is synced, so a power loss takes any tail of a log.
Crash ==
  /\ state # "down"
  /\ fault
  /\ state' = "down"
  /\ socket' = "stale"
  /\ queue' = <<>>
  /\ pending' = NoRecord
  /\ \/ /\ current' \in {current} \cup
              IF state = "writing" /\ ~full THEN {[current EXCEPT !.torn = TRUE]} ELSE {}
        /\ UNCHANGED previous
     \/ current' \in cut(current) /\ previous' \in cut(previous)
  /\ UNCHANGED <<emitter, sent, metrics, copies, evicted>>

CollectorStep ==
  Start \/ replay \/ Open \/ Receive \/ Rotate \/ Write

Next ==
  \/ \E t \in Threads : Call(t)
  \/ CollectorStep
  \/ Copy \/ RemoveSocket \/ WriteFails \/ ExportFails \/ Crash

Spec == Init /\ [][Next]_vars

-----------------------------------------------------------------------------
(* Properties                                                              *)

history == previous.lines \o current.lines
Ids(lines) == [i \in DOMAIN lines |-> identity(lines[i])]

\* As many members as the counters in S add up to.
units(counters, S) == UNION {{<<key, n>> : n \in 1..counters[key]} : key \in S}

\* The identity under which the collector recognises a repetition belongs to one
\* record, although the threads of a daemon number and send concurrently.
IdentitiesDistinct ==
  \A r, q \in sent : identity(r) = identity(q) => r = q

\* The registry stays within its bounds, and what that costs shows.  A completed
\* operation counts once in the totals, whatever repetition or contradictory
\* terminal record follows it and whatever a restart replays: counts too many are
\* no more than the reported evictions, counts missing no more than the refused
\* series (accept, increment, observe).
BoundsAccountedFor ==
  LET totals == {key \in DOMAIN metrics.counters : key[1] = "operations"}
      counted == Cardinality(units(metrics.counters, totals))
      completed == Cardinality({a \in DOMAIN metrics.attempts : metrics.attempts[a].terminal})
  IN /\ Len(metrics.order) <= MAX_REPLAY
     /\ Cardinality(DOMAIN metrics.attempts) <= MAX_REPLAY
     /\ series(metrics) <= MAX_SERIES
     /\ counted <= completed + metrics.replay_evictions
     /\ completed <= counted + metrics.overflow

\* "Never concatenate the next append with a crash/short-write tail": while the
\* collector receives and appends, both logs end in a newline.
NeverAppendsToTail ==
  state \in {"up", "writing"} => ~current.torn /\ ~previous.torn

\* "Replay restores only retained history", and all of it: a restart admits every
\* complete record of both logs, refusing none as a repetition or as a second
\* terminal record.
ReplayRestoresHistory ==
  state = "replayed" /\ ~evicted =>
    /\ metrics.order = Ids(history)
    /\ metrics.duplicates = 0

=============================================================================
