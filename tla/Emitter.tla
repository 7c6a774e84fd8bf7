------------------------------ MODULE Emitter -------------------------------
(***************************************************************************)
(* The telemetry emitter (leelo-telemetry lib.rs).  One emitter belongs to  *)
(* one operation of the client or one lifetime of a daemon; the threads of  *)
(* a daemon share it.  Nothing in it blocks: the counters are atomic, the   *)
(* datagram socket is nonblocking, and a record that cannot be sent is      *)
(* dropped and counted.                                                     *)
(***************************************************************************)
EXTENDS Naturals, Sequences

CONSTANTS
  Emitters,     \* an attempt ID together with the UID that uses it
  Threads,      \* the threads that call emit
  owner,        \* the emitter of each thread
  Anonymous,    \* emitters that got no attempt ID: entropy was not ready
  Events,       \* the events of each emitter, a label with a bad character included
  CAPACITY,     \* datagrams the collector's socket holds
  MAX_EMITS     \* bound on the calls of emit

ASSUME OwnerAssumption == \A t \in Threads : owner[t] \in Emitters
\* Only the daemons serve.
ASSUME EventsAssumption ==
  \A e \in Emitters : \A event \in Events[e] :
    event.component = "client" => event.operation # "serve"

Idle == [step |-> "idle"]

VARIABLES
  emits,     \* calls of emit so far
  sequence,  \* the next sequence number
  dropped,   \* the events given up
  call,      \* what each thread is doing
  socket,    \* the collector's path: absent, stale (no reader) or bound
  queue,     \* datagrams sent and not received
  sent       \* every record ever sent

emitter == <<emits, sequence, dropped, call>>
channel == <<queue, sent>>

InitEmitter ==
  /\ emits = 0
  /\ sequence = [e \in Emitters |-> 0]
  /\ dropped = [e \in Emitters |-> 0]
  /\ call = [t \in Threads |-> Idle]
  /\ queue = <<>>
  /\ sent = {}

\* The labels are lower case, and the record is in the vocabulary and fits.
valid_label(event) == event.label
valid(event) == event.vocabulary

drop_event(e) == dropped' = [dropped EXCEPT ![e] = @ + 1]

\* emit up to the sequence number: an event without an attempt ID or with a
\* malformed label does not take one.
Emit(t) ==
  LET e == owner[t] IN
  /\ call[t] = Idle
  /\ emits < MAX_EMITS
  /\ emits' = emits + 1
  /\ \E event \in Events[e] :
       IF e \in Anonymous \/ ~valid_label(event)
       THEN /\ drop_event(e)
            /\ UNCHANGED <<sequence, call>>
       ELSE /\ call' = [call EXCEPT ![t] = [step |-> "numbered", event |-> event,
                                            sequence |-> sequence[e]]]
            /\ sequence' = [sequence EXCEPT ![e] = @ + 1]
            /\ UNCHANGED dropped
  /\ UNCHANGED <<socket, channel>>

\* A mistake: the number is stored by one step and was read by another, so that
\* two threads may read the same.
MakeRecord_reread(t) ==
  /\ call[t].step = "numbered"
  /\ call' = [call EXCEPT ![t] = [step |-> "made", event |-> @.event,
                 record |-> [attempt |-> owner[t], sequence |-> sequence[owner[t]],
                             dropped_before |-> dropped[owner[t]], event |-> @.event]]]
  /\ UNCHANGED <<emits, sequence, dropped, socket, channel>>

\* record: the drops are read after the sequence number was taken, while other
\* threads number, drop and send.
MakeRecord(t) ==
  /\ call[t].step = "numbered"
  /\ call' = [call EXCEPT ![t] = [step |-> "made", event |-> @.event,
                 record |-> [attempt |-> owner[t], sequence |-> @.sequence,
                             dropped_before |-> dropped[owner[t]], event |-> @.event]]]
  /\ UNCHANGED <<emits, sequence, dropped, socket, channel>>

\* A record outside the vocabulary, a path nobody reads and a full socket all
\* end in drop_event.
Send(t) ==
  /\ call[t].step = "made"
  /\ call' = [call EXCEPT ![t] = Idle]
  /\ IF valid(call[t].event) /\ socket = "bound" /\ Len(queue) < CAPACITY
     THEN /\ queue' = Append(queue, call[t].record)
          /\ sent' = sent \cup {call[t].record}
          /\ UNCHANGED dropped
     ELSE drop_event(owner[t]) /\ UNCHANGED channel
  /\ UNCHANGED <<emits, sequence, socket>>

EmitterStep(t) == Emit(t) \/ MakeRecord(t) \/ Send(t)
=============================================================================
