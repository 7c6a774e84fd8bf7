------------------------------ MODULE Metrics -------------------------------
(***************************************************************************)
(* The event registry of the collector (leelo-collector metrics.rs): a      *)
(* bounded memory of event and attempt identities, and counters and         *)
(* histograms under a bound on the number of series.  A registry is a       *)
(* record; accept and its parts are functions from a registry and a         *)
(* received record to a registry.  `seen` holds exactly the identities in   *)
(* `order` and `attempts` those in `attempt_order`, so the sets are not     *)
(* kept apart from the queues.  A histogram is its count.                   *)
(***************************************************************************)
EXTENDS Naturals, Sequences, FiniteSets, Functions

CONSTANTS
  MAX_REPLAY,  \* identities of events, and of attempts, that are remembered
  MAX_SERIES   \* counters and histograms together

ASSUME BoundsAssumption == MAX_REPLAY \in Nat \ {0} /\ MAX_SERIES \in Nat

default ==
  [order |-> <<>>, attempt_order |-> <<>>, attempts |-> <<>>,
   counters |-> <<>>, histograms |-> <<>>, reported_drops |-> 0,
   replay_evictions |-> 0, accepted |-> 0, rejected |-> 0, duplicates |-> 0,
   overflow |-> 0, write_failures |-> 0]

series(m) == Cardinality(DOMAIN m.counters) + Cardinality(DOMAIN m.histograms)

with(f, key, value) == [k \in DOMAIN f \cup {key} |-> IF k = key THEN value ELSE f[k]]

increment(m, key) ==
  IF series(m) >= MAX_SERIES /\ key \notin DOMAIN m.counters
  THEN [m EXCEPT !.overflow = @ + 1]
  ELSE [m EXCEPT !.counters =
          with(@, key, IF key \in DOMAIN @ THEN @[key] + 1 ELSE 1)]

\* A mistake: one series too many.
observe_beyond(m, key) ==
  IF series(m) > MAX_SERIES /\ key \notin DOMAIN m.histograms
  THEN [m EXCEPT !.overflow = @ + 1]
  ELSE [m EXCEPT !.histograms =
          with(@, key, IF key \in DOMAIN @ THEN @[key] + 1 ELSE 1)]

observe(m, key) ==
  IF series(m) >= MAX_SERIES /\ key \notin DOMAIN m.histograms
  THEN [m EXCEPT !.overflow = @ + 1]
  ELSE [m EXCEPT !.histograms =
          with(@, key, IF key \in DOMAIN @ THEN @[key] + 1 ELSE 1)]

\* The counters and the histogram an event of the client goes to, in the order in
\* which the code touches them.
tally(m, event) ==
  LET completed ==
        LET total == observe(increment(m, <<"operations", event.operation, event.outcome>>),
                             <<"operation_duration", event.operation>>)
            failed == IF event.outcome = "failure"
                      THEN increment(total, <<"failures", event.operation, event.reason>>)
                      ELSE total
        IN IF /\ event.degraded
              /\ event.outcome = "success"
              /\ event.operation \in {"check", "activate"}
           THEN increment(failed, <<"unlock_degraded">>)
           ELSE failed
      provider ==
        LET tried == increment(m, <<"attempts", event.provider_index, event.outcome>>)
            failed == IF event.outcome = "failed"
                      THEN increment(tried, <<"provider_failures", event.provider_index,
                                              event.reason>>)
                      ELSE tried
        IN observe(failed, <<"provider_duration", event.provider_index>>)
  IN IF event.component # "client" \/ event.operation = "serve" THEN m
     ELSE CASE event.event = "operation_completed" -> completed
            [] event.event = "phase_completed" ->
                 observe(m, <<"phase_duration", event.operation, event.stage>>)
            [] event.event = "provider_completed" /\ event.outcome # "not_started" -> provider
            [] OTHER -> m

identity(record) == <<record.attempt, record.sequence>>

terminal(record) ==
  record.event.component = "client" /\ record.event.event = "operation_completed"

concluded(m, attempt) == attempt \in DOMAIN m.attempts /\ m.attempts[attempt].terminal

\* The identity enters the replay window, and pushes the oldest one out.
remember(m, record) ==
  LET order == Append(m.order, identity(record)) IN
  IF Len(order) > MAX_REPLAY
  THEN [m EXCEPT !.order = Tail(order), !.replay_evictions = @ + 1]
  ELSE [m EXCEPT !.order = order]

\* A new attempt takes the place of the one that appeared first.
admit(m, attempt) ==
  LET fresh == [reported_drops |-> 0, terminal |-> FALSE] IN
  IF attempt \in DOMAIN m.attempts THEN m
  ELSE IF Len(m.attempt_order) = MAX_REPLAY
  THEN [m EXCEPT !.attempt_order = Append(Tail(@), attempt),
                 !.attempts = with([a \in DOMAIN @ \ {Head(m.attempt_order)} |-> @[a]],
                                   attempt, fresh),
                 !.replay_evictions = @ + 1]
  ELSE [m EXCEPT !.attempt_order = Append(@, attempt),
                 !.attempts = with(@, attempt, fresh)]

\* Only the drops that the attempt has not reported yet count.
charge(m, record) ==
  LET known == m.attempts[record.attempt].reported_drops
      more == IF record.dropped_before > known
              THEN record.dropped_before - known ELSE 0
  IN [m EXCEPT !.reported_drops = @ + more,
               !.attempts[record.attempt] =
                  [reported_drops |-> known + more,
                   terminal |-> @.terminal \/ terminal(record)]]

\* A mistake: a second terminal record of an attempt counts.
verdict_repeated(m, record) ==
  IF identity(record) \in Range(m.order) THEN "duplicate" ELSE "accepted"

\* valid() and the attempt ID were tested by the emitter already.
verdict(m, record) ==
  IF identity(record) \in Range(m.order) THEN "duplicate"
  ELSE IF terminal(record) /\ concluded(m, record.attempt) THEN "rejected"
  ELSE "accepted"

\* The registry after the call; the call returns verdict = "accepted".
accept(m, record) ==
  CASE verdict(m, record) = "duplicate" -> [m EXCEPT !.duplicates = @ + 1]
    [] verdict(m, record) = "rejected" -> [m EXCEPT !.rejected = @ + 1]
    [] OTHER ->
         tally([charge(admit(remember(m, record), record.attempt), record)
                  EXCEPT !.accepted = @ + 1], record.event)
=============================================================================
