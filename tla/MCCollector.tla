---------------------------- MODULE MCCollector -----------------------------
(* Two threads of a daemon that share an emitter; it also runs operations, so *)
(* that completed attempts, lifecycle events and drops meet in one registry.  *)
(* Two attempts more are enough to make a registry at its bounds forget it.   *)
EXTENDS Collector, TLC

CONSTANTS t1, t2, t3, t4, first, second

MCThreads == {t1, t2, t3, t4}
MCEmitters == {"daemon", first, second}
MCOwner == t1 :> "daemon" @@ t2 :> "daemon" @@ t3 :> first @@ t4 :> second

SwapThreads == t1 :> t2 @@ t2 :> t1
SwapAttempts == t3 :> t4 @@ t4 :> t3 @@ first :> second @@ second :> first
Interchangeable == {SwapThreads, SwapAttempts, SwapThreads @@ SwapAttempts}

event(component, name, operation, outcome) ==
  [component |-> component, event |-> name, operation |-> operation,
   outcome |-> outcome, reason |-> "io", stage |-> "recover", degraded |-> FALSE,
   provider_index |-> 1, label |-> TRUE, vocabulary |-> TRUE]

Degraded == [event("client", "operation_completed", "check", "success")
               EXCEPT !.degraded = TRUE]
Failed == event("client", "operation_completed", "check", "failure")
Provider == event("client", "provider_completed", "check", "failed")
Unlisted == event("worker", "capacity_rejected", "serve", "failure")
Malformed == [Unlisted EXCEPT !.label = FALSE]

MCEvents ==
  [e \in MCEmitters |->
     IF e = "daemon" THEN {Degraded, Failed, Unlisted, Malformed} ELSE {Provider}]

MCSources == {<<"frontend", "daemon">>} \cup {<<"client", e>> : e \in MCEmitters}
=============================================================================
