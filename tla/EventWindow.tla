----------------------------- MODULE EventWindow -----------------------------
(***************************************************************************)
(* Metrics::event of leelod: the rate limit of flood-sensitive diagnostics. *)
(* Threads of the runtime call it concurrently; each call reads the clock,  *)
(* loads event_window and tries one compare-and-exchange.                   *)
(***************************************************************************)
EXTENDS Naturals, FiniteSets

CONSTANTS
  Threads,      \* worker threads of the runtime
  LastWindow,   \* five-second windows 1..LastWindow are explored
  MaxCalls      \* calls of event that are explored

ASSUME WindowAssumption == LastWindow \in Nat \ {0} /\ MaxCalls \in Nat

VARIABLES
  clock,              \* the window the clock is in
  event_window,
  suppressed_events,
  emitted,            \* per window: the events emitted by calls that read it
  pc,                 \* where a thread is inside event
  window,             \* its local variables
  previous,
  calls,
  overtaken           \* some call was inside event when a window ended

windowVars == <<clock, event_window, suppressed_events, emitted, pc, window, previous,
                calls, overtaken>>

Windows == 1..LastWindow

InitWindow ==
  /\ clock = 1
  /\ event_window = 0
  /\ suppressed_events = 0
  /\ emitted = [w \in Windows |-> 0]
  /\ pc = [t \in Threads |-> "idle"]
  /\ window = [t \in Threads |-> 0]
  /\ previous = [t \in Threads |-> 0]
  /\ calls = 0
  /\ overtaken = FALSE

Tick ==
  /\ clock < LastWindow
  /\ clock' = clock + 1
  /\ overtaken' = (overtaken \/ \E t \in Threads : pc[t] # "idle")
  /\ UNCHANGED <<event_window, suppressed_events, emitted, pc, window, previous, calls>>

\* let window = self.start.elapsed().as_secs() / 5 + 1
ReadClock(t) ==
  /\ pc[t] = "idle"
  /\ calls < MaxCalls
  /\ calls' = calls + 1
  /\ window' = [window EXCEPT ![t] = clock]
  /\ pc' = [pc EXCEPT ![t] = "load"]
  /\ UNCHANGED <<clock, event_window, suppressed_events, emitted, previous, overtaken>>

\* The call ends without an event.
Suppress(t) ==
  /\ suppressed_events' = suppressed_events + 1
  /\ pc' = [pc EXCEPT ![t] = "idle"]
  /\ window' = [window EXCEPT ![t] = 0]
  /\ previous' = [previous EXCEPT ![t] = 0]

\* let previous = self.event_window.load(Relaxed), and previous == window
Load(t) ==
  /\ pc[t] = "load"
  /\ \/ /\ event_window = window[t]
        /\ Suppress(t)
     \/ /\ event_window # window[t]
        /\ previous' = [previous EXCEPT ![t] = event_window]
        /\ pc' = [pc EXCEPT ![t] = "exchange"]
        /\ UNCHANGED <<suppressed_events, window>>
  /\ UNCHANGED <<clock, event_window, emitted, calls, overtaken>>

\* The event is emitted by lifecycle.
Emit(t) ==
  /\ event_window' = window[t]
  /\ emitted' = [emitted EXCEPT ![window[t]] = @ + 1]
  /\ pc' = [pc EXCEPT ![t] = "idle"]
  /\ window' = [window EXCEPT ![t] = 0]
  /\ previous' = [previous EXCEPT ![t] = 0]
  /\ UNCHANGED suppressed_events

\* A mistake: a plain store.
Exchange_store(t) ==
  /\ pc[t] = "exchange"
  /\ Emit(t)
  /\ UNCHANGED <<clock, calls, overtaken>>

\* compare_exchange(previous, window, Relaxed, Relaxed)
Exchange(t) ==
  /\ pc[t] = "exchange"
  /\ \/ event_window = previous[t] /\ Emit(t)
     \/ event_window # previous[t] /\ Suppress(t) /\ UNCHANGED <<event_window, emitted>>
  /\ UNCHANGED <<clock, calls, overtaken>>

NextWindow == Tick \/ \E t \in Threads : ReadClock(t) \/ Load(t) \/ Exchange(t)

WindowSpec == InitWindow /\ [][NextWindow]_windowVars

-----------------------------------------------------------------------------
\* "Flood-sensitive diagnostics share one event per five-second window": no two
\* calls of event that read the same window both emit.
OneEventPerWindow == \A w \in Windows : emitted[w] <= 1

\* The same as long as no call is inside event when a window ends, however many
\* threads race within a window.
OneEventUnlessOvertaken == ~overtaken => OneEventPerWindow
=============================================================================
