-------------------------- MODULE CollectorProofs ---------------------------
(***************************************************************************)
(* For any number of emitters, threads, events and restarts and any bounds: *)
(* an identity names one record, the collector never appends behind a       *)
(* partial line, a restart admits all that the logs hold, and a completed   *)
(* operation counts once.  The last two rest on one invariant, CInv: what   *)
(* is in the logs repeats nothing and is known to the registry, as long as  *)
(* no registry has reported an eviction.                                    *)
(***************************************************************************)
EXTENDS Collector, FiniteSetTheorems, TLAPS

\* A record in the making carries a number that its emitter has given out, that
\* no other thread holds and that no sent record has.
Numbered(t) == call[t].step \in {"numbered", "made"}

number(t) == IF call[t].step = "numbered" THEN call[t].sequence
             ELSE call[t].record.sequence

CallOK(c) ==
  \/ c = Idle
  \/ /\ c.step = "numbered"
     /\ c.sequence \in Nat
  \/ /\ c.step = "made"
     /\ c.record.sequence \in Nat

ThreadsApart ==
  \A t, u \in Threads :
    Numbered(t) /\ Numbered(u) /\ owner[t] = owner[u] /\ number(t) = number(u) => t = u

SentApart ==
  \A r \in sent, t \in Threads :
    Numbered(t) /\ r.attempt = owner[t] => r.sequence # number(t)

IInv ==
  /\ sequence \in [Emitters -> Nat]
  /\ DOMAIN call = Threads
  /\ \A t \in Threads : CallOK(call[t])
  /\ \A t \in Threads : call[t].step = "made" => call[t].record.attempt = owner[t]
  /\ \A t \in Threads : Numbered(t) => number(t) < sequence[owner[t]]
  /\ ThreadsApart
  /\ \A r \in sent : r.attempt \in Emitters /\ r.sequence \in Nat
                     /\ r.sequence < sequence[r.attempt]
  /\ SentApart
  /\ IdentitiesDistinct

\* No number has been given out when the emitters are created.
LEMMA InitNumbers == Init => IInv
  BY DEF Init, InitEmitter, IInv, IdentitiesDistinct, CallOK, Idle, Numbered,
         ThreadsApart, SentApart

\* IInv is about the emitters and what was sent, and about nothing else.
LEMMA SameEmitters == IInv /\ UNCHANGED <<sequence, call, sent>> => IInv'
<1> SUFFICES ASSUME IInv, UNCHANGED <<sequence, call, sent>> PROVE IInv'
  OBVIOUS
<1>1. \A t \in Threads : (Numbered(t)' <=> Numbered(t)) /\ number(t)' = number(t)
  BY DEF Numbered, number
<1>2. IdentitiesDistinct'
  BY DEF IInv, IdentitiesDistinct
<1>3. ThreadsApart' /\ SentApart'
  BY <1>1 DEF IInv, ThreadsApart, SentApart
<1> QED
  BY <1>1, <1>2, <1>3 DEF IInv

\* emit takes a number that was not given out before, or none.
LEMMA EmitNumbers ==
  ASSUME IInv, NEW t \in Threads, Emit(t) PROVE IInv'
<1> DEFINE e == owner[t]
<1>1. e \in Emitters
  BY OwnerAssumption DEF OwnerAssumption
<1>2. CASE UNCHANGED <<sequence, call>>
  BY <1>2, SameEmitters DEF Emit, channel
<1>3. ASSUME NEW event \in Events[e],
             call' = [call EXCEPT ![t] = [step |-> "numbered", event |-> event,
                                          sequence |-> sequence[e]]],
             sequence' = [sequence EXCEPT ![e] = @ + 1]
      PROVE  IInv'
  <2>1. sent' = sent
    BY DEF Emit, channel
  <2>2. Numbered(t)' /\ number(t)' = sequence[e] /\ CallOK(call[t])'
        /\ call'[t].step = "numbered"
    BY <1>1, <1>3 DEF IInv, Numbered, number, CallOK
  <2>3. \A u \in Threads \ {t} : call'[u] = call[u]
    BY <1>3 DEF IInv
  <2>4. \A u \in Threads \ {t} : (Numbered(u)' <=> Numbered(u)) /\ number(u)' = number(u)
    BY <2>3 DEF Numbered, number
  <2>5. /\ sequence' \in [Emitters -> Nat] /\ sequence'[e] = sequence[e] + 1
        /\ \A d \in Emitters : sequence[d] <= sequence'[d] /\ sequence[d] \in Nat
    BY <1>1, <1>3 DEF IInv
  <2>6. DOMAIN call' = Threads
    BY <1>3 DEF IInv
  <2>7. \A u \in Threads : CallOK(call'[u])
    BY <2>2, <2>3 DEF IInv, CallOK
  <2>8. \A u \in Threads : call'[u].step = "made" => call'[u].record.attempt = owner[u]
    BY <2>2, <2>3 DEF IInv
  <2>9. \A u \in Threads : Numbered(u) => number(u) \in Nat
    BY DEF IInv, Numbered, number, CallOK, Idle
  <2>10. \A u \in Threads : Numbered(u)' => number(u)' < sequence'[owner[u]]
    <3> SUFFICES ASSUME NEW u \in Threads, Numbered(u)'
                 PROVE  number(u)' < sequence'[owner[u]]
      OBVIOUS
    <3>1. owner[u] \in Emitters
      BY OwnerAssumption DEF OwnerAssumption
    <3>2. CASE u = t
      BY <3>2, <2>2, <2>5, <1>1
    <3>3. CASE u # t
      BY <3>1, <3>3, <2>4, <2>5, <2>9 DEF IInv
    <3> QED
      BY <3>2, <3>3
  <2>11. \A u \in Threads \ {t} : Numbered(u) /\ owner[u] = e => number(u) # sequence[e]
    BY <2>5, <2>9, <1>1 DEF IInv
  <2>12. ThreadsApart'
    <3> SUFFICES ASSUME NEW u \in Threads, NEW v \in Threads, Numbered(u)', Numbered(v)',
                        owner[u] = owner[v], number(u)' = number(v)', u # v
                 PROVE  FALSE
      BY DEF ThreadsApart
    <3>1. CASE u = t
      BY <3>1, <2>2, <2>4, <2>11
    <3>2. CASE v = t
      BY <3>2, <2>2, <2>4, <2>11
    <3>3. CASE u # t /\ v # t
      BY <3>3, <2>4 DEF IInv, ThreadsApart
    <3> QED
      BY <3>1, <3>2, <3>3
  <2>13. \A r \in sent' : r.attempt \in Emitters /\ r.sequence \in Nat
                         /\ r.sequence < sequence'[r.attempt]
    BY <2>1, <2>5 DEF IInv
  <2>14. SentApart'
    <3>1. \A r \in sent : r.attempt = e => r.sequence # sequence[e]
      BY <1>1, <2>5 DEF IInv
    <3>2. SentApart
      BY DEF IInv
    <3> QED
      BY <2>1, <2>2, <2>4, <3>1, <3>2 DEF SentApart
  <2>15. IdentitiesDistinct'
    BY <2>1 DEF IInv, IdentitiesDistinct, identity
  <2> QED
    BY <2>5, <2>6, <2>7, <2>8, <2>10, <2>12, <2>13, <2>14, <2>15 DEF IInv
<1> QED
  BY <1>2, <1>3 DEF Emit

\* record keeps the number that emit took.
LEMMA MakeRecordNumbers ==
  ASSUME IInv, NEW t \in Threads, MakeRecord(t) PROVE IInv'
<1>1. /\ sequence' = sequence /\ sent' = sent
      /\ \A u \in Threads \ {t} : call'[u] = call[u]
      /\ DOMAIN call' = Threads
  BY DEF IInv, MakeRecord, channel
<1>2. /\ call[t].step = "numbered" /\ call'[t].step = "made"
      /\ call'[t].record.attempt = owner[t]
      /\ call'[t].record.sequence = call[t].sequence
  BY DEF IInv, MakeRecord
<1>3. /\ CallOK(call'[t])
      /\ \A u \in Threads : (Numbered(u)' <=> Numbered(u)) /\ number(u)' = number(u)
  <2>1. call[t].sequence \in Nat
    BY <1>2 DEF IInv, CallOK, Idle
  <2>2. CallOK(call'[t]) /\ (Numbered(t)' <=> Numbered(t)) /\ number(t)' = number(t)
    BY <1>2, <2>1 DEF CallOK, Numbered, number
  <2>3. \A u \in Threads \ {t} : (Numbered(u)' <=> Numbered(u)) /\ number(u)' = number(u)
    BY <1>1 DEF Numbered, number
  <2> QED
    BY <2>2, <2>3
<1>4. \A u \in Threads : CallOK(call'[u])
                       /\ (call'[u].step = "made" => call'[u].record.attempt = owner[u])
  BY <1>1, <1>2, <1>3 DEF IInv
<1>5. IdentitiesDistinct'
  BY <1>1 DEF IInv, IdentitiesDistinct
<1>6. ThreadsApart' /\ SentApart'
  BY <1>1, <1>3 DEF IInv, ThreadsApart, SentApart
<1> QED
  BY <1>1, <1>3, <1>4, <1>5, <1>6 DEF IInv

\* A number leaves the thread when its record is sent or dropped.
LEMMA SendNumbers ==
  ASSUME IInv, NEW t \in Threads, Send(t) PROVE IInv'
<1>1. /\ sequence' = sequence /\ call[t].step = "made" /\ call'[t] = Idle
      /\ \A u \in Threads \ {t} : call'[u] = call[u]
      /\ DOMAIN call' = Threads
      /\ sent' \in {sent, sent \cup {call[t].record}}
  BY DEF IInv, Send, channel
<1>2. /\ ~Numbered(t)' /\ CallOK(call'[t]) /\ call'[t].step # "made"
      /\ \A u \in Threads \ {t} : (Numbered(u)' <=> Numbered(u)) /\ number(u)' = number(u)
  BY <1>1 DEF CallOK, Idle, Numbered, number
<1>3. \A u \in Threads : CallOK(call'[u])
                       /\ (call'[u].step = "made" => call'[u].record.attempt = owner[u])
  BY <1>1, <1>2 DEF IInv
<1> DEFINE r == call[t].record
<1>4. /\ Numbered(t) /\ number(t) = r.sequence /\ r.attempt = owner[t]
      /\ r.attempt \in Emitters /\ r.sequence \in Nat /\ r.sequence < sequence[r.attempt]
  <2>1. Numbered(t) /\ number(t) = r.sequence
    BY <1>1 DEF Numbered, number
  <2>2. r.attempt = owner[t] /\ r.attempt \in Emitters
    BY <1>1, OwnerAssumption DEF IInv, OwnerAssumption
  <2>3. r.sequence \in Nat
    BY <1>1 DEF IInv, CallOK, Idle
  <2>4. number(t) < sequence[owner[t]]
    BY <2>1 DEF IInv
  <2> QED
    BY <2>1, <2>2, <2>3, <2>4
<1> HIDE DEF r
<1>5. \A q \in sent : identity(q) # identity(r)
  <2>1. \A q \in sent : q.attempt = r.attempt => q.sequence # r.sequence
    BY <1>4 DEF IInv, SentApart
  <2> QED
    BY <2>1 DEF identity
<1>12. \A q \in sent' : q \in sent \/ q = r
  BY <1>1 DEF r
<1>6. IdentitiesDistinct'
  <2> SUFFICES ASSUME NEW p \in sent', NEW q \in sent', identity(p) = identity(q)
               PROVE  p = q
    BY DEF IdentitiesDistinct
  <2>1. CASE p \in sent /\ q \in sent
    BY <2>1 DEF IInv, IdentitiesDistinct
  <2>2. CASE p = r \/ q = r
    BY <2>2, <1>12, <1>5
  <2> QED
    BY <2>1, <2>2, <1>12
<1>7. \A q \in sent' : q.attempt \in Emitters /\ q.sequence \in Nat
                     /\ q.sequence < sequence'[q.attempt]
  <2>1. \A q \in sent : q.attempt \in Emitters /\ q.sequence \in Nat
                      /\ q.sequence < sequence[q.attempt]
    BY DEF IInv
  <2> QED
    BY <1>1, <1>4, <1>12, <2>1
<1>8. ThreadsApart /\ SentApart
  BY DEF IInv
<1>9. SentApart'
  <2>1. \A u \in Threads : Numbered(u)' /\ r.attempt = owner[u] => r.sequence # number(u)'
    BY Zenon, <1>2, <1>4, <1>8 DEF ThreadsApart
  <2> QED
    BY <1>2, <1>8, <1>12, <2>1 DEF SentApart
<1>10. ThreadsApart'
  BY <1>2, <1>8 DEF ThreadsApart
<1>11. \A u \in Threads : Numbered(u)' => number(u)' < sequence'[owner[u]]
  BY <1>1, <1>2 DEF IInv
<1> QED
  BY <1>1, <1>3, <1>6, <1>7, <1>9, <1>10, <1>11 DEF IInv

\* No step of the emitters, of the collector or of their surroundings breaks IInv.
LEMMA NumbersNext == IInv /\ [Next]_vars => IInv'
<1> SUFFICES ASSUME IInv, [Next]_vars PROVE IInv'
  OBVIOUS
<1>1. ASSUME NEW t \in Threads, Call(t) PROVE IInv'
  BY <1>1, EmitNumbers, MakeRecordNumbers, SendNumbers DEF Call, EmitterStep
<1>2. CASE CollectorStep
  BY <1>2, SameEmitters
     DEF CollectorStep, Start, replay, Open, Receive, Rotate, Write, channel, emitter
<1>3. CASE Copy \/ RemoveSocket \/ WriteFails \/ ExportFails \/ Crash
  BY <1>3, SameEmitters
     DEF Copy, RemoveSocket, WriteFails, ExportFails, Crash, channel, emitter
<1>4. CASE UNCHANGED vars
  BY <1>4, SameEmitters DEF vars, channel, emitter
<1> QED
  BY <1>1, <1>2, <1>3, <1>4 DEF Next

\* However the threads of the emitters interleave, and whatever becomes of the
\* collector, two records that the collector takes for one event are one record.
THEOREM IdentityNamesRecord == Spec => []IdentitiesDistinct
<1>1. IInv => IdentitiesDistinct
  BY DEF IInv
<1> QED
  BY <1>1, InitNumbers, NumbersNext, PTL DEF Spec

\* The strengthening: the tails are gone as soon as the logs were replayed.
TailsRepaired ==
  state \in {"replayed", "up", "writing"} => ~current.torn /\ ~previous.torn

\* Whatever crash, power loss or failed write came before, the collector appends
\* to a log that ends in a newline.
THEOREM TailIsRepaired == Spec => []NeverAppendsToTail
<1>1. Init => TailsRepaired
  BY DEF Init, TailsRepaired
<1>2. TailsRepaired /\ [Next]_vars => TailsRepaired'
  <2> SUFFICES ASSUME TailsRepaired, [Next]_vars PROVE TailsRepaired'
    OBVIOUS
  <2>1. CASE replay
    <3>1. current' = repaired(current) /\ previous' = repaired(previous)
      BY <2>1 DEF replay
    <3>2. ~(repaired(current).torn) /\ ~(repaired(previous).torn)
      BY DEF repaired
    <3> QED
      BY <3>1, <3>2 DEF TailsRepaired
  <2>2. CASE Rotate
    BY <2>2 DEF Rotate, TailsRepaired, NoLog
  <2>3. CASE Write
    BY <2>3 DEF Write, TailsRepaired
  <2>4. CASE Start \/ Open \/ Receive \/ Crash
    BY <2>4 DEF Start, Open, Receive, Crash, TailsRepaired, disk
  <2>5. CASE Copy \/ RemoveSocket \/ WriteFails \/ ExportFails
    BY <2>5 DEF Copy, RemoveSocket, WriteFails, ExportFails, TailsRepaired, disk
  <2>6. ASSUME NEW t \in Threads, Call(t) PROVE TailsRepaired'
    BY <2>6 DEF Call, TailsRepaired, disk
  <2>7. CASE UNCHANGED vars
    BY <2>7 DEF vars, TailsRepaired, disk
  <2> QED
    BY <2>1, <2>2, <2>3, <2>4, <2>5, <2>6, <2>7 DEF Next, CollectorStep
<1>3. TailsRepaired => NeverAppendsToTail
  BY DEF TailsRepaired, NeverAppendsToTail
<1> QED
  BY <1>1, <1>2, <1>3, PTL DEF Spec

-----------------------------------------------------------------------------
(* The registry and the logs                                               *)

USE Zenon

Identities == Emitters \X Nat

Fields ==
  {"order", "attempt_order", "attempts", "counters", "histograms", "reported_drops",
   "replay_evictions", "accepted", "rejected", "duplicates", "overflow", "write_failures"}

\* The series that count completed operations, and the attempts with a terminal record.
totals(m) == {key \in DOMAIN m.counters : key[1] = "operations"}
terminals(m) == {a \in DOMAIN m.attempts : m.attempts[a].terminal}

completions(m) == Cardinality(units(m.counters, totals(m)))

Counters(m) ==
  /\ m.overflow \in Nat
  /\ \A key \in DOMAIN m.counters : m.counters[key] \in Nat
  /\ IsFiniteSet(units(m.counters, totals(m)))
  /\ IsFiniteSet(DOMAIN m.counters) /\ IsFiniteSet(DOMAIN m.histograms)
  /\ series(m) <= MAX_SERIES

Once(list) == \A i, j \in DOMAIN list : list[i] = list[j] => i = j

\* The queue has each remembered attempt once.
Queued(m) ==
  /\ m.attempt_order \in Seq(Emitters) /\ Once(m.attempt_order)
  /\ DOMAIN m.attempts = Range(m.attempt_order)
  /\ Cardinality(DOMAIN m.attempts) = Len(m.attempt_order)
  /\ Len(m.attempt_order) <= MAX_REPLAY

Registry(m) ==
  /\ DOMAIN m = Fields
  /\ m.order \in Seq(Identities) /\ Len(m.order) <= MAX_REPLAY
  /\ m.replay_evictions \in Nat
  /\ IsFiniteSet(DOMAIN m.attempts)
  /\ \A a \in DOMAIN m.attempts : m.attempts[a].terminal \in BOOLEAN
  /\ Queued(m) /\ Counters(m)

\* Counts too many are evictions, and counts missing are refused series.
CountsOnce(m) ==
  /\ completions(m) <= Cardinality(terminals(m)) + m.replay_evictions
  /\ Cardinality(terminals(m)) <= completions(m) + m.overflow

\* What an emitter makes: the client's operations are all in the collector's list.
Record(r) ==
  /\ identity(r) \in Identities
  /\ r.event.component = "client" => r.event.operation # "serve"

Log == [lines : Seq(sent), torn : BOOLEAN]

Emitted == UNION {Events[e] : e \in Emitters}

\* Every record in a queue or a log has been sent by an emitter.
Sent ==
  /\ \A t \in Threads : call[t].step = "numbered" => call[t].event \in Emitted
  /\ \A t \in Threads : call[t].step = "made" => call[t].record.event \in Emitted
  /\ \A r \in sent : Record(r)
  /\ queue \in Seq(sent)
  /\ current \in Log /\ previous \in Log
  /\ state = "writing" => pending \in sent

\* Two records of which a registry that has one admits the other.
Apart(r, q) ==
  /\ identity(r) # identity(q)
  /\ ~(terminal(r) /\ terminal(q) /\ r.attempt = q.attempt)

Distinct(lines) == \A i, j \in DOMAIN lines : i # j => Apart(lines[i], lines[j])

\* The registry would not admit the record again.
Known(m, r) ==
  /\ identity(r) \in Range(m.order)
  /\ terminal(r) => concluded(m, r.attempt)

\* Neither log repeats itself or the other.
LogsApart(old, new) ==
  /\ Distinct(old) /\ Distinct(new)
  /\ \A r \in Range(old), q \in Range(new) : Apart(r, q)

logged == Range(previous.lines) \cup Range(current.lines)

\* As long as nothing has been forgotten, no two records of the logs repeat each other,
\* and the registry of a running collector knows all of them.
Retained ==
  ~evicted =>
    /\ LogsApart(previous.lines, current.lines)
    /\ state \in {"replayed", "up", "writing"} =>
         /\ metrics.replay_evictions = 0
         /\ \A r \in logged : Known(metrics, r)
    /\ state = "writing" =>
         /\ Known(metrics, pending)
         /\ \A r \in logged : Apart(r, pending)

CInv ==
  /\ Sent
  /\ Registry(metrics) /\ CountsOnce(metrics)
  /\ state = "replaying" => metrics = default
  /\ Retained
  /\ ReplayRestoresHistory

-----------------------------------------------------------------------------
(* What the parts of accept do to a registry                               *)

\* The identity enters the window; it pushes one out, or the eviction shows.
LEMMA Remembered ==
  ASSUME NEW m, Registry(m), NEW r, identity(r) \in Identities
  PROVE  LET n == remember(m, r) IN
         /\ DOMAIN n = Fields /\ n.order \in Seq(Identities) /\ Len(n.order) <= MAX_REPLAY
         /\ n.replay_evictions \in Nat /\ m.replay_evictions <= n.replay_evictions
         /\ n.attempts = m.attempts /\ n.attempt_order = m.attempt_order
         /\ n.counters = m.counters /\ n.histograms = m.histograms
         /\ n.overflow = m.overflow /\ n.duplicates = m.duplicates
         /\ n.replay_evictions = 0 =>
              m.replay_evictions = 0 /\ n.order = Append(m.order, identity(r))
<1> DEFINE order == Append(m.order, identity(r))
<1>1. /\ DOMAIN m = Fields /\ m.order \in Seq(Identities) /\ m.replay_evictions \in Nat
      /\ Len(m.order) <= MAX_REPLAY /\ MAX_REPLAY \in Nat
  BY BoundsAssumption DEF Registry, BoundsAssumption
<1>2. /\ order \in Seq(Identities) /\ order # <<>> /\ Len(order) = Len(m.order) + 1
      /\ m.replay_evictions + 1 \in Nat /\ m.replay_evictions + 1 # 0
      /\ m.replay_evictions <= m.replay_evictions + 1
      /\ m.replay_evictions <= m.replay_evictions
  <2>1. order \in Seq(Identities) /\ order # <<>> /\ Len(order) = Len(m.order) + 1
    BY SMT, <1>1
  <2>2. /\ m.replay_evictions + 1 \in Nat /\ m.replay_evictions + 1 # 0
        /\ m.replay_evictions <= m.replay_evictions + 1
        /\ m.replay_evictions <= m.replay_evictions
    BY SMT, <1>1
  <2> QED
    BY <2>1, <2>2
<1>3. /\ Tail(order) \in Seq(Identities) /\ Len(Tail(order)) <= MAX_REPLAY
      /\ ~(Len(order) > MAX_REPLAY) => Len(order) <= MAX_REPLAY
  <2>1. Tail(order) \in Seq(Identities) /\ Len(Tail(order)) = Len(order) - 1
    BY SMT, <1>2
  <2>2. Len(m.order) \in Nat
    BY SMT, <1>1
  <2>3. Len(order) - 1 <= MAX_REPLAY /\ (~(Len(order) > MAX_REPLAY) => Len(order) <= MAX_REPLAY)
    BY SMT, <1>1, <1>2, <2>2
  <2> QED
    BY <2>1, <2>3
<1> HIDE DEF order
<1>4. CASE Len(order) > MAX_REPLAY
  <2>1. remember(m, r) = [m EXCEPT !.order = Tail(order),
                                   !.replay_evictions = m.replay_evictions + 1]
    BY <1>4 DEF remember, order
  <2> QED
    BY <1>1, <1>2, <1>3, <2>1 DEF Fields
<1>5. CASE ~(Len(order) > MAX_REPLAY)
  <2>1. remember(m, r) = [m EXCEPT !.order = order]
    BY <1>5 DEF remember, order
  <2>2. order = Append(m.order, identity(r))
    BY DEF order
  <2> QED
    BY <1>1, <1>2, <1>3, <1>5, <2>1, <2>2 DEF Fields
<1> QED
  BY <1>4, <1>5

\* A queue that one more enters at its end.
LEMMA Longer ==
  ASSUME NEW S, NEW old \in Seq(S), Once(old), NEW x \in S, x \notin Range(old)
  PROVE  LET new == Append(old, x) IN
         /\ new \in Seq(S) /\ Once(new) /\ Len(new) = Len(old) + 1
         /\ Range(new) = Range(old) \cup {x}
<1> DEFINE new == Append(old, x)
<1>1. /\ new \in Seq(S) /\ Len(new) = Len(old) + 1
      /\ Len(old) + 1 \in DOMAIN new /\ new[Len(old) + 1] = x
      /\ \A i \in DOMAIN old : i \in DOMAIN new /\ new[i] = old[i]
      /\ \A i \in DOMAIN new : i \in DOMAIN old \/ i = Len(old) + 1
  BY SMT
<1> HIDE DEF new
<1>2. \A i \in DOMAIN old : old[i] # x
  BY DEF Range
<1>3. Once(new)
  BY <1>1, <1>2 DEF Once
<1>4. Range(new) = Range(old) \cup {x}
  <2>1. ASSUME NEW i \in DOMAIN new PROVE new[i] \in Range(old) \cup {x}
    BY <1>1, <2>1 DEF Range
  <2>2. ASSUME NEW i \in DOMAIN old PROVE old[i] \in Range(new)
    BY <1>1, <2>2 DEF Range
  <2>3. x \in Range(new)
    BY <1>1 DEF Range
  <2> QED
    BY <2>1, <2>2, <2>3 DEF Range
<1> QED
  BY <1>1, <1>3, <1>4 DEF new

\* A queue that loses its oldest member.
LEMMA Shorter ==
  ASSUME NEW S, NEW old \in Seq(S), Once(old), old # <<>>
  PROVE  /\ Tail(old) \in Seq(S) /\ Once(Tail(old)) /\ Len(Tail(old)) + 1 = Len(old)
         /\ Head(old) \in Range(old) /\ Range(Tail(old)) = Range(old) \ {Head(old)}
<1> DEFINE new == Tail(old)
<1>1. /\ new \in Seq(S) /\ Len(new) + 1 = Len(old)
      /\ 1 \in DOMAIN old /\ Head(old) = old[1]
      /\ \A i \in DOMAIN new : i + 1 \in DOMAIN old /\ i + 1 # 1 /\ new[i] = old[i + 1]
      /\ \A i \in DOMAIN old : i = 1 \/ (i - 1 \in DOMAIN new /\ new[i - 1] = old[i])
  BY SMT
<1>2. \A i, j \in DOMAIN new : i + 1 = j + 1 => i = j
  BY SMT, <1>1
<1> HIDE DEF new
<1>3. Once(new)
  <2> SUFFICES ASSUME NEW i \in DOMAIN new, NEW j \in DOMAIN new, new[i] = new[j]
               PROVE  i = j
    BY DEF Once
  <2>1. i + 1 \in DOMAIN old /\ j + 1 \in DOMAIN old /\ old[i + 1] = old[j + 1]
    BY <1>1
  <2>2. i + 1 = j + 1
    BY <2>1 DEF Once
  <2> QED
    BY <1>2, <2>2
<1>4. \A i \in DOMAIN old : i # 1 => old[i] # Head(old)
  BY <1>1 DEF Once
<1>5. Head(old) \in Range(old)
  BY <1>1 DEF Range
<1>6. Range(new) = Range(old) \ {Head(old)}
  <2>1. ASSUME NEW i \in DOMAIN new PROVE new[i] \in Range(old) \ {Head(old)}
    BY <1>1, <1>4, <2>1 DEF Range
  <2>2. ASSUME NEW i \in DOMAIN old, old[i] # Head(old) PROVE old[i] \in Range(new)
    BY <1>1, <2>2 DEF Range
  <2> QED
    BY <2>1, <2>2 DEF Range
<1> QED
  BY <1>1, <1>3, <1>5, <1>6 DEF new

\* What admit makes of the attempts.
AttemptIn(n, m, a) ==
  /\ DOMAIN n.attempts = DOMAIN m.attempts \cup {a}
  /\ \A b \in DOMAIN m.attempts : n.attempts[b] = m.attempts[b]
  /\ a \notin DOMAIN m.attempts => n.attempts[a].terminal = FALSE

\* Attempts with a terminal record go only where an eviction shows.
Forgets(n, m) ==
  /\ terminals(n) \subseteq terminals(m)
  /\ Cardinality(terminals(m)) + m.replay_evictions
       <= Cardinality(terminals(n)) + n.replay_evictions

\* An attempt that is new takes the place of one, and the eviction shows, or it comes to
\* the others without a terminal record.
LEMMA Admitted ==
  ASSUME NEW m, DOMAIN m = Fields, m.replay_evictions \in Nat, NEW a \in Emitters,
         IsFiniteSet(DOMAIN m.attempts), Queued(m),
         \A b \in DOMAIN m.attempts : m.attempts[b].terminal \in BOOLEAN
  PROVE  LET n == admit(m, a) IN
         /\ DOMAIN n = Fields /\ n.order = m.order
         /\ n.counters = m.counters /\ n.histograms = m.histograms
         /\ n.overflow = m.overflow /\ n.duplicates = m.duplicates
         /\ n.replay_evictions \in Nat /\ Queued(n) /\ Forgets(n, m)
         /\ a \in DOMAIN n.attempts /\ IsFiniteSet(DOMAIN n.attempts)
         /\ \A b \in DOMAIN n.attempts : n.attempts[b].terminal \in BOOLEAN
         /\ n.replay_evictions = 0 => m.replay_evictions = 0 /\ AttemptIn(n, m, a)
<1> DEFINE fresh == [reported_drops |-> 0, terminal |-> FALSE]
           n == admit(m, a)
           list == m.attempt_order
           ends == terminals(m)
<1>1. fresh.terminal = FALSE
  OBVIOUS
<1>2. m.replay_evictions + 1 \in Nat /\ m.replay_evictions + 1 # 0
  BY SMT
<1>f. IsFiniteSet(ends) /\ Cardinality(ends) \in Nat
  <2>1. ends \subseteq DOMAIN m.attempts
    BY DEF terminals
  <2>2. IsFiniteSet(ends)
    BY <2>1, FS_Subset
  <2> QED
    BY <2>2, FS_CardinalityType
<1>q. /\ list \in Seq(Emitters) /\ Once(list) /\ DOMAIN m.attempts = Range(list)
      /\ Cardinality(DOMAIN m.attempts) = Len(list) /\ Len(list) <= MAX_REPLAY
      /\ MAX_REPLAY \in Nat \ {0}
  BY BoundsAssumption DEF Queued, BoundsAssumption
<1>l. Len(list) \in Nat /\ (Len(list) = MAX_REPLAY => list # <<>>)
  BY SMT, <1>q
<1>s. \A x : terminals(x) = ends /\ x.replay_evictions = m.replay_evictions => Forgets(x, m)
  <2>1. Cardinality(ends) + m.replay_evictions <= Cardinality(ends) + m.replay_evictions
    BY SMT, <1>f
  <2> QED
    BY <2>1 DEF Forgets
<1>3. CASE a \in DOMAIN m.attempts
  <2>1. n = m
    BY <1>3 DEF admit
  <2>2. AttemptIn(m, m, a)
    BY <1>3 DEF AttemptIn
  <2> QED
    BY <1>3, <1>s, <2>1, <2>2
<1>4. CASE a \notin DOMAIN m.attempts /\ Len(m.attempt_order) = MAX_REPLAY
  <2> DEFINE oldest == Head(list)
             others == [b \in DOMAIN m.attempts \ {oldest} |-> m.attempts[b]]
             ids == Append(Tail(list), a)
  <2>1. n = [m EXCEPT !.attempt_order = ids, !.attempts = with(others, a, fresh),
                      !.replay_evictions = m.replay_evictions + 1]
    BY <1>4 DEF admit
  <2>2. /\ DOMAIN others = DOMAIN m.attempts \ {oldest}
        /\ \A b \in DOMAIN others : others[b] = m.attempts[b]
    OBVIOUS
  <2>8. /\ Tail(list) \in Seq(Emitters) /\ Once(Tail(list)) /\ Len(Tail(list)) + 1 = Len(list)
        /\ oldest \in Range(list) /\ Range(Tail(list)) = Range(list) \ {oldest}
    BY <1>4, <1>l, <1>q, Shorter
  <2>9. /\ ids \in Seq(Emitters) /\ Once(ids) /\ Len(ids) = Len(Tail(list)) + 1
        /\ Range(ids) = Range(Tail(list)) \cup {a}
    BY <1>4, <1>q, <2>8, Longer
  <2> HIDE DEF others, ids, fresh, oldest
  <2>3. /\ DOMAIN with(others, a, fresh) = DOMAIN others \cup {a}
        /\ with(others, a, fresh)[a] = fresh
        /\ \A b \in DOMAIN others : b # a => with(others, a, fresh)[b] = others[b]
    BY DEF with
  <2>4. /\ DOMAIN n = Fields /\ n.order = m.order
        /\ n.counters = m.counters /\ n.histograms = m.histograms
        /\ n.overflow = m.overflow /\ n.duplicates = m.duplicates
        /\ n.replay_evictions = m.replay_evictions + 1
        /\ n.attempts = with(others, a, fresh) /\ n.attempt_order = ids
    BY <2>1 DEF Fields
  <2> HIDE DEF n
  <2>5. IsFiniteSet(DOMAIN n.attempts) /\ Cardinality(DOMAIN n.attempts) = Len(ids)
    <3>1. IsFiniteSet(DOMAIN others) /\ Cardinality(DOMAIN others) = Len(list) - 1
      <4>1. oldest \in DOMAIN m.attempts
        BY <1>q, <2>8
      <4>2. /\ IsFiniteSet(DOMAIN m.attempts \ {oldest})
            /\ Cardinality(DOMAIN m.attempts \ {oldest}) = Cardinality(DOMAIN m.attempts) - 1
        BY <4>1, FS_RemoveElement
      <4> QED
        BY <1>q, <2>2, <4>2
    <3>2. a \notin DOMAIN others
      BY <1>4, <2>2
    <3>3. /\ IsFiniteSet(DOMAIN others \cup {a})
          /\ Cardinality(DOMAIN others \cup {a}) = Cardinality(DOMAIN others) + 1
      BY <3>1, <3>2, FS_AddElement
    <3>4. (Len(list) - 1) + 1 = Len(list)
      BY SMT, <1>l
    <3> QED
      BY <2>3, <2>4, <2>8, <2>9, <3>1, <3>3, <3>4
  <2>6. \A b \in DOMAIN n.attempts : n.attempts[b].terminal \in BOOLEAN
    BY <1>1, <2>2, <2>3, <2>4
  <2>7. a \in DOMAIN n.attempts
    BY <2>3, <2>4
  <2>10. Queued(n)
    BY <1>q, <2>2, <2>3, <2>4, <2>5, <2>8, <2>9 DEF Queued
  <2>11. terminals(n) = ends \ {oldest}
    <3>1. \A b \in DOMAIN others : b # a /\ n.attempts[b] = m.attempts[b]
      BY <1>4, <2>2, <2>3, <2>4
    <3>2. n.attempts[a].terminal = FALSE
      BY <1>1, <2>3, <2>4
    <3>3. DOMAIN n.attempts = (DOMAIN m.attempts \ {oldest}) \cup {a}
      BY <2>2, <2>3, <2>4
    <3> QED
      BY <1>4, <2>2, <3>1, <3>2, <3>3 DEF terminals
  <2>12. Forgets(n, m)
    <3>1. CASE oldest \in ends
      <4>1. Cardinality(ends \ {oldest}) = Cardinality(ends) - 1
        BY <1>f, <3>1, FS_RemoveElement
      <4>2. Cardinality(ends) + m.replay_evictions
              <= (Cardinality(ends) - 1) + (m.replay_evictions + 1)
        BY SMT, <1>f
      <4> QED
        BY <2>4, <2>11, <4>1, <4>2 DEF Forgets
    <3>2. CASE oldest \notin ends
      <4>1. ends \ {oldest} = ends
        BY <3>2
      <4>2. Cardinality(ends) + m.replay_evictions
              <= Cardinality(ends) + (m.replay_evictions + 1)
        BY SMT, <1>f
      <4> QED
        BY <2>4, <2>11, <4>1, <4>2 DEF Forgets
    <3> QED
      BY <3>1, <3>2
  <2> QED
    BY <1>2, <2>4, <2>5, <2>6, <2>7, <2>10, <2>12 DEF n
<1>5. CASE a \notin DOMAIN m.attempts /\ ~(Len(m.attempt_order) = MAX_REPLAY)
  <2> DEFINE ids == Append(list, a)
  <2>1. n = [m EXCEPT !.attempt_order = ids, !.attempts = with(m.attempts, a, fresh)]
    BY <1>5 DEF admit
  <2>7. /\ ids \in Seq(Emitters) /\ Once(ids) /\ Len(ids) = Len(list) + 1
        /\ Range(ids) = Range(list) \cup {a}
    BY <1>5, <1>q, Longer
  <2> HIDE DEF ids, fresh
  <2>2. /\ DOMAIN with(m.attempts, a, fresh) = DOMAIN m.attempts \cup {a}
        /\ with(m.attempts, a, fresh)[a] = fresh
        /\ \A b \in DOMAIN m.attempts : b # a => with(m.attempts, a, fresh)[b] = m.attempts[b]
    BY DEF with
  <2>3. /\ DOMAIN n = Fields /\ n.order = m.order
        /\ n.counters = m.counters /\ n.histograms = m.histograms
        /\ n.overflow = m.overflow /\ n.duplicates = m.duplicates
        /\ n.replay_evictions = m.replay_evictions
        /\ n.attempts = with(m.attempts, a, fresh) /\ n.attempt_order = ids
    BY <2>1 DEF Fields
  <2> HIDE DEF n
  <2>4. AttemptIn(n, m, a) /\ a \in DOMAIN n.attempts
    BY <1>1, <1>5, <2>2, <2>3 DEF AttemptIn
  <2>5. IsFiniteSet(DOMAIN n.attempts) /\ Cardinality(DOMAIN n.attempts) = Len(ids)
    <3>1. DOMAIN n.attempts = DOMAIN m.attempts \cup {a}
      BY <2>2, <2>3
    <3>2. /\ IsFiniteSet(DOMAIN m.attempts \cup {a})
          /\ Cardinality(DOMAIN m.attempts \cup {a}) = Cardinality(DOMAIN m.attempts) + 1
      BY <1>5, FS_AddElement
    <3> QED
      BY <1>q, <2>7, <3>1, <3>2
  <2>6. \A b \in DOMAIN n.attempts : n.attempts[b].terminal \in BOOLEAN
    BY <1>1, <2>2, <2>3
  <2>8. Len(ids) <= MAX_REPLAY
    <3>1. Len(list) + 1 <= MAX_REPLAY
      BY SMT, <1>5, <1>l, <1>q
    <3> QED
      BY <2>7, <3>1
  <2>9. Queued(n)
    BY <1>q, <2>2, <2>3, <2>5, <2>7, <2>8 DEF Queued
  <2>10. terminals(n) = ends
    BY <1>5, <2>4 DEF AttemptIn, terminals
  <2> QED
    BY <1>s, <2>3, <2>4, <2>5, <2>6, <2>9, <2>10 DEF n
<1> QED
  BY <1>3, <1>4, <1>5

\* A terminal record concludes its attempt; another leaves it as it is.
LEMMA Charged ==
  ASSUME NEW m, DOMAIN m = Fields, NEW r, r.attempt \in DOMAIN m.attempts,
         \A b \in DOMAIN m.attempts : m.attempts[b].terminal \in BOOLEAN
  PROVE  LET n == charge(m, r) IN
         /\ DOMAIN n = Fields /\ n.order = m.order /\ n.attempt_order = m.attempt_order
         /\ n.counters = m.counters /\ n.histograms = m.histograms
         /\ n.overflow = m.overflow /\ n.duplicates = m.duplicates
         /\ n.replay_evictions = m.replay_evictions
         /\ DOMAIN n.attempts = DOMAIN m.attempts
         /\ \A b \in DOMAIN m.attempts : b # r.attempt => n.attempts[b] = m.attempts[b]
         /\ n.attempts[r.attempt].terminal \in BOOLEAN
         /\ n.attempts[r.attempt].terminal <=> m.attempts[r.attempt].terminal \/ terminal(r)
<1> DEFINE n == charge(m, r)
           a == r.attempt
           known == m.attempts[a].reported_drops
           more == IF r.dropped_before > known THEN r.dropped_before - known ELSE 0
           ended == m.attempts[a].terminal \/ terminal(r)
           entry == [reported_drops |-> known + more, terminal |-> ended]
<1>1. n = [m EXCEPT !.reported_drops = @ + more, !.attempts = [@ EXCEPT ![a] = entry]]
  BY DEF charge
<1>2. entry.terminal = ended /\ ended \in BOOLEAN
  BY DEF terminal
<1> HIDE DEF entry, more
<1>3. /\ DOMAIN n = Fields /\ n.order = m.order /\ n.attempt_order = m.attempt_order
      /\ n.counters = m.counters /\ n.histograms = m.histograms
      /\ n.overflow = m.overflow /\ n.duplicates = m.duplicates
      /\ n.replay_evictions = m.replay_evictions
      /\ n.attempts = [m.attempts EXCEPT ![a] = entry]
  BY <1>1 DEF Fields
<1> HIDE DEF n
<1>4. /\ DOMAIN n.attempts = DOMAIN m.attempts
      /\ \A b \in DOMAIN m.attempts : b # a => n.attempts[b] = m.attempts[b]
      /\ n.attempts[a] = entry
  BY <1>3
<1> QED
  BY <1>2, <1>3, <1>4 DEF n

\* A call that touches series only.
SameMemory(n, m) ==
  /\ DOMAIN n = Fields
  /\ n.order = m.order /\ n.attempts = m.attempts /\ n.attempt_order = m.attempt_order
  /\ n.duplicates = m.duplicates /\ n.replay_evictions = m.replay_evictions

\* It counts d more completed operations, or refuses a series.
Touches(n, m, d) ==
  /\ SameMemory(n, m) /\ Counters(n)
  /\ completions(n) <= completions(m) + d
  /\ completions(m) + m.overflow + d <= completions(n) + n.overflow

\* The numbers that are compared.
LEMMA CountersType ==
  ASSUME NEW m, Counters(m)
  PROVE  completions(m) \in Nat /\ m.overflow \in Nat
  BY FS_CardinalityType DEF Counters, completions

\* Two calls after each other.
LEMMA TouchesTwice ==
  ASSUME NEW m, NEW n, NEW o, NEW d \in Nat, NEW e \in Nat, Counters(m),
         Touches(n, m, d), Touches(o, n, e)
  PROVE  Touches(o, m, d + e)
<1>1. /\ SameMemory(n, m) /\ Counters(n) /\ SameMemory(o, n) /\ Counters(o)
      /\ completions(n) <= completions(m) + d /\ completions(o) <= completions(n) + e
      /\ completions(m) + m.overflow + d <= completions(n) + n.overflow
      /\ completions(n) + n.overflow + e <= completions(o) + o.overflow
  BY DEF Touches
<1>2. /\ completions(m) \in Nat /\ m.overflow \in Nat
      /\ completions(n) \in Nat /\ n.overflow \in Nat
      /\ completions(o) \in Nat /\ o.overflow \in Nat
  BY <1>1, CountersType
<1>3. /\ completions(o) <= completions(m) + (d + e)
      /\ completions(m) + m.overflow + (d + e) <= completions(o) + o.overflow
  BY SMT, <1>1, <1>2
<1>4. SameMemory(o, m)
  BY <1>1 DEF SameMemory
<1> QED
  BY <1>1, <1>3, <1>4 DEF Touches

Agree(c, d, S) == \A k \in S : c[k] = d[k]

\* The units depend on the counters of the series alone.
LEMMA SameUnits ==
  ASSUME NEW c, NEW d, NEW S, Agree(c, d, S)
  PROVE  units(c, S) = units(d, S)
<1> USE DEF Agree
<1>1. {{<<k, i>> : i \in 1..c[k]} : k \in S} = {{<<k, i>> : i \in 1..d[k]} : k \in S}
  OBVIOUS
<1> QED
  BY <1>1 DEF units

\* A counter more of a series that does not count operations, or one more operation.
LEMMA Incremented ==
  ASSUME NEW m, DOMAIN m = Fields, Counters(m), NEW key
  PROVE  Touches(increment(m, key), m, IF key[1] = "operations" THEN 1 ELSE 0)
<1> DEFINE n == increment(m, key)
           c == m.counters
           value == IF key \in DOMAIN c THEN c[key] + 1 ELSE 1
           d == IF key[1] = "operations" THEN 1 ELSE 0
<1>1. m.overflow \in Nat /\ completions(m) \in Nat
  BY CountersType
<1>2. /\ m.overflow + 1 \in Nat /\ d \in {0, 1}
      /\ \A e \in {0, 1} :
           /\ completions(m) <= completions(m) + e
           /\ completions(m) + m.overflow + e <= completions(m) + (m.overflow + 1)
           /\ completions(m) + e <= completions(m) + e
           /\ completions(m) + m.overflow + e <= (completions(m) + e) + m.overflow
      /\ completions(m) + 0 = completions(m)
  BY SMT, <1>1
<1>3. CASE series(m) >= MAX_SERIES /\ key \notin DOMAIN m.counters
  <2>1. n = [m EXCEPT !.overflow = m.overflow + 1]
    BY <1>3 DEF increment
  <2>2. /\ SameMemory(n, m) /\ n.histograms = m.histograms
        /\ n.counters = m.counters /\ n.overflow = m.overflow + 1
    BY <2>1 DEF Fields, SameMemory
  <2> HIDE DEF n, d
  <2>3. Counters(n) /\ completions(n) = completions(m)
    BY <1>2, <2>2 DEF Counters, totals, series, completions
  <2> QED
    BY <1>2, <2>2, <2>3 DEF Touches, n, d
<1>4. CASE ~(series(m) >= MAX_SERIES /\ key \notin DOMAIN m.counters)
  <2>1. n = [m EXCEPT !.counters = with(c, key, value)]
    BY <1>4 DEF increment
  <2>2. /\ SameMemory(n, m) /\ n.histograms = m.histograms
        /\ n.overflow = m.overflow /\ n.counters = with(c, key, value)
    BY <2>1 DEF Fields, SameMemory
  <2> HIDE DEF n
  <2>3. /\ DOMAIN n.counters = DOMAIN c \cup {key} /\ n.counters[key] = value
        /\ \A k \in DOMAIN c : k # key => n.counters[k] = c[k]
    <3> HIDE DEF value
    <3> QED
      BY <2>2 DEF with
  <2>4. value \in Nat /\ value \in 1..value
    <3>1. \A k \in DOMAIN c : c[k] \in Nat
      BY DEF Counters
    <3> QED
      BY SMT, <3>1
  <2>5. \A k \in DOMAIN n.counters : n.counters[k] \in Nat
    BY <2>3, <2>4 DEF Counters
  <2>s. /\ IsFiniteSet(DOMAIN n.counters) /\ IsFiniteSet(DOMAIN n.histograms)
        /\ series(n) <= MAX_SERIES
    <3>1. /\ IsFiniteSet(DOMAIN c) /\ IsFiniteSet(DOMAIN m.histograms)
          /\ Cardinality(DOMAIN c) + Cardinality(DOMAIN m.histograms) <= MAX_SERIES
      BY DEF Counters, series
    <3>2. CASE key \in DOMAIN c
      <4>1. DOMAIN n.counters = DOMAIN c
        BY <2>3, <3>2
      <4> QED
        BY <2>2, <3>1, <4>1 DEF series
    <3>3. CASE key \notin DOMAIN c
      <4>1. ~(Cardinality(DOMAIN c) + Cardinality(DOMAIN m.histograms) >= MAX_SERIES)
        BY <1>4, <3>3 DEF series
      <4>2. /\ IsFiniteSet(DOMAIN c \cup {key})
            /\ Cardinality(DOMAIN c \cup {key}) = Cardinality(DOMAIN c) + 1
        BY <3>1, <3>3, FS_AddElement
      <4>3. Cardinality(DOMAIN c) \in Nat /\ Cardinality(DOMAIN m.histograms) \in Nat
        BY <3>1, FS_CardinalityType
      <4>4. MAX_SERIES \in Nat
        BY BoundsAssumption DEF BoundsAssumption
      <4>5. (Cardinality(DOMAIN c) + 1) + Cardinality(DOMAIN m.histograms) <= MAX_SERIES
        BY SMT, <4>1, <4>3, <4>4
      <4> QED
        BY <2>2, <2>3, <3>1, <4>2, <4>5 DEF series
    <3> QED
      BY <3>2, <3>3
  <2> DEFINE U == units(m.counters, totals(m))
             V == units(n.counters, totals(n))
  <2>6. CASE key[1] # "operations"
    <3>1. totals(n) = totals(m) /\ \A k \in totals(m) : n.counters[k] = c[k]
      BY <2>3, <2>6 DEF totals
    <3>2. V = U
      <4>1. V = units(n.counters, totals(m)) /\ Agree(n.counters, c, totals(m))
        BY <3>1 DEF Agree
      <4>2. units(n.counters, totals(m)) = units(c, totals(m))
        BY <4>1, SameUnits
      <4> QED
        BY <4>1, <4>2
    <3> QED
      BY <1>1, <1>2, <2>2, <2>5, <2>6, <2>s, <3>2 DEF Touches, Counters, completions, n
  <2>7. CASE key[1] = "operations"
    <3>1. totals(n) = totals(m) \cup {key} /\ \A k \in totals(m) \ {key} : n.counters[k] = c[k]
      BY <2>3, <2>7 DEF totals
    <3>2. key \in totals(m) =>
            value = c[key] + 1 /\ 1..value = (1..c[key]) \cup {value} /\ value \notin 1..c[key]
      <4>1. key \in totals(m) => value = c[key] + 1 /\ c[key] \in Nat
        BY DEF totals, Counters
      <4> HIDE DEF c, value
      <4> QED
        BY SMT, <4>1
    <3>3. key \notin totals(m) => value = 1 /\ 1..value = {value}
      <4>1. key \notin totals(m) => value = 1
        BY <2>7 DEF totals
      <4> HIDE DEF value
      <4> QED
        BY SMT, <4>1
    <3>4. V = U \cup {<<key, value>>} /\ <<key, value>> \notin U
      <4>1. \A p : p \in U <=> \E k \in totals(m) : \E i \in 1..c[k] : p = <<k, i>>
        BY SMT DEF units
      <4>2. \A p : p \in V <=> \E k \in totals(n) : \E i \in 1..n.counters[k] : p = <<k, i>>
        BY SMT DEF units
      <4> HIDE DEF U, V, value, c
      <4>3. <<key, value>> \notin U
        <5>1. ASSUME NEW k \in totals(m), NEW i \in 1..c[k], <<key, value>> = <<k, i>>
              PROVE  FALSE
          <6>1. key = k /\ value = i
            BY <5>1
          <6> QED
            BY <3>2, <6>1
        <5> QED
          BY <4>1, <5>1
      <4>4. \A i : i \in 1..value <=> i = value \/ (key \in totals(m) /\ i \in 1..c[key])
        <5>1. CASE key \in totals(m)
          BY <3>2, <5>1
        <5>2. CASE key \notin totals(m)
          BY <3>3, <5>2
        <5> QED
          BY <5>1, <5>2
      <4>5. ASSUME NEW p \in V PROVE p \in U \/ p = <<key, value>>
        <5>1. PICK k \in totals(n) : \E i \in 1..n.counters[k] : p = <<k, i>>
          BY <4>2
        <5>2. CASE k = key
          BY <2>3, <4>1, <4>4, <5>1, <5>2
        <5>3. CASE k # key
          BY <3>1, <4>1, <5>1, <5>3
        <5> QED
          BY <5>2, <5>3
      <4>6. ASSUME NEW p \in U PROVE p \in V
        <5>1. PICK k \in totals(m) : \E i \in 1..c[k] : p = <<k, i>>
          BY <4>1
        <5>2. k \in totals(n)
          BY <3>1
        <5>3. \A i \in 1..c[k] : i \in 1..n.counters[k]
          <6>1. CASE k = key
            BY <2>3, <4>4, <6>1
          <6>2. CASE k # key
            BY <3>1, <6>2
          <6> QED
            BY <6>1, <6>2
        <5> QED
          BY <4>2, <5>1, <5>2, <5>3
      <4>7. <<key, value>> \in V
        BY <2>3, <2>4, <3>1, <4>2
      <4> QED
        BY <4>3, <4>5, <4>6, <4>7
    <3>5. IsFiniteSet(U)
      BY DEF Counters
    <3>6. IsFiniteSet(V) /\ Cardinality(V) = Cardinality(U) + 1
      <4> HIDE DEF U, V, value
      <4> QED
        BY <3>4, <3>5, FS_AddElement
    <3> QED
      BY <1>1, <1>2, <2>2, <2>5, <2>7, <2>s, <3>6 DEF Touches, Counters, completions, n
  <2> QED
    BY <2>6, <2>7
<1> QED
  BY <1>3, <1>4

\* A histogram counts no operation.
LEMMA Observed ==
  ASSUME NEW m, DOMAIN m = Fields, Counters(m), NEW key
  PROVE  Touches(observe(m, key), m, 0)
<1> DEFINE n == observe(m, key)
           h == with(m.histograms, key,
                     IF key \in DOMAIN m.histograms THEN m.histograms[key] + 1 ELSE 1)
<1>1. m.overflow \in Nat /\ completions(m) \in Nat
  BY CountersType
<1>2. /\ m.overflow + 1 \in Nat
      /\ completions(m) <= completions(m) + 0
      /\ completions(m) + m.overflow + 0 <= completions(m) + (m.overflow + 1)
      /\ completions(m) + m.overflow + 0 <= completions(m) + m.overflow
  BY SMT, <1>1
<1>3. /\ IsFiniteSet(DOMAIN m.counters) /\ IsFiniteSet(DOMAIN m.histograms)
      /\ Cardinality(DOMAIN m.counters) + Cardinality(DOMAIN m.histograms) <= MAX_SERIES
  BY DEF Counters, series
<1>4. CASE series(m) >= MAX_SERIES /\ key \notin DOMAIN m.histograms
  <2>1. n = [m EXCEPT !.overflow = m.overflow + 1]
    BY <1>4 DEF observe
  <2>2. /\ SameMemory(n, m) /\ n.histograms = m.histograms
        /\ n.counters = m.counters /\ n.overflow = m.overflow + 1
    BY <2>1 DEF Fields, SameMemory
  <2> HIDE DEF n
  <2>3. Counters(n) /\ completions(n) = completions(m)
    BY <1>2, <2>2 DEF Counters, totals, series, completions
  <2> QED
    BY <1>2, <2>2, <2>3 DEF Touches, n
<1>5. CASE ~(series(m) >= MAX_SERIES /\ key \notin DOMAIN m.histograms)
  <2>1. n = [m EXCEPT !.histograms = h]
    BY <1>5 DEF observe
  <2>2. DOMAIN h = DOMAIN m.histograms \cup {key}
    BY DEF with
  <2> HIDE DEF h
  <2>3. /\ SameMemory(n, m) /\ n.histograms = h
        /\ n.counters = m.counters /\ n.overflow = m.overflow
    BY <2>1 DEF Fields, SameMemory
  <2> HIDE DEF n
  <2>4. /\ IsFiniteSet(DOMAIN h)
        /\ Cardinality(DOMAIN m.counters) + Cardinality(DOMAIN h) <= MAX_SERIES
    <3>1. CASE key \in DOMAIN m.histograms
      <4>1. DOMAIN h = DOMAIN m.histograms
        BY <2>2, <3>1
      <4> QED
        BY <1>3, <4>1
    <3>2. CASE key \notin DOMAIN m.histograms
      <4>1. ~(Cardinality(DOMAIN m.counters) + Cardinality(DOMAIN m.histograms) >= MAX_SERIES)
        BY <1>5, <3>2 DEF series
      <4>2. /\ IsFiniteSet(DOMAIN m.histograms \cup {key})
            /\ Cardinality(DOMAIN m.histograms \cup {key}) = Cardinality(DOMAIN m.histograms) + 1
        BY <1>3, <3>2, FS_AddElement
      <4>3. Cardinality(DOMAIN m.counters) \in Nat /\ Cardinality(DOMAIN m.histograms) \in Nat
        BY <1>3, FS_CardinalityType
      <4>4. MAX_SERIES \in Nat
        BY BoundsAssumption DEF BoundsAssumption
      <4>5. Cardinality(DOMAIN m.counters) + (Cardinality(DOMAIN m.histograms) + 1) <= MAX_SERIES
        BY SMT, <4>1, <4>3, <4>4
      <4> QED
        BY <2>2, <4>2, <4>5
    <3> QED
      BY <3>1, <3>2
  <2>5. totals(n) = totals(m) /\ completions(n) = completions(m)
    BY <2>3 DEF totals, completions
  <2>6. Counters(n)
    BY <1>3, <2>3, <2>4, <2>5 DEF Counters, series
  <2> QED
    BY <1>2, <2>3, <2>5, <2>6 DEF Touches, n
<1> QED
  BY <1>4, <1>5

\* One more series touched, after others.
LEMMA TouchesMore ==
  ASSUME NEW m, NEW n, NEW d \in Nat, Counters(m), Touches(n, m, d), NEW key
  PROVE  /\ Touches(observe(n, key), m, d)
         /\ key[1] # "operations" => Touches(increment(n, key), m, d)
<1>1. d + 0 = d /\ 0 \in Nat
  BY SMT
<1>2. DOMAIN n = Fields /\ Counters(n)
  BY DEF Touches, SameMemory
<1>3. Touches(observe(n, key), n, 0)
  BY <1>2, Observed
<1>4. Touches(observe(n, key), m, d + 0)
  BY <1>1, <1>3, TouchesTwice
<1>5. ASSUME key[1] # "operations"
      PROVE  Touches(increment(n, key), m, d + 0)
  <2>1. Touches(increment(n, key), n, 0)
    BY <1>2, <1>5, Incremented
  <2> QED
    BY <1>1, <2>1, TouchesTwice
<1> QED
  BY <1>1, <1>4, <1>5

ends(event) == event.component = "client" /\ event.event = "operation_completed"

\* The series of an event: an operation that ends is counted once.
LEMMA TallyTouches ==
  ASSUME NEW m, DOMAIN m = Fields, Counters(m), NEW event,
         event.component = "client" => event.operation # "serve"
  PROVE  Touches(tally(m, event), m, IF ends(event) THEN 1 ELSE 0)
<1>1. Touches(m, m, 0)
  <2>1. completions(m) \in Nat /\ m.overflow \in Nat
    BY CountersType
  <2>2. /\ completions(m) <= completions(m) + 0
        /\ completions(m) + m.overflow + 0 <= completions(m) + m.overflow
    BY SMT, <2>1
  <2> QED
    BY <2>2 DEF Touches, SameMemory
<1>2. 0 \in Nat /\ 1 \in Nat
  OBVIOUS
<1>3. CASE event.component # "client"
  <2>1. tally(m, event) = m
    BY <1>3 DEF tally
  <2> QED
    BY <1>1, <1>3, <2>1 DEF ends
<1>4. CASE event.component = "client" /\ event.event = "operation_completed"
  <2> DEFINE one == increment(m, <<"operations", event.operation, event.outcome>>)
             total == observe(one, <<"operation_duration", event.operation>>)
             failed == IF event.outcome = "failure"
                       THEN increment(total, <<"failures", event.operation, event.reason>>)
                       ELSE total
             all == IF /\ event.degraded
                       /\ event.outcome = "success"
                       /\ event.operation \in {"check", "activate"}
                    THEN increment(failed, <<"unlock_degraded">>)
                    ELSE failed
  <2>1. tally(m, event) = all
    BY <1>4 DEF tally
  <2>2. Touches(one, m, 1)
    <3> DEFINE key == <<"operations", event.operation, event.outcome>>
    <3>1. key[1] = "operations"
      OBVIOUS
    <3> HIDE DEF key
    <3>2. Touches(increment(m, key), m, 1)
      BY <3>1, Incremented
    <3> QED
      BY <3>2 DEF key
  <2> HIDE DEF one
  <2>3. Touches(total, m, 1)
    BY <1>2, <2>2, TouchesMore
  <2> HIDE DEF total
  <2>4. Touches(failed, m, 1)
    <3>1. <<"failures", event.operation, event.reason>>[1] # "operations"
      OBVIOUS
    <3> QED
      BY <1>2, <2>3, <3>1, TouchesMore
  <2> HIDE DEF failed
  <2>5. Touches(all, m, 1)
    <3>1. <<"unlock_degraded">>[1] # "operations"
      OBVIOUS
    <3> QED
      BY <1>2, <2>4, <3>1, TouchesMore
  <2> QED
    BY <1>4, <2>1, <2>5 DEF ends
<1>5. CASE event.component = "client" /\ event.event = "phase_completed"
  <2>1. tally(m, event) = observe(m, <<"phase_duration", event.operation, event.stage>>)
    BY <1>5 DEF tally
  <2> QED
    BY <1>5, <2>1, Observed DEF ends
<1>6. CASE /\ event.component = "client"
           /\ event.event = "provider_completed" /\ event.outcome # "not_started"
  <2> DEFINE tried == increment(m, <<"attempts", event.provider_index, event.outcome>>)
             failed == IF event.outcome = "failed"
                       THEN increment(tried, <<"provider_failures", event.provider_index,
                                               event.reason>>)
                       ELSE tried
             all == observe(failed, <<"provider_duration", event.provider_index>>)
  <2>1. tally(m, event) = all
    BY <1>6 DEF tally
  <2>2. Touches(tried, m, 0)
    <3>1. <<"attempts", event.provider_index, event.outcome>>[1] # "operations"
      OBVIOUS
    <3> QED
      BY <1>1, <1>2, <3>1, TouchesMore
  <2> HIDE DEF tried
  <2>3. Touches(failed, m, 0)
    <3>1. <<"provider_failures", event.provider_index, event.reason>>[1] # "operations"
      OBVIOUS
    <3> QED
      BY <1>2, <2>2, <3>1, TouchesMore
  <2> HIDE DEF failed
  <2>4. Touches(all, m, 0)
    BY <1>2, <2>3, TouchesMore
  <2> QED
    BY <1>6, <2>1, <2>4 DEF ends
<1>7. CASE /\ event.component = "client"
           /\ event.event \notin {"operation_completed", "phase_completed"}
           /\ ~(event.event = "provider_completed" /\ event.outcome # "not_started")
  <2>1. tally(m, event) = m
    BY <1>7 DEF tally
  <2> QED
    BY <1>1, <1>7, <2>1 DEF ends
<1> QED
  BY <1>3, <1>4, <1>5, <1>6, <1>7

\* What an admitted record leaves in the registry, unless something was pushed out.
Enters(n, m, r) ==
  n.replay_evictions = 0 =>
    /\ m.replay_evictions = 0
    /\ n.order = Append(m.order, identity(r))
    /\ n.duplicates = m.duplicates
    /\ \A a : concluded(n, a) <=> concluded(m, a) \/ (terminal(r) /\ a = r.attempt)

\* The concluded attempts make the set that is counted.
LEMMA Terminals == \A m, a : a \in terminals(m) <=> concluded(m, a)
  BY DEF terminals, concluded

\* accept, when it admits the record.
LEMMA Accepted ==
  ASSUME NEW m, Registry(m), NEW r, Record(r), verdict(m, r) = "accepted"
  PROVE  /\ Registry(accept(m, r)) /\ Enters(accept(m, r), m, r)
         /\ CountsOnce(m) => CountsOnce(accept(m, r))
<1> DEFINE a == r.attempt
           m1 == remember(m, r)
           m2 == admit(m1, a)
           m3 == charge(m2, r)
           m4 == [m3 EXCEPT !.accepted = m3.accepted + 1]
           n == tally(m4, r.event)
           d == IF ends(r.event) THEN 1 ELSE 0
<1>1. accept(m, r) = n
  BY DEF accept
<1>2. /\ DOMAIN m = Fields /\ IsFiniteSet(DOMAIN m.attempts) /\ Counters(m) /\ Queued(m)
      /\ \A b \in DOMAIN m.attempts : m.attempts[b].terminal \in BOOLEAN
      /\ m.replay_evictions \in Nat /\ a \in Emitters
  BY DEF Registry, Record, identity, Identities
<1>3. /\ DOMAIN m1 = Fields /\ m1.order \in Seq(Identities) /\ Len(m1.order) <= MAX_REPLAY
      /\ m1.replay_evictions \in Nat /\ m.replay_evictions <= m1.replay_evictions
      /\ m1.attempts = m.attempts /\ m1.attempt_order = m.attempt_order
      /\ m1.counters = m.counters /\ m1.histograms = m.histograms
      /\ m1.overflow = m.overflow /\ m1.duplicates = m.duplicates
      /\ m1.replay_evictions = 0 =>
           m.replay_evictions = 0 /\ m1.order = Append(m.order, identity(r))
  BY Remembered DEF Record
<1> HIDE DEF m1
<1>q. Queued(m1) /\ terminals(m1) = terminals(m)
  BY <1>2, <1>3 DEF Queued, terminals
<1>4. /\ DOMAIN m2 = Fields /\ m2.order = m1.order
      /\ m2.counters = m1.counters /\ m2.histograms = m1.histograms
      /\ m2.overflow = m1.overflow /\ m2.duplicates = m1.duplicates
      /\ m2.replay_evictions \in Nat /\ Queued(m2) /\ Forgets(m2, m1)
      /\ a \in DOMAIN m2.attempts /\ IsFiniteSet(DOMAIN m2.attempts)
      /\ \A b \in DOMAIN m2.attempts : m2.attempts[b].terminal \in BOOLEAN
      /\ m2.replay_evictions = 0 => m1.replay_evictions = 0 /\ AttemptIn(m2, m1, a)
  BY <1>2, <1>3, <1>q, Admitted
<1> HIDE DEF m2
<1>5. /\ DOMAIN m3 = Fields /\ m3.order = m2.order /\ m3.attempt_order = m2.attempt_order
      /\ m3.counters = m2.counters /\ m3.histograms = m2.histograms
      /\ m3.overflow = m2.overflow /\ m3.duplicates = m2.duplicates
      /\ m3.replay_evictions = m2.replay_evictions
      /\ DOMAIN m3.attempts = DOMAIN m2.attempts
      /\ \A b \in DOMAIN m2.attempts : b # a => m3.attempts[b] = m2.attempts[b]
      /\ m3.attempts[a].terminal \in BOOLEAN
      /\ m3.attempts[a].terminal <=> m2.attempts[a].terminal \/ terminal(r)
  BY <1>4, Charged
<1> HIDE DEF m3
<1>6. /\ DOMAIN m4 = Fields /\ m4.order = m3.order /\ m4.attempt_order = m3.attempt_order
      /\ m4.counters = m3.counters /\ m4.histograms = m3.histograms
      /\ m4.overflow = m3.overflow /\ m4.duplicates = m3.duplicates
      /\ m4.replay_evictions = m3.replay_evictions /\ m4.attempts = m3.attempts
  BY <1>5 DEF Fields
<1> HIDE DEF m4
<1>7. Counters(m4) /\ completions(m4) = completions(m)
  <2>1. m4.counters = m.counters /\ m4.histograms = m.histograms /\ m4.overflow = m.overflow
    BY <1>3, <1>4, <1>5, <1>6
  <2>2. totals(m4) = totals(m) /\ series(m4) = series(m)
    BY <2>1 DEF totals, series
  <2> QED
    BY <1>2, <2>1, <2>2 DEF Counters, completions
<1>8. Touches(n, m4, d)
  BY <1>6, <1>7, TallyTouches DEF Record
<1> HIDE DEF n
<1>9. /\ DOMAIN n = Fields /\ n.order = m1.order /\ n.duplicates = m.duplicates
      /\ n.replay_evictions = m2.replay_evictions /\ n.attempts = m3.attempts
      /\ n.attempt_order = m2.attempt_order /\ Counters(n)
      /\ completions(n) <= completions(m) + d
      /\ completions(m) + m.overflow + d <= completions(n) + n.overflow
  BY <1>3, <1>4, <1>5, <1>6, <1>7, <1>8 DEF Touches, SameMemory
<1>10. Registry(n)
  <2>1. \A b \in DOMAIN n.attempts : n.attempts[b].terminal \in BOOLEAN
    <3>1. \A b \in DOMAIN m3.attempts : m3.attempts[b].terminal \in BOOLEAN
      BY <1>4, <1>5
    <3> QED
      BY <1>9, <3>1
  <2>2. Queued(n)
    BY <1>4, <1>5, <1>9 DEF Queued
  <2> QED
    BY <1>3, <1>4, <1>5, <1>9, <2>1, <2>2 DEF Registry
<1>11. Enters(n, m, r)
  <2> SUFFICES ASSUME n.replay_evictions = 0
               PROVE  /\ m.replay_evictions = 0
                      /\ n.order = Append(m.order, identity(r))
                      /\ n.duplicates = m.duplicates
                      /\ \A b : concluded(n, b) <=> concluded(m, b) \/ (terminal(r) /\ b = a)
    BY DEF Enters
  <2>1. /\ AttemptIn(m2, m1, a) /\ m.replay_evictions = 0
        /\ m1.order = Append(m.order, identity(r))
    BY <1>3, <1>4, <1>9
  <2>2. \A b \in DOMAIN m.attempts : b \in DOMAIN m2.attempts /\ m2.attempts[b] = m.attempts[b]
    <3>1. /\ DOMAIN m2.attempts = DOMAIN m1.attempts \cup {a}
          /\ \A b \in DOMAIN m1.attempts : m2.attempts[b] = m1.attempts[b]
      BY <2>1 DEF AttemptIn
    <3> QED
      BY SMT, <1>3, <3>1
  <2>3. ASSUME NEW b, b # a
        PROVE  concluded(n, b) <=> concluded(m, b)
    <3>1. b \in DOMAIN n.attempts <=> b \in DOMAIN m.attempts
      BY <1>3, <1>5, <1>9, <2>1, <2>3 DEF AttemptIn
    <3>2. b \in DOMAIN m.attempts => n.attempts[b] = m.attempts[b]
      BY <1>5, <1>9, <2>2, <2>3
    <3> QED
      BY <3>1, <3>2 DEF concluded
  <2>4. concluded(n, a) <=> concluded(m, a) \/ terminal(r)
    <3>1. a \in DOMAIN n.attempts
      BY <1>4, <1>5, <1>9
    <3>2. CASE a \in DOMAIN m.attempts
      <4>1. m2.attempts[a] = m.attempts[a]
        BY <2>2, <3>2
      <4> QED
        BY <1>5, <1>9, <3>1, <3>2, <4>1 DEF concluded
    <3>3. CASE a \notin DOMAIN m.attempts
      <4>1. m2.attempts[a].terminal = FALSE
        BY <1>3, <2>1, <3>3 DEF AttemptIn
      <4> QED
        BY <1>5, <1>9, <3>1, <3>3, <4>1 DEF concluded
    <3> QED
      BY <3>2, <3>3
  <2> QED
    BY <1>9, <2>1, <2>3, <2>4
<1>12. IsFiniteSet(terminals(m)) /\ IsFiniteSet(terminals(m2)) /\ IsFiniteSet(terminals(n))
  <2>1. /\ terminals(m) \subseteq DOMAIN m.attempts /\ terminals(m2) \subseteq DOMAIN m2.attempts
        /\ terminals(n) \subseteq DOMAIN m2.attempts
    BY <1>5, <1>9 DEF terminals
  <2> QED
    BY <1>2, <1>4, <2>1, FS_Subset
<1>13. Cardinality(terminals(n)) = Cardinality(terminals(m2)) + d
  <2>1. \A b : b \in terminals(n) <=> b \in terminals(m2) \/ (terminal(r) /\ b = a)
    <3>1. ASSUME NEW b, b # a PROVE b \in terminals(n) <=> b \in terminals(m2)
      BY <1>5, <1>9, <3>1 DEF terminals
    <3>2. a \in terminals(n) <=> a \in terminals(m2) \/ terminal(r)
      BY <1>4, <1>5, <1>9 DEF terminals
    <3> QED
      BY <3>1, <3>2
  <2>2. CASE terminal(r)
    <3>1. a \notin terminals(m2)
      <4>1. a \notin terminals(m)
        BY <2>2, Terminals DEF verdict
      <4> QED
        BY <1>4, <1>q, <4>1 DEF Forgets
    <3>2. terminals(n) = terminals(m2) \cup {a}
      BY <2>1, <2>2
    <3>3. Cardinality(terminals(m2) \cup {a}) = Cardinality(terminals(m2)) + 1
      BY <1>12, <3>1, FS_AddElement
    <3>4. d = 1
      BY <2>2 DEF terminal, ends
    <3> QED
      BY <3>2, <3>3, <3>4
  <2>3. CASE ~terminal(r)
    <3>1. terminals(n) = terminals(m2)
      BY <2>1, <2>3
    <3>2. d = 0
      BY <2>3 DEF terminal, ends
    <3>3. Cardinality(terminals(m2)) + 0 = Cardinality(terminals(m2))
      BY SMT, <1>12, FS_CardinalityType
    <3> QED
      BY <3>1, <3>2, <3>3
  <2> QED
    BY <2>2, <2>3
<1>14. ASSUME CountsOnce(m) PROVE CountsOnce(n)
  <2> DEFINE before == Cardinality(terminals(m))
             kept == Cardinality(terminals(m2))
  <2>1. before \in Nat /\ kept \in Nat /\ kept <= before
    <3>1. terminals(m2) \subseteq terminals(m)
      BY <1>4, <1>q DEF Forgets
    <3> QED
      BY <1>12, <3>1, FS_CardinalityType, FS_Subset
  <2>2. /\ completions(m) <= before + m.replay_evictions
        /\ before <= completions(m) + m.overflow
    BY <1>14 DEF CountsOnce
  <2>3. before + m1.replay_evictions <= kept + n.replay_evictions
    BY <1>4, <1>9, <1>q DEF Forgets
  <2>4. /\ completions(m) \in Nat /\ m.overflow \in Nat /\ completions(n) \in Nat
        /\ n.overflow \in Nat /\ n.replay_evictions \in Nat /\ d \in Nat
    BY <1>2, <1>4, <1>9, CountersType
  <2> HIDE DEF before, kept, d
  <2>5. /\ completions(n) <= (kept + d) + n.replay_evictions
        /\ kept + d <= completions(n) + n.overflow
    <3>1. completions(n) <= completions(m) + d
          /\ completions(m) + m.overflow + d <= completions(n) + n.overflow
          /\ m.replay_evictions <= m1.replay_evictions
          /\ m.replay_evictions \in Nat /\ m1.replay_evictions \in Nat
      BY <1>2, <1>3, <1>9
    <3> QED
      BY SMT, <2>1, <2>2, <2>3, <2>4, <3>1
  <2> QED
    BY <1>13, <2>5 DEF CountsOnce, kept
<1> QED
  BY <1>1, <1>10, <1>11, <1>14

\* A change of the registry that touches neither its memory nor its counters.
SameBooks(n, m) ==
  /\ DOMAIN n = Fields
  /\ n.order = m.order /\ n.attempts = m.attempts /\ n.attempt_order = m.attempt_order
  /\ n.counters = m.counters /\ n.histograms = m.histograms
  /\ n.overflow = m.overflow /\ n.replay_evictions = m.replay_evictions

\* What the registry knows, it goes on knowing, and it counts as it did.
Follows(n, m) ==
  /\ Registry(n)
  /\ CountsOnce(m) => CountsOnce(n)
  /\ n.replay_evictions = 0 =>
       m.replay_evictions = 0 /\ \A q : Known(m, q) => Known(n, q)

\* The counters of rejected records, duplicates and failed writes are of this kind.
LEMMA BooksKept ==
  ASSUME NEW m, Registry(m), NEW n, SameBooks(n, m)
  PROVE  Follows(n, m)
<1>1. totals(n) = totals(m) /\ terminals(n) = terminals(m) /\ series(n) = series(m)
  BY DEF SameBooks, totals, terminals, series
<1>2. Registry(n)
  BY <1>1 DEF SameBooks, Registry, Counters, Queued
<1>3. CountsOnce(m) => CountsOnce(n)
  BY <1>1 DEF SameBooks, CountsOnce, completions
<1>4. \A q : Known(m, q) => Known(n, q)
  BY DEF SameBooks, Known, concluded
<1>5. n.replay_evictions = m.replay_evictions
  BY DEF SameBooks
<1> QED
  BY <1>2, <1>3, <1>4, <1>5 DEF Follows

\* The members of a queue that one more has entered.
LEMMA Entered ==
  ASSUME NEW S, NEW order \in Seq(S), NEW x \in S
  PROVE  /\ x \in Range(Append(order, x))
         /\ \A y \in Range(order) : y \in Range(Append(order, x))
         /\ \A y \in Range(Append(order, x)) : y \in Range(order) \/ y = x
<1>1. /\ Len(order) + 1 \in DOMAIN Append(order, x)
      /\ Append(order, x)[Len(order) + 1] = x
      /\ \A i \in DOMAIN order : i \in DOMAIN Append(order, x) /\ Append(order, x)[i] = order[i]
      /\ \A i \in DOMAIN Append(order, x) : i \in DOMAIN order \/ i = Len(order) + 1
  BY SMT
<1> QED
  BY <1>1 DEF Range

\* A registry knows the record that it has admitted.
LEMMA KnowsAccepted ==
  ASSUME NEW m, Registry(m), NEW r, Record(r), verdict(m, r) = "accepted",
         accept(m, r).replay_evictions = 0
  PROVE  Known(accept(m, r), r) /\ \A q : Known(m, q) => Known(accept(m, r), q)
<1> DEFINE n == accept(m, r)
<1>1. /\ n.order = Append(m.order, identity(r))
      /\ \A a : concluded(n, a) <=> concluded(m, a) \/ (terminal(r) /\ a = r.attempt)
  BY Accepted DEF Enters
<1> HIDE DEF n
<1>2. /\ identity(r) \in Range(n.order)
      /\ \A y \in Range(m.order) : y \in Range(n.order)
  <2>1. m.order \in Seq(Identities) /\ identity(r) \in Identities
    BY DEF Registry, Record
  <2> QED
    BY <1>1, <2>1, Entered
<1> QED
  BY <1>1, <1>2 DEF Known, n

\* accept, whatever it says of the record.
LEMMA AcceptFollows ==
  ASSUME NEW m, Registry(m), NEW r, Record(r)
  PROVE  Follows(accept(m, r), m)
<1>1. CASE verdict(m, r) = "accepted"
  <2>1. Registry(accept(m, r)) /\ (CountsOnce(m) => CountsOnce(accept(m, r)))
    BY <1>1, Accepted
  <2>2. accept(m, r).replay_evictions = 0 => m.replay_evictions = 0
    BY <1>1, Accepted DEF Enters
  <2> QED
    BY <1>1, <2>1, <2>2, KnowsAccepted DEF Follows
<1>2. CASE verdict(m, r) # "accepted"
  <2> DEFINE n == accept(m, r)
  <2>1. \/ n = [m EXCEPT !.duplicates = m.duplicates + 1]
        \/ n = [m EXCEPT !.rejected = m.rejected + 1]
    <3>1. verdict(m, r) \in {"duplicate", "rejected", "accepted"}
      BY DEF verdict
    <3> QED
      BY <1>2, <3>1 DEF accept
  <2>2. DOMAIN m = Fields
    BY DEF Registry
  <2> HIDE DEF n
  <2>3. SameBooks(n, m)
    BY <2>1, <2>2 DEF SameBooks, Fields
  <2> QED
    BY <2>3, BooksKept DEF n
<1> QED
  BY <1>1, <1>2

-----------------------------------------------------------------------------
(* Replay                                                                  *)

\* A set that has 0 and with each number the next one has them all.
LEMMA Induction ==
  ASSUME NEW S, 0 \in S, \A n \in Nat : n \in S => n + 1 \in S
  PROVE  Nat \subseteq S
<1> SUFFICES ASSUME Nat \ S # {} PROVE FALSE
  OBVIOUS
<1> DEFINE R == OpToRel(<, Nat)
<1>1. IsWellFoundedOn(R, Nat)
  BY NatLessThanWellFounded
<1>2. \A x, y \in Nat : <<x, y>> \in R <=> x < y
  BY DEF OpToRel
<1> HIDE DEF R
<1>3. PICK x \in Nat \ S : \A y \in Nat \ S : ~(<<y, x>> \in R)
  BY <1>1, WFMin
<1>4. x # 0 /\ x \in Nat
  BY <1>3
<1>5. x - 1 \in Nat /\ x - 1 < x /\ (x - 1) + 1 = x
  BY SMT, <1>4
<1>6. x - 1 \in S
  BY <1>2, <1>3, <1>5
<1> QED
  BY <1>3, <1>5, <1>6


\* The registries between the records of a log.
Registries(f, start, lines, k) ==
  f = [n \in 0..k |-> IF n = 0 THEN start ELSE accept(f[n - 1], lines[n])]

\* The function that replayed defines by recursion exists.
LEMMA RegistriesExist ==
  ASSUME NEW start, NEW lines
  PROVE  \A k \in Nat : \E f : Registries(f, start, lines, k)
<1> DEFINE S == {k \in Nat : \E f : Registries(f, start, lines, k)}
<1>1. 0 \in S
  <2> DEFINE f == [n \in 0..0 |-> start]
  <2>1. \A n \in 0..0 : n = 0
    BY SMT
  <2>2. f = [n \in 0..0 |-> IF n = 0 THEN start ELSE accept(f[n - 1], lines[n])]
    BY <2>1
  <2> QED
    BY <2>2 DEF Registries
<1>2. ASSUME NEW k \in Nat, k \in S PROVE k + 1 \in S
  <2>1. PICK f : Registries(f, start, lines, k)
    BY <1>2
  <2> DEFINE g == [n \in 0..(k + 1) |-> IF n = k + 1 THEN accept(f[k], lines[k + 1]) ELSE f[n]]
             h == [n \in 0..(k + 1) |-> IF n = 0 THEN start ELSE accept(g[n - 1], lines[n])]
  <2>2. /\ k + 1 \in Nat /\ k + 1 # 0 /\ (k + 1) - 1 = k /\ k # k + 1
        /\ k \in 0..(k + 1) /\ 0 \in 0..k
        /\ \A n \in 0..(k + 1) : n # k + 1 => n \in 0..k
        /\ \A n \in 0..k : n # 0 => n - 1 \in 0..(k + 1) /\ n - 1 # k + 1
    BY SMT
  <2>3. \A n \in 0..k : f[n] = IF n = 0 THEN start ELSE accept(f[n - 1], lines[n])
    BY <2>1 DEF Registries
  <2>4. ASSUME NEW n \in 0..(k + 1) PROVE g[n] = h[n]
    <3>1. CASE n = k + 1
      <4>1. g[k] = f[k]
        BY <2>2
      <4>2. h[n] = accept(g[(k + 1) - 1], lines[k + 1])
        BY <2>2, <3>1
      <4> QED
        BY <2>2, <3>1, <4>1, <4>2
    <3>2. CASE n = 0
      BY <2>2, <2>3, <3>2
    <3>3. CASE n # 0 /\ n # k + 1
      <4>1. n \in 0..k /\ g[n] = f[n] /\ h[n] = accept(g[n - 1], lines[n])
        BY <2>2, <3>3
      <4>2. g[n - 1] = f[n - 1]
        BY <2>2, <3>3, <4>1
      <4> QED
        BY <2>3, <3>3, <4>1, <4>2
    <3> QED
      BY <3>1, <3>2, <3>3
  <2>5. g = h
    BY <2>4
  <2>6. Registries(g, start, lines, k + 1)
    <3>1. h = [n \in 0..(k + 1) |-> IF n = 0 THEN start ELSE accept(g[n - 1], lines[n])]
      OBVIOUS
    <3> HIDE DEF g, h
    <3> QED
      BY <2>5, <3>1 DEF Registries
  <2> QED
    BY <2>2, <2>6
<1> HIDE DEF S
<1>3. Nat \subseteq S
  BY <1>1, <1>2, Induction
<1> QED
  BY <1>3 DEF S

begun(m, log) == IF log.torn THEN [m EXCEPT !.rejected = @ + 1] ELSE m

\* Replay as a walk from registry to registry.
Walk(f, m, log) ==
  /\ f[0] = begun(m, log)
  /\ \A n \in 0..Len(log.lines) : n # Len(log.lines) => f[n + 1] = accept(f[n], log.lines[n + 1])
  /\ replayed(m, log) = f[Len(log.lines)]

\* The registry after replay is where such a walk ends.
LEMMA WalkExists ==
  ASSUME NEW m, NEW log, Len(log.lines) \in Nat
  PROVE  \E f : Walk(f, m, log)
<1> DEFINE start == begun(m, log)
           L == Len(log.lines)
           after == CHOOSE f : Registries(f, start, log.lines, L)
<1>1. Registries(after, start, log.lines, L)
  BY RegistriesExist
<1>2. replayed(m, log) = after[L]
  BY DEF replayed, Registries, begun
<1> HIDE DEF after, start
<1>3. \A n \in 0..L : after[n] = IF n = 0 THEN start ELSE accept(after[n - 1], log.lines[n])
  BY <1>1 DEF Registries
<1>4. 0 \in 0..L /\ \A n \in 0..L : n # L => n + 1 \in 0..L /\ n + 1 # 0 /\ (n + 1) - 1 = n
  BY SMT
<1>5. after[0] = start
  BY <1>3, <1>4
<1>6. ASSUME NEW n \in 0..L, n # L
      PROVE  after[n + 1] = accept(after[n], log.lines[n + 1])
  <2>1. after[n + 1] = accept(after[(n + 1) - 1], log.lines[n + 1])
    BY <1>3, <1>4, <1>6
  <2> QED
    BY <1>4, <1>6, <2>1
<1>7. Walk(after, m, log)
  BY <1>2, <1>5, <1>6 DEF Walk, start
<1> QED
  BY <1>7

\* Registries that follow each other.
LEMMA FollowsTwice ==
  ASSUME NEW m, NEW n, NEW o, Follows(n, m), Follows(o, n)
  PROVE  Follows(o, m)
  BY DEF Follows

\* The record without its newline is counted as rejected before the others are read.
LEMMA Begun ==
  ASSUME NEW m, Registry(m), NEW log
  PROVE  LET n == begun(m, log) IN SameBooks(n, m) /\ n.duplicates = m.duplicates
<1>1. DOMAIN m = Fields
  BY DEF Registry
<1> QED
  BY <1>1 DEF begun, SameBooks, Fields

\* Every registry of the walk follows the one before it, and the first.
LEMMA WalkFollows ==
  ASSUME NEW m, Registry(m), NEW log, Len(log.lines) \in Nat,
         \A i \in 1..Len(log.lines) : Record(log.lines[i]), NEW f, Walk(f, m, log)
  PROVE  \A n \in 0..Len(log.lines) :
           /\ Follows(f[n], m)
           /\ n # Len(log.lines) => Follows(f[n + 1], f[n])
<1> DEFINE L == Len(log.lines)
           S == {n \in Nat : n \in 0..L => Follows(f[n], m)}
<1>1. Follows(f[0], m)
  BY Begun, BooksKept DEF Walk
<1>2. ASSUME NEW n \in 0..L, n # L, Follows(f[n], m)
      PROVE  Follows(f[n + 1], f[n])
  <2>1. Record(log.lines[n + 1])
    BY SMT, <1>2
  <2>2. f[n + 1] = accept(f[n], log.lines[n + 1])
    BY <1>2 DEF Walk
  <2>3. Registry(f[n])
    BY <1>2 DEF Follows
  <2> QED
    BY <2>1, <2>2, <2>3, AcceptFollows
<1>3. 0 \in S
  BY <1>1
<1>4. ASSUME NEW n \in Nat, n \in S PROVE n + 1 \in S
  <2>1. n + 1 \in Nat /\ (n + 1 \in 0..L => n \in 0..L /\ n # L)
    BY SMT
  <2>2. ASSUME n + 1 \in 0..L PROVE Follows(f[n + 1], m)
    <3>1. Follows(f[n], m)
      BY <1>4, <2>1, <2>2
    <3> QED
      BY <1>2, <2>1, <2>2, <3>1, FollowsTwice
  <2> QED
    BY <2>1, <2>2
<1> HIDE DEF S
<1>5. Nat \subseteq S
  BY <1>3, <1>4, Induction
<1>6. \A n \in 0..L : n \in Nat
  BY SMT
<1>7. \A n \in 0..L : Follows(f[n], m)
  BY <1>5, <1>6 DEF S
<1> QED
  BY <1>2, <1>7

\* The registry would admit the record.
Fresh(m, r) ==
  /\ identity(r) \notin Range(m.order)
  /\ ~(terminal(r) /\ concluded(m, r.attempt))

\* The first k records of the log have entered the registry, and nothing else has.
Entering(n, m, lines, k) ==
  /\ m.replay_evictions = 0 /\ n.duplicates = m.duplicates
  /\ Len(n.order) = Len(m.order) + k
  /\ \A i \in 1..Len(m.order) : n.order[i] = m.order[i]
  /\ \A i \in 1..k : n.order[Len(m.order) + i] = identity(lines[i])
  /\ \A a : concluded(n, a) <=>
       concluded(m, a) \/ \E i \in 1..k : terminal(lines[i]) /\ lines[i].attempt = a

\* The positions in a list.
LEMMA ListDomain ==
  ASSUME NEW S, NEW list \in Seq(S)
  PROVE  DOMAIN list = 1..Len(list)
  BY SMT

\* One of M + k positions is one of the first M or so many behind them.
LEMMA Positions ==
  ASSUME NEW M \in Nat, NEW k \in Nat, NEW j \in 1..(M + k)
  PROVE  j \in 1..M \/ \E i \in 1..k : j = M + i
<1>1. j \in 1..M \/ (j - M \in 1..k /\ j = M + (j - M))
  BY SMT
<1> QED
  BY <1>1

\* A record that repeats none of the first k and that the first registry did not know is
\* admitted behind them.
LEMMA EnteringMore ==
  ASSUME NEW m, NEW n, NEW lines, NEW k \in Nat, Registry(m), Registry(n),
         Entering(n, m, lines, k), Fresh(m, lines[k + 1]), Record(lines[k + 1]),
         \A i \in 1..k : Apart(lines[i], lines[k + 1]),
         accept(n, lines[k + 1]).replay_evictions = 0
  PROVE  Entering(accept(n, lines[k + 1]), m, lines, k + 1)
<1> DEFINE r == lines[k + 1]
           o == accept(n, r)
           M == Len(m.order)
<1>1. /\ m.order \in Seq(Identities) /\ n.order \in Seq(Identities) /\ M \in Nat
      /\ identity(r) \in Identities
  <2>1. m.order \in Seq(Identities) /\ n.order \in Seq(Identities)
    BY DEF Registry
  <2>2. M \in Nat
    BY SMT, <2>1
  <2> QED
    BY <2>1, <2>2 DEF Record
<1>2. identity(r) \notin Range(n.order)
  <2>1. ASSUME NEW j \in DOMAIN n.order, n.order[j] = identity(r) PROVE FALSE
    <3>1. Len(n.order) = M + k
      BY DEF Entering
    <3>2. j \in 1..M \/ \E i \in 1..k : j = M + i
      <4> HIDE DEF M
      <4>1. DOMAIN n.order = 1..Len(n.order)
        BY <1>1, ListDomain
      <4>2. j \in 1..(M + k)
        BY <2>1, <3>1, <4>1
      <4> QED
        BY <1>1, <4>2, Positions
    <3>3. CASE j \in 1..M
      <4>1. m.order[j] = identity(r)
        BY <2>1, <3>3 DEF Entering
      <4>2. j \in DOMAIN m.order
        BY SMT, <1>1, <3>3
      <4> QED
        BY <4>1, <4>2 DEF Fresh, Range
    <3>4. ASSUME NEW i \in 1..k, j = M + i PROVE FALSE
      <4>1. identity(lines[i]) = identity(r)
        BY <2>1, <3>4 DEF Entering
      <4> QED
        BY <4>1 DEF Apart
    <3> QED
      BY <3>2, <3>3, <3>4
  <2> QED
    BY <2>1 DEF Range
<1>3. ~(terminal(r) /\ concluded(n, r.attempt))
  BY DEF Entering, Fresh, Apart
<1>4. verdict(n, r) = "accepted"
  BY <1>2, <1>3 DEF verdict
<1>5. /\ o.order = Append(n.order, identity(r)) /\ o.duplicates = n.duplicates
      /\ \A a : concluded(o, a) <=> concluded(n, a) \/ (terminal(r) /\ a = r.attempt)
  BY <1>4, Accepted DEF Enters
<1> HIDE DEF o
<1>6. /\ m.replay_evictions = 0 /\ o.duplicates = m.duplicates
      /\ Len(n.order) = M + k
      /\ \A i \in 1..M : n.order[i] = m.order[i]
      /\ \A i \in 1..k : n.order[M + i] = identity(lines[i])
  BY <1>5 DEF Entering
<1>7. /\ Len(o.order) = M + (k + 1)
      /\ \A i \in 1..M : o.order[i] = n.order[i]
      /\ \A i \in 1..k : o.order[M + i] = n.order[M + i]
      /\ o.order[M + (k + 1)] = identity(r)
  <2> DEFINE x == identity(r)
             order == n.order
  <2>1. order \in Seq(Identities) /\ x \in Identities /\ Len(order) = M + k /\ M \in Nat
        /\ o.order = Append(order, x)
    BY <1>1, <1>5, <1>6
  <2> HIDE DEF x, order, r, M
  <2>2. /\ Len(o.order) = M + (k + 1)
        /\ \A i \in 1..M : o.order[i] = order[i]
        /\ \A i \in 1..k : o.order[M + i] = order[M + i]
        /\ o.order[M + (k + 1)] = x
    BY SMT, <2>1
  <2> QED
    BY <2>2 DEF x, order
<1>8. \A i : i \in 1..(k + 1) <=> i \in 1..k \/ i = k + 1
  BY SMT
<1>9. \A i \in 1..(k + 1) : o.order[M + i] = identity(lines[i])
  BY <1>6, <1>7, <1>8
<1>10. \A a : concluded(o, a) <=>
         concluded(m, a) \/ \E i \in 1..(k + 1) : terminal(lines[i]) /\ lines[i].attempt = a
  <2>1. \A a : concluded(n, a) <=>
          concluded(m, a) \/ \E i \in 1..k : terminal(lines[i]) /\ lines[i].attempt = a
    BY DEF Entering
  <2> QED
    BY <1>5, <1>8, <2>1
<1> QED
  BY <1>6, <1>7, <1>9, <1>10 DEF Entering, o

Lines(lines) ==
  /\ Len(lines) \in Nat /\ DOMAIN lines = 1..Len(lines)
  /\ \A i \in 1..Len(lines) : Record(lines[i])

\* What replay makes of one log.
LEMMA ReplayFollows ==
  ASSUME NEW m, Registry(m), NEW log, Lines(log.lines)
  PROVE  Follows(replayed(m, log), m)
<1> DEFINE L == Len(log.lines)
<1>1. PICK f : Walk(f, m, log)
  BY WalkExists DEF Lines
<1>2. L \in 0..L
  BY SMT DEF Lines
<1>3. Follows(f[L], m)
  BY <1>1, <1>2, WalkFollows DEF Lines
<1> QED
  BY <1>1, <1>3 DEF Walk

\* A log without repetitions, of records the registry does not know, enters it as a whole.
LEMMA ReplayAdmits ==
  ASSUME NEW m, Registry(m), NEW log, Lines(log.lines), Distinct(log.lines),
         \A i \in 1..Len(log.lines) : Fresh(m, log.lines[i]),
         replayed(m, log).replay_evictions = 0
  PROVE  Entering(replayed(m, log), m, log.lines, Len(log.lines))
<1> DEFINE lines == log.lines
           L == Len(lines)
<1>1. PICK f : Walk(f, m, log)
  BY WalkExists DEF Lines
<1>2. \A n \in 0..L : Follows(f[n], m) /\ (n # L => Follows(f[n + 1], f[n]))
  BY <1>1, WalkFollows DEF Lines
<1> DEFINE S == {n \in Nat : n \in 0..L /\ f[n].replay_evictions = 0 =>
                               Entering(f[n], m, lines, n)}
<1>3. 0 \in S
  <2> SUFFICES ASSUME f[0].replay_evictions = 0 PROVE Entering(f[0], m, lines, 0)
    OBVIOUS
  <2>1. SameBooks(f[0], m) /\ f[0].duplicates = m.duplicates
    <3>1. f[0] = begun(m, log)
      BY <1>1 DEF Walk
    <3>2. SameBooks(begun(m, log), m) /\ begun(m, log).duplicates = m.duplicates
      BY Begun
    <3> QED
      BY <3>1, <3>2
  <2>2. Len(m.order) + 0 = Len(m.order) /\ \A i \in 1..0 : FALSE
    <3>1. Len(m.order) \in Nat
      BY SMT DEF Registry
    <3> QED
      BY SMT, <3>1
  <2>3. \A a : concluded(f[0], a) <=> concluded(m, a)
    BY <2>1 DEF SameBooks, concluded
  <2> QED
    BY <2>1, <2>2, <2>3 DEF SameBooks, Entering
<1>4. ASSUME NEW n \in Nat, n \in S PROVE n + 1 \in S
  <2>1. n + 1 \in Nat
    BY SMT
  <2> SUFFICES ASSUME n + 1 \in 0..L, f[n + 1].replay_evictions = 0
               PROVE  Entering(f[n + 1], m, lines, n + 1)
    BY <2>1
  <2>2. n \in 0..L /\ n # L /\ n + 1 \in 1..L /\ \A i \in 1..n : i \in 1..L /\ i # n + 1
    BY SMT DEF Lines
  <2>3. Registry(f[n]) /\ f[n].replay_evictions = 0
    BY <1>2, <2>2 DEF Follows
  <2>4. Entering(f[n], m, lines, n)
    BY <1>4, <2>2, <2>3
  <2>5. f[n + 1] = accept(f[n], lines[n + 1])
    BY <1>1, <2>2 DEF Walk
  <2>6. Fresh(m, lines[n + 1]) /\ Record(lines[n + 1])
    BY <2>2 DEF Lines
  <2>7. \A i \in 1..n : Apart(lines[i], lines[n + 1])
    BY <2>2 DEF Lines, Distinct
  <2> QED
    BY <2>3, <2>4, <2>5, <2>6, <2>7, EnteringMore
<1> HIDE DEF S
<1>5. Nat \subseteq S
  BY <1>3, <1>4, Induction
<1>6. L \in Nat /\ L \in 0..L
  BY SMT DEF Lines
<1>7. f[L] = replayed(m, log)
  BY <1>1 DEF Walk
<1>8. L \in S
  BY <1>5, <1>6
<1> QED
  BY <1>6, <1>7, <1>8 DEF S

\* A new collector has counted nothing.
LEMMA EmptyRegistry ==
  /\ Registry(default) /\ CountsOnce(default)
  /\ default.order = <<>> /\ default.duplicates = 0 /\ \A a : ~concluded(default, a)
<1>1. /\ DOMAIN default = Fields /\ default.order = <<>> /\ default.attempts = <<>>
      /\ default.attempt_order = <<>> /\ default.histograms = <<>>
      /\ default.counters = <<>> /\ default.duplicates = 0 /\ default.overflow = 0
      /\ default.replay_evictions = 0
  BY DEF default, Fields
<1>2. /\ DOMAIN <<>> = {} /\ <<>> \in Seq(Identities) /\ <<>> \in Seq(Emitters)
      /\ Len(<<>>) = 0 /\ 0 \in Nat /\ 0 <= 0 + 0
  BY SMT
<1>b. 0 <= MAX_REPLAY /\ 0 + 0 <= MAX_SERIES
  BY SMT, BoundsAssumption DEF BoundsAssumption
<1>3. totals(default) = {} /\ terminals(default) = {}
  BY <1>1, <1>2 DEF totals, terminals
<1>4. units(default.counters, totals(default)) = {}
  BY <1>3 DEF units
<1>5. IsFiniteSet({}) /\ Cardinality({}) = 0
  BY FS_EmptySet
<1>6. Counters(default)
  BY <1>1, <1>2, <1>4, <1>5, <1>b DEF Counters, series
<1>q. Queued(default)
  BY <1>1, <1>2, <1>5, <1>b DEF Queued, Once, Range
<1>7. Registry(default)
  BY <1>1, <1>2, <1>5, <1>6, <1>b, <1>q DEF Registry
<1>8. CountsOnce(default)
  BY <1>1, <1>2, <1>3, <1>4, <1>5 DEF CountsOnce, completions
<1>9. \A a : ~concluded(default, a)
  BY <1>1, <1>2 DEF concluded
<1> QED
  BY <1>1, <1>7, <1>8, <1>9

\* Both logs replayed into a new registry: all that they hold is in it, in their order.
LEMMA ReplayBoth ==
  ASSUME NEW old, NEW new, Lines(old.lines), Lines(new.lines),
         Distinct(old.lines), Distinct(new.lines),
         \A i \in 1..Len(old.lines), j \in 1..Len(new.lines) : Apart(old.lines[i], new.lines[j]),
         replayed(replayed(default, old), new).replay_evictions = 0
  PROVE  LET n == replayed(replayed(default, old), new)
             P == Len(old.lines)
             C == Len(new.lines)
         IN /\ n.duplicates = 0
            /\ Len(n.order) = P + C
            /\ \A i \in 1..P : n.order[i] = identity(old.lines[i])
            /\ \A i \in 1..C : n.order[P + i] = identity(new.lines[i])
            /\ \A i \in 1..P : terminal(old.lines[i]) => concluded(n, old.lines[i].attempt)
            /\ \A i \in 1..C : terminal(new.lines[i]) => concluded(n, new.lines[i].attempt)
<1> DEFINE m == replayed(default, old)
           n == replayed(m, new)
           P == Len(old.lines)
           C == Len(new.lines)
<1>1. Registry(m)
  BY EmptyRegistry, ReplayFollows DEF Follows
<1>2. m.replay_evictions = 0
  BY <1>1, ReplayFollows DEF Follows
<1>3. P \in Nat /\ C \in Nat
  BY DEF Lines
<1>4. \A i \in 1..P : Fresh(default, old.lines[i])
  <2>1. Range(default.order) = {}
    <3>1. DOMAIN <<>> = {}
      BY SMT
    <3> QED
      BY <3>1, EmptyRegistry DEF Range
  <2> QED
    BY <2>1, EmptyRegistry DEF Fresh
<1>5. Entering(m, default, old.lines, P)
  BY <1>2, <1>4, EmptyRegistry, ReplayAdmits
<1>6. /\ m.duplicates = 0 /\ Len(m.order) = P
      /\ \A i \in 1..P : m.order[i] = identity(old.lines[i])
      /\ \A a : concluded(m, a) <=>
           \E i \in 1..P : terminal(old.lines[i]) /\ old.lines[i].attempt = a
  <2>1. Len(default.order) = 0
    BY SMT, EmptyRegistry
  <2>2. 0 + P = P /\ \A i \in 1..P : 0 + i = i
    BY SMT, <1>3
  <2>3. /\ m.duplicates = default.duplicates /\ Len(m.order) = 0 + P
        /\ \A i \in 1..P : m.order[0 + i] = identity(old.lines[i])
        /\ \A a : concluded(m, a) <=>
             concluded(default, a) \/ \E i \in 1..P : terminal(old.lines[i]) /\ old.lines[i].attempt = a
    BY <1>5, <2>1 DEF Entering
  <2> QED
    BY <2>2, <2>3, EmptyRegistry
<1> HIDE DEF m
<1>7. ASSUME NEW j \in 1..C PROVE Fresh(m, new.lines[j])
  <2>1. DOMAIN m.order = 1..P
    BY SMT, <1>1, <1>6 DEF Registry
  <2>2. identity(new.lines[j]) \notin Range(m.order)
    <3>1. \A i \in 1..P : identity(old.lines[i]) # identity(new.lines[j])
      BY <1>7 DEF Apart
    <3>2. \A i \in DOMAIN m.order : m.order[i] # identity(new.lines[j])
      BY <1>6, <2>1, <3>1
    <3> QED
      BY <3>2 DEF Range
  <2>3. ASSUME terminal(new.lines[j]), concluded(m, new.lines[j].attempt) PROVE FALSE
    <3>1. PICK i \in 1..P : terminal(old.lines[i]) /\ old.lines[i].attempt = new.lines[j].attempt
      BY <1>6, <2>3
    <3>2. Apart(old.lines[i], new.lines[j])
      BY <1>7, <3>1
    <3> QED
      BY <2>3, <3>1, <3>2 DEF Apart
  <2> QED
    BY <2>2, <2>3 DEF Fresh
<1>8. n.replay_evictions = 0
  BY DEF m
<1>9. Entering(n, m, new.lines, C)
  BY <1>1, <1>7, <1>8, ReplayAdmits
<1> HIDE DEF n
<1>10. /\ n.duplicates = 0 /\ Len(n.order) = P + C
       /\ \A i \in 1..P : n.order[i] = identity(old.lines[i])
       /\ \A i \in 1..C : n.order[P + i] = identity(new.lines[i])
  BY <1>6, <1>9 DEF Entering
<1>11. /\ \A i \in 1..P : terminal(old.lines[i]) => concluded(n, old.lines[i].attempt)
       /\ \A i \in 1..C : terminal(new.lines[i]) => concluded(n, new.lines[i].attempt)
  BY <1>6, <1>9 DEF Entering
<1> QED
  BY <1>10, <1>11 DEF n, m

-----------------------------------------------------------------------------
(* The steps                                                               *)

\* A list of members of a set is one of members of a larger set.
LEMMA SeqWithin ==
  ASSUME NEW S, NEW T, S \subseteq T, NEW list \in Seq(S)
  PROVE  list \in Seq(T)
  BY SMT

\* Logs of sent records stay that when more is sent.
LEMMA LogWithin ==
  ASSUME sent \subseteq sent', NEW log \in Log
  PROVE  log \in [lines : Seq(sent'), torn : BOOLEAN]
<1>1. log.lines \in Seq(sent')
  BY SeqWithin DEF Log
<1> QED
  BY <1>1 DEF Log

\* The records that were sent carry an event of the code under a number of their emitter.
LEMMA SentRecord ==
  ASSUME NEW r, r.attempt \in Emitters, r.sequence \in Nat, r.event \in Emitted
  PROVE  Record(r)
<1>1. identity(r) \in Identities
  BY DEF identity, Identities
<1>2. r.event.component = "client" => r.event.operation # "serve"
  BY EventsAssumption DEF EventsAssumption, Emitted
<1> QED
  BY <1>1, <1>2 DEF Record

\* The emitters make and send records of events, and leave the logs alone.
LEMMA SentCall ==
  ASSUME IInv, IInv', Sent, NEW t \in Threads, Call(t)
  PROVE  Sent'
<1>1. UNCHANGED <<state, current, previous, pending>> /\ DOMAIN call = Threads
  BY DEF Call, disk, IInv
<1>2. ASSUME NEW u \in Threads, u # t PROVE call'[u] = call[u]
  BY <1>1, <1>2 DEF Call, EmitterStep, Emit, MakeRecord, Send
<1>3. /\ call'[t].step = "numbered" => call'[t].event \in Emitted
      /\ call'[t].step = "made" => call'[t].record.event \in Emitted
  <2>1. CASE Emit(t)
    <3>1. call' = call \/ \E event \in Emitted :
            call' = [call EXCEPT ![t] = [step |-> "numbered", event |-> event,
                                         sequence |-> sequence[owner[t]]]]
      <4>1. owner[t] \in Emitters
        BY OwnerAssumption DEF OwnerAssumption
      <4>2. \A event \in Events[owner[t]] : event \in Emitted
        BY <4>1 DEF Emitted
      <4> QED
        BY <2>1, <4>2 DEF Emit
    <3>2. CASE call' = call
      BY <3>2 DEF Sent
    <3>3. ASSUME NEW event \in Emitted,
                 call' = [call EXCEPT ![t] = [step |-> "numbered", event |-> event,
                                              sequence |-> sequence[owner[t]]]]
          PROVE  call'[t].step = "numbered" /\ call'[t].event \in Emitted
      BY <1>1, <3>3
    <3> QED
      BY <3>1, <3>2, <3>3
  <2>2. CASE MakeRecord(t)
    <3>1. /\ call[t].step = "numbered" /\ call'[t].step = "made"
          /\ call'[t].record.event = call[t].event
      BY SMT, <1>1, <2>2 DEF MakeRecord
    <3> QED
      BY <3>1 DEF Sent
  <2>3. CASE Send(t)
    BY <1>1, <2>3 DEF Send, Idle
  <2> QED
    BY <2>1, <2>2, <2>3 DEF Call, EmitterStep
<1>4. /\ \A u \in Threads : call'[u].step = "numbered" => call'[u].event \in Emitted
      /\ \A u \in Threads : call'[u].step = "made" => call'[u].record.event \in Emitted
  BY <1>2, <1>3 DEF Sent
<1>5. \/ UNCHANGED <<queue, sent>>
      \/ /\ call[t].step = "made"
         /\ queue' = Append(queue, call[t].record) /\ sent' = sent \cup {call[t].record}
  BY DEF Call, EmitterStep, Emit, MakeRecord, Send, channel
<1>6. sent \subseteq sent' /\ queue' \in Seq(sent') /\ \A r \in sent' : Record(r)
  <2>1. CASE UNCHANGED <<queue, sent>>
    BY <2>1 DEF Sent
  <2>2. CASE /\ call[t].step = "made"
             /\ queue' = Append(queue, call[t].record) /\ sent' = sent \cup {call[t].record}
    <3> DEFINE r == call[t].record
    <3>1. r \in sent' /\ sent \subseteq sent'
      BY <2>2
    <3>2. r.attempt \in Emitters /\ r.sequence \in Nat
      BY <3>1 DEF IInv
    <3>3. r.event \in Emitted
      BY <2>2 DEF Sent
    <3>4. Record(r)
      BY <3>2, <3>3, SentRecord
    <3>5. queue \in Seq(sent')
      BY <3>1, SeqWithin DEF Sent
    <3>6. Append(queue, r) \in Seq(sent')
      <4> HIDE DEF r
      <4> QED
        BY SMT, <3>1, <3>5
    <3> QED
      BY <2>2, <3>1, <3>4, <3>6 DEF Sent
  <2> QED
    BY <1>5, <2>1, <2>2
<1>7. current' \in Log' /\ previous' \in Log'
  <2>1. current \in Log /\ previous \in Log
    BY DEF Sent
  <2>2. Log' = [lines : Seq(sent'), torn : BOOLEAN]
    BY DEF Log
  <2> QED
    BY <1>1, <1>6, <2>1, <2>2, LogWithin
<1>8. state' = "writing" => pending' \in sent'
  BY <1>1, <1>6 DEF Sent
<1> QED
  BY <1>4, <1>6, <1>7, <1>8 DEF Sent

\* A step of which the registry and the logs see nothing.
LEMMA BooksUntouched ==
  ASSUME CInv, Sent', UNCHANGED <<state, metrics, current, previous, pending, evicted>>
  PROVE  CInv'
<1>1. logged' = logged /\ history' = history
  BY DEF logged, history
<1>2. Retained'
  BY <1>1 DEF CInv, Retained
<1>3. ReplayRestoresHistory'
  BY <1>1 DEF CInv, ReplayRestoresHistory
<1> QED
  BY <1>2, <1>3 DEF CInv

\* The steps of the emitters, of the network and of the service manager.
LEMMA CInvOutside ==
  ASSUME IInv, IInv', CInv,
         (\E t \in Threads : Call(t)) \/ Copy \/ RemoveSocket \/ UNCHANGED vars
  PROVE  CInv'
<1>1. Sent
  BY DEF CInv
<1>2. ASSUME NEW t \in Threads, Call(t) PROVE CInv'
  <2>1. Sent'
    BY <1>1, <1>2, SentCall
  <2> QED
    BY <1>2, <2>1, BooksUntouched DEF Call, disk
<1>3. ASSUME UNCHANGED <<call, sent, state, metrics, current, previous, pending, evicted>>,
             queue' \in Seq(sent)
      PROVE  CInv'
  <2>1. Log' = Log
    BY <1>3 DEF Log
  <2>2. Sent'
    BY <1>1, <1>3, <2>1 DEF Sent
  <2> QED
    BY <1>3, <2>2, BooksUntouched
<1>4. queue \in Seq(sent)
  BY <1>1 DEF Sent
<1>5. CASE Copy
  <2>1. PICK r \in sent : queue' = Append(queue, r)
    BY <1>5 DEF Copy
  <2>2. queue' \in Seq(sent)
    BY SMT, <1>4, <2>1
  <2> QED
    BY <1>3, <1>5, <2>2 DEF Copy, emitter, disk
<1>6. CASE RemoveSocket \/ UNCHANGED vars
  BY <1>3, <1>4, <1>6 DEF RemoveSocket, vars, emitter, channel, disk
<1> QED
  BY <1>2, <1>5, <1>6

\* A collector that starts has an empty registry, and the logs are as they were.
LEMMA CInvStart ==
  ASSUME CInv, Start \/ Open
  PROVE  CInv'
<1>1. /\ UNCHANGED <<call, queue, sent, current, previous, evicted>>
      /\ state' \in {"replaying", "up"}
  BY DEF Start, Open, emitter, channel, disk
<1>2. Log' = Log /\ logged' = logged
  BY <1>1 DEF Log, logged
<1>3. Sent'
  BY <1>1, <1>2 DEF CInv, Sent
<1>4. ReplayRestoresHistory'
  BY <1>1 DEF ReplayRestoresHistory
<1>5. CASE Start
  <2>1. metrics' = default /\ state' = "replaying"
    BY <1>5 DEF Start
  <2>2. Registry(metrics') /\ CountsOnce(metrics')
    BY <2>1, EmptyRegistry
  <2>3. Retained'
    BY <1>1, <1>2, <2>1 DEF CInv, Retained
  <2> QED
    BY <1>3, <1>4, <2>1, <2>2, <2>3 DEF CInv
<1>6. CASE Open
  <2>1. metrics' = metrics /\ state = "replayed" /\ state' = "up"
    BY <1>6 DEF Open
  <2>2. Retained'
    BY <1>1, <1>2, <2>1 DEF CInv, Retained
  <2> QED
    BY <1>3, <1>4, <2>1, <2>2 DEF CInv
<1> QED
  BY <1>5, <1>6

\* The lines of a log, as replay reads them.
LEMMA LogLines ==
  ASSUME Sent, NEW log \in Log
  PROVE  Lines(log.lines) /\ Range(log.lines) \subseteq sent
<1>1. log.lines \in Seq(sent)
  BY DEF Log
<1>2. /\ Len(log.lines) \in Nat /\ DOMAIN log.lines = 1..Len(log.lines)
      /\ \A i \in 1..Len(log.lines) : log.lines[i] \in sent
  BY SMT, <1>1
<1>3. \A i \in 1..Len(log.lines) : Record(log.lines[i])
  BY <1>2 DEF Sent
<1>4. Range(log.lines) \subseteq sent
  BY <1>2 DEF Range
<1> QED
  BY <1>2, <1>3, <1>4 DEF Lines

\* The bytes behind the last newline are no record.
LEMMA Repaired ==
  ASSUME NEW log \in Log
  PROVE  repaired(log) \in Log /\ repaired(log).lines = log.lines
  BY DEF repaired, Log

\* A list is a function on its positions.
LEMMA ListIs ==
  ASSUME NEW S, NEW x \in Seq(S)
  PROVE  x = [i \in 1..Len(x) |-> x[i]]
  BY SMT

\* Two lists, one behind the other.
LEMMA Concatenated ==
  ASSUME NEW S, NEW x \in Seq(S), NEW y \in Seq(S)
  PROVE  /\ Len(x) \in Nat /\ Len(y) \in Nat /\ Len(x) + Len(y) \in Nat
         /\ DOMAIN (x \o y) = 1..(Len(x) + Len(y))
         /\ \A i \in 1..Len(x) : (x \o y)[i] = x[i]
         /\ \A i \in 1..Len(y) : (x \o y)[Len(x) + i] = y[i]
         /\ \A i \in 1..(Len(x) + Len(y)) :
              i \in 1..Len(x) \/ (i - Len(x) \in 1..Len(y) /\ Len(x) + (i - Len(x)) = i)
<1>1. Len(x) \in Nat /\ Len(y) \in Nat /\ Len(x) + Len(y) \in Nat
  BY SMT
<1>2. DOMAIN (x \o y) = 1..(Len(x) + Len(y))
  BY SMT
<1>3. \A i \in 1..Len(x) : (x \o y)[i] = x[i]
  BY SMT
<1>4. \A i \in 1..Len(y) : (x \o y)[Len(x) + i] = y[i]
  BY SMT
<1>5. \A i \in 1..(Len(x) + Len(y)) :
        i \in 1..Len(x) \/ (i - Len(x) \in 1..Len(y) /\ Len(x) + (i - Len(x)) = i)
  BY SMT, <1>1
<1> QED
  BY <1>1, <1>2, <1>3, <1>4, <1>5

\* The identities of both logs, one behind the other.
LEMMA HistoryIds ==
  ASSUME Sent, NEW order \in Seq(Identities),
         Len(order) = Len(previous.lines) + Len(current.lines),
         \A i \in 1..Len(previous.lines) : order[i] = identity(previous.lines[i]),
         \A i \in 1..Len(current.lines) :
           order[Len(previous.lines) + i] = identity(current.lines[i])
  PROVE  order = Ids(history)
<1> DEFINE P == Len(previous.lines)
           C == Len(current.lines)
           L == P + C
<1>1. previous.lines \in Seq(sent) /\ current.lines \in Seq(sent)
  BY DEF Sent, Log
<1>2. P \in Nat /\ C \in Nat /\ L \in Nat
  BY <1>1, Concatenated
<1>3. /\ DOMAIN history = 1..L
      /\ \A i \in 1..P : history[i] = previous.lines[i]
      /\ \A i \in 1..C : history[P + i] = current.lines[i]
      /\ \A i \in 1..L : i \in 1..P \/ (i - P \in 1..C /\ P + (i - P) = i)
  <2>1. ASSUME NEW x \in Seq(sent), NEW y \in Seq(sent)
        PROVE  /\ DOMAIN (x \o y) = 1..(Len(x) + Len(y))
               /\ \A i \in 1..Len(x) : (x \o y)[i] = x[i]
               /\ \A i \in 1..Len(y) : (x \o y)[Len(x) + i] = y[i]
               /\ \A i \in 1..(Len(x) + Len(y)) :
                    i \in 1..Len(x) \/ (i - Len(x) \in 1..Len(y) /\ Len(x) + (i - Len(x)) = i)
    BY SMT, Concatenated
  <2> QED
    BY <1>1, <2>1 DEF history
<1>4. Ids(history) = [i \in 1..L |-> identity(history[i])]
  BY <1>3 DEF Ids
<1>5. ASSUME NEW i \in 1..L PROVE order[i] = identity(history[i])
  <2>1. CASE i \in 1..P
    BY <1>3, <2>1
  <2>2. CASE i - P \in 1..C /\ P + (i - P) = i
    <3>1. order[P + (i - P)] = identity(current.lines[i - P])
      BY <2>2
    <3>2. history[P + (i - P)] = current.lines[i - P]
      BY <1>3, <2>2
    <3> QED
      BY <2>2, <3>1, <3>2
  <2> QED
    BY <1>3, <2>1, <2>2
<1>6. order = [i \in 1..L |-> order[i]]
  <2>1. order = [i \in 1..Len(order) |-> order[i]]
    BY ListIs
  <2>2. Len(order) = L
    OBVIOUS
  <2> QED
    BY <2>1, <2>2
<1>7. [i \in 1..L |-> order[i]] = [i \in 1..L |-> identity(history[i])]
  BY <1>5
<1> QED
  BY <1>4, <1>6, <1>7

\* A restart admits all that the logs hold.
LEMMA CInvReplay ==
  ASSUME CInv, replay
  PROVE  CInv'
<1> DEFINE n == replayed(replayed(default, previous), current)
           P == Len(previous.lines)
           C == Len(current.lines)
<1>1. /\ UNCHANGED <<call, queue, sent>> /\ state' = "replayed"
      /\ previous' = repaired(previous) /\ current' = repaired(current)
      /\ metrics' = n /\ evicted' = (evicted \/ n.replay_evictions > 0)
  BY DEF CInv, replay, enter, emitter, channel
<1>2. Sent /\ current \in Log /\ previous \in Log
  BY DEF CInv, Sent
<1>3. /\ previous' \in Log /\ previous'.lines = previous.lines
      /\ current' \in Log /\ current'.lines = current.lines
  BY <1>1, <1>2, Repaired
<1>4. Log' = Log /\ logged' = logged /\ history' = history
  BY <1>1, <1>3 DEF Log, logged, history
<1>5. Sent'
  BY <1>1, <1>2, <1>3, <1>4 DEF Sent
<1>6. Lines(previous.lines) /\ Lines(current.lines)
  BY <1>2, LogLines
<1>7. Registry(n) /\ CountsOnce(n)
  <2>1. Follows(replayed(default, previous), default)
    BY <1>6, EmptyRegistry, ReplayFollows
  <2>2. Follows(n, replayed(default, previous))
    BY <1>6, <2>1, ReplayFollows DEF Follows
  <2> QED
    BY <2>1, <2>2, EmptyRegistry DEF Follows
<1> HIDE DEF n
<1>8. ASSUME ~evicted'
      PROVE  /\ LogsApart(previous.lines, current.lines) /\ n.replay_evictions = 0
             /\ n.duplicates = 0 /\ n.order = Ids(history)
             /\ \A r \in logged : Known(n, r)
  <2>1. ~evicted /\ n.replay_evictions = 0
    <3>1. n.replay_evictions \in Nat /\ ~(n.replay_evictions > 0) /\ ~evicted
      BY <1>1, <1>7, <1>8 DEF Registry
    <3> QED
      BY SMT, <3>1
  <2>2. LogsApart(previous.lines, current.lines)
    BY <2>1 DEF CInv, Retained
  <2>3. \A i \in 1..P, j \in 1..C : Apart(previous.lines[i], current.lines[j])
    BY <1>6, <2>2 DEF LogsApart, Lines, Range
  <2>4. Distinct(previous.lines) /\ Distinct(current.lines)
    BY <2>2 DEF LogsApart
  <2>5. /\ n.duplicates = 0
        /\ Len(n.order) = P + C
        /\ \A i \in 1..P : n.order[i] = identity(previous.lines[i])
        /\ \A i \in 1..C : n.order[P + i] = identity(current.lines[i])
        /\ \A i \in 1..P : terminal(previous.lines[i]) => concluded(n, previous.lines[i].attempt)
        /\ \A i \in 1..C : terminal(current.lines[i]) => concluded(n, current.lines[i].attempt)
    BY <1>6, <2>1, <2>3, <2>4, ReplayBoth DEF n
  <2>6. n.order \in Seq(Identities)
    BY <1>7 DEF Registry
  <2>7. n.order = Ids(history)
    BY <1>2, <2>5, <2>6, HistoryIds
  <2>8. /\ P \in Nat /\ C \in Nat /\ DOMAIN n.order = 1..(P + C)
        /\ \A i \in 1..P : i \in 1..(P + C)
        /\ \A i \in 1..C : P + i \in 1..(P + C)
    <3>1. P \in Nat /\ C \in Nat
      BY <1>6 DEF Lines
    <3>2. DOMAIN n.order = 1..(P + C)
      <4>1. Len(n.order) = P + C
        BY <2>5
      <4> HIDE DEF P, C
      <4> QED
        BY SMT, <2>6, <4>1
    <3> HIDE DEF P, C
    <3>3. /\ \A i \in 1..P : i \in 1..(P + C)
          /\ \A i \in 1..C : P + i \in 1..(P + C)
      BY SMT, <3>1
    <3> QED
      BY <3>1, <3>2, <3>3
  <2>9. \A i \in 1..P : Known(n, previous.lines[i])
    BY <2>5, <2>8 DEF Known, Range
  <2>10. \A i \in 1..C : Known(n, current.lines[i])
    BY <2>5, <2>8 DEF Known, Range
  <2>11. \A r \in logged : Known(n, r)
    BY <1>6, <2>9, <2>10 DEF logged, Lines, Range
  <2> QED
    BY <2>1, <2>2, <2>5, <2>7, <2>11
<1>9. Retained'
  BY <1>1, <1>3, <1>4, <1>8 DEF Retained
<1>10. ReplayRestoresHistory'
  BY <1>1, <1>4, <1>8 DEF ReplayRestoresHistory
<1> QED
  BY <1>1, <1>5, <1>7, <1>9, <1>10 DEF CInv

\* The registry as a step leaves it: what it knew it still knows, unless the eviction shows.
LEMMA CInvEnter ==
  ASSUME CInv, NEW n, Follows(n, metrics), enter(n),
         UNCHANGED <<call, sent, current, previous>>, queue' \in Seq(sent),
         state \in {"up", "writing"}, state' \in {"up", "writing"},
         state' = "writing" => pending' \in sent,
         ~evicted' /\ state' = "writing" =>
           Known(n, pending') /\ \A r \in logged : Apart(r, pending')
  PROVE  CInv'
<1>1. metrics' = n /\ evicted' = (evicted \/ n.replay_evictions > 0)
  BY DEF enter
<1>2. Log' = Log /\ logged' = logged
  BY DEF Log, logged
<1>3. Sent'
  BY <1>2 DEF CInv, Sent
<1>4. Registry(metrics') /\ CountsOnce(metrics')
  BY <1>1 DEF CInv, Follows
<1>5. Retained'
  <2> SUFFICES ASSUME ~evicted'
               PROVE  /\ LogsApart(previous.lines, current.lines)
                      /\ n.replay_evictions = 0 /\ \A r \in logged : Known(n, r)
    BY <1>1, <1>2 DEF Retained
  <2>1. ~evicted /\ n.replay_evictions = 0
    <3>1. n.replay_evictions \in Nat /\ ~(n.replay_evictions > 0) /\ ~evicted
      BY <1>1 DEF Follows, Registry
    <3> QED
      BY SMT, <3>1
  <2> QED
    BY <2>1 DEF CInv, Retained, Follows
<1>6. ReplayRestoresHistory'
  BY DEF ReplayRestoresHistory
<1> QED
  BY <1>3, <1>4, <1>5, <1>6 DEF CInv

\* A datagram is admitted, or it is counted and left.
LEMMA CInvReceive ==
  ASSUME CInv, Receive
  PROVE  CInv'
<1> DEFINE record == Head(queue)
           n == accept(metrics, record)
<1>1. /\ UNCHANGED <<call, sent, current, previous>>
      /\ queue # <<>> /\ queue' = Tail(queue) /\ state = "up"
  BY DEF Receive, emitter, disk
<1>2. queue \in Seq(sent) /\ Registry(metrics)
  BY DEF CInv, Sent
<1>3. queue' \in Seq(sent) /\ record \in sent
  BY SMT, <1>1, <1>2
<1>4. Record(record)
  BY <1>3 DEF CInv, Sent
<1> HIDE DEF record
<1>5. CASE ~listed(record)
  <2> DEFINE o == [metrics EXCEPT !.rejected = @ + 1]
  <2>1. enter(o) /\ state' = "up"
    BY <1>1, <1>5 DEF Receive, record
  <2>2. SameBooks(o, metrics)
    <3>1. DOMAIN metrics = Fields
      BY <1>2 DEF Registry
    <3> QED
      BY <3>1 DEF SameBooks, Fields
  <2> HIDE DEF o
  <2>3. Follows(o, metrics)
    BY <1>2, <2>2, BooksKept
  <2> QED
    BY <1>1, <1>3, <2>1, <2>3, CInvEnter
<1>6. CASE listed(record) /\ verdict(metrics, record) # "accepted"
  <2>1. enter(n) /\ state' = "up"
    BY <1>1, <1>6 DEF Receive, record
  <2>2. Follows(n, metrics)
    BY <1>2, <1>4, AcceptFollows
  <2> HIDE DEF n
  <2> QED
    BY <1>1, <1>3, <2>1, <2>2, CInvEnter
<1>7. CASE listed(record) /\ verdict(metrics, record) = "accepted"
  <2>1. enter(n) /\ state' = "writing" /\ pending' = record
    BY <1>1, <1>7 DEF Receive, record
  <2>2. Follows(n, metrics)
    BY <1>2, <1>4, AcceptFollows
  <2>3. ASSUME ~evicted'
        PROVE  Known(n, record) /\ \A r \in logged : Apart(r, record)
    <3>1. ~evicted /\ n.replay_evictions = 0
      <4>1. n.replay_evictions \in Nat /\ ~(n.replay_evictions > 0) /\ ~evicted
        BY <2>1, <2>2, <2>3 DEF Follows, Registry, enter
      <4> QED
        BY SMT, <4>1
    <3>2. Known(n, record)
      BY <1>2, <1>4, <1>7, <3>1, KnowsAccepted
    <3>3. \A r \in logged : Known(metrics, r)
      BY <1>1, <3>1 DEF CInv, Retained
    <3>4. /\ identity(record) \notin Range(metrics.order)
          /\ ~(terminal(record) /\ concluded(metrics, record.attempt))
      BY <1>7 DEF verdict
    <3>5. ASSUME NEW r, Known(metrics, r) PROVE Apart(r, record)
      BY <3>4, <3>5 DEF Known, Apart
    <3> QED
      BY <3>2, <3>3, <3>5
  <2> HIDE DEF n
  <2> QED
    BY <1>1, <1>3, <2>1, <2>2, <2>3, CInvEnter
<1> QED
  BY <1>5, <1>6, <1>7

\* A failed write is counted; the log is as before.
LEMMA CInvFails ==
  ASSUME CInv, WriteFails \/ ExportFails
  PROVE  CInv'
<1> DEFINE o == [metrics EXCEPT !.write_failures = @ + 1]
<1>1. /\ UNCHANGED <<call, sent, queue, current, previous, evicted>>
      /\ metrics' = o /\ state \in {"up", "writing"} /\ state' = "up"
  BY DEF WriteFails, ExportFails, emitter, channel, disk
<1>2. Registry(metrics) /\ DOMAIN metrics = Fields /\ queue \in Seq(sent)
  BY DEF CInv, Registry, Sent
<1>3. SameBooks(o, metrics)
  BY <1>2 DEF SameBooks, Fields
<1> HIDE DEF o
<1>4. Follows(o, metrics)
  BY <1>2, <1>3, BooksKept
<1>5. Log' = Log /\ logged' = logged
  BY <1>1 DEF Log, logged
<1>6. Sent'
  BY <1>1, <1>5 DEF CInv, Sent
<1>7. Registry(metrics') /\ CountsOnce(metrics')
  BY <1>1, <1>4 DEF CInv, Follows
<1>8. Retained'
  <2> SUFFICES ASSUME ~evicted
               PROVE  /\ LogsApart(previous.lines, current.lines)
                      /\ o.replay_evictions = 0 /\ \A r \in logged : Known(o, r)
    BY <1>1, <1>5 DEF Retained
  <2>1. /\ LogsApart(previous.lines, current.lines)
        /\ metrics.replay_evictions = 0 /\ \A r \in logged : Known(metrics, r)
    BY <1>1 DEF CInv, Retained
  <2>2. o.replay_evictions = 0
    BY <1>3, <2>1 DEF SameBooks
  <2> QED
    BY <1>4, <2>1, <2>2 DEF Follows
<1>9. ReplayRestoresHistory'
  BY <1>1 DEF ReplayRestoresHistory
<1> QED
  BY <1>1, <1>6, <1>7, <1>8, <1>9 DEF CInv

\* A part of a log that keeps the places of its records.
Within(part, lines) ==
  /\ DOMAIN part \subseteq DOMAIN lines
  /\ \A i \in DOMAIN part : part[i] = lines[i]

\* Nothing repeats in parts of two logs in which nothing repeats.
LEMMA PartsApart ==
  ASSUME NEW old, NEW new, NEW o, NEW n, LogsApart(old, new), Within(o, old), Within(n, new)
  PROVE  LogsApart(o, n)
<1>1. Distinct(o) /\ Distinct(n)
  BY DEF LogsApart, Within, Distinct
<1>2. \A r \in Range(o) : r \in Range(old)
  BY DEF Within, Range
<1>3. \A q \in Range(n) : q \in Range(new)
  BY DEF Within, Range
<1> QED
  BY <1>1, <1>2, <1>3 DEF LogsApart

\* The current log becomes the previous one; what was in that one is gone.
LEMMA CInvRotate ==
  ASSUME CInv, Rotate
  PROVE  CInv'
<1>1. /\ UNCHANGED <<call, sent, queue, state, metrics, pending, evicted>>
      /\ previous' = current /\ current' = NoLog /\ state = "writing"
  BY DEF Rotate, emitter, channel
<1>2. NoLog.lines = <<>> /\ DOMAIN <<>> = {} /\ NoLog \in Log
  BY SMT DEF NoLog, Log
<1>3. Log' = Log /\ Range(current'.lines) = {}
  BY <1>1, <1>2 DEF Log, Range
<1>4. logged' \subseteq logged
  BY <1>1, <1>3 DEF logged
<1>5. Sent'
  BY <1>1, <1>2, <1>3 DEF CInv, Sent
<1>6. LogsApart(previous.lines, current.lines) => LogsApart(previous'.lines, current'.lines)
  <2>1. Distinct(current'.lines)
    BY <1>1, <1>2 DEF Distinct
  <2> QED
    BY <1>1, <1>3, <2>1 DEF LogsApart
<1>7. Retained'
  BY <1>1, <1>4, <1>6 DEF CInv, Retained
<1>8. ReplayRestoresHistory'
  BY <1>1 DEF ReplayRestoresHistory
<1> QED
  BY <1>1, <1>5, <1>7, <1>8 DEF CInv

\* g has a value at n beside those of f.
Extends(g, f, n) ==
  DOMAIN g = DOMAIN f \cup {n} /\ \A i \in DOMAIN f : g[i] = f[i]

\* What a list has that is one longer.
LEMMA RangeLonger ==
  ASSUME NEW f, NEW g, NEW n, Extends(g, f, n)
  PROVE  Range(g) = Range(f) \cup {g[n]}
<1> USE DEF Extends
<1>1. ASSUME NEW i \in DOMAIN g PROVE g[i] \in Range(f) \cup {g[n]}
  BY <1>1 DEF Range
<1>2. ASSUME NEW i \in DOMAIN f PROVE f[i] \in Range(g)
  BY <1>2 DEF Range
<1>3. g[n] \in Range(g)
  BY DEF Range
<1>4. Range(g) \subseteq Range(f) \cup {g[n]}
  BY <1>1 DEF Range
<1>5. Range(f) \subseteq Range(g)
  BY <1>2 DEF Range
<1> QED
  BY <1>3, <1>4, <1>5

\* The record that was admitted is appended.
LEMMA CInvWrite ==
  ASSUME CInv, Write
  PROVE  CInv'
<1> DEFINE lines == current.lines
           longer == Append(lines, pending)
<1>1. /\ UNCHANGED <<call, sent, queue, metrics, previous, evicted>>
      /\ state = "writing" /\ state' = "up"
      /\ current' = [current EXCEPT !.lines = longer]
  BY DEF Write, emitter, channel
<1>2. pending \in sent /\ lines \in Seq(sent) /\ current \in Log
  BY <1>1 DEF CInv, Sent, Log
<1>3. /\ longer \in Seq(sent)
      /\ DOMAIN longer = DOMAIN lines \cup {Len(lines) + 1} /\ Len(lines) + 1 \notin DOMAIN lines
      /\ \A i \in DOMAIN lines : longer[i] = lines[i]
      /\ longer[Len(lines) + 1] = pending
  BY SMT, <1>2
<1> HIDE DEF longer
<1>4. current' \in Log /\ current'.lines = longer /\ Log' = Log
  BY <1>1, <1>2, <1>3 DEF Log
<1>5. Range(longer) = Range(lines) \cup {pending}
  <2> HIDE DEF lines
  <2>1. Extends(longer, lines, Len(lines) + 1)
    BY <1>3 DEF Extends
  <2>2. Range(longer) = Range(lines) \cup {longer[Len(lines) + 1]}
    BY <2>1, RangeLonger
  <2> QED
    BY <1>3, <2>2
<1>6. logged' = logged \cup {pending}
  BY <1>1, <1>4, <1>5 DEF logged
<1>7. Sent'
  BY <1>1, <1>4 DEF CInv, Sent
<1>8. Retained'
  <2> SUFFICES ASSUME ~evicted
               PROVE  /\ LogsApart(previous.lines, longer)
                      /\ metrics.replay_evictions = 0
                      /\ \A r \in logged \cup {pending} : Known(metrics, r)
    BY <1>1, <1>4, <1>6 DEF Retained
  <2>1. /\ LogsApart(previous.lines, lines) /\ metrics.replay_evictions = 0
        /\ \A r \in logged : Known(metrics, r) /\ Apart(r, pending)
        /\ Known(metrics, pending)
    BY <1>1 DEF CInv, Retained
  <2>2. \A r \in Range(lines) \cup Range(previous.lines) : Apart(r, pending) /\ Apart(pending, r)
    BY <2>1 DEF logged, Apart
  <2>3. Distinct(longer)
    <3>1. \A i \in DOMAIN lines : lines[i] \in Range(lines)
      BY DEF Range
    <3> SUFFICES ASSUME NEW i \in DOMAIN longer, NEW j \in DOMAIN longer, i # j
                 PROVE  Apart(longer[i], longer[j])
      BY DEF Distinct
    <3>2. CASE i \in DOMAIN lines /\ j \in DOMAIN lines
      BY <1>3, <2>1, <3>2 DEF LogsApart, Distinct
    <3>3. CASE i = Len(lines) + 1 /\ j \in DOMAIN lines
      BY <1>3, <2>2, <3>1, <3>3
    <3>4. CASE i \in DOMAIN lines /\ j = Len(lines) + 1
      BY <1>3, <2>2, <3>1, <3>4
    <3> QED
      BY <1>3, <3>2, <3>3, <3>4
  <2>4. LogsApart(previous.lines, longer)
    BY <1>5, <2>1, <2>2, <2>3 DEF LogsApart
  <2> QED
    BY <2>1, <2>4
<1>9. ReplayRestoresHistory'
  BY <1>1 DEF ReplayRestoresHistory
<1> QED
  BY <1>1, <1>7, <1>8, <1>9 DEF CInv

\* The first records of a log are in their places.
LEMMA Prefix ==
  ASSUME NEW S, NEW x \in Seq(S), NEW n \in 0..Len(x)
  PROVE  SubSeq(x, 1, n) \in Seq(S) /\ Within(SubSeq(x, 1, n), x)
<1> DEFINE part == SubSeq(x, 1, n)
<1>1. part = [i \in 1..n |-> x[i]]
  BY SMT
<1>2. \A i \in 1..n : i \in DOMAIN x /\ x[i] \in S
  BY SMT
<1>3. part \in Seq(S)
  <2>1. [i \in 1..n |-> x[i]] \in [1..n -> S] /\ n \in Nat
    BY SMT, <1>2
  <2> QED
    BY SMT, <1>1, <2>1
<1> HIDE DEF part
<1>4. DOMAIN part = 1..n /\ \A i \in 1..n : part[i] = x[i]
  BY <1>1
<1> QED
  BY <1>2, <1>3, <1>4 DEF Within, part

\* What a crash leaves of a log.
LEMMA CutWithin ==
  ASSUME NEW log \in Log, NEW c \in cut(log)
  PROVE  c \in Log /\ Within(c.lines, log.lines)
<1>1. log.lines \in Seq(sent)
  BY DEF Log
<1>2. PICK n \in 0..Len(log.lines), b \in BOOLEAN :
        c = [lines |-> SubSeq(log.lines, 1, n), torn |-> b]
  BY SMT DEF cut
<1> DEFINE part == SubSeq(log.lines, 1, n)
<1>3. part \in Seq(sent) /\ Within(part, log.lines)
  BY <1>1, Prefix
<1>4. c.lines = part /\ c \in Log
  BY <1>2, <1>3 DEF Log
<1> QED
  BY <1>3, <1>4

\* A crash takes records from the ends of the logs, or leaves a part of one more.
LEMMA CInvCrash ==
  ASSUME CInv, Crash
  PROVE  CInv'
<1>1. /\ UNCHANGED <<call, sent, metrics, evicted>>
      /\ queue' = <<>> /\ state' = "down"
  BY DEF Crash, emitter
<1>2. current \in Log /\ previous \in Log
  BY DEF CInv, Sent
<1>3. \A log : Within(log.lines, log.lines)
  BY DEF Within
<1>4. /\ current' \in Log /\ Within(current'.lines, current.lines)
      /\ previous' \in Log /\ Within(previous'.lines, previous.lines)
  <2>1. CASE current' \in cut(current) /\ previous' \in cut(previous)
    BY <1>2, <2>1, CutWithin
  <2>2. CASE current' = current /\ previous' = previous
    BY <1>2, <1>3, <2>2
  <2>3. CASE current' = [current EXCEPT !.torn = TRUE] /\ previous' = previous
    <3>1. [current EXCEPT !.torn = TRUE] \in Log
          /\ [current EXCEPT !.torn = TRUE].lines = current.lines
      BY <1>2 DEF Log
    <3> QED
      BY <1>2, <1>3, <2>3, <3>1
  <2> QED
    BY <2>1, <2>2, <2>3 DEF Crash
<1>5. Log' = Log /\ <<>> \in Seq(sent)
  BY SMT, <1>1 DEF Log
<1>6. Sent'
  BY <1>1, <1>4, <1>5 DEF CInv, Sent
<1>7. Retained'
  BY <1>1, <1>4, PartsApart DEF CInv, Retained
<1>8. ReplayRestoresHistory'
  BY <1>1 DEF ReplayRestoresHistory
<1> QED
  BY <1>1, <1>6, <1>7, <1>8 DEF CInv

\* Nothing has been logged or counted when the system begins.
LEMMA InitRegistry == Init => CInv
<1> SUFFICES ASSUME Init PROVE CInv
  OBVIOUS
<1>1. /\ metrics = default /\ state = "down" /\ current = NoLog /\ previous = NoLog
      /\ queue = <<>> /\ sent = {} /\ call = [t \in Threads |-> Idle]
  BY DEF Init, InitEmitter
<1>2. NoLog.lines = <<>> /\ DOMAIN <<>> = {} /\ NoLog \in Log /\ <<>> \in Seq(sent)
  BY SMT DEF NoLog, Log
<1>3. Sent
  BY <1>1, <1>2 DEF Sent, Idle
<1>4. LogsApart(<<>>, <<>>)
  BY <1>2 DEF LogsApart, Distinct, Range
<1>5. Retained
  BY <1>1, <1>2, <1>4 DEF Retained
<1> QED
  BY <1>1, <1>3, <1>5, EmptyRegistry DEF CInv, ReplayRestoresHistory

\* No step breaks what the registry and the logs have in common.
LEMMA RegistryNext == IInv /\ IInv' /\ CInv /\ [Next]_vars => CInv'
<1> SUFFICES ASSUME IInv, IInv', CInv, [Next]_vars PROVE CInv'
  OBVIOUS
<1>1. CASE (\E t \in Threads : Call(t)) \/ Copy \/ RemoveSocket \/ UNCHANGED vars
  BY <1>1, CInvOutside
<1>2. CASE Start \/ Open
  BY <1>2, CInvStart
<1>3. CASE replay
  BY <1>3, CInvReplay
<1>4. CASE Receive
  BY <1>4, CInvReceive
<1>5. CASE Rotate
  BY <1>5, CInvRotate
<1>6. CASE Write
  BY <1>6, CInvWrite
<1>7. CASE WriteFails \/ ExportFails
  BY <1>7, CInvFails
<1>8. CASE Crash
  BY <1>8, CInvCrash
<1> QED
  BY <1>1, <1>2, <1>3, <1>4, <1>5, <1>6, <1>7, <1>8 DEF Next, CollectorStep

\* IInv and CInv together are inductive.
LEMMA RegistryAlways == Spec => []CInv
  BY InitNumbers, NumbersNext, InitRegistry, RegistryNext, PTL DEF Spec

\* After any crash, power loss or failed write, a restart admits every complete record of
\* both logs in their order, and takes none of them for a repetition.
THEOREM RestartAdmitsHistory == Spec => []ReplayRestoresHistory
<1>1. CInv => ReplayRestoresHistory
  BY DEF CInv
<1> QED
  BY <1>1, RegistryAlways, PTL

\* Whatever is sent twice, replayed or contradicted, the registry stays within its bounds;
\* the totals count each attempt that has ended once, up to the evictions and the refused
\* series that it reports.
THEOREM EachCompletionCountsOnce == Spec => []BoundsAccountedFor
<1>1. CInv => BoundsAccountedFor
  <2> SUFFICES ASSUME CInv PROVE BoundsAccountedFor
    OBVIOUS
  <2>1. /\ Len(metrics.order) <= MAX_REPLAY /\ series(metrics) <= MAX_SERIES
        /\ Cardinality(DOMAIN metrics.attempts) <= MAX_REPLAY
    BY DEF CInv, Registry, Queued, Counters
  <2>2. CountsOnce(metrics)
    BY DEF CInv
  <2> QED
    BY <2>1, <2>2 DEF CountsOnce, BoundsAccountedFor, completions, totals, terminals
<1> QED
  BY <1>1, RegistryAlways, PTL

=============================================================================
