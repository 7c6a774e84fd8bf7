---------------------------- MODULE LeelodProofs -----------------------------
(***************************************************************************)
(* Two parts of leelod that share no state: the services under their        *)
(* manager (Daemon), for any set of services, any errors of accept and any  *)
(* number of faults, kills, signals and connections; and the rate limit of  *)
(* Metrics::event (EventWindow), for any number of threads, windows and     *)
(* calls.                                                                   *)
(***************************************************************************)
EXTENDS Daemon, EventWindow, WellFoundedInduction, TLAPS

\* Sets and functions are left to Zenon; a leaf that needs arithmetic cites SMT.
USE Zenon

-----------------------------------------------------------------------------
(* Powers of two                                                           *)

\* A set that has 0 and with each number the next one has them all.
LEMMA Induction ==
  ASSUME NEW S, 0 \in S, \A n \in Nat : n \in S => n + 1 \in S
  PROVE  Nat \subseteq S
<1> SUFFICES ASSUME Nat \ S # {} PROVE FALSE
  OBVIOUS
<1> DEFINE R == OpToRel(<, Nat)
<1>1. IsWellFoundedOn(R, Nat)
  BY NatLessThanWellFounded
<1>2. \A x, y \in Nat : <<x, y>> \in R <=> x < y
  BY DEF OpToRel
<1> HIDE DEF R
<1>3. PICK x \in Nat \ S : \A y \in Nat \ S : ~(<<y, x>> \in R)
  BY <1>1, WFMin
<1>4. x # 0 /\ x \in Nat
  BY <1>3
<1>5. x - 1 \in Nat /\ x - 1 < x /\ (x - 1) + 1 = x
  BY SMT, <1>4
<1>6. x - 1 \in S
  BY <1>2, <1>3, <1>5
<1> QED
  BY <1>3, <1>5, <1>6

\* The first n doublings as a function.
Doublings(n, g) ==
  /\ g \in [0..n -> Nat]
  /\ g[0] = 1
  /\ \A i \in 0..n : i # 0 => g[i] = 2 * g[i - 1]

\* There is such a function for every n.
LEMMA DoublingsExist == \A n \in Nat : \E g : Doublings(n, g)
<1> DEFINE S == {n \in Nat : \E g : Doublings(n, g)}
<1>1. 0 \in S
  <2>1. Doublings(0, [i \in 0..0 |-> 1])
    BY SMT DEF Doublings
  <2> QED
    BY <2>1
<1>2. ASSUME NEW n \in Nat, n \in S PROVE n + 1 \in S
  <2>1. PICK g : Doublings(n, g)
    BY <1>2
  <2> DEFINE h == [i \in 0..(n + 1) |-> IF i = n + 1 THEN 2 * g[n] ELSE g[i]]
  <2>2. Doublings(n + 1, h)
    BY SMT, <2>1 DEF Doublings
  <2>3. n + 1 \in Nat
    BY SMT
  <2> QED
    BY <2>2, <2>3
<1> HIDE DEF S
<1>3. Nat \subseteq S
  BY <1>1, <1>2, Induction
<1> QED
  BY <1>3 DEF S

\* Two of them have the same value wherever both have one.
LEMMA DoublingsAgree ==
  \A i \in Nat : \A n, m \in Nat : \A g, h :
    i <= n /\ i <= m /\ Doublings(n, g) /\ Doublings(m, h) => g[i] = h[i]
<1> DEFINE S == {i \in Nat : \A n, m \in Nat : \A g, h :
                   i <= n /\ i <= m /\ Doublings(n, g) /\ Doublings(m, h) => g[i] = h[i]}
<1>1. 0 \in S
  BY DEF Doublings
<1>2. ASSUME NEW i \in Nat, i \in S PROVE i + 1 \in S
  <2> SUFFICES ASSUME NEW n \in Nat, NEW m \in Nat, NEW g, NEW h,
                      i + 1 <= n, i + 1 <= m, Doublings(n, g), Doublings(m, h)
               PROVE  g[i + 1] = h[i + 1]
    BY SMT
  <2>1. i <= n /\ i <= m /\ i + 1 \in 0..n /\ i + 1 \in 0..m /\ i + 1 # 0 /\ (i + 1) - 1 = i
    BY SMT
  <2>2. g[i] = h[i]
    <3>1. \A p, q \in Nat : \A e, f :
            i <= p /\ i <= q /\ Doublings(p, e) /\ Doublings(q, f) => e[i] = f[i]
      BY <1>2
    <3>2. i <= n /\ i <= m /\ Doublings(n, g) /\ Doublings(m, h)
      BY <2>1
    <3> HIDE DEF S
    <3> QED
      BY SMT, <3>1, <3>2
  <2>3. g[i + 1] = 2 * g[i] /\ h[i + 1] = 2 * h[i]
    <3>1. g[i + 1] = 2 * g[(i + 1) - 1]
      BY <2>1 DEF Doublings
    <3>2. h[i + 1] = 2 * h[(i + 1) - 1]
      BY <2>1 DEF Doublings
    <3> QED
      BY <2>1, <3>1, <3>2
  <2> QED
    BY <2>2, <2>3
<1> HIDE DEF S
<1>3. Nat \subseteq S
  BY <1>1, <1>2, Induction
<1> QED
  BY <1>3 DEF S

\* The delays of Retry before the bound: one unit, and twice as long each time.
LEMMA Doubled ==
  /\ doubled[0] = 1
  /\ \A n \in Nat : doubled[n] \in Nat /\ doubled[n + 1] = 2 * doubled[n]
<1> DEFINE G(n) == CHOOSE g : Doublings(n, g)
           f == [n \in Nat |-> G(n)[n]]
<1>1. \A n \in Nat : Doublings(n, G(n))
  BY DoublingsExist
<1> HIDE DEF G
<1>2. f[0] = 1 /\ \A n \in Nat : f[n] \in Nat
  <2>1. \A n \in Nat : n \in 0..n
    BY SMT
  <2>2. \A n \in Nat : G(n)[n] \in Nat
    BY <1>1, <2>1 DEF Doublings
  <2>3. G(0)[0] = 1 /\ 0 \in Nat
    BY SMT, <1>1 DEF Doublings
  <2> QED
    BY <2>2, <2>3
<1>3. ASSUME NEW n \in Nat, n # 0 PROVE f[n] = 2 * f[n - 1]
  <2>1. n - 1 \in Nat /\ n - 1 <= n /\ n - 1 <= n - 1 /\ n \in 0..n
    BY SMT, <1>3
  <2>2. G(n)[n] = 2 * G(n)[n - 1]
    BY <1>1, <1>3, <2>1 DEF Doublings
  <2>3. G(n)[n - 1] = G(n - 1)[n - 1]
    <3>1. Doublings(n, G(n)) /\ Doublings(n - 1, G(n - 1))
      BY <1>1, <2>1
    <3>2. ASSUME NEW g, NEW h, Doublings(n, g), Doublings(n - 1, h)
          PROVE  g[n - 1] = h[n - 1]
      BY SMT, <2>1, <3>2, DoublingsAgree
    <3> QED
      BY <3>1, <3>2
  <2>4. f[n] = G(n)[n] /\ f[n - 1] = G(n - 1)[n - 1]
    BY <2>1
  <2> HIDE DEF f
  <2> QED
    BY <2>2, <2>3, <2>4
<1>4. f = [n \in Nat |-> IF n = 0 THEN 1 ELSE 2 * f[n - 1]]
  BY <1>2, <1>3
<1> HIDE DEF f
<1>5. doubled = [n \in Nat |-> IF n = 0 THEN 1 ELSE 2 * doubled[n - 1]]
  BY <1>4 DEF doubled
<1>6. \A n \in Nat : doubled[n] = IF n = 0 THEN 1 ELSE 2 * doubled[n - 1]
  BY <1>5
<1>7. doubled[0] = 1
  BY SMT, <1>6
<1>8. \A n \in Nat : doubled[n + 1] = 2 * doubled[n]
  <2>1. \A n \in Nat : n + 1 \in Nat /\ n + 1 # 0 /\ (n + 1) - 1 = n
    BY SMT
  <2>2. ASSUME NEW n \in Nat PROVE doubled[n + 1] = 2 * doubled[(n + 1) - 1]
    BY <1>6, <2>1
  <2> QED
    BY <2>1, <2>2
<1>9. \A n \in Nat : doubled[n] \in Nat
  <2> DEFINE S == {n \in Nat : doubled[n] \in Nat}
  <2>1. 0 \in S
    BY SMT, <1>7
  <2>2. \A n \in Nat : n \in S => n + 1 \in S
    <3>1. \A n, k \in Nat : n + 1 \in Nat /\ 2 * k \in Nat
      BY SMT
    <3> QED
      BY <1>8, <3>1
  <2> HIDE DEF S
  <2>3. Nat \subseteq S
    BY <2>1, <2>2, Induction
  <2> QED
    BY <2>3 DEF S
<1> QED
  BY <1>7, <1>8, <1>9

-----------------------------------------------------------------------------
(* The services                                                            *)

\* The steps of a process, and those from which its socket is open to the peers.
Common == {"down", "starting", "listener", "snapshot", "readiness", "serving", "sleeping"}
Steps(s) == Common \cup IF s = "worker" THEN {"key_load", "socket_directory", "permissions"}
                        ELSE {"tls_config"}
Reachable == {"snapshot", "readiness", "serving", "sleeping"}
Serves == {"serving", "sleeping"}

DaemonTypes ==
  /\ DOMAIN step = Services
  /\ \A s \in Services : step[s] \in Steps(s)
  /\ socket \in [Services -> {"absent", "bound", "open", "stale"}]
  /\ notified \in [Services -> BOOLEAN]
  /\ retrying \in [Services -> Nat]
  /\ failed \in [Services -> Nat]
  /\ delay \in [Services -> Nat]

\* What ReadyMeansReachable leaves out: the socket is open from the steps before the
\* notification on.
Ready(s) ==
  /\ step[s] \in Reachable => socket[s] = "open"
  /\ notified[s] => step[s] \in Serves

waits(s) == IF step[s] = "sleeping" THEN failed[s] - 1 ELSE failed[s]

bounded(n) == IF n > MAX_RETRY THEN MAX_RETRY ELSE n

\* What OutageFollowsFailures leaves out: a process sleeps only after a failure, and
\* one that does not serve has seen none.
Outage(s) ==
  /\ retrying[s] = IF failed[s] > 0 THEN 1 ELSE 0
  /\ step[s] = "sleeping" => failed[s] > 0
  /\ step[s] \notin Serves => failed[s] = 0
  /\ delay[s] = bounded(doubled[waits(s)])

DaemonInv == DaemonTypes /\ \A s \in Services : Ready(s) /\ Outage(s)

\* The step that worker::run takes next.
LEMMA AfterWorker ==
  ASSUME "worker" \in Services
  PROVE  LET here == step["worker"]
             next == after("worker") IN
         /\ here = "starting" => next = "key_load"
         /\ here = "key_load" => next = "socket_directory"
         /\ here = "socket_directory" => next = "listener"
         /\ here = "listener" => next = "permissions"
         /\ here = "permissions" => next = "snapshot"
         /\ here = "snapshot" => next = "readiness"
         /\ here = "readiness" => next = "serving"
<1> DEFINE path == startup("worker")
           at(i) == CHOOSE j \in DOMAIN path : path[j] = path[i]
<1>1. /\ DOMAIN path = 1..8
      /\ path[1] = "starting" /\ path[2] = "key_load" /\ path[3] = "socket_directory"
      /\ path[4] = "listener" /\ path[5] = "permissions" /\ path[6] = "snapshot"
      /\ path[7] = "readiness" /\ path[8] = "serving"
  BY SMT DEF startup
<1> HIDE DEF path
<1>2. \A i \in 1..8 : at(i) = i
  BY SMT, <1>1
<1>3. \A i \in 1..8 : step["worker"] = path[i] => after("worker") = path[at(i) + 1]
  BY DEF after, path
<1> HIDE DEF at
<1>4. \A i \in 1..8 : step["worker"] = path[i] => after("worker") = path[i + 1]
  BY <1>2, <1>3
<1> QED
  BY SMT, <1>1, <1>4

\* The step that server::run takes next.
LEMMA AfterFrontend ==
  ASSUME NEW s \in Services, s # "worker"
  PROVE  LET here == step[s]
             next == after(s) IN
         /\ here = "starting" => next = "tls_config"
         /\ here = "tls_config" => next = "listener"
         /\ here = "listener" => next = "snapshot"
         /\ here = "snapshot" => next = "readiness"
         /\ here = "readiness" => next = "serving"
<1> DEFINE path == startup(s)
           at(i) == CHOOSE j \in DOMAIN path : path[j] = path[i]
<1>1. /\ DOMAIN path = 1..6
      /\ path[1] = "starting" /\ path[2] = "tls_config" /\ path[3] = "listener"
      /\ path[4] = "snapshot" /\ path[5] = "readiness" /\ path[6] = "serving"
  BY SMT DEF startup
<1> HIDE DEF path
<1>2. \A i \in 1..6 : at(i) = i
  BY SMT, <1>1
<1>3. \A i \in 1..6 : step[s] = path[i] => after(s) = path[at(i) + 1]
  BY DEF after, path
<1> HIDE DEF at
<1>4. \A i \in 1..6 : step[s] = path[i] => after(s) = path[i + 1]
  BY <1>2, <1>3
<1> QED
  BY SMT, <1>1, <1>4

\* An action of one service is none of another's business.
LEMMA OneService ==
  ASSUME DaemonInv, NEW s \in Services, DaemonTypes', Ready(s)', Outage(s)',
         \A u \in Services \ {s} :
           /\ step'[u] = step[u] /\ socket'[u] = socket[u] /\ notified'[u] = notified[u]
           /\ retrying'[u] = retrying[u] /\ failed'[u] = failed[u] /\ delay'[u] = delay[u]
  PROVE  DaemonInv'
<1>1. \A u \in Services \ {s} : Ready(u)'
  BY DEF DaemonInv, Ready
<1>2. ASSUME NEW u \in Services \ {s} PROVE Outage(u)'
  <2>1. Outage(u) /\ waits(u)' = waits(u)
    BY DEF DaemonInv, waits
  <2> QED
    BY <2>1 DEF Outage
<1> QED
  BY <1>1, <1>2 DEF DaemonInv

\* No process is there yet.
LEMMA InitDaemon == Init => DaemonInv
<1> SUFFICES ASSUME Init PROVE DaemonInv
  OBVIOUS
<1>1. 0 \in Nat /\ 1 \in Nat /\ ~(0 > 0)
  BY SMT
<1>2. DaemonTypes
  BY <1>1 DEF Init, DaemonTypes, Steps, Common
<1>3. bounded(doubled[0]) = 1
  BY SMT, Doubled, RetryAssumption DEF bounded, RetryAssumption
<1>4. \A s \in Services : Ready(s) /\ Outage(s)
  BY <1>1, <1>3 DEF Init, Ready, Outage, waits, Reachable, Serves
<1> QED
  BY <1>2, <1>4 DEF DaemonInv

\* The process is gone, and with it what it had told the manager and counted.
LEMMA GoneDaemon == ASSUME DaemonInv, NEW s \in Services, gone(s) PROVE DaemonInv'
<1>1. 0 \in Nat /\ 1 \in Nat /\ ~(0 > 0)
  BY SMT
<1>2. DaemonTypes'
  BY <1>1 DEF DaemonInv, DaemonTypes, gone, Steps, Common
<1>3. bounded(doubled[0]) = 1
  BY SMT, Doubled, RetryAssumption DEF bounded, RetryAssumption
<1>4. /\ step'[s] = "down" /\ notified'[s] = FALSE /\ retrying'[s] = 0
      /\ failed'[s] = 0 /\ delay'[s] = 1
  BY DEF DaemonInv, DaemonTypes, gone
<1>5. Ready(s)' /\ Outage(s)'
  BY <1>1, <1>3, <1>4 DEF Ready, Outage, waits, Reachable, Serves
<1>6. \A u \in Services \ {s} :
        /\ step'[u] = step[u] /\ socket'[u] = socket[u] /\ notified'[u] = notified[u]
        /\ retrying'[u] = retrying[u] /\ failed'[u] = failed[u] /\ delay'[u] = delay[u]
  BY DEF DaemonInv, DaemonTypes, gone
<1> QED
  BY <1>2, <1>5, <1>6, OneService

\* The startup goes on, from a step at which the process does not serve yet, and
\* neither the gauge nor the delay changes.  What is to show is that the socket is
\* open where it has to be, and that the manager hears at the last step only.
LEMMA StartupDaemon ==
  ASSUME DaemonInv, NEW s \in Services, NEW next \in Steps(s) \ {"sleeping"},
         step[s] \notin Serves,
         step' = [step EXCEPT ![s] = next],
         UNCHANGED <<retrying, failed, delay>>,
         socket' \in [Services -> {"absent", "bound", "open", "stale"}],
         notified' \in [Services -> BOOLEAN],
         \A u \in Services \ {s} : socket'[u] = socket[u] /\ notified'[u] = notified[u],
         next \in Reachable => socket'[s] = "open",
         notified'[s] => notified[s] \/ next = "serving"
  PROVE  DaemonInv'
<1>1. step'[s] = next /\ DOMAIN step' = Services /\ \A u \in Services \ {s} : step'[u] = step[u]
  BY DEF DaemonInv, DaemonTypes
<1>2. DaemonTypes'
  BY <1>1 DEF DaemonInv, DaemonTypes
<1>3. ~notified[s]
  BY DEF DaemonInv, Ready
<1>4. Ready(s)'
  BY <1>1, <1>3 DEF Ready, Serves
<1>5. failed[s] = 0 /\ retrying[s] = 0 /\ waits(s) = 0
  <2>1. ~(0 > 0)
    BY SMT
  <2> QED
    BY <2>1 DEF DaemonInv, Outage, waits, Serves
<1>6. waits(s)' = 0 /\ ~(0 > 0)
  BY SMT, <1>1, <1>5 DEF waits
<1>7. Outage(s)'
  <2>1. delay[s] = bounded(doubled[0])
    BY <1>5 DEF DaemonInv, Outage
  <2> QED
    BY <1>1, <1>5, <1>6, <2>1 DEF Outage
<1> QED
  BY <1>1, <1>2, <1>4, <1>7, OneService

\* A step of the startup that works.
LEMMA StepDaemon == ASSUME DaemonInv, NEW s \in Services, Step(s) PROVE DaemonInv'
<1>1. step[s] \in Steps(s) \ {"down", "serving", "sleeping", "snapshot"}
  BY DEF DaemonInv, DaemonTypes, Step
<1>2. /\ after(s) \in Steps(s) \ {"sleeping"}
      /\ after(s) \in Reachable =>
           \/ step[s] = "readiness"
           \/ step[s] = "permissions"
           \/ step[s] = "listener" /\ s # "worker"
      /\ step[s] = "readiness" => after(s) = "serving"
  BY <1>1, AfterWorker, AfterFrontend DEF Steps, Common, Reachable
<1>3. /\ step' = [step EXCEPT ![s] = after(s)]
      /\ UNCHANGED <<retrying, failed, delay>>
      /\ notified' = [notified EXCEPT ![s] = @ \/ step[s] = "readiness"]
  BY DEF Step, loop
<1> DEFINE opened == CASE step[s] = "listener" -> IF s = "worker" THEN "bound" ELSE "open"
                       [] step[s] = "permissions" -> "open"
                       [] OTHER -> socket[s]
<1>4. socket' = [socket EXCEPT ![s] = opened]
  BY DEF Step
<1>5. /\ step[s] = "permissions" => opened = "open"
      /\ step[s] = "listener" /\ s # "worker" => opened = "open"
      /\ step[s] = "readiness" => opened = socket[s]
      /\ opened \in {"absent", "bound", "open", "stale"}
  BY DEF DaemonInv, DaemonTypes
<1> HIDE DEF opened
<1>6. /\ socket' \in [Services -> {"absent", "bound", "open", "stale"}]
      /\ socket'[s] = opened
      /\ \A u \in Services \ {s} : socket'[u] = socket[u]
  BY <1>4, <1>5 DEF DaemonInv, DaemonTypes
<1>7. /\ notified' \in [Services -> BOOLEAN]
      /\ notified'[s] => notified[s] \/ after(s) = "serving"
      /\ \A u \in Services \ {s} : notified'[u] = notified[u]
  BY <1>2, <1>3 DEF DaemonInv, DaemonTypes
<1>8. after(s) \in Reachable => socket'[s] = "open"
  BY <1>2, <1>5, <1>6 DEF DaemonInv, Ready, Reachable
<1>9. step[s] \notin Serves
  BY <1>1 DEF Serves
<1> QED
  BY <1>2, <1>3, <1>6, <1>7, <1>8, <1>9, StartupDaemon

\* The manager starts a process.
LEMMA LaunchDaemon == ASSUME DaemonInv, NEW s \in Services, Launch(s) PROVE DaemonInv'
<1>1. /\ step[s] = "down" /\ step' = [step EXCEPT ![s] = "starting"]
      /\ UNCHANGED <<socket, notified, retrying, failed, delay>>
  BY DEF Launch
<1>2. "starting" \in Steps(s) \ {"sleeping"} /\ "starting" \notin Reachable
  BY DEF Steps, Common, Reachable
<1>3. step[s] \notin Serves
  BY <1>1 DEF Serves
<1>4. /\ socket' \in [Services -> {"absent", "bound", "open", "stale"}]
      /\ notified' \in [Services -> BOOLEAN]
  BY <1>1 DEF DaemonInv, DaemonTypes
<1> QED
  BY <1>1, <1>2, <1>3, <1>4, StartupDaemon

\* start_optional: whatever becomes of the exporter, the startup goes on.
LEMMA ExporterDaemon == ASSUME DaemonInv, NEW s \in Services, Exporter(s) PROVE DaemonInv'
<1>1. /\ step[s] = "snapshot" /\ step' = [step EXCEPT ![s] = after(s)]
      /\ UNCHANGED <<socket, notified, retrying, failed, delay>>
  BY DEF Exporter, loop
<1>2. after(s) = "readiness"
  BY <1>1, AfterWorker, AfterFrontend
<1>3. after(s) \in Steps(s) \ {"sleeping"}
  BY <1>2 DEF Steps, Common
<1>4. step[s] \notin Serves /\ step[s] \in Reachable
  BY <1>1 DEF Serves, Reachable
<1>5. /\ socket' \in [Services -> {"absent", "bound", "open", "stale"}]
      /\ notified' \in [Services -> BOOLEAN]
      /\ socket'[s] = "open"
  BY <1>1, <1>4 DEF DaemonInv, DaemonTypes, Ready
<1> QED
  BY <1>1, <1>3, <1>4, <1>5, StartupDaemon

\* The runtime directory goes with a service that is down.
LEMMA RemoveDirectoryDaemon ==
  ASSUME DaemonInv, NEW s \in Services, RemoveDirectory(s) PROVE DaemonInv'
<1>1. /\ step[s] = "down" /\ socket' = [socket EXCEPT ![s] = "absent"]
      /\ UNCHANGED <<step, notified, retrying, failed, delay>>
  BY DEF RemoveDirectory, loop
<1>2. DaemonTypes'
  BY <1>1 DEF DaemonInv, DaemonTypes
<1>3. Ready(s)' /\ Outage(s)'
  BY <1>1 DEF DaemonInv, Ready, Outage, waits, Reachable
<1>4. \A u \in Services \ {s} : socket'[u] = socket[u]
  BY <1>1 DEF DaemonInv, DaemonTypes
<1> QED
  BY <1>1, <1>2, <1>3, <1>4, OneService

\* An accept that works ends the outage.
LEMMA AcceptDaemon == ASSUME DaemonInv, NEW s \in Services, Accept(s) PROVE DaemonInv'
<1>1. /\ step[s] = "serving"
      /\ retrying' = [retrying EXCEPT ![s] = 0]
      /\ failed' = [failed EXCEPT ![s] = 0]
      /\ delay' = [delay EXCEPT ![s] = 1]
      /\ UNCHANGED <<step, socket, notified>>
  BY DEF Accept
<1>2. 0 \in Nat /\ 1 \in Nat /\ ~(0 > 0) /\ bounded(doubled[0]) = 1
  BY SMT, Doubled, RetryAssumption DEF bounded, RetryAssumption
<1>3. DaemonTypes'
  BY <1>1, <1>2 DEF DaemonInv, DaemonTypes
<1>4. retrying'[s] = 0 /\ failed'[s] = 0 /\ delay'[s] = 1 /\ step'[s] = "serving"
  BY <1>1 DEF DaemonInv, DaemonTypes
<1>5. Ready(s)' /\ Outage(s)'
  BY <1>1, <1>2, <1>4 DEF DaemonInv, Ready, Outage, waits
<1>6. \A u \in Services \ {s} :
        retrying'[u] = retrying[u] /\ failed'[u] = failed[u] /\ delay'[u] = delay[u]
  BY <1>1 DEF DaemonInv, DaemonTypes
<1> QED
  BY <1>1, <1>3, <1>5, <1>6, OneService

\* An accept that fails for a while: one more failure, and the wait it is followed by
\* is the one that the delay already says.
LEMMA AcceptFailsDaemon ==
  ASSUME DaemonInv, NEW s \in Services, NEW error \in Errors, AcceptFails(s, error)
  PROVE  DaemonInv'
<1>1. CASE fails(s, <<"listener_failed">>)
  BY <1>1, GoneDaemon DEF fails
<1>2. CASE /\ step' = [step EXCEPT ![s] = "sleeping"]
           /\ retrying' = [retrying EXCEPT ![s] = 1]
           /\ failed' = [failed EXCEPT ![s] = @ + 1]
           /\ UNCHANGED <<events, socket, exporter, notified, pending, delay, signal>>
  <2>1. step[s] = "serving" /\ failed[s] \in Nat
    BY DEF AcceptFails, DaemonInv, DaemonTypes
  <2>2. /\ failed[s] + 1 \in Nat /\ failed[s] + 1 > 0 /\ (failed[s] + 1) - 1 = failed[s]
        /\ 1 \in Nat
    BY SMT, <2>1
  <2>3. DaemonTypes'
    BY <1>2, <2>2 DEF DaemonInv, DaemonTypes, Steps, Common
  <2>4. step'[s] = "sleeping" /\ retrying'[s] = 1 /\ failed'[s] = failed[s] + 1
    BY <1>2 DEF DaemonInv, DaemonTypes
  <2>5. Ready(s)'
    BY <1>2, <2>1, <2>4 DEF DaemonInv, Ready, Reachable, Serves
  <2>6. waits(s)' = failed[s] /\ waits(s) = failed[s]
    BY <2>1, <2>2, <2>4 DEF waits
  <2>7. delay'[s] = bounded(doubled[waits(s)'])
    BY <1>2, <2>6 DEF DaemonInv, Outage
  <2>8. Outage(s)'
    BY <2>2, <2>4, <2>7 DEF Outage, Serves
  <2>9. \A u \in Services \ {s} :
          step'[u] = step[u] /\ retrying'[u] = retrying[u] /\ failed'[u] = failed[u]
    BY <1>2 DEF DaemonInv, DaemonTypes
  <2> QED
    BY <1>2, <2>3, <2>5, <2>8, <2>9, OneService
<1> QED
  BY <1>1, <1>2 DEF AcceptFails

\* The wait is over; the next one is twice as long, up to the longest.
LEMMA WakeDaemon == ASSUME DaemonInv, NEW s \in Services, Wake(s) PROVE DaemonInv'
<1> DEFINE longer == IF delay[s] * 2 > MAX_RETRY THEN MAX_RETRY ELSE delay[s] * 2
<1>1. /\ step[s] = "sleeping" /\ step' = [step EXCEPT ![s] = "serving"]
      /\ delay' = [delay EXCEPT ![s] = longer]
      /\ UNCHANGED <<socket, notified, retrying, failed>>
  BY DEF Wake
<1>2. failed[s] \in Nat /\ delay[s] \in Nat /\ failed[s] > 0
  BY <1>1 DEF DaemonInv, DaemonTypes, Outage
<1>3. longer \in Nat
  BY SMT, <1>2, RetryAssumption DEF RetryAssumption
<1>4. failed[s] - 1 \in Nat /\ (failed[s] - 1) + 1 = failed[s]
  BY SMT, <1>2
<1>5. delay[s] = bounded(doubled[failed[s] - 1])
  BY <1>1 DEF DaemonInv, Outage, waits
<1>6. longer = bounded(doubled[failed[s]])
  <2>1. /\ doubled[failed[s] - 1] \in Nat
        /\ doubled[(failed[s] - 1) + 1] = 2 * doubled[failed[s] - 1]
    BY <1>4, Doubled
  <2>2. doubled[failed[s]] = 2 * doubled[failed[s] - 1]
    BY <1>4, <2>1
  <2>3. \A d, e \in Nat : d = bounded(e) =>
          (IF d * 2 > MAX_RETRY THEN MAX_RETRY ELSE d * 2) = bounded(2 * e)
    BY SMT, RetryAssumption DEF bounded, RetryAssumption
  <2>4. longer = bounded(2 * doubled[failed[s] - 1])
    BY <1>2, <1>5, <2>1, <2>3
  <2> QED
    BY <2>2, <2>4
<1> HIDE DEF longer
<1>7. DaemonTypes'
  BY <1>1, <1>3 DEF DaemonInv, DaemonTypes, Steps, Common
<1>8. step'[s] = "serving" /\ delay'[s] = longer
  BY <1>1 DEF DaemonInv, DaemonTypes
<1>9. Ready(s)'
  BY <1>1, <1>8 DEF DaemonInv, Ready, Reachable, Serves
<1>10. Outage(s)'
  <2>1. waits(s)' = failed[s]
    BY <1>1, <1>8 DEF waits
  <2>2. delay'[s] = bounded(doubled[waits(s)'])
    BY <1>6, <1>8, <2>1
  <2> QED
    BY <1>1, <1>8, <2>2 DEF DaemonInv, Outage, Serves
<1>11. \A u \in Services \ {s} : step'[u] = step[u] /\ delay'[u] = delay[u]
  BY <1>1 DEF DaemonInv, DaemonTypes
<1> QED
  BY <1>1, <1>7, <1>9, <1>10, <1>11, OneService

\* Every step of a service or of the manager keeps the invariant.
LEMMA NextDaemon == DaemonInv /\ [Next]_vars => DaemonInv'
<1> SUFFICES ASSUME DaemonInv, [Next]_vars PROVE DaemonInv'
  OBVIOUS
<1>1. ASSUME UNCHANGED <<step, socket, notified, retrying, failed, delay>> PROVE DaemonInv'
  <2>1. DaemonTypes'
    BY <1>1 DEF DaemonInv, DaemonTypes
  <2>2. \A s \in Services : Ready(s)'
    BY <1>1 DEF DaemonInv, Ready
  <2>3. ASSUME NEW s \in Services PROVE Outage(s)'
    <3>1. Outage(s) /\ waits(s)' = waits(s)
      BY <1>1 DEF DaemonInv, waits
    <3> QED
      BY <1>1, <3>1 DEF Outage
  <2> QED
    BY <2>1, <2>2, <2>3 DEF DaemonInv
<1>2. ASSUME NEW s \in Services, Stop(s) \/ Arrive(s) PROVE DaemonInv'
  BY <1>1, <1>2 DEF Stop, Arrive, loop
<1>3. ASSUME NEW s \in Services, Kill(s) \/ StepFails(s) \/ Shutdown(s) PROVE DaemonInv'
  BY <1>3, GoneDaemon DEF Kill, StepFails, Shutdown, fails
<1>4. CASE UNCHANGED vars
  BY <1>1, <1>4 DEF vars, loop
<1> QED
  BY <1>2, <1>3, <1>4, LaunchDaemon, RemoveDirectoryDaemon, StepDaemon, ExporterDaemon,
     AcceptDaemon, WakeDaemon, AcceptFailsDaemon DEF Next

\* Whatever fails, is killed or is told to stop in whatever order, the manager takes a
\* service for ready only while the process serves and its socket is open.
THEOREM ReadyIsReachable == Spec => []ReadyMeansReachable
<1>1. DaemonInv => ReadyMeansReachable
  BY DEF DaemonInv, Ready, Reachable, Serves, ReadyMeansReachable
<1> QED
  BY <1>1, InitDaemon, NextDaemon, PTL DEF Spec

\* However many accepts fail in a row, the gauge is up exactly since the first of them
\* and the delay is the power of two that belongs to their number, up to MAX_RETRY.
THEOREM OutageIsTold == Spec => []OutageFollowsFailures
<1>1. DaemonInv => OutageFollowsFailures
  BY DEF DaemonInv, Outage, waits, bounded, OutageFollowsFailures
<1> QED
  BY <1>1, InitDaemon, NextDaemon, PTL DEF Spec

-----------------------------------------------------------------------------
(* The rate limit of Metrics::event.  OneEventUnlessOvertaken says nothing of  *)
(* the atomic, so it is not inductive.  What carries it: a call that is inside *)
(* event has read the window the clock is in, has loaded another one before it *)
(* tries to exchange, and the window of the clock has an event exactly if      *)
(* event_window holds it.                                                      *)

\* The types of the atomics and of each thread's local variables.
WindowTypes ==
  /\ clock \in Windows
  /\ event_window \in Nat
  /\ emitted \in [Windows -> Nat]
  /\ pc \in [Threads -> {"idle", "load", "exchange"}]
  /\ window \in [Threads -> Nat]
  /\ previous \in [Threads -> Nat]

\* A call inside event: it read the window the clock is in, and exchanges only
\* after it loaded another one.
Inside(t) ==
  /\ pc[t] # "idle" => window[t] = clock
  /\ pc[t] = "exchange" => previous[t] # clock

\* The events so far: none of a later window, and one of this window only after
\* event_window was set to it.
Events ==
  /\ event_window <= clock
  /\ \A w \in Windows : emitted[w] <= 1
  /\ \A w \in Windows : w > clock => emitted[w] = 0
  /\ event_window # clock => emitted[clock] = 0

Undisturbed == ~overtaken => Events /\ \A t \in Threads : Inside(t)

WindowInv == WindowTypes /\ Undisturbed

\* Before the first call no window has an event.
LEMMA InitWindowInv == InitWindow => WindowInv
<1> SUFFICES ASSUME InitWindow PROVE WindowInv
  OBVIOUS
<1>1. 1 \in Windows /\ 0 <= 1 /\ 0 \in Nat
  BY SMT, WindowAssumption DEF Windows
<1>2. WindowTypes
  BY <1>1 DEF InitWindow, WindowTypes
<1>3. Events /\ \A t \in Threads : Inside(t)
  BY <1>1 DEF InitWindow, Events, Inside
<1> QED
  BY <1>2, <1>3 DEF WindowInv, Undisturbed

\* The clock enters the next window.  It has no event yet, and no call is inside.
LEMMA TickWindowInv == ASSUME WindowInv, Tick PROVE WindowInv'
<1>1. /\ clock \in Windows /\ clock' = clock + 1 /\ clock' \in Windows
      /\ UNCHANGED <<event_window, emitted, pc, window, previous>>
  BY SMT, WindowAssumption DEF WindowInv, WindowTypes, Tick, Windows
<1>2. WindowTypes'
  BY <1>1 DEF WindowInv, WindowTypes
<1>3. ASSUME ~overtaken'
      PROVE  Events' /\ \A t \in Threads : Inside(t)'
  <2>1. ~overtaken /\ \A t \in Threads : pc[t] = "idle"
    BY <1>3 DEF Tick
  <2>2. Events
    BY <2>1 DEF WindowInv, Undisturbed
  <2>3. event_window <= clock' /\ event_window # clock' /\ clock' > clock
    BY SMT, <1>1, <2>2 DEF Events, WindowInv, WindowTypes, Windows
  <2>4. \A w \in Windows : w > clock' => w > clock
    BY SMT, <1>1 DEF Windows
  <2>5. Events'
    BY <1>1, <2>2, <2>3, <2>4 DEF Events
  <2> QED
    BY <1>1, <2>1, <2>5 DEF Inside
<1> QED
  BY <1>2, <1>3 DEF WindowInv, Undisturbed

\* A call reads the clock, suppresses its event or loads event_window: the events
\* stay what they were, and the other calls are not concerned.
LEMMA QuietWindowInv ==
  ASSUME WindowInv, NEW t \in Threads, WindowTypes', Inside(t) => Inside(t)',
         UNCHANGED <<clock, event_window, emitted, overtaken>>,
         \A u \in Threads \ {t} :
           pc'[u] = pc[u] /\ window'[u] = window[u] /\ previous'[u] = previous[u]
  PROVE  WindowInv'
<1>1. ASSUME ~overtaken'
      PROVE  Events' /\ \A u \in Threads : Inside(u)'
  <2>1. Events /\ \A u \in Threads : Inside(u)
    BY <1>1 DEF WindowInv, Undisturbed
  <2>2. Events'
    BY <2>1 DEF Events
  <2>3. \A u \in Threads \ {t} : Inside(u)'
    BY <2>1 DEF Inside
  <2> QED
    BY <2>1, <2>2, <2>3
<1> QED
  BY <1>1 DEF WindowInv, Undisturbed

\* The call has read the window the clock is in.
LEMMA ReadClockWindowInv == ASSUME WindowInv, NEW t \in Threads, ReadClock(t) PROVE WindowInv'
<1>1. /\ pc' = [pc EXCEPT ![t] = "load"] /\ window' = [window EXCEPT ![t] = clock]
      /\ UNCHANGED <<clock, event_window, emitted, previous, overtaken>>
  BY DEF ReadClock
<1>2. clock \in Nat
  BY SMT DEF WindowInv, WindowTypes, Windows
<1>3. WindowTypes'
  BY <1>1, <1>2 DEF WindowInv, WindowTypes
<1>4. pc'[t] = "load" /\ window'[t] = clock'
  BY <1>1 DEF WindowInv, WindowTypes
<1>5. \A u \in Threads \ {t} :
        pc'[u] = pc[u] /\ window'[u] = window[u] /\ previous'[u] = previous[u]
  BY <1>1 DEF WindowInv, WindowTypes
<1>6. Inside(t)'
  BY <1>4 DEF Inside
<1> QED
  BY <1>1, <1>3, <1>5, <1>6, QuietWindowInv

\* The call ends without an event.
LEMMA SuppressWindowInv ==
  ASSUME WindowInv, NEW t \in Threads, Suppress(t),
         UNCHANGED <<clock, event_window, emitted, overtaken>>
  PROVE  WindowInv'
<1>1. /\ pc' = [pc EXCEPT ![t] = "idle"] /\ window' = [window EXCEPT ![t] = 0]
      /\ previous' = [previous EXCEPT ![t] = 0]
  BY DEF Suppress
<1>2. 0 \in Nat
  BY SMT
<1>3. WindowTypes'
  BY <1>1, <1>2 DEF WindowInv, WindowTypes
<1>4. pc'[t] = "idle"
  BY <1>1 DEF WindowInv, WindowTypes
<1>5. \A u \in Threads \ {t} :
        pc'[u] = pc[u] /\ window'[u] = window[u] /\ previous'[u] = previous[u]
  BY <1>1 DEF WindowInv, WindowTypes
<1>6. Inside(t)'
  BY <1>4 DEF Inside
<1> QED
  BY <1>3, <1>5, <1>6, QuietWindowInv

\* The call loads event_window: it ends, or goes on with another window than its own.
LEMMA LoadWindowInv == ASSUME WindowInv, NEW t \in Threads, Load(t) PROVE WindowInv'
<1>1. UNCHANGED <<clock, event_window, emitted, overtaken>>
  BY DEF Load
<1>2. CASE Suppress(t)
  BY <1>1, <1>2, SuppressWindowInv
<1>3. CASE /\ pc[t] = "load" /\ event_window # window[t]
           /\ previous' = [previous EXCEPT ![t] = event_window]
           /\ pc' = [pc EXCEPT ![t] = "exchange"]
           /\ UNCHANGED window
  <2>1. WindowTypes'
    BY <1>1, <1>3 DEF WindowInv, WindowTypes
  <2>2. previous'[t] = event_window
    BY <1>3 DEF WindowInv, WindowTypes
  <2>3. \A u \in Threads \ {t} :
          pc'[u] = pc[u] /\ window'[u] = window[u] /\ previous'[u] = previous[u]
    BY <1>3 DEF WindowInv, WindowTypes
  <2>4. Inside(t) => Inside(t)'
    BY <1>1, <1>3, <2>2 DEF Inside
  <2> QED
    BY <1>1, <2>1, <2>3, <2>4, QuietWindowInv
<1> QED
  BY <1>2, <1>3 DEF Load

\* The exchange succeeds: event_window still holds the window the call loaded, so
\* there is no event of the clock's window yet.
LEMMA EmitWindowInv ==
  ASSUME WindowInv, NEW t \in Threads, pc[t] = "exchange", event_window = previous[t],
         Emit(t), UNCHANGED <<clock, overtaken>>
  PROVE  WindowInv'
<1>1. /\ event_window' = window[t] /\ emitted' = [emitted EXCEPT ![window[t]] = @ + 1]
      /\ pc' = [pc EXCEPT ![t] = "idle"] /\ window' = [window EXCEPT ![t] = 0]
      /\ previous' = [previous EXCEPT ![t] = 0]
  BY DEF Emit
<1>2. WindowTypes'
  <2>1. /\ event_window' \in Nat /\ pc' \in [Threads -> {"idle", "load", "exchange"}]
        /\ clock' \in Windows
    BY <1>1 DEF WindowInv, WindowTypes
  <2>2. window' \in [Threads -> Nat] /\ previous' \in [Threads -> Nat]
    BY SMT, <1>1 DEF WindowInv, WindowTypes
  <2>3. emitted' \in [Windows -> Nat]
    <3>1. \A n \in Nat : n + 1 \in Nat
      BY SMT
    <3> QED
      BY <1>1, <3>1 DEF WindowInv, WindowTypes
  <2> QED
    BY <2>1, <2>2, <2>3 DEF WindowTypes
<1>3. ASSUME ~overtaken'
      PROVE  Events' /\ \A u \in Threads : Inside(u)'
  <2>1. Events /\ \A u \in Threads : Inside(u)
    BY <1>3 DEF WindowInv, Undisturbed
  <2>2. window[t] = clock /\ emitted[clock] = 0
    BY <2>1 DEF Inside, Events
  <2>3. /\ emitted'[clock] = 1
        /\ \A w \in Windows \ {clock} : emitted'[w] = emitted[w]
    BY SMT, <1>1, <2>2 DEF WindowInv, WindowTypes
  <2>4. event_window' = clock'
    BY <1>1, <2>2
  <2>5. Events'
    <3>1. clock \in Windows /\ clock <= clock /\ 1 <= 1 /\ ~(clock > clock)
      BY SMT DEF WindowInv, WindowTypes, Windows
    <3> QED
      BY <2>1, <2>3, <2>4, <3>1 DEF Events
  <2>6. \A u \in Threads \ {t} :
          pc'[u] = pc[u] /\ window'[u] = window[u] /\ previous'[u] = previous[u]
    BY <1>1 DEF WindowInv, WindowTypes
  <2>7. pc'[t] = "idle"
    BY <1>1 DEF WindowInv, WindowTypes
  <2> QED
    BY <2>1, <2>5, <2>6, <2>7 DEF Inside
<1> QED
  BY <1>2, <1>3 DEF WindowInv, Undisturbed

\* Every step keeps the invariant.
LEMMA StepWindowInv == WindowInv /\ [NextWindow]_windowVars => WindowInv'
<1> SUFFICES ASSUME WindowInv, [NextWindow]_windowVars PROVE WindowInv'
  OBVIOUS
<1>1. ASSUME NEW t \in Threads, Exchange(t) PROVE WindowInv'
  <2>1. pc[t] = "exchange" /\ UNCHANGED <<clock, overtaken>>
    BY <1>1 DEF Exchange
  <2>2. CASE event_window = previous[t] /\ Emit(t)
    BY <2>1, <2>2, EmitWindowInv
  <2>3. CASE Suppress(t) /\ UNCHANGED <<event_window, emitted>>
    BY <2>1, <2>3, SuppressWindowInv
  <2> QED
    BY <1>1, <2>2, <2>3 DEF Exchange
<1>2. CASE UNCHANGED windowVars
  BY <1>2 DEF windowVars, WindowInv, WindowTypes, Undisturbed, Events, Inside
<1> QED
  BY <1>1, <1>2, TickWindowInv, ReadClockWindowInv, LoadWindowInv DEF NextWindow

\* However many threads race within a window, the load and the compare-and-exchange
\* of Metrics::event let one of them emit, as long as no call is inside event when
\* a window ends.
THEOREM OneEventWhenNotOvertaken == WindowSpec => []OneEventUnlessOvertaken
<1>1. WindowInv => OneEventUnlessOvertaken
  BY DEF WindowInv, Undisturbed, Events, OneEventUnlessOvertaken, OneEventPerWindow
<1> QED
  BY <1>1, InitWindowInv, StepWindowInv, PTL DEF WindowSpec
=============================================================================
