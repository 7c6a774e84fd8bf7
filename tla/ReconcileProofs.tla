-------------------------- MODULE ReconcileProofs ---------------------------
(***************************************************************************)
(* `leelo-collector reconcile`, for any fleet, any number of boots,        *)
(* reports, enrollments and paths, and any interleaving with the operator, *)
(* the management plane and the CLI: what the exported verdicts and counts *)
(* mean.                                                                   *)
(*                                                                         *)
(* The properties are about the exported file.  The invariant follows the  *)
(* process from what it reads (Sources, Read) over what it decides         *)
(* (Classified, Tallied) to the file (Exported, Counted).                  *)
(***************************************************************************)
EXTENDS Reconcile, FiniteSetTheorems, TLAPS

\* Sets and functions are left to Zenon; a leaf that needs arithmetic cites SMT.
USE Zenon

\* Boots as they are reported.
Reports(S) == \A r \in S : r.observed_at \in Nat /\ r.outcome \in {"success", "failure"}

\* The input files list what there is, and the journals are counted records.
Sources ==
  /\ fleet \in Fleets
  /\ now \in Nat
  /\ Reports(happened)
  /\ observations \in [updated_at : Nat, boots : Seq(happened)]
  /\ inventory.boots \in Seq(fleet.boots)
  /\ inventory.enrollments \in Seq(fleet.enrollments)
  /\ journals \in [Files -> [records : Nat, torn : BOOLEAN]]

Reading == {"observations", "clock", "journals"}
Deciding == {"journals"}

\* What the process has read of them is of the same kind, and no report that it read
\* has been taken back since.
Read ==
  /\ run.step \in Reading \cup {"idle"}
  /\ run.step \in Reading =>
       /\ run.inventory.boots \in Seq(fleet.boots)
       /\ run.inventory.enrollments \in Seq(fleet.enrollments)
  /\ run.step \in Reading \ {"observations"} =>
       /\ run.observations \in [updated_at : Nat, boots : Seq(happened)]
       /\ Range(run.observations.boots) \subseteq Range(observations.boots)

\* The verdicts are those of what was read.
Classified ==
  run.step \in Deciding =>
    /\ DOMAIN run = {"step", "inventory", "observations", "now", "states", "next", "tally"}
    /\ DOMAIN run.states = DOMAIN run.inventory.boots
    /\ \A i \in DOMAIN run.states :
         run.states[i] = classify(run.inventory, run.observations, run.now,
                                  run.inventory.boots[i])

\* A report in the list that makes the boot a late one.
Late(list, b) == \E r \in Range(list) : eligible(r, b) /\ r.observed_at > b.deadline

\* There is one file at most.  It tells equal boots alike, its successes took place, and
\* the report that made a boot late is in every list the process works with since.
Exported ==
  /\ \A d, e \in output : d = e
  /\ \A d \in output :
       /\ DOMAIN d.states = DOMAIN d.boots
       /\ \A i, j \in DOMAIN d.states : d.boots[i] = d.boots[j] => d.states[i] = d.states[j]
       /\ \A i \in DOMAIN d.states : d.states[i] = "late_success" =>
            /\ Late(observations.boots, d.boots[i])
            /\ run.step \in Reading \ {"observations"} =>
                 Late(run.observations.boots, d.boots[i])

BootsInv == Sources /\ Read /\ Classified /\ Exported /\ SuccessIsTimely

\* The journals behind the first n enrollments of a list.
behind(list, n) == {inode[list[i].journal] : i \in 1..n}

complete(S) == {f \in S : journals[f].records = RECORDS}

known(count) == count["pending"] + count["awaiting_boot_test"] + count["resolved"]
done(count) == count["awaiting_boot_test"] + count["resolved"]

\* So many enrollments have been counted; each that is not unknown stands for a journal
\* of its own, and for a complete one if it counts as committed.
Tally(tally, list, n) ==
  /\ DOMAIN tally = {"count", "oldest", "files"}
  /\ tally.count \in [Categories -> Nat]
  /\ known(tally.count) + tally.count["unknown"] = n
  /\ tally.files \subseteq behind(list, n)
  /\ known(tally.count) <= Cardinality(tally.files)
  /\ done(tally.count) <= Cardinality(complete(tally.files))

Tallied ==
  run.step \in Deciding =>
    /\ run.next \in 1..(Len(run.inventory.enrollments) + 1)
    /\ Tally(run.tally, run.inventory.enrollments, run.next - 1)

Counted ==
  \A d \in output : d.enrollments \in Seq(fleet.enrollments)
                    /\ Tally(d.tally, d.enrollments, Len(d.enrollments))

CountsInv == Tallied /\ Counted

RInv == BootsInv /\ CountsInv

-----------------------------------------------------------------------------
(* How a boot is classified                                                *)

\* A set that has 0 and with each number the next one has them all.
LEMMA Induction ==
  ASSUME NEW S, 0 \in S, \A n \in Nat : n \in S => n + 1 \in S
  PROVE  Nat \subseteq S
<1> SUFFICES ASSUME Nat \ S # {} PROVE FALSE
  OBVIOUS
<1> DEFINE R == OpToRel(<, Nat)
<1>1. IsWellFoundedOn(R, Nat)
  BY NatLessThanWellFounded
<1>2. \A x, y \in Nat : <<x, y>> \in R <=> x < y
  BY DEF OpToRel
<1> HIDE DEF R
<1>3. PICK x \in Nat \ S : \A y \in Nat \ S : ~(<<y, x>> \in R)
  BY <1>1, WFMin
<1>4. x # 0 /\ x \in Nat
  BY <1>3
<1>5. x - 1 \in Nat /\ x - 1 < x /\ (x - 1) + 1 = x
  BY SMT, <1>4
<1>6. x - 1 \in S
  BY <1>2, <1>3, <1>5
<1> QED
  BY <1>3, <1>5, <1>6

\* What a list has among its members is of the list's kind.
LEMMA RangeIn ==
  ASSUME NEW S, NEW list \in Seq(S)
  PROVE  Range(list) \subseteq S
<1>1. \A i \in DOMAIN list : list[i] \in S
  BY SMT
<1> QED
  BY <1>1 DEF Range

\* The report that max_by_key keeps is one of the list, about this boot, and none of
\* those is later.
LEMMA LatestIs ==
  ASSUME NEW S, Reports(S), NEW obs \in [updated_at : Nat, boots : Seq(S)], NEW b,
         NEW r \in latest(obs, b)
  PROVE  /\ r \in Range(obs.boots) /\ r \in S /\ eligible(r, b)
         /\ \A q \in Range(obs.boots) : eligible(q, b) => q.observed_at <= r.observed_at
<1>1. PICK k \in reports(obs, b) :
        /\ r = obs.boots[k]
        /\ \A j \in reports(obs, b) :
             \/ obs.boots[j].observed_at < obs.boots[k].observed_at
             \/ obs.boots[j].observed_at = obs.boots[k].observed_at /\ j <= k
  BY DEF latest
<1>2. k \in DOMAIN obs.boots /\ eligible(r, b)
  BY <1>1 DEF reports
<1>3. obs.boots \in Seq(S)
  BY SMT
<1>4. \A j \in DOMAIN obs.boots : obs.boots[j] \in S
  BY SMT, <1>3
<1>5. ASSUME NEW q \in Range(obs.boots), eligible(q, b)
      PROVE  q.observed_at <= r.observed_at
  <2>1. PICK j \in DOMAIN obs.boots : q = obs.boots[j]
    BY <1>5 DEF Range
  <2>2. q.observed_at < r.observed_at \/ q.observed_at = r.observed_at
    BY <1>1, <1>5, <2>1 DEF reports
  <2>3. q.observed_at \in Nat /\ r.observed_at \in Nat
    BY <1>1, <1>2, <1>4, <2>1 DEF Reports
  <2> QED
    BY SMT, <2>2, <2>3
<1> QED
  BY <1>1, <1>2, <1>4, <1>5 DEF Range

\* max_by_key keeps one where there is one.
LEMMA LatestExists ==
  ASSUME NEW S, Reports(S), NEW obs \in [updated_at : Nat, boots : Seq(S)], NEW b,
         NEW q \in Range(obs.boots), eligible(q, b)
  PROVE  latest(obs, b) # {}
<1> DEFINE list == reports(obs, b)
           at(i) == obs.boots[i].observed_at
           beats(k, j) == at(j) < at(k) \/ (at(j) = at(k) /\ j <= k)
           best(n) == (\E i \in list : i <= n) =>
                        \E k \in list : k <= n /\ \A j \in list : j <= n => beats(k, j)
           P == {n \in Nat : best(n)}
<1>1. obs.boots \in Seq(S)
  BY SMT
<1>2. \A j \in DOMAIN obs.boots : obs.boots[j] \in S /\ j \in Nat /\ j > 0 /\ j <= Len(obs.boots)
  BY SMT, <1>1
<1>3. \A j \in list : at(j) \in Nat /\ j \in Nat /\ j > 0 /\ j <= Len(obs.boots)
  BY <1>2 DEF reports, Reports
<1> HIDE DEF list, at
<1>4. 0 \in P
  BY SMT, <1>3
<1>5. ASSUME NEW n \in Nat, n \in P PROVE n + 1 \in P
  <2>1. CASE n + 1 \notin list
    <3>1. \A j \in list : j <= n + 1 => j <= n
      BY SMT, <1>3, <2>1
    <3>2. \A j \in list : j <= n => j <= n + 1
      BY SMT, <1>3
    <3>3. best(n + 1)
      BY <1>5, <3>1, <3>2
    <3>4. n + 1 \in Nat
      BY SMT
    <3> QED
      BY <3>3, <3>4
  <2>2. CASE n + 1 \in list /\ \A j \in list : j <= n => beats(n + 1, j)
    <3>1. \A j \in list : j <= n + 1 => beats(n + 1, j)
      BY SMT, <1>3, <2>2
    <3>2. n + 1 \in Nat /\ n + 1 <= n + 1
      BY SMT
    <3> QED
      BY <2>2, <3>1, <3>2
  <2>3. CASE n + 1 \in list /\ \E j \in list : j <= n /\ ~beats(n + 1, j)
    <3>1. PICK k \in list : k <= n /\ \A j \in list : j <= n => beats(k, j)
      BY <1>5, <2>3
    <3>2. PICK i \in list : i <= n /\ ~beats(n + 1, i)
      BY <2>3
    <3>3. at(n + 1) < at(k)
      <4>1. beats(k, i)
        BY <3>1, <3>2
      <4>2. i <= n + 1
        BY SMT, <1>3, <3>2
      <4> QED
        BY SMT, <1>3, <2>3, <3>1, <3>2, <4>1, <4>2
    <3>4. \A j \in list : j <= n + 1 => j <= n \/ j = n + 1
      BY SMT, <1>3
    <3>5. \A j \in list : j <= n + 1 => beats(k, j)
      BY <3>1, <3>3, <3>4
    <3>6. n + 1 \in Nat /\ k <= n + 1
      BY SMT, <1>3, <3>1
    <3> QED
      BY <3>1, <3>5, <3>6
  <2> QED
    BY <2>1, <2>2, <2>3
<1> HIDE DEF P
<1>6. Nat \subseteq P
  BY <1>4, <1>5, Induction
<1>7. best(Len(obs.boots))
  <2>1. Len(obs.boots) \in Nat
    BY SMT, <1>1
  <2> QED
    BY <1>6, <2>1 DEF P
<1>8. PICK i \in DOMAIN obs.boots : q = obs.boots[i]
  BY DEF Range
<1>9. i \in list
  BY <1>8 DEF list, reports
<1>10. \E m \in list : m <= Len(obs.boots)
  BY <1>3, <1>9
<1>11. PICK k \in list : \A j \in list : beats(k, j)
  BY <1>3, <1>7, <1>10
<1>12. obs.boots[k] \in latest(obs, b)
  BY <1>11 DEF latest, list, at
<1> QED
  BY <1>12

\* What classify says where both files are fresh and there is a report.
LEMMA ClassifyFound ==
  ASSUME NEW inv, NEW obs, NEW at, NEW b, latest(obs, b) # {},
         fresh(inv.updated_at, at), fresh(obs.updated_at, at)
  PROVE  \E last \in latest(obs, b) :
           /\ last = CHOOSE r \in latest(obs, b) : TRUE
           /\ classify(inv, obs, at, b) =
                IF conflicting(obs, b, last) THEN "unknown"
                ELSE IF last.outcome = "failure" THEN "failure"
                ELSE IF last.observed_at > b.deadline THEN "late_success"
                ELSE "success"
<1> DEFINE last == CHOOSE r \in latest(obs, b) : TRUE
<1>1. last \in latest(obs, b)
  OBVIOUS
<1>2. classify(inv, obs, at, b) =
        IF conflicting(obs, b, last) THEN "unknown"
        ELSE IF last.outcome = "failure" THEN "failure"
        ELSE IF last.observed_at > b.deadline THEN "late_success"
        ELSE "success"
  <2>1. CASE conflicting(obs, b, last)
    BY <2>1 DEF classify
  <2>2. CASE ~conflicting(obs, b, last)
    BY <2>2 DEF classify
  <2> QED
    BY <2>1, <2>2
<1> QED
  BY <1>1, <1>2

\* What a verdict says of the reports it was reached on: a success took place in time and
\* no report of that boot is late; a late success has such a report.
BorneOut(verdict, list, b, S) ==
  /\ verdict = "success" =>
       /\ ~Late(list, b)
       /\ \E h \in S : /\ of_boot(h, b) /\ h.outcome = "success"
                       /\ h.observed_at \in b.requested_at..b.deadline
  /\ verdict = "late_success" => Late(list, b)

\* Every verdict is borne out by the reports it was reached on (render).
LEMMA Told ==
  ASSUME NEW S, Reports(S), NEW obs \in [updated_at : Nat, boots : Seq(S)],
         NEW inv, NEW at, NEW b, b.requested_at \in Nat, b.deadline \in Nat
  PROVE  BorneOut(classify(inv, obs, at, b), obs.boots, b, S)
<1> DEFINE verdict == classify(inv, obs, at, b)
<1> SUFFICES
      /\ verdict = "success" =>
           /\ ~Late(obs.boots, b)
           /\ \E h \in S : /\ of_boot(h, b) /\ h.outcome = "success"
                           /\ h.observed_at \in b.requested_at..b.deadline
      /\ verdict = "late_success" => Late(obs.boots, b)
  BY DEF BorneOut
<1>1. CASE ~fresh(inv.updated_at, at) \/ ~fresh(obs.updated_at, at)
  <2>1. verdict = "unknown"
    BY <1>1 DEF classify
  <2> QED
    BY <2>1
<1>2. CASE /\ fresh(inv.updated_at, at) /\ fresh(obs.updated_at, at)
           /\ latest(obs, b) = {}
  <2>1. verdict \in {"pending", "missing"}
    BY <1>2 DEF classify
  <2> QED
    BY <2>1
<1>3. CASE /\ fresh(inv.updated_at, at) /\ fresh(obs.updated_at, at)
           /\ latest(obs, b) # {}
  <2>0. obs.boots \in Seq(S)
    BY SMT
  <2>1. PICK last \in latest(obs, b) :
          verdict = IF conflicting(obs, b, last) THEN "unknown"
                    ELSE IF last.outcome = "failure" THEN "failure"
                    ELSE IF last.observed_at > b.deadline THEN "late_success"
                    ELSE "success"
    BY <1>3, ClassifyFound
  <2>2. /\ last \in Range(obs.boots) /\ last \in S /\ eligible(last, b)
        /\ \A q \in Range(obs.boots) : eligible(q, b) => q.observed_at <= last.observed_at
    BY LatestIs
  <2>3. last.observed_at \in Nat /\ last.outcome \in {"success", "failure"}
    BY <2>2 DEF Reports
  <2>4. CASE verdict = "success"
    <3>1. last.outcome = "success" /\ ~(last.observed_at > b.deadline)
      BY <2>1, <2>3, <2>4
    <3>2. of_boot(last, b) /\ last.observed_at >= b.requested_at
      BY <2>2 DEF eligible
    <3>3. last.observed_at \in b.requested_at..b.deadline
      BY SMT, <2>3, <3>1, <3>2
    <3>4. ASSUME NEW q \in Range(obs.boots), eligible(q, b), q.observed_at > b.deadline
          PROVE  FALSE
      <4>1. q.observed_at <= last.observed_at
        BY <2>2, <3>4
      <4>2. q.observed_at \in Nat
        BY <2>0, RangeIn DEF Reports
      <4> QED
        BY SMT, <2>3, <3>1, <3>4, <4>1, <4>2
    <3> QED
      BY <2>2, <2>4, <3>1, <3>2, <3>3, <3>4 DEF Late
  <2>5. CASE verdict = "late_success"
    BY <2>1, <2>2, <2>5 DEF Late
  <2> QED
    BY <2>4, <2>5
<1> QED
  BY <1>1, <1>2, <1>3

\* Two lists of the same reports get the same verdict, whatever their order.
LEMMA SameReports ==
  ASSUME NEW S, Reports(S), NEW obs \in [updated_at : Nat, boots : Seq(S)],
         NEW oth \in [updated_at : Nat, boots : Seq(S)],
         obs.updated_at = oth.updated_at, Range(obs.boots) = Range(oth.boots),
         NEW inv, NEW at, NEW b
  PROVE  classify(inv, obs, at, b) = classify(inv, oth, at, b)
<1>1. CASE ~fresh(inv.updated_at, at) \/ ~fresh(obs.updated_at, at)
  BY <1>1 DEF classify
<1>2. latest(obs, b) = {} <=> latest(oth, b) = {}
  <2>1. \A r \in latest(obs, b) : r \in Range(obs.boots) /\ eligible(r, b)
    BY LatestIs
  <2>2. \A r \in latest(oth, b) : r \in Range(oth.boots) /\ eligible(r, b)
    BY LatestIs
  <2> QED
    BY <2>1, <2>2, LatestExists
<1>3. CASE /\ fresh(inv.updated_at, at) /\ fresh(obs.updated_at, at)
           /\ latest(obs, b) = {}
  BY <1>2, <1>3 DEF classify
<1>4. CASE /\ fresh(inv.updated_at, at) /\ fresh(obs.updated_at, at)
           /\ latest(obs, b) # {}
  <2>1. PICK p \in latest(obs, b) :
          classify(inv, obs, at, b) =
            IF conflicting(obs, b, p) THEN "unknown"
            ELSE IF p.outcome = "failure" THEN "failure"
            ELSE IF p.observed_at > b.deadline THEN "late_success"
            ELSE "success"
    BY <1>4, ClassifyFound
  <2>2. PICK q \in latest(oth, b) :
          classify(inv, oth, at, b) =
            IF conflicting(oth, b, q) THEN "unknown"
            ELSE IF q.outcome = "failure" THEN "failure"
            ELSE IF q.observed_at > b.deadline THEN "late_success"
            ELSE "success"
    BY <1>2, <1>4, ClassifyFound
  <2>3. /\ p \in Range(obs.boots) /\ p \in S /\ eligible(p, b)
        /\ \A r \in Range(obs.boots) : eligible(r, b) => r.observed_at <= p.observed_at
    BY LatestIs
  <2>4. /\ q \in Range(oth.boots) /\ q \in S /\ eligible(q, b)
        /\ \A r \in Range(oth.boots) : eligible(r, b) => r.observed_at <= q.observed_at
    BY LatestIs
  <2>5. p.observed_at = q.observed_at
    <3>1. p.observed_at <= q.observed_at /\ q.observed_at <= p.observed_at
      BY <2>3, <2>4
    <3>2. p.observed_at \in Nat /\ q.observed_at \in Nat
      BY <2>3, <2>4 DEF Reports
    <3> QED
      BY SMT, <3>1, <3>2
  <2>6. of_boot(p, b) /\ of_boot(q, b)
    BY <2>3, <2>4 DEF eligible
  <2>7. CASE p.outcome = q.outcome
    <3>1. conflicting(obs, b, p) <=> conflicting(oth, b, q)
      BY <2>5, <2>7 DEF conflicting
    <3>2. CASE conflicting(obs, b, p)
      BY <2>1, <2>2, <3>1, <3>2
    <3>3. CASE ~conflicting(obs, b, p)
      <4>1. classify(inv, obs, at, b) =
              IF p.outcome = "failure" THEN "failure"
              ELSE IF p.observed_at > b.deadline THEN "late_success" ELSE "success"
        BY <2>1, <3>3
      <4>2. classify(inv, oth, at, b) =
              IF q.outcome = "failure" THEN "failure"
              ELSE IF q.observed_at > b.deadline THEN "late_success" ELSE "success"
        BY <2>2, <3>1, <3>3
      <4> QED
        BY SMT, <2>5, <2>7, <4>1, <4>2
    <3> QED
      BY <3>2, <3>3
  <2>8. CASE p.outcome # q.outcome
    <3>1. conflicting(obs, b, p) /\ conflicting(oth, b, q)
      BY <2>3, <2>4, <2>5, <2>6, <2>8 DEF conflicting
    <3> QED
      BY <2>1, <2>2, <3>1
  <2> QED
    BY <2>7, <2>8
<1> QED
  BY <1>1, <1>3, <1>4

-----------------------------------------------------------------------------
(* The boots: the fleet, the operator and the management plane             *)

\* A list of members is one of members of a larger set.
LEMMA ListGrows ==
  ASSUME NEW S, NEW T, S \subseteq T
  PROVE  Seq(S) \subseteq Seq(T)
  BY SMT

\* A finite set put in order is a list of its members, all of them.
LEMMA InOrder ==
  ASSUME NEW S, IsFiniteSet(S), NEW order \in orders(S)
  PROVE  order \in Seq(S) /\ Range(order) = S
<1>1. Cardinality(S) \in Nat
  BY FS_CardinalityType
<1>2. order \in [1..Cardinality(S) -> S]
  BY DEF orders, Surjection
<1>3. \A x \in S : \E i \in 1..Cardinality(S) : order[i] = x
  BY DEF orders, Surjection
<1>4. order \in Seq(S)
  BY SMT, <1>1, <1>2
<1>5. Range(order) = S
  BY <1>2, <1>3 DEF Range
<1> QED
  BY <1>4, <1>5

\* What the world may do to what the process relies on: nothing is taken back.
Grows ==
  /\ Sources'
  /\ fleet' = fleet
  /\ happened \subseteq happened'
  /\ Range(observations.boots) \subseteq Range(observations'.boots)

\* Appending a report keeps the ones there are.
LEMMA Appended ==
  ASSUME NEW S, NEW list \in Seq(S), NEW x \in S
  PROVE  Append(list, x) \in Seq(S) /\ Range(list) \subseteq Range(Append(list, x))
<1>1. Append(list, x) \in Seq(S)
  BY SMT
<1>2. \A i \in DOMAIN list : i \in DOMAIN Append(list, x) /\ Append(list, x)[i] = list[i]
  BY SMT
<1> QED
  BY <1>1, <1>2 DEF Range

\* Nothing takes a report or a boot back.
LEMMA WorldGrows ==
  ASSUME Sources, World
  PROVE  Grows
<1> USE DEF Sources
<1>1. CASE Tick
  <2>1. now' \in Nat
    BY SMT, <1>1 DEF Tick
  <2> QED
    BY <1>1, <2>1 DEF Tick, Grows
<1>2. CASE \E b \in fleet.boots, i \in BootIds, o \in {"success", "failure"} :
             Boot(b.target, i, o)
  <2>1. PICK b \in fleet.boots, i \in BootIds, o \in {"success", "failure"} :
          Boot(b.target, i, o)
    BY <1>2
  <2> DEFINE new == [target |-> b.target, boot_id |-> i, observed_at |-> now, outcome |-> o]
  <2>2. happened' = happened \cup {new}
    BY <2>1 DEF Boot
  <2>3. Reports(happened')
    <3>1. new.observed_at \in Nat /\ new.outcome \in {"success", "failure"}
      BY SMT
    <3> HIDE DEF new
    <3> QED
      BY <2>2, <3>1 DEF Reports
  <2>4. observations' \in [updated_at : Nat, boots : Seq(happened')]
    <3>1. Seq(happened) \subseteq Seq(happened')
      BY <2>2, ListGrows
    <3>2. observations' = observations
      BY <2>1 DEF Boot
    <3> HIDE DEF new
    <3> QED
      BY SMT, <3>1, <3>2
  <2> QED
    BY <2>1, <2>2, <2>3, <2>4 DEF Boot, Grows
<1>3. CASE Observe
  <2>1. observations.boots \in Seq(happened)
    BY SMT
  <2>2. /\ observations'.boots \in Seq(happened)
        /\ Range(observations.boots) \subseteq Range(observations'.boots)
        /\ observations' = [updated_at |-> now, boots |-> observations'.boots]
    <3>1. CASE observations' = [updated_at |-> now, boots |-> observations.boots]
      BY <2>1, <3>1
    <3>2. ASSUME NEW report \in happened,
                 observations' = [updated_at |-> now,
                                  boots |-> Append(observations.boots, report)]
          PROVE  <2>2!:
      BY <2>1, <3>2, Appended
    <3> QED
      BY <1>3, <3>1, <3>2 DEF Observe
  <2>3. observations' \in [updated_at : Nat, boots : Seq(happened)]
    BY SMT, <2>2
  <2> QED
    BY <1>3, <2>2, <2>3 DEF Observe, Grows
<1>4. CASE Maintain
  <2>1. PICK boots \in SUBSET fleet.boots, recordable \in SUBSET fleet.enrollments :
          \E listed \in orders(boots), recorded \in orders(recordable) :
            inventory' = [updated_at |-> now, boots |-> listed, enrollments |-> recorded]
    BY <1>4 DEF Maintain
  <2>2. PICK listed \in orders(boots), recorded \in orders(recordable) :
            inventory' = [updated_at |-> now, boots |-> listed, enrollments |-> recorded]
    BY <2>1
  <2>3. IsFiniteSet(boots) /\ IsFiniteSet(recordable)
    BY TimesAssumption, FS_Subset
  <2>4. listed \in Seq(fleet.boots) /\ recorded \in Seq(fleet.enrollments)
    <3>1. listed \in Seq(boots) /\ recorded \in Seq(recordable)
      BY <2>3, InOrder
    <3> QED
      BY <3>1, ListGrows
  <2>5. /\ inventory'.boots \in Seq(fleet.boots)
        /\ inventory'.enrollments \in Seq(fleet.enrollments)
    BY <2>2, <2>4
  <2> QED
    BY <1>4, <2>5 DEF Maintain, Grows
<1>5. CASE \E e \in fleet.enrollments : WriteJournal(inode[e.journal])
  <2>1. PICK e \in fleet.enrollments : WriteJournal(inode[e.journal])
    BY <1>5
  <2>2. inode[e.journal] \in Files
    BY PathAssumption DEF Files
  <2> DEFINE f == inode[e.journal]
  <2>3. journals' \in [Files -> [records : Nat, torn : BOOLEAN]]
    <3>1. journals' = [journals EXCEPT ![f] =
             IF @.torn THEN [records |-> @.records + 1, torn |-> FALSE]
                       ELSE [@ EXCEPT !.torn = TRUE]]
      BY <2>1 DEF WriteJournal
    <3>2. f \in Files /\ journals[f] \in [records : Nat, torn : BOOLEAN]
      BY <2>2
    <3> DEFINE j == journals[f]
               k == IF j.torn THEN [records |-> j.records + 1, torn |-> FALSE]
                              ELSE [j EXCEPT !.torn = TRUE]
    <3>3. journals' = [journals EXCEPT ![f] = k]
      BY <3>1
    <3>4. k \in [records : Nat, torn : BOOLEAN]
      <4>1. j.records + 1 \in Nat
        BY SMT, <3>2
      <4>2. [j EXCEPT !.torn = TRUE] \in [records : Nat, torn : BOOLEAN]
        <5>1. j \in [records : Nat, torn : BOOLEAN]
          BY <3>2
        <5> HIDE DEF j
        <5> QED
          BY <5>1
      <4> QED
        BY <4>1, <4>2
    <3> HIDE DEF f, j, k
    <3> QED
      BY <3>2, <3>3, <3>4
  <2> QED
    BY <2>1, <2>3 DEF WriteJournal, Grows
<1> QED
  BY <1>1, <1>2, <1>3, <1>4, <1>5 DEF World

\* A step of the world leaves the process and the file alone, and both stay right.
LEMMA BootsWorld ==
  ASSUME BootsInv, World
  PROVE  BootsInv'
<1> USE DEF BootsInv
<1>1. Grows
  BY WorldGrows
<1>2. run' = run /\ output' = output
  BY DEF World
<1>3. Read'
  <2>1. Seq(happened) \subseteq Seq(happened')
    BY <1>1, ListGrows DEF Grows
  <2>2. ASSUME run.step \in Reading \ {"observations"}
        PROVE  run.observations \in [updated_at : Nat, boots : Seq(happened')]
    BY SMT, <2>1, <2>2 DEF Read
  <2> QED
    BY <1>1, <1>2, <2>2 DEF Read, Grows
<1>4. Classified'
  BY <1>2 DEF Classified
<1>5. Exported'
  <2>1. ASSUME NEW b, Late(observations.boots, b)
        PROVE  Late(observations'.boots, b)
    BY <1>1, <2>1 DEF Late, Grows
  <2> QED
    BY <1>2, <2>1 DEF Exported
<1>6. SuccessIsTimely'
  BY <1>1, <1>2 DEF SuccessIsTimely, Grows
<1> QED
  BY <1>1, <1>3, <1>4, <1>5, <1>6 DEF Grows

-----------------------------------------------------------------------------
(* The boots: the process                                                  *)

\* What a step that leaves the files alone keeps.
LEMMA SourcesKept ==
  ASSUME Sources, UNCHANGED environment
  PROVE  Sources'
  BY DEF Sources, environment

\* A run that ends leaves what was exported.
LEMMA BootsIdle ==
  ASSUME BootsInv, UNCHANGED environment, run' = Idle, output' = output
  PROVE  BootsInv'
<1> USE DEF BootsInv
<1>1. run'.step = "idle" /\ "idle" \notin Reading /\ "idle" \notin Deciding
  BY DEF Idle, Reading, Deciding
<1>2. observations' = observations /\ happened' = happened
  BY DEF environment
<1>3. Read' /\ Classified'
  BY <1>1 DEF Read, Classified
<1>4. Exported'
  BY <1>1, <1>2 DEF Exported
<1>5. SuccessIsTimely'
  BY <1>2 DEF SuccessIsTimely
<1> QED
  BY <1>3, <1>4, <1>5, SourcesKept

\* So does one that goes on to other enrollments, or to the file.
LEMMA BootsGoesOn ==
  ASSUME BootsInv, UNCHANGED environment, output' = output,
         run.step \in Deciding, run'.step \in Deciding, DOMAIN run' = DOMAIN run,
         run'.inventory = run.inventory, run'.observations = run.observations,
         run'.now = run.now, run'.states = run.states
  PROVE  BootsInv'
<1> USE DEF BootsInv
<1>1. /\ run.step \in Reading \ {"observations"} /\ run'.step \in Reading \ {"observations"}
      /\ run.step \in Reading /\ run'.step \in Reading
  BY DEF Reading, Deciding
<1>2. observations' = observations /\ happened' = happened /\ fleet' = fleet
  BY DEF environment
<1>3. Read'
  BY <1>1, <1>2 DEF Read
<1>4. Classified'
  BY DEF Classified
<1>5. Exported'
  BY <1>1, <1>2 DEF Exported
<1>6. SuccessIsTimely'
  BY <1>2 DEF SuccessIsTimely
<1> QED
  BY <1>3, <1>4, <1>5, <1>6, SourcesKept

\* Each input file is read as it is at that moment, and the boots are classified.
LEMMA BootsRead ==
  ASSUME BootsInv, ReadInventory \/ ReadObservations \/ ReadClock
  PROVE  BootsInv'
<1> USE DEF BootsInv
<1>1. /\ UNCHANGED environment /\ output' = output
      /\ observations' = observations /\ happened' = happened /\ fleet' = fleet
  BY DEF ReadInventory, ReadObservations, ReadClock, environment
<1>2. SuccessIsTimely' /\ Sources'
  BY <1>1, SourcesKept DEF SuccessIsTimely
<1>3. CASE ReadInventory
  <2>1. run'.step = "observations" /\ run'.inventory = inventory
    BY <1>3 DEF ReadInventory
  <2>2. Read' /\ Classified'
    BY <1>1, <2>1 DEF Read, Classified, Sources, Reading, Deciding
  <2>3. Exported'
    BY <1>1, <2>1 DEF Exported
  <2> QED
    BY <1>2, <2>2, <2>3
<1>4. CASE ReadObservations
  <2>1. /\ run'.step = "clock" /\ run'.inventory = run.inventory
        /\ run'.observations = observations
        /\ run.step \in Reading
    BY <1>4 DEF ReadObservations, Reading
  <2>2. Read' /\ Classified'
    BY <1>1, <2>1 DEF Read, Classified, Sources, Reading, Deciding
  <2>3. Exported'
    BY <1>1, <2>1 DEF Exported
  <2> QED
    BY <1>2, <2>2, <2>3
<1>5. CASE ReadClock /\ valid(run.inventory, run.observations)
  <2> DEFINE told == [i \in DOMAIN run.inventory.boots |->
                        classify(run.inventory, run.observations, now, run.inventory.boots[i])]
  <2>1. run' = [step |-> "journals", inventory |-> run.inventory,
                observations |-> run.observations, now |-> now, states |-> told,
                next |-> 1, tally |-> NoTally]
    BY <1>5 DEF ReadClock
  <2>2. DOMAIN run' = {"step", "inventory", "observations", "now", "states", "next", "tally"}
    BY SMT, <2>1
  <2>3. /\ run'.step = "journals" /\ run'.inventory = run.inventory
        /\ run'.observations = run.observations /\ run'.now = now /\ run'.states = told
    BY <2>1
  <2>4. /\ run.step \in Reading \ {"observations"} /\ run'.step \in Reading \ {"observations"}
        /\ run.step \in Reading
    BY <1>5, <2>3 DEF ReadClock, Reading
  <2>5. Read'
    BY <1>1, <2>3, <2>4 DEF Read
  <2>6. Classified'
    <3>1. DOMAIN run'.states = DOMAIN run'.inventory.boots
      BY <2>3
    <3>2. \A i \in DOMAIN run'.states :
            run'.states[i] = classify(run'.inventory, run'.observations, run'.now,
                                      run'.inventory.boots[i])
      BY <2>3
    <3> QED
      BY <2>2, <3>1, <3>2 DEF Classified
  <2>7. Exported'
    BY <1>1, <2>3, <2>4 DEF Exported
  <2> QED
    BY <1>2, <2>5, <2>6, <2>7
<1>6. CASE ReadClock /\ ~valid(run.inventory, run.observations)
  BY <1>1, <1>6, BootsIdle DEF ReadClock
<1> QED
  BY <1>3, <1>4, <1>5, <1>6

\* advance changes the tally and the position, and nothing else.
LEMMA Advanced ==
  ASSUME Classified, run.step = "journals", NEW tally, advance(tally)
  PROVE  /\ run'.tally = tally /\ run'.next = run.next + 1
         /\ DOMAIN run' = DOMAIN run /\ run'.step = "journals"
         /\ run'.inventory = run.inventory /\ run'.observations = run.observations
         /\ run'.now = run.now /\ run'.states = run.states
<1>1. DOMAIN run = {"step", "inventory", "observations", "now", "states", "next", "tally"}
  BY DEF Classified, Deciding
<1>2. run' = [run EXCEPT !.tally = tally, !.next = @ + 1]
  BY DEF advance
<1> QED
  BY SMT, <1>1, <1>2

\* An enrollment ends the run, or is counted as unknown, or as what its journal says.
LEMMA Examined ==
  ASSUME Examine
  PROVE  LET enrollment == run.inventory.enrollments[run.next]
             file == inode[enrollment.journal]
             state == journal_committed(journals[file])
             category == CASE state = "committed" ->
                                IF enrollment.production_boot_test_passed
                                THEN "resolved" ELSE "awaiting_boot_test"
                           [] OTHER -> state
         IN  \/ run' = Idle
             \/ advance(counted(run.tally, "unknown", enrollment.created_at))
             \/ /\ file \notin run.tally.files
                /\ advance([counted(run.tally, category, enrollment.created_at)
                              EXCEPT !.files = @ \cup {file}])
<1> DEFINE enrollment == run.inventory.enrollments[run.next]
<1>1. CASE ~acceptable(enrollment)
  BY <1>1 DEF Examine
<1>2. CASE acceptable(enrollment)
  BY <1>2 DEF Examine
<1> QED
  BY <1>1, <1>2

\* The enrollments leave the boots alone.
LEMMA BootsExamine ==
  ASSUME BootsInv, Examine \/ Unreadable
  PROVE  BootsInv'
<1>1. /\ run.step = "journals" /\ run.step \in Deciding
      /\ UNCHANGED environment /\ output' = output
  BY DEF Examine, Unreadable, Deciding
<1>2. run' = Idle \/ \E tally : advance(tally)
  <2>1. CASE Examine
    BY <2>1, Examined
  <2>2. CASE Unreadable
    BY <2>2 DEF Unreadable
  <2> QED
    BY <2>1, <2>2
<1>3. ASSUME NEW tally, advance(tally) PROVE BootsInv'
  BY <1>1, <1>3, Advanced, BootsGoesOn DEF BootsInv, Deciding
<1> QED
  BY <1>1, <1>2, <1>3, BootsIdle

\* The times of a boot an operator expects are numbers.
LEMMA Expected ==
  ASSUME Sources, NEW list \in Seq(fleet.boots), NEW i \in DOMAIN list
  PROVE  list[i].requested_at \in Nat /\ list[i].deadline \in Nat
<1>1. list[i] \in fleet.boots
  BY RangeIn DEF Range
<1> QED
  BY <1>1, TimesAssumption DEF Sources

\* The verdicts of a run are borne out by the reports that it read.
LEMMA Verdicts ==
  ASSUME BootsInv, run.step \in Deciding, NEW i \in DOMAIN run.states
  PROVE  LET b == run.inventory.boots[i] IN
         /\ run.states[i] = "success" =>
              /\ ~Late(run.observations.boots, b)
              /\ \E h \in happened : /\ of_boot(h, b) /\ h.outcome = "success"
                                     /\ h.observed_at \in b.requested_at..b.deadline
         /\ run.states[i] = "late_success" =>
              Late(run.observations.boots, b) /\ Late(observations.boots, b)
<1> USE DEF BootsInv
<1> DEFINE b == run.inventory.boots[i]
<1>1. run.step \in Reading \ {"observations"} /\ run.step \in Reading
  BY DEF Reading, Deciding
<1>2. /\ run.observations \in [updated_at : Nat, boots : Seq(happened)]
      /\ Range(run.observations.boots) \subseteq Range(observations.boots)
      /\ run.inventory.boots \in Seq(fleet.boots)
  BY <1>1 DEF Read
<1>3. /\ i \in DOMAIN run.inventory.boots
      /\ run.states[i] = classify(run.inventory, run.observations, run.now, b)
  BY DEF Classified
<1>4. b.requested_at \in Nat /\ b.deadline \in Nat
  BY <1>2, <1>3, Expected
<1>5. Reports(happened)
  BY DEF Sources
<1> HIDE DEF b
<1>6. /\ run.states[i] = "success" =>
           /\ ~Late(run.observations.boots, b)
           /\ \E h \in happened : /\ of_boot(h, b) /\ h.outcome = "success"
                                  /\ h.observed_at \in b.requested_at..b.deadline
      /\ run.states[i] = "late_success" => Late(run.observations.boots, b)
  <2> DEFINE at == run.now
             inv == run.inventory
             obs == run.observations
  <2>1. run.states[i] = classify(inv, obs, at, b)
    BY <1>3
  <2>2. obs \in [updated_at : Nat, boots : Seq(happened)]
    BY <1>2
  <2>3. BorneOut(classify(inv, obs, at, b), obs.boots, b, happened)
    <3> HIDE DEF at, inv, obs
    <3> QED
      BY <1>4, <1>5, <2>2, Told
  <2> QED
    BY <2>1, <2>3 DEF BorneOut
<1>7. Late(run.observations.boots, b) => Late(observations.boots, b)
  BY <1>2 DEF Late
<1> QED
  BY <1>6, <1>7 DEF b

\* The renamed file has the verdicts of the run.
LEMMA BootsPersist ==
  ASSUME BootsInv, Persist
  PROVE  BootsInv'
<1> USE DEF BootsInv
<1>1. /\ run.step \in Deciding /\ UNCHANGED environment
      /\ run' = Idle /\ output' = {document}
      /\ observations' = observations /\ happened' = happened
  BY DEF Persist, Deciding, environment
<1>2. run'.step = "idle" /\ "idle" \notin Reading /\ "idle" \notin Deciding
  BY <1>1 DEF Idle, Reading, Deciding
<1>3. Read' /\ Classified'
  BY <1>2 DEF Read, Classified
<1>4. document.states = run.states /\ document.boots = run.inventory.boots
  BY DEF document
<1>5. DOMAIN run.states = DOMAIN run.inventory.boots
  BY <1>1 DEF Classified
<1>6. \A i, j \in DOMAIN run.states :
        run.inventory.boots[i] = run.inventory.boots[j] => run.states[i] = run.states[j]
  BY <1>1 DEF Classified
<1>7. \A i \in DOMAIN run.states :
        run.states[i] = "late_success" => Late(observations.boots, run.inventory.boots[i])
  BY <1>1, Verdicts
<1>8. PICK d : d = document
  OBVIOUS
<1>9. output' = {d} /\ d.states = run.states /\ d.boots = run.inventory.boots
  BY <1>1, <1>4, <1>8
<1>10. Exported'
  <2>1. \A e \in output' : e = d
    BY <1>9
  <2>2. /\ DOMAIN d.states = DOMAIN d.boots
        /\ \A i, j \in DOMAIN d.states : d.boots[i] = d.boots[j] => d.states[i] = d.states[j]
        /\ \A i \in DOMAIN d.states :
             d.states[i] = "late_success" => Late(observations'.boots, d.boots[i])
    BY <1>1, <1>5, <1>6, <1>7, <1>9
  <2>3. run'.step \notin Reading \ {"observations"}
    BY <1>2
  <2>4. \A e \in output' :
          /\ DOMAIN e.states = DOMAIN e.boots
          /\ \A i, j \in DOMAIN e.states : e.boots[i] = e.boots[j] => e.states[i] = e.states[j]
    BY <2>1, <2>2
  <2>5. \A e \in output' : \A i \in DOMAIN e.states :
          e.states[i] = "late_success" => Late(observations'.boots, e.boots[i])
    BY <2>1, <2>2
  <2>6. \A a, e \in output' : a = e
    BY <2>1
  <2> QED
    BY <2>3, <2>4, <2>5, <2>6 DEF Exported
<1>11. SuccessIsTimely'
  <2>1. ASSUME NEW i \in DOMAIN d.states, d.states[i] = "success"
        PROVE  \E h \in happened :
                 /\ h.target = d.boots[i].target /\ h.boot_id = d.boots[i].boot_id
                 /\ h.outcome = "success"
                 /\ h.observed_at \in d.boots[i].requested_at..d.boots[i].deadline
    BY <1>1, <1>9, <2>1, Verdicts DEF of_boot
  <2> QED
    BY <1>1, <1>9, <2>1 DEF SuccessIsTimely
<1> QED
  BY <1>1, <1>3, <1>10, <1>11, SourcesKept

\* Nothing has been reported, expected, read or exported when it begins.
LEMMA BootsInit ==
  ASSUME Init
  PROVE  BootsInv
<1> USE DEF Init
<1>1. Sources
  <2>1. /\ observations \in [updated_at : Nat, boots : Seq(happened)]
        /\ inventory.boots \in Seq(fleet.boots)
        /\ inventory.enrollments \in Seq(fleet.enrollments)
    BY SMT
  <2>2. fleet \in Fleets /\ now \in Nat /\ Reports(happened)
    BY TimesAssumption DEF Reports
  <2>3. 0 \in Nat
    OBVIOUS
  <2>4. journals \in [Files -> [records : Nat, torn : BOOLEAN]]
    BY <2>3
  <2> QED
    BY <2>1, <2>2, <2>4 DEF Sources
<1>2. run.step = "idle" /\ output = {}
  BY DEF Idle
<1>3. Read /\ Classified
  BY <1>2 DEF Read, Classified, Reading, Deciding
<1>4. Exported /\ SuccessIsTimely
  BY <1>2 DEF Exported, SuccessIsTimely
<1> QED
  BY <1>1, <1>3, <1>4 DEF BootsInv

\* No step of anyone disturbs it.
LEMMA BootsNext ==
  ASSUME BootsInv, [Next]_vars
  PROVE  BootsInv'
<1>1. CASE World
  BY <1>1, BootsWorld
<1>2. CASE ReadInventory \/ ReadObservations \/ ReadClock
  BY <1>2, BootsRead
<1>3. CASE Examine \/ Unreadable
  BY <1>3, BootsExamine
<1>5. CASE Persist
  BY <1>5, BootsPersist
<1>6. CASE Fail
  BY <1>6, BootsIdle DEF Fail
<1>7. CASE UNCHANGED vars
  BY <1>7 DEF vars, environment, BootsInv, Sources, Read, Classified, Exported, SuccessIsTimely
<1> QED
  BY <1>1, <1>2, <1>3, <1>5, <1>6, <1>7 DEF Next, Process

\* What is said of the boots holds in every state.
LEMMA BootsAlways == Spec => []BootsInv
<1>1. Init => BootsInv
  BY BootsInit
<1>2. BootsInv /\ [Next]_vars => BootsInv'
  BY BootsNext
<1> QED
  BY <1>1, <1>2, PTL DEF Spec

\* A list has finitely many members.
LEMMA RangeFinite ==
  ASSUME NEW S, NEW list \in Seq(S)
  PROVE  IsFiniteSet(Range(list))
<1>1. Len(list) \in Nat /\ Len(list) \in Int /\ 1 \in Int /\ DOMAIN list = 1..Len(list)
  BY SMT
<1>2. list \in [1..Len(list) -> Range(list)]
  <2>1. list = [i \in DOMAIN list |-> list[i]]
    BY SMT
  <2> QED
    BY <1>1, <2>1 DEF Range
<1>3. list \in Surjection(1..Len(list), Range(list))
  BY <1>1, <1>2 DEF Surjection, Range
<1> QED
  BY <1>1, <1>3, FS_Interval, FS_Surjection

\* The verdict on a boot is that of its reports in whatever order the management plane
\* lists them (render), however many they are.
THEOREM VerdictsIgnoreOrder == Spec => []OrderIndependent
<1>1. BootsInv => OrderIndependent
  <2> SUFFICES ASSUME BootsInv, run.step = "journals", NEW i \in DOMAIN run.states,
                      NEW order \in orders(Range(run.observations.boots))
               PROVE  classify(run.inventory, [run.observations EXCEPT !.boots = order],
                               run.now, run.inventory.boots[i]) = run.states[i]
    BY DEF OrderIndependent
  <2> DEFINE obs == run.observations
             oth == [run.observations EXCEPT !.boots = order]
  <2>1. run.step \in Deciding /\ run.step \in Reading \ {"observations"}
    BY DEF Deciding, Reading
  <2>2. Reports(happened) /\ obs \in [updated_at : Nat, boots : Seq(happened)]
    BY <2>1 DEF BootsInv, Read, Sources
  <2>3. run.states[i] = classify(run.inventory, obs, run.now, run.inventory.boots[i])
    BY <2>1 DEF BootsInv, Classified
  <2>4. obs.boots \in Seq(happened)
    <3> HIDE DEF obs
    <3> QED
      BY SMT, <2>2
  <2>5. order \in Seq(happened) /\ Range(order) = Range(obs.boots)
    <3>1. order \in Seq(Range(obs.boots)) /\ Range(order) = Range(obs.boots)
      BY <2>4, RangeFinite, InOrder
    <3>2. Seq(Range(obs.boots)) \subseteq Seq(happened)
      BY <2>4, RangeIn, ListGrows
    <3> QED
      BY <3>1, <3>2
  <2>6. /\ oth \in [updated_at : Nat, boots : Seq(happened)]
        /\ oth.updated_at = obs.updated_at /\ oth.boots = order
    <3>1. oth = [obs EXCEPT !.boots = order]
      OBVIOUS
    <3> HIDE DEF obs, oth
    <3> QED
      BY SMT, <2>2, <2>5, <3>1
  <2>7. ASSUME NEW inv, NEW at, NEW b
        PROVE  classify(inv, obs, at, b) = classify(inv, oth, at, b)
    <3>1. obs.updated_at = oth.updated_at /\ Range(obs.boots) = Range(oth.boots)
      BY <2>5, <2>6
    <3> HIDE DEF obs, oth
    <3> QED
      BY SMT, <2>2, <2>6, <3>1, SameReports
  <2>8. classify(run.inventory, obs, run.now, run.inventory.boots[i])
          = classify(run.inventory, oth, run.now, run.inventory.boots[i])
    <3> HIDE DEF obs, oth
    <3> QED
      BY <2>7
  <2> QED
    BY <2>3, <2>8
<1> QED
  BY <1>1, BootsAlways, PTL

\* A deadline miss stays one (render): no report that comes in later turns a late success
\* into a success, for any fleet, since the report that made it late is never taken back
\* and no earlier one outranks it.
THEOREM DeadlineMissIsFinal == Spec => LateStaysLate
<1> DEFINE Stays ==
      \A d \in output, e \in output' : \A i \in DOMAIN d.states, j \in DOMAIN e.states :
        /\ d.boots[i] = e.boots[j]
        /\ d.states[i] = "late_success"
        => e.states[j] # "success"
<1>1. BootsInv /\ [Next]_vars => [Stays]_vars
  <2> SUFFICES ASSUME BootsInv, Next PROVE Stays
    OBVIOUS
  <2>1. SUFFICES ASSUME NEW d \in output, NEW e \in output',
                        NEW i \in DOMAIN d.states, NEW j \in DOMAIN e.states,
                        d.boots[i] = e.boots[j], d.states[i] = "late_success"
                 PROVE  e.states[j] # "success"
    OBVIOUS
  <2>2. CASE output' = output
    <3>1. d = e
      BY <2>2 DEF BootsInv, Exported
    <3>2. e.states[j] = d.states[i]
      BY <2>1, <3>1 DEF BootsInv, Exported
    <3> QED
      BY <2>1, <3>2
  <2>3. CASE Persist
    <3>1. /\ run.step \in Deciding /\ run.step \in Reading \ {"observations"}
          /\ e = document
      BY <2>3 DEF Persist, Deciding, Reading
    <3>2. e.states = run.states /\ e.boots = run.inventory.boots
      BY <3>1 DEF document
    <3>3. Late(run.observations.boots, run.inventory.boots[j])
      <4>1. Late(run.observations.boots, d.boots[i])
        BY <2>1, <3>1 DEF BootsInv, Exported
      <4> QED
        BY <2>1, <3>2, <4>1
    <3>4. j \in DOMAIN run.states
      BY <3>2
    <3>5. run.states[j] # "success"
      BY <3>1, <3>3, <3>4, Verdicts
    <3> QED
      BY <3>2, <3>5
  <2>4. Persist \/ output' = output
    BY DEF Next, World, Process, ReadInventory, ReadObservations, ReadClock, Examine,
           Unreadable, Fail
  <2> QED
    BY <2>2, <2>3, <2>4
<1> QED
  BY <1>1, BootsAlways, PTL DEF Spec, LateStaysLate

-----------------------------------------------------------------------------
(* The enrollments: what is counted                                        *)

\* Finitely many paths name finitely many journals.
LEMMA FilesFinite == IsFiniteSet(Files)
<1> DEFINE g == [p \in DOMAIN inode |-> inode[p]]
<1>1. g \in Surjection(DOMAIN inode, Files)
  BY DEF Surjection, Files
<1> QED
  BY <1>1, PathAssumption, FS_Surjection

\* The enrollments of an inventory name journals there are.
LEMMA BehindFiles ==
  ASSUME Sources, NEW list \in Seq(fleet.enrollments), NEW n \in Nat, n <= Len(list)
  PROVE  behind(list, n) \subseteq Files
<1>1. \A i \in 1..n : list[i] \in fleet.enrollments
  BY SMT
<1>2. \A e \in fleet.enrollments : inode[e.journal] \in Files
  BY PathAssumption DEF Sources, Files
<1> QED
  BY <1>1, <1>2 DEF behind

\* The journals behind more enrollments are more.
LEMMA BehindNext ==
  ASSUME NEW list, NEW n \in Nat
  PROVE  /\ behind(list, n) \subseteq behind(list, n + 1)
         /\ inode[list[n + 1].journal] \in behind(list, n + 1)
<1>1. 1..n \subseteq 1..(n + 1) /\ n + 1 \in 1..(n + 1)
  BY SMT
<1> QED
  BY <1>1 DEF behind

\* One more in a category: c is count with it.
More(c, count, category) ==
  /\ c \in [Categories -> Nat]
  /\ known(count) \in Nat /\ done(count) \in Nat /\ count["unknown"] \in Nat
  /\ c["unknown"] = IF category = "unknown" THEN count["unknown"] + 1 ELSE count["unknown"]
  /\ known(c) = IF category = "unknown" THEN known(count) ELSE known(count) + 1
  /\ done(c) = IF category \in {"awaiting_boot_test", "resolved"}
               THEN done(count) + 1 ELSE done(count)

\* Which is what adding one to it makes of the counts.
LEMMA Incremented ==
  ASSUME NEW count \in [Categories -> Nat], NEW category \in Categories
  PROVE  More([count EXCEPT ![category] = @ + 1], count, category)
<1> DEFINE c == [count EXCEPT ![category] = @ + 1]
<1>1. c \in [Categories -> Nat]
  <2>1. count[category] + 1 \in Nat
    BY SMT
  <2> QED
    BY <2>1
<1>2. \A x \in Categories :
        count[x] \in Nat /\ c[x] = IF x = category THEN count[x] + 1 ELSE count[x]
  OBVIOUS
<1> HIDE DEF c
<1>3. /\ c["unknown"] = IF category = "unknown" THEN count["unknown"] + 1 ELSE count["unknown"]
      /\ known(c) = IF category = "unknown" THEN known(count) ELSE known(count) + 1
  BY SMT, <1>2 DEF Categories, known
<1>4. done(c) = IF category \in {"awaiting_boot_test", "resolved"}
                THEN done(count) + 1 ELSE done(count)
  BY SMT, <1>2 DEF Categories, done
<1>5. known(count) \in Nat /\ done(count) \in Nat /\ count["unknown"] \in Nat
  BY SMT, <1>2 DEF Categories, known, done
<1>6. More(c, count, category)
  BY <1>1, <1>3, <1>4, <1>5 DEF More
<1> QED
  BY <1>6 DEF c

\* counted adds one to its category and leaves the journals alone.
LEMMA CountedOne ==
  ASSUME NEW tally, DOMAIN tally = {"count", "oldest", "files"},
         tally.count \in [Categories -> Nat], NEW category \in Categories, NEW at
  PROVE  /\ DOMAIN counted(tally, category, at) = {"count", "oldest", "files"}
         /\ counted(tally, category, at).files = tally.files
         /\ More(counted(tally, category, at).count, tally.count, category)
<1> DEFINE aged == [c \in DOMAIN tally.oldest |->
                      IF category # "resolved" /\ c \in {category, "unresolved"}
                      THEN older(tally.oldest[c], at) ELSE tally.oldest[c]]
           more == [tally.count EXCEPT ![category] = @ + 1]
<1>1. counted(tally, category, at) = [tally EXCEPT !.count = more, !.oldest = aged]
  BY DEF counted
<1>2. More(more, tally.count, category)
  BY Incremented
<1> HIDE DEF aged, more
<1>3. /\ DOMAIN counted(tally, category, at) = {"count", "oldest", "files"}
      /\ counted(tally, category, at).count = more
      /\ counted(tally, category, at).files = tally.files
  BY <1>1
<1> QED
  BY <1>2, <1>3

\* An enrollment that counts as unknown is counted, and needs no journal.
LEMMA TallyUnknown ==
  ASSUME Sources, NEW list \in Seq(fleet.enrollments), NEW n \in Nat, n < Len(list),
         NEW tally, Tally(tally, list, n), NEW at
  PROVE  Tally(counted(tally, "unknown", at), list, n + 1)
<1> DEFINE new == counted(tally, "unknown", at)
<1>1. /\ DOMAIN new = {"count", "oldest", "files"} /\ new.files = tally.files
      /\ More(new.count, tally.count, "unknown")
  BY CountedOne DEF Tally, Categories
<1>2. /\ new.count \in [Categories -> Nat]
      /\ new.count["unknown"] = tally.count["unknown"] + 1
      /\ known(new.count) = known(tally.count) /\ done(new.count) = done(tally.count)
      /\ known(tally.count) \in Nat /\ tally.count["unknown"] \in Nat
  BY <1>1 DEF More
<1> HIDE DEF new
<1>3. known(new.count) + new.count["unknown"] = n + 1
  BY SMT, <1>2 DEF Tally
<1>4. new.files \subseteq behind(list, n + 1)
  BY <1>1, BehindNext DEF Tally
<1>5. Tally(new, list, n + 1)
  BY <1>1, <1>2, <1>3, <1>4 DEF Tally
<1> QED
  BY <1>5 DEF new

\* What a journal may count as, and that only a complete one counts as committed.
Fits(category, file) ==
  /\ category \in Categories
  /\ category \in {"awaiting_boot_test", "resolved"} => journals[file].records = RECORDS

\* One more on either side is one more in all.
LEMMA OneMore ==
  ASSUME NEW a \in Nat, NEW b \in Nat
  PROVE  (a + 1) + b = (a + b) + 1 /\ a + (b + 1) = (a + b) + 1
  BY SMT

\* An enrollment that a journal of its own stands for is counted with that journal.
LEMMA TallyKnown ==
  ASSUME Sources, NEW list \in Seq(fleet.enrollments), NEW n \in Nat, n < Len(list),
         NEW tally, Tally(tally, list, n), NEW at, NEW file,
         file = inode[list[n + 1].journal], file \notin tally.files,
         NEW category, Fits(category, file)
  PROVE  Tally([counted(tally, category, at) EXCEPT !.files = @ \cup {file}], list, n + 1)
<1> DEFINE one == counted(tally, category, at)
           new == [one EXCEPT !.files = @ \cup {file}]
<1>1. /\ DOMAIN new = {"count", "oldest", "files"}
      /\ new.files = tally.files \cup {file}
      /\ More(new.count, tally.count, category)
  <2>1. /\ DOMAIN tally = {"count", "oldest", "files"}
        /\ tally.count \in [Categories -> Nat] /\ category \in Categories
    BY DEF Tally, Fits
  <2>2. /\ DOMAIN one = {"count", "oldest", "files"} /\ one.files = tally.files
        /\ More(one.count, tally.count, category)
    BY <2>1, CountedOne
  <2> HIDE DEF one
  <2>3. DOMAIN new = DOMAIN one /\ new.files = one.files \cup {file} /\ new.count = one.count
    BY <2>2
  <2> QED
    BY <2>2, <2>3
<1>2. category \in Categories
  BY DEF Fits
<1> HIDE DEF one, new
<1>3. /\ new.count \in [Categories -> Nat]
      /\ known(tally.count) \in Nat /\ done(tally.count) \in Nat
      /\ tally.count["unknown"] \in Nat
  BY <1>1 DEF More
<1>4. IsFiniteSet(tally.files) /\ IsFiniteSet(complete(tally.files))
  <2>1. tally.files \subseteq Files
    <3>1. n <= Len(list)
      BY SMT
    <3> QED
      BY <3>1, BehindFiles DEF Tally
  <2> QED
    BY <2>1, FilesFinite, FS_Subset DEF complete
<1>5. /\ Cardinality(tally.files) \in Nat
      /\ Cardinality(new.files) = Cardinality(tally.files) + 1
      /\ Cardinality(complete(tally.files)) \in Nat
  <2>1. Cardinality(tally.files) \in Nat /\ Cardinality(complete(tally.files)) \in Nat
    BY <1>4, FS_CardinalityType
  <2>2. Cardinality(tally.files \cup {file}) = Cardinality(tally.files) + 1
    BY <1>4, FS_AddElement
  <2> QED
    BY <1>1, <2>1, <2>2
<1>6. new.files \subseteq behind(list, n + 1)
  BY <1>1, BehindNext DEF Tally
<1>7. /\ known(tally.count) + tally.count["unknown"] = n
      /\ known(tally.count) <= Cardinality(tally.files)
      /\ done(tally.count) <= Cardinality(complete(tally.files))
  BY DEF Tally
<1>8. /\ (known(tally.count) + 1) + tally.count["unknown"] = n + 1
       /\ known(tally.count) + (tally.count["unknown"] + 1) = n + 1
  <2> DEFINE a == known(tally.count)
             b == tally.count["unknown"]
  <2> HIDE DEF a, b
  <2>1. a \in Nat /\ b \in Nat /\ a + b = n
    BY <1>3, <1>7 DEF a, b
  <2>2. (a + 1) + b = (a + b) + 1 /\ a + (b + 1) = (a + b) + 1
    BY <2>1, OneMore
  <2> QED
    BY <2>1, <2>2 DEF a, b
<1>9. CASE category \in {"awaiting_boot_test", "resolved"}
  <2>1. complete(new.files) = complete(tally.files) \cup {file} /\ file \notin complete(tally.files)
    BY <1>1, <1>9 DEF complete, Fits
  <2>2. Cardinality(complete(new.files)) = Cardinality(complete(tally.files)) + 1
    BY <1>4, <2>1, FS_AddElement
  <2>3. /\ new.count["unknown"] = tally.count["unknown"]
        /\ known(new.count) = known(tally.count) + 1 /\ done(new.count) = done(tally.count) + 1
    <3>1. category # "unknown"
      BY <1>9
    <3> QED
      BY <1>1, <1>9, <3>1 DEF More
  <2>4. /\ known(new.count) + new.count["unknown"] = n + 1
        /\ known(new.count) <= Cardinality(new.files)
        /\ done(new.count) <= Cardinality(complete(new.files))
    <3>1. known(new.count) + new.count["unknown"] = n + 1
      BY <1>8, <2>3
    <3>2. known(new.count) <= Cardinality(new.files)
      BY SMTT(30), <1>3, <1>5, <1>7, <2>3
    <3>3. done(new.count) <= Cardinality(complete(new.files))
      BY SMTT(30), <1>3, <1>5, <1>7, <2>2, <2>3
    <3> QED
      BY <3>1, <3>2, <3>3
  <2> QED
    BY <1>1, <1>3, <1>6, <2>4 DEF Tally, new, one
<1>10. CASE category \in {"unknown", "pending"}
  <2>1. Cardinality(complete(tally.files)) <= Cardinality(complete(new.files))
    <3>1. complete(tally.files) \subseteq complete(new.files)
      BY <1>1 DEF complete
    <3>2. IsFiniteSet(complete(new.files))
      <4>1. IsFiniteSet(new.files)
        BY SMT, <1>1, <1>4, FS_AddElement
      <4> QED
        BY <4>1, FS_Subset DEF complete
    <3> QED
      BY <3>1, <3>2, FS_Subset
  <2>2. Cardinality(complete(new.files)) \in Nat
    <3>1. IsFiniteSet(new.files)
      BY SMT, <1>1, <1>4, FS_AddElement
    <3>2. IsFiniteSet(complete(new.files))
      BY <3>1, FS_Subset DEF complete
    <3> QED
      BY <3>2, FS_CardinalityType
  <2>3. done(new.count) = done(tally.count)
    <3>1. category \notin {"awaiting_boot_test", "resolved"}
      BY <1>10
    <3> QED
      BY <1>1, <3>1 DEF More
  <2>4. /\ known(new.count) + new.count["unknown"] = n + 1
        /\ known(new.count) <= Cardinality(new.files)
    <3>1. CASE category = "unknown"
      <4>1. new.count["unknown"] = tally.count["unknown"] + 1 /\ known(new.count) = known(tally.count)
        BY <1>1, <3>1 DEF More
      <4>2. known(new.count) + new.count["unknown"] = n + 1
        BY <1>8, <4>1
      <4>3. known(new.count) <= Cardinality(new.files)
        BY SMTT(30), <1>3, <1>5, <1>7, <4>1
      <4> QED
        BY <4>2, <4>3
    <3>2. CASE category # "unknown"
      <4>1. new.count["unknown"] = tally.count["unknown"] /\ known(new.count) = known(tally.count) + 1
        BY <1>1, <3>2 DEF More
      <4>2. known(new.count) + new.count["unknown"] = n + 1
        BY <1>8, <4>1
      <4>3. known(new.count) <= Cardinality(new.files)
        BY SMTT(30), <1>3, <1>5, <1>7, <4>1
      <4> QED
        BY <4>2, <4>3
    <3> QED
      BY <3>1, <3>2
  <2>5. done(new.count) <= Cardinality(complete(new.files))
    BY SMTT(30), <1>3, <1>5, <1>7, <2>1, <2>2, <2>3
  <2> QED
    BY <1>1, <1>3, <1>6, <2>4, <2>5 DEF Tally, new, one
<1> QED
  BY <1>2, <1>9, <1>10 DEF Categories

-----------------------------------------------------------------------------
(* The enrollments: every step                                             *)

\* A journal that has all its records keeps them.
LEMMA CompleteGrows ==
  ASSUME Sources, World
  PROVE  \A f \in Files : journals[f].records = RECORDS => journals'[f].records = RECORDS
<1>1. CASE \E e \in fleet.enrollments : WriteJournal(inode[e.journal])
  <2>1. PICK e \in fleet.enrollments : WriteJournal(inode[e.journal])
    BY <1>1
  <2> DEFINE g == inode[e.journal]
  <2>2. /\ journals[g].records < RECORDS
        /\ \A f \in Files : f # g => journals'[f] = journals[f]
    BY <2>1 DEF WriteJournal, Sources
  <2>3. journals[g].records # RECORDS
    <3>1. g \in Files
      BY PathAssumption DEF Sources, Files
    <3>2. journals[g].records \in Nat
      BY <3>1 DEF Sources
    <3> HIDE DEF g
    <3> QED
      BY SMT, <2>2, <3>2
  <2> QED
    BY <2>2, <2>3
<1>2. CASE Tick \/ Observe \/ Maintain
           \/ \E b \in fleet.boots, i \in BootIds, o \in {"success", "failure"} :
                Boot(b.target, i, o)
  BY <1>2 DEF Tick, Observe, Maintain, Boot
<1> QED
  BY <1>1, <1>2 DEF World

\* A tally goes on holding while complete journals stay complete.
LEMMA TallyKept ==
  ASSUME Sources, NEW list \in Seq(fleet.enrollments), NEW n \in Nat, n <= Len(list),
         NEW tally, Tally(tally, list, n),
         \A f \in Files : journals[f].records = RECORDS => journals'[f].records = RECORDS
  PROVE  /\ DOMAIN tally = {"count", "oldest", "files"}
         /\ tally.count \in [Categories -> Nat]
         /\ known(tally.count) + tally.count["unknown"] = n
         /\ tally.files \subseteq behind(list, n)
         /\ known(tally.count) <= Cardinality(tally.files)
         /\ done(tally.count) <= Cardinality({f \in tally.files : journals'[f].records = RECORDS})
<1> DEFINE later == {f \in tally.files : journals'[f].records = RECORDS}
<1>1. tally.files \subseteq Files
  BY BehindFiles DEF Tally
<1>2. complete(tally.files) \subseteq later
  BY <1>1 DEF complete
<1>3. IsFiniteSet(later)
  BY <1>1, FilesFinite, FS_Subset
<1> HIDE DEF later
<1>4. /\ Cardinality(complete(tally.files)) <= Cardinality(later)
      /\ IsFiniteSet(complete(tally.files))
  BY <1>2, <1>3, FS_Subset
<1>5. Cardinality(later) \in Nat /\ Cardinality(complete(tally.files)) \in Nat
  BY <1>3, <1>4, FS_CardinalityType
<1>6. done(tally.count) \in Nat
  BY SMT DEF Tally, done, Categories
<1>7. done(tally.count) <= Cardinality(complete(tally.files))
  BY DEF Tally
<1>8. done(tally.count) <= Cardinality(later)
  BY SMT, <1>4, <1>5, <1>6, <1>7
<1> QED
  BY <1>8 DEF later, Tally

\* How far a run has come.
LEMMA Position ==
  ASSUME RInv, run.step \in Deciding
  PROVE  /\ run.inventory.enrollments \in Seq(fleet.enrollments)
         /\ Len(run.inventory.enrollments) \in Nat
         /\ run.next \in Nat /\ run.next - 1 \in Nat /\ (run.next - 1) + 1 = run.next
         /\ run.next - 1 <= Len(run.inventory.enrollments)
         /\ Tally(run.tally, run.inventory.enrollments, run.next - 1)
<1>1. run.inventory.enrollments \in Seq(fleet.enrollments)
  BY DEF RInv, BootsInv, Read, Reading, Deciding
<1>2. /\ run.next \in 1..(Len(run.inventory.enrollments) + 1)
      /\ Tally(run.tally, run.inventory.enrollments, run.next - 1)
  BY DEF RInv, CountsInv, Tallied
<1>3. Len(run.inventory.enrollments) \in Nat
  BY SMT, <1>1
<1> QED
  BY SMT, <1>1, <1>2, <1>3

\* The CLI goes on writing journals; what has been counted of them stays true.
LEMMA CountsWorld ==
  ASSUME RInv, World
  PROVE  CountsInv'
<1>1. fleet' = fleet /\ run' = run /\ output' = output
  BY WorldGrows DEF World, Grows, RInv, BootsInv
<1>2. /\ Sources
      /\ \A f \in Files : journals[f].records = RECORDS => journals'[f].records = RECORDS
  BY CompleteGrows DEF RInv, BootsInv
<1>3. ASSUME NEW list \in Seq(fleet.enrollments), NEW n \in Nat, n <= Len(list),
             NEW tally, Tally(tally, list, n)
      PROVE  Tally(tally, list, n)'
  BY <1>2, <1>3, TallyKept DEF Tally, behind, complete, known, done
<1>4. Tallied'
  <2>1. CASE run.step \in Deciding
    <3>1. Tally(run.tally, run.inventory.enrollments, run.next - 1)'
      BY <1>1, <1>3, <2>1, Position
    <3> QED
      BY <1>1, <3>1 DEF RInv, CountsInv, Tallied
  <2>2. CASE run.step \notin Deciding
    BY <1>1, <2>2 DEF Tallied
  <2> QED
    BY <2>1, <2>2
<1>5. Counted'
  <2>1. ASSUME NEW d \in output
        PROVE  /\ d.enrollments \in Seq(fleet.enrollments)
               /\ Tally(d.tally, d.enrollments, Len(d.enrollments))'
    <3>1. d.enrollments \in Seq(fleet.enrollments) /\ Tally(d.tally, d.enrollments, Len(d.enrollments))
      BY DEF RInv, CountsInv, Counted
    <3>2. Len(d.enrollments) \in Nat /\ Len(d.enrollments) <= Len(d.enrollments)
      BY SMT, <3>1
    <3> QED
      BY <1>3, <3>1, <3>2
  <2> QED
    BY <1>1, <2>1 DEF Counted
<1> QED
  BY <1>4, <1>5 DEF CountsInv

\* A tally is about nothing but the journals.
LEMMA TallySame ==
  ASSUME UNCHANGED environment, NEW tally, NEW list, NEW n, Tally(tally, list, n)
  PROVE  Tally(tally, list, n)'
<1>1. journals' = journals
  BY DEF environment
<1> QED
  BY <1>1 DEF Tally, behind, complete, known, done

\* A step that leaves the journals and the exported file alone leaves its counts right.
LEMMA CountedKept ==
  ASSUME Counted, UNCHANGED environment, output' = output
  PROVE  Counted'
<1>1. fleet' = fleet
  BY DEF environment
<1> QED
  BY <1>1, TallySame DEF Counted

\* A run that ends, or has not come to the journals, has counted nothing.
LEMMA CountsIdle ==
  ASSUME RInv, UNCHANGED environment, output' = output, run'.step \notin Deciding
  PROVE  CountsInv'
<1>1. Tallied'
  BY DEF Tallied
<1> QED
  BY <1>1, CountedKept DEF RInv, CountsInv

\* The counts begin at nothing.
LEMMA NothingCounted ==
  ASSUME NEW list
  PROVE  Tally(NoTally, list, 0)
<1>1. /\ DOMAIN NoTally = {"count", "oldest", "files"} /\ NoTally.files = {}
      /\ NoTally.count = [c \in Categories |-> 0]
  BY DEF NoTally
<1>2. /\ NoTally.count \in [Categories -> Nat]
      /\ known(NoTally.count) = 0 /\ done(NoTally.count) = 0 /\ NoTally.count["unknown"] = 0
  BY SMT, <1>1 DEF Categories, known, done
<1>3. Cardinality(NoTally.files) = 0 /\ Cardinality(complete(NoTally.files)) = 0
  BY <1>1, FS_EmptySet DEF complete
<1>4. 0 + 0 = 0 /\ 0 <= 0
  BY SMT
<1> QED
  BY <1>1, <1>2, <1>3, <1>4 DEF Tally

\* Reading comes to the journals with nothing counted.
LEMMA CountsRead ==
  ASSUME RInv, ReadInventory \/ ReadObservations \/ ReadClock
  PROVE  CountsInv'
<1>1. UNCHANGED environment /\ output' = output
  BY DEF ReadInventory, ReadObservations, ReadClock
<1>2. CASE \/ ReadInventory \/ ReadObservations
           \/ ReadClock /\ ~valid(run.inventory, run.observations)
  <2>1. run'.step \notin Deciding
    <3>1. ASSUME ReadInventory PROVE run'.step = "observations"
      BY <3>1 DEF ReadInventory
    <3>2. ASSUME ReadObservations PROVE run'.step = "clock"
      BY <3>2 DEF ReadObservations
    <3>3. ASSUME ReadClock, ~valid(run.inventory, run.observations) PROVE run'.step = "idle"
      BY <3>3 DEF ReadClock, Idle
    <3> QED
      BY <1>2, <3>1, <3>2, <3>3 DEF Deciding
  <2> QED
    BY <1>1, <2>1, CountsIdle
<1>3. CASE ReadClock /\ valid(run.inventory, run.observations)
  <2>1. /\ run.step = "clock" /\ run'.step = "journals" /\ run'.next = 1
        /\ run'.tally = NoTally /\ run'.inventory = run.inventory
    BY <1>3 DEF ReadClock
  <2>2. run.inventory.enrollments \in Seq(fleet.enrollments)
    BY <2>1 DEF RInv, BootsInv, Read, Reading
  <2>3. 1 \in 1..(Len(run.inventory.enrollments) + 1) /\ 1 - 1 = 0
    BY SMT, <2>2
  <2>4. Tally(run.tally, run.inventory.enrollments, run.next - 1)'
    <3>1. Tally(NoTally, run.inventory.enrollments, 0)
      BY NothingCounted
    <3>2. PICK list, tally, n : /\ list = run.inventory.enrollments /\ tally = NoTally /\ n = 0
                                /\ Tally(tally, list, n)
      BY <3>1
    <3>3. /\ run'.inventory.enrollments = list /\ run'.tally = tally /\ run'.next - 1 = n
      BY <2>1, <2>3, <3>2
    <3>4. Tally(tally, list, n)'
      BY <1>1, <3>2, TallySame
    <3> QED
      BY <3>3, <3>4
  <2>5. Tallied'
    BY <2>1, <2>3, <2>4 DEF Tallied
  <2> QED
    BY <1>1, <2>5, CountedKept DEF RInv, CountsInv
<1> QED
  BY <1>2, <1>3

\* A journal counts as committed only with all its records.
LEMMA CommittedIsComplete ==
  ASSUME NEW file, NEW e
  PROVE  Fits(CASE journal_committed(journals[file]) = "committed" ->
                     IF e.production_boot_test_passed THEN "resolved" ELSE "awaiting_boot_test"
                [] OTHER -> journal_committed(journals[file]), file)
<1> DEFINE j == journals[file]
           state == journal_committed(j)
<1>1. CASE j.torn \/ j.records = 0
  <2>1. state = "unknown"
    BY <1>1 DEF journal_committed
  <2> QED
    BY <2>1 DEF Fits, Categories
<1>2. CASE ~(j.torn \/ j.records = 0) /\ j.records = RECORDS
  <2>1. state = "committed"
    BY <1>2 DEF journal_committed
  <2> QED
    BY <1>2, <2>1 DEF Fits, Categories
<1>3. CASE ~(j.torn \/ j.records = 0) /\ j.records # RECORDS
  <2>1. state = "pending"
    BY <1>3 DEF journal_committed
  <2> QED
    BY <2>1 DEF Fits, Categories
<1> QED
  BY <1>1, <1>2, <1>3

\* The tally that a step hands to advance is one of the next enrollment too.
LEMMA CountsAdvance ==
  ASSUME RInv, UNCHANGED environment, output' = output, run.step = "journals",
         run.next <= Len(run.inventory.enrollments), NEW tally, advance(tally),
         Tally(tally, run.inventory.enrollments, run.next)
  PROVE  CountsInv'
<1>1. /\ run'.tally = tally /\ run'.next = run.next + 1 /\ run'.step = "journals"
      /\ run'.inventory = run.inventory
  BY Advanced DEF RInv, BootsInv
<1>2. run.next \in Nat /\ Len(run.inventory.enrollments) \in Nat
  BY Position DEF Deciding
<1>3. /\ run.next + 1 \in 1..(Len(run.inventory.enrollments) + 1)
      /\ (run.next + 1) - 1 = run.next
  BY SMT, <1>2
<1>4. Tally(run.tally, run.inventory.enrollments, run.next - 1)'
  <2>1. PICK list, n : list = run.inventory.enrollments /\ n = run.next /\ Tally(tally, list, n)
    OBVIOUS
  <2>2. run'.inventory.enrollments = list /\ run'.tally = tally /\ run'.next - 1 = n
    BY <1>1, <1>3, <2>1
  <2>3. Tally(tally, list, n)'
    BY <2>1, TallySame
  <2> QED
    BY <2>2, <2>3
<1>5. Tallied'
  BY <1>1, <1>3, <1>4 DEF Tallied
<1> QED
  BY <1>5, CountedKept DEF RInv, CountsInv

\* An enrollment more.
LEMMA CountsExamine ==
  ASSUME RInv, Examine \/ Unreadable
  PROVE  CountsInv'
<1>1. /\ UNCHANGED environment /\ output' = output
      /\ run.step = "journals" /\ run.next <= Len(run.inventory.enrollments)
  BY DEF Examine, Unreadable
<1> DEFINE list == run.inventory.enrollments
           n == run.next - 1
           e == list[run.next]
<1>2. /\ list \in Seq(fleet.enrollments) /\ Len(list) \in Nat
      /\ run.next \in Nat /\ n \in Nat /\ n + 1 = run.next
      /\ Tally(run.tally, list, n)
  BY <1>1, Position DEF Deciding
<1>3. Sources
  BY DEF RInv, BootsInv
<1>4. CASE run' = Idle
  BY <1>1, <1>4, CountsIdle DEF Idle, Deciding
<1>5. CASE advance(counted(run.tally, "unknown", e.created_at))
  <2>1. n < Len(list)
    <3> HIDE DEF list, n
    <3> QED
      BY SMT, <1>1, <1>2 DEF list
  <2>2. Tally(counted(run.tally, "unknown", e.created_at), list, n + 1)
    <3> HIDE DEF list, n, e
    <3> QED
      BY <1>2, <1>3, <2>1, TallyUnknown
  <2> QED
    BY <1>1, <1>2, <1>5, <2>2, CountsAdvance
<1>6. ASSUME NEW category, Fits(category, inode[e.journal]),
             inode[e.journal] \notin run.tally.files,
             advance([counted(run.tally, category, e.created_at)
                        EXCEPT !.files = @ \cup {inode[e.journal]}])
      PROVE  CountsInv'
  <2>1. n < Len(list)
    <3> HIDE DEF list, n
    <3> QED
      BY SMT, <1>1, <1>2 DEF list
  <2> DEFINE file == inode[e.journal]
             new == [counted(run.tally, category, e.created_at) EXCEPT !.files = @ \cup {file}]
  <2>2. file = inode[list[n + 1].journal]
    BY <1>2
  <2>3. Tally(new, list, n + 1)
    <3> HIDE DEF list, n, e, file
    <3> QED
      BY <1>2, <1>3, <1>6, <2>1, <2>2, TallyKnown DEF file
  <2>4. advance(new) /\ Tally(new, list, run.next)
    BY <1>2, <1>6, <2>3
  <2> HIDE DEF new
  <2> QED
    BY <1>1, <2>4, CountsAdvance
<1>7. CASE Unreadable
  BY <1>4, <1>5, <1>7 DEF Unreadable
<1>8. CASE Examine
  BY <1>4, <1>5, <1>6, <1>8, Examined, CommittedIsComplete
<1> QED
  BY <1>7, <1>8

\* The file gets the tally of a run that has come to the end of its enrollments.
LEMMA CountsExport ==
  ASSUME RInv, Persist
  PROVE  CountsInv'
<1> DEFINE list == run.inventory.enrollments
<1>1. /\ UNCHANGED environment /\ run.step \in Deciding /\ fleet' = fleet
      /\ run' = Idle /\ output' = {document} /\ run.next > Len(list)
  BY DEF Persist, Deciding, environment
<1>2. /\ list \in Seq(fleet.enrollments) /\ Len(list) \in Nat
      /\ run.next \in Nat /\ run.next \in 1..(Len(list) + 1)
      /\ Tally(run.tally, list, run.next - 1)
  BY <1>1, Position DEF RInv, CountsInv, Tallied
<1>3. document.enrollments = list /\ document.tally = run.tally
  BY DEF document
<1>4. Tally(run.tally, list, Len(list))
  <2>1. run.next - 1 = Len(list)
    <3> HIDE DEF list
    <3> QED
      BY SMT, <1>1, <1>2
  <2> QED
    BY <1>2, <2>1
<1>5. PICK d, l, tally : /\ d = document /\ l = list /\ tally = run.tally
                         /\ Tally(tally, l, Len(l)) /\ l \in Seq(fleet.enrollments)
  BY <1>2, <1>4
<1>6. d.enrollments = l /\ d.tally = tally /\ output' = {d}
  BY <1>1, <1>3, <1>5
<1>7. Tally(tally, l, Len(l))'
  BY <1>1, <1>5, TallySame
<1>8. Counted'
  BY <1>1, <1>5, <1>6, <1>7 DEF Counted
<1>9. Tallied'
  <2>1. run'.step \notin Deciding
    BY <1>1 DEF Idle, Deciding
  <2> QED
    BY <2>1 DEF Tallied
<1> QED
  BY <1>8, <1>9 DEF CountsInv

\* And so does what is said of the enrollments.
LEMMA CountsAlways == Spec => []RInv
<1>1. Init => RInv
  <2> SUFFICES ASSUME Init PROVE RInv
    OBVIOUS
  <2>1. run.step \notin Deciding /\ output = {}
    BY DEF Init, Idle, Deciding
  <2> QED
    BY <2>1, BootsInit DEF RInv, CountsInv, Tallied, Counted
<1>2. RInv /\ [Next]_vars => RInv'
  <2> SUFFICES ASSUME RInv, [Next]_vars PROVE RInv'
    OBVIOUS
  <2>1. BootsInv'
    BY BootsNext DEF RInv
  <2>2. CASE World
    BY <2>1, <2>2, CountsWorld DEF RInv
  <2>3. CASE ReadInventory \/ ReadObservations \/ ReadClock
    BY <2>1, <2>3, CountsRead DEF RInv
  <2>4. CASE Examine \/ Unreadable
    BY <2>1, <2>4, CountsExamine DEF RInv
  <2>5. CASE Persist
    BY <2>1, <2>5, CountsExport DEF RInv
  <2>6. CASE Fail
    <3>1. run'.step \notin Deciding /\ UNCHANGED environment /\ output' = output
      BY <2>6 DEF Fail, Idle, Deciding
    <3> QED
      BY <2>1, <3>1, CountsIdle DEF RInv
  <2>7. CASE UNCHANGED vars
    <3>1. run' = run /\ output' = output /\ UNCHANGED environment
      BY <2>7 DEF vars
    <3>2. Tallied'
      BY <3>1, TallySame DEF RInv, CountsInv, Tallied
    <3> QED
      BY <2>1, <3>1, <3>2, CountedKept DEF RInv, CountsInv
  <2> QED
    BY <2>2, <2>3, <2>4, <2>5, <2>6, <2>7 DEF Next, Process
<1> QED
  BY <1>1, <1>2, PTL DEF Spec

\* The exported counts tell the journals (render, journal_committed), for any enrollments,
\* paths and journals and however the CLI writes while they are read: every enrollment is
\* in the denominator, those that are not unknown stand for as many different journals, and
\* those that count as committed for as many journals with all their records.
THEOREM CountsAreJournals == Spec => []CountsTellJournals
<1>1. RInv => CountsTellJournals
  <2> SUFFICES ASSUME RInv, NEW d \in output
               PROVE  LET n == d.tally.count
                          all == n["pending"] + n["awaiting_boot_test"] + n["resolved"]
                      IN  /\ all + n["unknown"] = Len(d.enrollments)
                          /\ all <= Cardinality({inode[e.journal] : e \in Range(d.enrollments)})
                          /\ n["awaiting_boot_test"] + n["resolved"]
                               <= Cardinality({f \in Files : journals[f].records = RECORDS})
    BY DEF CountsTellJournals
  <2> DEFINE list == d.enrollments
             files == d.tally.files
             named == {inode[e.journal] : e \in Range(list)}
  <2>1. Sources /\ list \in Seq(fleet.enrollments) /\ Tally(d.tally, list, Len(list))
    BY DEF RInv, BootsInv, CountsInv, Counted
  <2>2. Len(list) \in Nat /\ Len(list) <= Len(list) /\ DOMAIN list = 1..Len(list)
    <3> HIDE DEF list
    <3> QED
      BY SMT, <2>1
  <2>3. behind(list, Len(list)) = named
    BY <2>2 DEF behind, Range
  <2>4. named \subseteq Files /\ files \subseteq named
    BY <2>1, <2>2, <2>3, BehindFiles DEF Tally
  <2>5. /\ complete(files) \subseteq complete(Files)
        /\ IsFiniteSet(named) /\ IsFiniteSet(complete(Files))
    BY <2>4, FilesFinite, FS_Subset DEF complete
  <2>6. /\ Cardinality(files) <= Cardinality(named)
        /\ Cardinality(complete(files)) <= Cardinality(complete(Files))
        /\ IsFiniteSet(files) /\ IsFiniteSet(complete(files))
    BY <2>4, <2>5, FS_Subset
  <2>7. /\ Cardinality(files) \in Nat /\ Cardinality(named) \in Nat
        /\ Cardinality(complete(files)) \in Nat /\ Cardinality(complete(Files)) \in Nat
    BY <2>5, <2>6, FS_CardinalityType
  <2>8. known(d.tally.count) \in Nat /\ done(d.tally.count) \in Nat
    <3>1. d.tally.count \in [Categories -> Nat]
      BY <2>1 DEF Tally
    <3> QED
      BY SMT, <3>1 DEF Categories, known, done
  <2>9. /\ known(d.tally.count) + d.tally.count["unknown"] = Len(list)
        /\ known(d.tally.count) <= Cardinality(files)
        /\ done(d.tally.count) <= Cardinality(complete(files))
    BY <2>1 DEF Tally
  <2>10. /\ known(d.tally.count) <= Cardinality(named)
         /\ done(d.tally.count) <= Cardinality(complete(Files))
    <3> HIDE DEF files, named
    <3> QED
      BY SMT, <2>6, <2>7, <2>8, <2>9
  <2> QED
    BY <2>9, <2>10 DEF known, done, complete
<1> QED
  BY <1>1, CountsAlways, PTL

-----------------------------------------------------------------------------
(* The time of the verdicts                                                *)

Known == Categories \ {"unknown"}

\* What the process has read was not written later than what is there now.
ReadBefore ==
  /\ inventory.updated_at \in Nat
  /\ run.step \in Reading =>
       /\ run.inventory.updated_at \in Nat
       /\ run.inventory.updated_at <= inventory.updated_at
  /\ run.step \in Reading \ {"observations"} =>
       /\ run.observations.updated_at \in Nat
       /\ run.observations.updated_at <= observations.updated_at

\* No clock is ahead, and a stale inventory has counted for nothing yet.
Stamped ==
  /\ inventory.updated_at <= now /\ observations.updated_at <= now
  /\ run.step \in Deciding =>
       /\ run.now \in Nat
       /\ ~fresh(run.inventory.updated_at, run.now) => \A c \in Known : run.tally.count[c] = 0
  /\ \A d \in output : d.now \in Nat

TimelyInv == RInv /\ ReadBefore /\ Stamped /\ SilenceIsUnknown

\* A file that is silent at a time was not fresh when it had been read before.
LEMMA SilentIsStale ==
  ASSUME NEW at \in Nat, NEW read \in Nat, NEW written \in Nat, read <= written,
         at > written + VALID_FOR
  PROVE  ~fresh(read, at)
  BY SMT, ValidityAssumption DEF fresh

\* Files are written again at the present time, and nothing else is written.
LEMMA TimelyWorld ==
  ASSUME TimelyInv, World
  PROVE  ReadBefore' /\ Stamped' /\ SilenceIsUnknown'
<1> DEFINE i == inventory.updated_at
           j == inventory'.updated_at
           o == observations.updated_at
           p == observations'.updated_at
<1>1. Sources /\ run' = run /\ output' = output
  BY DEF World, TimelyInv, RInv, BootsInv
<1>2. now \in Nat /\ i \in Nat /\ o \in Nat /\ i <= now /\ o <= now
  <2>1. o \in Nat
    BY SMT, <1>1 DEF Sources
  <2> QED
    BY <1>1, <2>1 DEF Sources, TimelyInv, ReadBefore, Stamped
<1>3. \/ now' = now + 1 /\ j = i /\ p = o
      \/ now' = now /\ j \in {i, now} /\ p \in {o, now}
  <2>1. CASE Tick
    BY <2>1 DEF Tick
  <2>2. CASE \E b \in fleet.boots, id \in BootIds, outcome \in {"success", "failure"} :
               Boot(b.target, id, outcome)
    BY <2>2 DEF Boot
  <2>3. CASE Observe
    <3>1. PICK boots : observations' = [updated_at |-> now, boots |-> boots]
      BY <2>3 DEF Observe
    <3> QED
      BY <2>3, <3>1 DEF Observe
  <2>4. CASE Maintain
    <3>1. PICK listed, recorded :
            inventory' = [updated_at |-> now, boots |-> listed, enrollments |-> recorded]
      BY <2>4 DEF Maintain
    <3> QED
      BY <2>4, <3>1 DEF Maintain
  <2>5. CASE \E e \in fleet.enrollments : WriteJournal(inode[e.journal])
    BY <2>5 DEF WriteJournal
  <2> QED
    BY <2>1, <2>2, <2>3, <2>4, <2>5 DEF World
<1> HIDE DEF i, j, o, p
<1>4. /\ now' \in Nat /\ j \in Nat /\ p \in Nat /\ i <= j /\ o <= p
      /\ j <= now' /\ p <= now'
  BY SMT, <1>2, <1>3
<1>5. \A n \in Nat : (n <= i => n <= j) /\ (n <= o => n <= p)
  BY SMT, <1>2, <1>4
<1>6. \A n \in Nat : /\ n > j + VALID_FOR => n > i + VALID_FOR
                     /\ n > p + VALID_FOR => n > o + VALID_FOR
  BY SMT, <1>2, <1>4, ValidityAssumption
<1>7. ReadBefore'
  BY <1>1, <1>4, <1>5 DEF TimelyInv, ReadBefore, i, j, o, p
<1>8. Stamped'
  BY <1>1, <1>4 DEF TimelyInv, Stamped, j, p
<1>9. SilenceIsUnknown'
  BY <1>1, <1>6 DEF TimelyInv, Stamped, SilenceIsUnknown, i, j, o, p
<1> QED
  BY <1>7, <1>8, <1>9

\* What a step that leaves the files and the output alone keeps.
LEMMA TimelyKept ==
  ASSUME TimelyInv, UNCHANGED environment, output' = output
  PROVE  /\ SilenceIsUnknown'
         /\ inventory' = inventory /\ observations' = observations /\ now' = now
         /\ inventory'.updated_at <= now' /\ observations'.updated_at <= now'
         /\ \A d \in output' : d.now \in Nat
<1>1. inventory' = inventory /\ observations' = observations /\ now' = now
  BY DEF environment
<1> QED
  BY <1>1 DEF TimelyInv, Stamped, SilenceIsUnknown

\* A run that ends knows of no time.
LEMMA TimelyIdle ==
  ASSUME TimelyInv, UNCHANGED environment, output' = output, run' = Idle
  PROVE  ReadBefore' /\ Stamped' /\ SilenceIsUnknown'
<1>1. run'.step \notin Reading /\ run'.step \notin Deciding
  BY DEF Idle, Reading, Deciding
<1> QED
  BY <1>1, TimelyKept DEF TimelyInv, ReadBefore, Stamped

\* Each file is read with its time, and the clock after both.
LEMMA TimelyRead ==
  ASSUME TimelyInv, ReadInventory \/ ReadObservations \/ ReadClock
  PROVE  ReadBefore' /\ Stamped' /\ SilenceIsUnknown'
<1>1. UNCHANGED environment /\ output' = output
  BY DEF ReadInventory, ReadObservations, ReadClock
<1>2. /\ inventory.updated_at \in Nat /\ inventory.updated_at <= inventory.updated_at
      /\ observations.updated_at \in Nat /\ observations.updated_at <= observations.updated_at
      /\ now \in Nat
  <2>1. inventory.updated_at \in Nat /\ Sources
    BY DEF TimelyInv, ReadBefore, RInv, BootsInv
  <2>2. observations.updated_at \in Nat /\ now \in Nat
    BY SMT, <2>1 DEF Sources
  <2>3. \A n \in Nat : n <= n
    BY SMT
  <2> QED
    BY <2>1, <2>2, <2>3
<1>3. CASE ReadInventory
  <2>1. /\ run'.step = "observations" /\ run'.inventory = inventory
        /\ "observations" \notin Deciding
    BY <1>3 DEF ReadInventory, Deciding
  <2> QED
    BY <1>1, <1>2, <2>1, TimelyKept DEF TimelyInv, ReadBefore, Stamped
<1>4. CASE ReadObservations
  <2>1. /\ run'.step = "clock" /\ run'.inventory = run.inventory
        /\ run'.observations = observations
        /\ "clock" \notin Deciding /\ run.step \in Reading
    BY <1>4 DEF ReadObservations, Deciding, Reading
  <2> QED
    BY <1>1, <1>2, <2>1, TimelyKept DEF TimelyInv, ReadBefore, Stamped
<1>5. CASE ReadClock /\ valid(run.inventory, run.observations)
  <2>1. /\ run'.step = "journals" /\ run'.inventory = run.inventory
        /\ run'.observations = run.observations /\ run'.now = now
        /\ run'.tally = NoTally
        /\ run.step \in Reading \ {"observations"} /\ run.step \in Reading
    BY <1>5 DEF ReadClock, Reading
  <2>2. \A c \in Known : run'.tally.count[c] = 0
    <3>1. NoTally.count = [c \in Categories |-> 0]
      BY DEF NoTally
    <3> QED
      BY <2>1, <3>1 DEF Known
  <2> QED
    BY <1>1, <1>2, <2>1, <2>2, TimelyKept DEF TimelyInv, ReadBefore, Stamped
<1>6. CASE ReadClock /\ ~valid(run.inventory, run.observations)
  BY <1>1, <1>6, TimelyIdle DEF ReadClock
<1> QED
  BY <1>3, <1>4, <1>5, <1>6

\* An enrollment of a stale inventory ends the run or is counted as unknown.
LEMMA StaleCounts ==
  ASSUME Examine \/ Unreadable, ~fresh(run.inventory.updated_at, run.now)
  PROVE  \/ run' = Idle
         \/ advance(counted(run.tally, "unknown",
                            run.inventory.enrollments[run.next].created_at))
<1>1. CASE Unreadable
  BY <1>1 DEF Unreadable
<1>2. CASE Examine /\ ~acceptable(run.inventory.enrollments[run.next])
  BY <1>2 DEF Examine
<1>3. CASE Examine /\ acceptable(run.inventory.enrollments[run.next])
  BY <1>3 DEF Examine
<1> QED
  BY <1>1, <1>2, <1>3

\* Which leaves the other counts alone.
LEMMA UnknownLeaves ==
  ASSUME NEW tally, DOMAIN tally = {"count", "oldest", "files"},
         tally.count \in [Categories -> Nat], NEW at
  PROVE  \A c \in Known : counted(tally, "unknown", at).count[c] = tally.count[c]
<1> DEFINE aged == [c \in DOMAIN tally.oldest |->
                      IF "unknown" # "resolved" /\ c \in {"unknown", "unresolved"}
                      THEN older(tally.oldest[c], at) ELSE tally.oldest[c]]
           more == [tally.count EXCEPT !["unknown"] = @ + 1]
<1>1. counted(tally, "unknown", at) = [tally EXCEPT !.count = more, !.oldest = aged]
  BY DEF counted
<1>2. \A c \in Known : more[c] = tally.count[c]
  BY DEF Known, Categories
<1> HIDE DEF aged, more
<1>3. counted(tally, "unknown", at).count = more
  BY <1>1
<1> QED
  BY <1>2, <1>3

\* An enrollment more keeps the times, and counts for nothing if they are old.
LEMMA TimelyExamine ==
  ASSUME TimelyInv, Examine \/ Unreadable
  PROVE  ReadBefore' /\ Stamped' /\ SilenceIsUnknown'
<1>1. UNCHANGED environment /\ output' = output /\ run.step = "journals"
  BY DEF Examine, Unreadable
<1>2. run' = Idle \/ \E tally : advance(tally)
  <2>1. CASE Examine
    BY <2>1, Examined
  <2>2. CASE Unreadable
    BY <2>2 DEF Unreadable
  <2> QED
    BY <2>1, <2>2
<1>3. CASE run' = Idle
  BY <1>1, <1>3, TimelyIdle
<1>4. ASSUME NEW tally, advance(tally), run' # Idle
      PROVE  ReadBefore' /\ Stamped' /\ SilenceIsUnknown'
  <2>1. /\ run'.step = "journals" /\ run'.inventory = run.inventory
        /\ run'.observations = run.observations /\ run'.now = run.now
    BY <1>1, <1>4, Advanced DEF TimelyInv, RInv, BootsInv
  <2>2. ASSUME ~fresh(run.inventory.updated_at, run.now)
        PROVE  \A c \in Known : run'.tally.count[c] = 0
    <3> DEFINE at == run.inventory.enrollments[run.next].created_at
               new == counted(run.tally, "unknown", at)
    <3>1. advance(new)
      BY <1>4, <2>2, StaleCounts
    <3>2. run'.tally = new
      BY <1>1, <3>1, Advanced DEF TimelyInv, RInv, BootsInv
    <3>3. /\ DOMAIN run.tally = {"count", "oldest", "files"}
          /\ run.tally.count \in [Categories -> Nat]
      BY <1>1 DEF TimelyInv, RInv, CountsInv, Tallied, Tally, Deciding
    <3>4. \A c \in Known : new.count[c] = run.tally.count[c]
      BY <3>3, UnknownLeaves
    <3>5. \A c \in Known : run.tally.count[c] = 0
      BY <1>1, <2>2 DEF TimelyInv, Stamped, Deciding
    <3> HIDE DEF new
    <3> QED
      BY <3>2, <3>4, <3>5
  <2>3. Stamped'
    <3>1. run.now \in Nat
      BY <1>1 DEF TimelyInv, Stamped, Deciding
    <3> QED
      BY <1>1, <2>1, <2>2, <3>1, TimelyKept DEF Stamped
  <2>4. ReadBefore'
    <3>1. run.step \in Reading /\ run.step \in Reading \ {"observations"}
      BY <1>1 DEF Reading
    <3> QED
      BY <1>1, <2>1, <3>1, TimelyKept DEF TimelyInv, ReadBefore
  <2> QED
    BY <1>1, <2>3, <2>4, TimelyKept
<1> QED
  BY <1>2, <1>3, <1>4

\* The file says nothing of what was stale: a file that is silent when it is written was
\* stale when it was read.
LEMMA TimelyPersist ==
  ASSUME TimelyInv, Persist
  PROVE  ReadBefore' /\ Stamped' /\ SilenceIsUnknown'
<1> DEFINE i == run.inventory.updated_at
           o == run.observations.updated_at
<1>1. /\ UNCHANGED environment /\ run.step = "journals" /\ run' = Idle
      /\ output' = {document} /\ inventory' = inventory /\ observations' = observations
      /\ now' = now
  BY DEF Persist, environment
<1>2. /\ run.step \in Deciding /\ run.step \in Reading
      /\ run.step \in Reading \ {"observations"}
      /\ run'.step \notin Deciding /\ run'.step \notin Reading
  BY <1>1 DEF Idle, Deciding, Reading
<1>3. /\ run.now \in Nat /\ i \in Nat /\ o \in Nat
      /\ i <= inventory.updated_at /\ o <= observations.updated_at
      /\ inventory.updated_at \in Nat
  BY <1>2 DEF TimelyInv, ReadBefore, Stamped
<1>4. observations.updated_at \in Nat
  <2>1. Sources
    BY DEF TimelyInv, RInv, BootsInv
  <2> QED
    BY SMT, <2>1 DEF Sources
<1>5. PICK d : d = document
  OBVIOUS
<1>6. output' = {d} /\ d.states = run.states /\ d.tally = run.tally /\ d.now = run.now
  BY <1>1, <1>5 DEF document
<1>7. ~fresh(i, run.now) \/ ~fresh(o, run.now) =>
        \A k \in DOMAIN run.states : run.states[k] = "unknown"
  BY <1>2 DEF TimelyInv, RInv, BootsInv, Classified, classify
<1>8. ~fresh(i, run.now) => \A c \in Known : run.tally.count[c] = 0
  BY <1>2 DEF TimelyInv, Stamped
<1> HIDE DEF i, o
<1>9. /\ run.now > inventory.updated_at + VALID_FOR => ~fresh(i, run.now)
      /\ run.now > observations.updated_at + VALID_FOR => ~fresh(o, run.now)
  BY <1>3, <1>4, SilentIsStale
<1>10. SilenceIsUnknown'
  BY <1>1, <1>6, <1>7, <1>8, <1>9 DEF SilenceIsUnknown, Known
<1>11. Stamped'
  BY <1>1, <1>2, <1>3, <1>6 DEF TimelyInv, Stamped
<1>12. ReadBefore'
  BY <1>1, <1>2, <1>3 DEF ReadBefore
<1> QED
  BY <1>10, <1>11, <1>12

\* What is said of the times holds in every state.
LEMMA TimelyAlways == Spec => []TimelyInv
<1>1. Init /\ RInv => TimelyInv
  <2> SUFFICES ASSUME Init, RInv PROVE TimelyInv
    OBVIOUS
  <2>1. /\ run.step \notin Reading /\ run.step \notin Deciding /\ output = {}
        /\ inventory.updated_at = 0 /\ observations.updated_at = 0
    BY DEF Init, Idle, Reading, Deciding
  <2>2. now \in Nat
    BY DEF RInv, BootsInv, Sources
  <2>3. 0 \in Nat /\ 0 <= now
    BY SMT, <2>2
  <2> QED
    BY <2>1, <2>3 DEF TimelyInv, ReadBefore, Stamped, SilenceIsUnknown
<1>2. TimelyInv /\ RInv' /\ [Next]_vars => TimelyInv'
  <2> SUFFICES ASSUME TimelyInv, RInv', [Next]_vars
               PROVE  ReadBefore' /\ Stamped' /\ SilenceIsUnknown'
    BY DEF TimelyInv
  <2>1. CASE World
    BY <2>1, TimelyWorld
  <2>2. CASE ReadInventory \/ ReadObservations \/ ReadClock
    BY <2>2, TimelyRead
  <2>3. CASE Examine \/ Unreadable
    BY <2>3, TimelyExamine
  <2>4. CASE Persist
    BY <2>4, TimelyPersist
  <2>5. CASE Fail
    BY <2>5, TimelyIdle DEF Fail
  <2>6. CASE UNCHANGED vars
    BY <2>6 DEF vars, environment, TimelyInv, ReadBefore, Stamped, SilenceIsUnknown
  <2> QED
    BY <2>1, <2>2, <2>3, <2>4, <2>5, <2>6 DEF Next, Process
<1> QED
  BY <1>1, <1>2, CountsAlways, PTL DEF Spec

\* Every exported verdict is about its time (render, fresh), for any fleet, reports and
\* validity, and whenever the management plane, the operator and the clock go on while the
\* files are read: a success is that boot of that machine, after it was requested and by its
\* deadline, and an input that had been silent too long when the snapshot was taken has
\* counted for nothing.
THEOREM VerdictsOfTheirTime == Spec => []VerdictsAreTimely
<1>1. TimelyInv => VerdictsAreTimely
  BY DEF TimelyInv, RInv, BootsInv, VerdictsAreTimely
<1> QED
  BY <1>1, TimelyAlways, PTL

=============================================================================
