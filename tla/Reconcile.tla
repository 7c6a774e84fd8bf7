----------------------------- MODULE Reconcile ------------------------------
(***************************************************************************)
(* `leelo-collector reconcile` (leelo-collector reconcile.rs): a timer runs *)
(* it over an inventory that an operator keeps, boot observations that a    *)
(* management plane keeps, and the enrollment journals, and it replaces one *)
(* file of counts.  All of them change while it reads.  Here the file also  *)
(* remembers which target and which journal was counted where, so that the  *)
(* counts can be compared with what has happened to the fleet.              *)
(***************************************************************************)
EXTENDS Naturals, FiniteSets, Sequences, Functions

CONSTANTS
  BootIds,       \* boot references machines come up with
  inode,         \* journal path -> the file it names
  VALID_FOR,     \* valid_for_seconds
  TARGET_LIMIT,  \* TARGET_LIMIT
  RECORDS,       \* phases of a complete journal
  Fleets,        \* what there is to keep track of, and since when
  MAX_TIME, MAX_BOOTS  \* bounds

ASSUME PathAssumption ==
  /\ IsFiniteSet(DOMAIN inode)
  /\ \A f \in Fleets : \A e \in f.enrollments : e.journal \in DOMAIN inode
ASSUME TimesAssumption ==
  \A f \in Fleets :
    /\ f.since \in Nat
    /\ IsFiniteSet(f.boots) /\ IsFiniteSet(f.enrollments)
    /\ \A b \in f.boots : b.requested_at \in Nat /\ b.deadline \in Nat
ASSUME RecordsAssumption == RECORDS \in Nat
ASSUME ValidityAssumption == VALID_FOR \in Nat

Files == {inode[p] : p \in DOMAIN inode}
Categories == {"pending", "unknown", "awaiting_boot_test", "resolved"}

VARIABLES
  fleet,         \* the boots an operator may come to expect, the enrollments
                 \* an operator may record, and when it begins
  now,           \* the wall clock
  happened,      \* boots that took place, reported or not
  inventory, observations,  \* the two input files
  journals,      \* file -> complete records and whether bytes follow them
  run,           \* the process: the step it is at and what it has read
  output         \* the exported file: at most one

environment == <<fleet, now, happened, inventory, observations, journals>>
vars == <<environment, run, output>>

NoTally == [count |-> [c \in Categories |-> 0],
            oldest |-> [c \in Categories \cup {"unresolved"} |-> {}],
            files |-> {}]
Idle == [step |-> "idle"]

Init ==
  /\ fleet \in Fleets
  /\ now = fleet.since
  /\ happened = {}
  /\ inventory = [updated_at |-> 0, boots |-> <<>>, enrollments |-> <<>>]
  /\ observations = [updated_at |-> 0, boots |-> <<>>]
  /\ journals = [f \in Files |-> [records |-> 0, torn |-> FALSE]]
  /\ run = Idle
  /\ output = {}

-----------------------------------------------------------------------------
(* The fleet, the operator and the management plane                        *)

Tick ==
  /\ now < MAX_TIME
  /\ now' = now + 1
  /\ UNCHANGED <<fleet, happened, inventory, observations, journals>>

\* A machine comes up, or fails to.  Two reports of one boot may disagree.
Boot(target, boot_id, outcome) ==
  /\ Cardinality(happened) < MAX_BOOTS
  /\ happened' = happened \cup
       {[target |-> target, boot_id |-> boot_id, observed_at |-> now, outcome |-> outcome]}
  /\ UNCHANGED <<fleet, now, inventory, observations, journals>>

\* The management plane writes its file again, with a report that came in since.
Observe ==
  /\ \/ observations' = [updated_at |-> now, boots |-> observations.boots]
     \/ \E report \in happened \ Range(observations.boots) :
          observations' = [updated_at |-> now, boots |-> Append(observations.boots, report)]
  /\ UNCHANGED <<fleet, now, happened, inventory, journals>>

\* The members of a finite set in some order.
orders(S) == Surjection(1..Cardinality(S), S)

\* The operator writes the inventory again, with boots now expected, enrollments
\* now known, and the enrollments that have passed a boot test.
Maintain ==
  /\ \E boots \in SUBSET fleet.boots, known \in SUBSET fleet.enrollments :
       /\ Range(inventory.boots) \subseteq boots
       /\ {e.journal : e \in Range(inventory.enrollments)} \subseteq {e.journal : e \in known}
       /\ \A b \in boots : b.requested_at <= now
       /\ \A e \in known :
            /\ e.created_at <= now
            /\ e.production_boot_test_passed => journals[inode[e.journal]].records = RECORDS
       /\ \E listed \in orders(boots), recorded \in orders(known) :
            inventory' = [updated_at |-> now, boots |-> listed, enrollments |-> recorded]
  /\ UNCHANGED <<fleet, now, happened, observations, journals>>

\* The CLI appends a record: its bytes and then its newline.
WriteJournal(f) ==
  /\ journals[f].records < RECORDS
  /\ journals' = [journals EXCEPT ![f] =
       IF @.torn THEN [records |-> @.records + 1, torn |-> FALSE]
                 ELSE [@ EXCEPT !.torn = TRUE]]
  /\ UNCHANGED <<fleet, now, happened, inventory, observations>>

World ==
  /\ \/ Tick
     \/ \E b \in fleet.boots, i \in BootIds, o \in {"success", "failure"} : Boot(b.target, i, o)
     \/ Observe
     \/ Maintain
     \/ \E e \in fleet.enrollments : WriteJournal(inode[e.journal])
  /\ UNCHANGED <<run, output>>

-----------------------------------------------------------------------------
(* What is read and how it is classified                                   *)

\* A mistake: only a file from the future is refused.
fresh_forever(timestamp, at) == timestamp <= at

fresh(timestamp, at) == timestamp <= at /\ at - timestamp <= VALID_FOR

valid(inv, obs) ==
  /\ Len(inv.boots) <= TARGET_LIMIT
  /\ Len(inv.enrollments) <= TARGET_LIMIT
  /\ Len(obs.boots) <= TARGET_LIMIT * 4
  /\ \A b \in Range(inv.boots) :
       b.requested_at <= b.deadline /\ b.requested_at <= inv.updated_at
  /\ \A i, j \in DOMAIN inv.boots :
       inv.boots[i].target = inv.boots[j].target
         /\ inv.boots[i].boot_id = inv.boots[j].boot_id => i = j
  /\ \A r \in Range(obs.boots) : r.observed_at <= obs.updated_at

\* A mistake: reports of any boot of the target answer for this one.
of_boot_any(report, expected) == report.target = expected.target

of_boot(report, expected) ==
  report.target = expected.target /\ report.boot_id = expected.boot_id

eligible(report, expected) ==
  of_boot(report, expected) /\ report.observed_at >= expected.requested_at

reports(obs, expected) == {i \in DOMAIN obs.boots : eligible(obs.boots[i], expected)}

\* A mistake: the report that came in last.
latest_reported(obs, expected) ==
  {obs.boots[i] : i \in {k \in reports(obs, expected) :
                           \A j \in reports(obs, expected) : j <= k}}

\* The report max_by_key keeps, if there is one: the last with the largest time.
latest(obs, expected) ==
  LET at(i) == obs.boots[i].observed_at IN
  {obs.boots[i] : i \in {k \in reports(obs, expected) :
                           \A j \in reports(obs, expected) :
                             at(j) < at(k) \/ (at(j) = at(k) /\ j <= k)}}

\* A mistake: of two reports of one time the later in the file wins.
conflicting_never(obs, expected, last) == FALSE

conflicting(obs, expected, last) ==
  \E r \in Range(obs.boots) :
    of_boot(r, expected) /\ r.observed_at = last.observed_at /\ r.outcome # last.outcome

\* What render counts an expected boot as.
classify(inv, obs, at, expected) ==
  LET found == latest(obs, expected) IN
  IF ~fresh(inv.updated_at, at) \/ ~fresh(obs.updated_at, at) THEN "unknown"
  ELSE IF found = {} THEN IF at <= expected.deadline THEN "pending" ELSE "missing"
  ELSE LET last == CHOOSE r \in found : TRUE IN
       CASE conflicting(obs, expected, last) -> "unknown"
         [] OTHER -> IF last.outcome = "failure" THEN "failure"
                     ELSE IF last.observed_at > expected.deadline THEN "late_success"
                     ELSE "success"

\* A mistake: a last record without its newline is a record.
journal_committed_unended(journal) ==
  LET records == IF journal.torn THEN journal.records + 1 ELSE journal.records IN
  CASE records = 0 -> "unknown"
    [] OTHER -> IF records = RECORDS THEN "committed" ELSE "pending"

\* All records, each with its newline: Some(true).  Records short of that, and
\* nothing behind them: Some(false).  Anything else: None.
journal_committed(journal) ==
  CASE journal.torn \/ journal.records = 0 -> "unknown"
    [] OTHER -> IF journal.records = RECORDS THEN "committed" ELSE "pending"

older(current, timestamp) ==
  IF current # {} /\ (CHOOSE t \in current : TRUE) <= timestamp THEN current ELSE {timestamp}

counted(tally, category, created_at) ==
  [tally EXCEPT
     !.count[category] = @ + 1,
     !.oldest = [c \in DOMAIN @ |->
       IF category # "resolved" /\ c \in {category, "unresolved"}
       THEN older(@[c], created_at) ELSE @[c]]]

-----------------------------------------------------------------------------
(* The process                                                             *)

ReadInventory ==
  /\ run.step = "idle"
  /\ run' = [step |-> "observations", inventory |-> inventory]
  /\ UNCHANGED <<environment, output>>

ReadObservations ==
  /\ run.step = "observations"
  /\ run' = [step |-> "clock", inventory |-> run.inventory, observations |-> observations]
  /\ UNCHANGED <<environment, output>>

\* The clock is read after both files; render then classifies the boots.
ReadClock ==
  /\ run.step = "clock"
  /\ run' = IF ~valid(run.inventory, run.observations) THEN Idle
            ELSE [step |-> "journals", inventory |-> run.inventory,
                  observations |-> run.observations, now |-> now,
                  states |-> [i \in DOMAIN run.inventory.boots |->
                     classify(run.inventory, run.observations, now, run.inventory.boots[i])],
                  next |-> 1, tally |-> NoTally]
  /\ UNCHANGED <<environment, output>>

advance(tally) == run' = [run EXCEPT !.tally = tally, !.next = @ + 1]

acceptable(enrollment) ==
  /\ \A i \in 1..(run.next - 1) : run.inventory.enrollments[i].journal # enrollment.journal
  /\ enrollment.created_at <= run.now
  /\ enrollment.created_at <= run.inventory.updated_at

\* One enrollment of the loop, with the journal as it is at this moment.
Examine ==
  /\ run.step = "journals" /\ run.next <= Len(run.inventory.enrollments)
  /\ LET enrollment == run.inventory.enrollments[run.next]
         file == inode[enrollment.journal]
         state == journal_committed(journals[file])
         category == CASE state = "committed" ->
                            IF enrollment.production_boot_test_passed
                            THEN "resolved" ELSE "awaiting_boot_test"
                       [] OTHER -> state
     IN CASE ~acceptable(enrollment) -> run' = Idle
          [] OTHER ->
               IF ~fresh(run.inventory.updated_at, run.now)
               THEN advance(counted(run.tally, "unknown", enrollment.created_at))
               ELSE IF file \in run.tally.files THEN run' = Idle
               ELSE advance([counted(run.tally, category, enrollment.created_at)
                               EXCEPT !.files = @ \cup {file}])
  /\ UNCHANGED <<environment, output>>

\* read_held refuses or cannot read a journal.
Unreadable ==
  /\ run.step = "journals" /\ run.next <= Len(run.inventory.enrollments)
  /\ LET enrollment == run.inventory.enrollments[run.next] IN
     IF acceptable(enrollment)
     THEN advance(counted(run.tally, "unknown", enrollment.created_at))
     ELSE run' = Idle
  /\ UNCHANGED <<environment, output>>

document ==
  [boots |-> run.inventory.boots, states |-> run.states,
   enrollments |-> run.inventory.enrollments, tally |-> run.tally, now |-> run.now]

\* atomic_write fills a file of a new name beside the output, which nobody reads,
\* and renames it.  Before the rename an error removes that file and a kill leaves
\* it, which is Fail here.
Persist ==
  /\ run.step = "journals" /\ run.next > Len(run.inventory.enrollments)
  /\ run' = Idle
  /\ output' = {document}
  /\ UNCHANGED environment

\* A read or a write fails, or the process is killed.
Fail ==
  /\ run.step # "idle"
  /\ run' = Idle
  /\ UNCHANGED <<environment, output>>

Process ==
  ReadInventory \/ ReadObservations \/ ReadClock \/ Examine \/ Persist

Next == World \/ Process \/ Unreadable \/ Fail

Spec == Init /\ [][Next]_vars

-----------------------------------------------------------------------------
(* Properties                                                              *)

\* A boot is counted as a success only if that boot of that machine came up after
\* it was requested and by its deadline: an earlier boot, another boot reference
\* or a late one does not stand in for it.
SuccessIsTimely ==
  \A d \in output : \A i \in DOMAIN d.states :
    LET b == d.boots[i] IN
    d.states[i] = "success" =>
      \E h \in happened :
        /\ h.target = b.target /\ h.boot_id = b.boot_id /\ h.outcome = "success"
        /\ h.observed_at \in b.requested_at..b.deadline

\* An input that had not been written for VALID_FOR when the snapshot was taken
\* gives no verdict: without the inventory or the observations every boot is
\* unknown, and without the inventory every enrollment.
SilenceIsUnknown ==
  \A d \in output :
    LET silent(file) == d.now > file.updated_at + VALID_FOR IN
    /\ silent(inventory) \/ silent(observations) =>
         \A i \in DOMAIN d.states : d.states[i] = "unknown"
    /\ silent(inventory) =>
         \A c \in Categories \ {"unknown"} : d.tally.count[c] = 0

\* Every exported verdict is about its time (render, fresh): a success is of the
\* boot that was asked for and in time, and inputs gone stale, also between the
\* reads of one run, count as unknown instead of repeating what they said.
VerdictsAreTimely == SuccessIsTimely /\ SilenceIsUnknown

\* The verdict on a boot does not depend on the order in which the management
\* plane lists its reports, in particular when two of one time disagree (render).
OrderIndependent ==
  run.step = "journals" =>
    \A i \in DOMAIN run.states, order \in orders(Range(run.observations.boots)) :
      classify(run.inventory, [run.observations EXCEPT !.boots = order], run.now,
               run.inventory.boots[i]) = run.states[i]

\* A deadline miss stays one: no report that comes in later, not even one of an
\* earlier success, turns a late success into a success (render).
LateStaysLate ==
  [][\A d \in output, e \in output' : \A i \in DOMAIN d.states, j \in DOMAIN e.states :
       /\ d.boots[i] = e.boots[j]
       /\ d.states[i] = "late_success"
       => e.states[j] # "success"]_vars

\* The counts of enrollments tell the journals, although the CLI writes while they
\* are read (render, journal_committed, journal_files): stale, unreadable and
\* unfinished enrollments stay in the denominator, two paths of one journal never
\* both count except as unknown, and no more count as committed than there are
\* journals with all their records.
CountsTellJournals ==
  \A d \in output :
    LET n == d.tally.count
        known == n["pending"] + n["awaiting_boot_test"] + n["resolved"]
    IN  /\ known + n["unknown"] = Len(d.enrollments)
        /\ known <= Cardinality({inode[e.journal] : e \in Range(d.enrollments)})
        /\ n["awaiting_boot_test"] + n["resolved"]
             <= Cardinality({f \in Files : journals[f].records = RECORDS})
=============================================================================
