--------------------------- MODULE EnrollmentProofs -------------------------
(***************************************************************************)
(* Proofs about enrollments, for any number of enrollers, resumers, slots   *)
(* and disturbances: what survives on the volume and in the files, after    *)
(* any interleaving, failure, kill or power loss.                           *)
(*                                                                          *)
(* The properties speak of every state of the volume that a power loss may  *)
(* leave, so the invariant does too.  It says what is in the files at each  *)
(* position of the script, that one process at a time is inside leelo-luks, *)
(* what each surviving state of the volume holds of an enrollment while its *)
(* enroller is at a step of add_enrollment, and what attach_locked has      *)
(* established when it writes a token.                                      *)
(***************************************************************************)
EXTENDS Enrollment, WellFoundedInduction, TLAPS

\* Most of what follows is reasoning about sets and functions, which is what Zenon
\* is good at; a leaf that needs arithmetic or records cites SMT.
USE Zenon

-----------------------------------------------------------------------------
(* The inductive invariant                                                 *)

Owners == Enrollers \cup {"free", "old", "native"}

Headers == [slots : [Ids -> Owners], tokens : [Ids -> Owners]]

FileStates ==
  [entry : {"absent", "visible", "durable"}, written : Nat, synced : Nat]

Attaching == {"attach", "token", "token_sync", "verify"}

Calls == {"idle", "add_check", "add", "slot_sync"} \cup Attaching

StorageStates == {"not_mutated", "pending_reconciliation", "committed", "unknown"}

Statuses == {"running", "ok", "failed", "killed", "absent"}

VolumeType ==
  /\ surviving \subseteq Headers
  /\ header \in surviving

ProcessType ==
  /\ pc \in [Processes -> 0..16]
  /\ status \in [Processes -> Statuses]
  /\ luks \in [Processes -> Calls]
  /\ storage \in [Processes -> StorageStates]

TypeOK ==
  /\ VolumeType
  /\ ProcessType
  /\ files \in [Enrollers -> [Files -> FileStates]]
  /\ target \in [Enrollers -> Ids \cup {SLOT_COUNT}]
  /\ DOMAIN subject \subseteq Resumers
  /\ \A r \in DOMAIN subject : subject[r] \in Enrollers

\* Who is inside leelo-luks, and how it got there.
Inside(p) ==
  luks[p] # "idle" =>
    /\ lock = p
    /\ Running(p)
    /\ IF p \in Enrollers THEN pc[p] = 13 ELSE pc[p] = 1 /\ luks[p] \in Attaching

\* A process that gets to the volume knows the signed slot of its envelope.
Signed(p) ==
  /\ p \in Resumers /\ status[p] # "absent" => p \in DOMAIN subject
  /\ p \in Resumers /\ Running(p) /\ pc[p] = 1 => target[subject[p]] \in Ids
  /\ p \in Enrollers /\ pc[p] > 0 => target[p] \in Ids

\* The files of an enrollment at a position of the script, while it runs.
JournalAt(n) ==
  [entry   |-> IF n < 2 THEN "absent" ELSE IF n < 5 THEN "visible" ELSE "durable",
   written |-> IF n < 3 THEN 0 ELSE IF n < 11 THEN 1 ELSE IF n = 11 THEN 2
               ELSE IF n < 15 THEN 3 ELSE 4,
   synced  |-> IF n < 4 THEN 0 ELSE IF n < 13 THEN 1 ELSE IF n < 16 THEN 3 ELSE 4]

BundleAt(n) ==
  [entry   |-> IF n < 7 THEN "absent" ELSE IF n < 10 THEN "visible" ELSE "durable",
   written |-> IF n < 8 THEN 0 ELSE 1,
   synced  |-> IF n < 9 THEN 0 ELSE 1]

\* What a file that was once at a position of the script may be after crashes.
Remains(file, at) ==
  /\ file.synced <= file.written
  /\ file.written <= at.written
  /\ at.entry = "durable" => file.entry = "durable" /\ file.synced >= at.synced

Persisted(e) ==
  /\ Running(e) => /\ files[e]["journal"] = JournalAt(pc[e])
                   /\ files[e]["bundle"] = BundleAt(pc[e])
  /\ Remains(files[e]["journal"], JournalAt(pc[e]))
  /\ Remains(files[e]["bundle"], BundleAt(pc[e]))

\* The storage state the enroll command reports.
Reported(e) ==
  /\ luks[e] # "idle" => storage[e] = "pending_reconciliation"
  /\ Running(e) /\ luks[e] = "idle" /\ pc[e] <= 13 => storage[e] = "not_mutated"
  /\ pc[e] > 13 <=> storage[e] = "committed"

\* What a state of the volume holds of an enrollment: its slot only once the
\* command got to the storage call, and only where the envelope says; at most
\* one token, and that one with the slot.
Holds(e, h) ==
  /\ \A id \in Ids : h.slots[id] = e => id = target[e] /\ pc[e] > 12
  /\ \A id \in Ids : h.tokens[id] = e => target[e] \in Ids /\ h.slots[target[e]] = e
  /\ \A i, j \in Ids : h.tokens[i] = e /\ h.tokens[j] = e => i = j

HasToken(h, e) == \E id \in Ids : h.tokens[id] = e

\* What a surviving state of the volume has of an enrollment while its command
\* is inside add_enrollment, and after it.
During(e, h) ==
  /\ storage[e] = "not_mutated" \/ luks[e] \in {"add_check", "add"} => ~HasSlot(h, e)
  /\ luks[e] \in Attaching => h.slots[target[e]] = e
  /\ luks[e] \in {"slot_sync", "attach", "token"} => ~HasToken(h, e)
  /\ luks[e] = "verify" => HasToken(h, e)
  /\ storage[e] = "committed" => h.slots[target[e]] = e /\ HasToken(h, e)

\* What the current state has, which a sync makes the only surviving one.
Now(e) ==
  /\ luks[e] = "slot_sync" => header.slots[target[e]] = e
  /\ luks[e] = "token_sync" => HasToken(header, e)

\* attach_locked, in either command, before it writes the token.
Attached(p) ==
  luks[p] = "token" => Activates(p) /\ ~HasToken(header, envelope(p))

Volume ==
  /\ \A e \in Enrollers : \A h \in surviving : Holds(e, h) /\ During(e, h)
  /\ \A e \in Enrollers : Now(e)
  /\ \A p \in Processes : Attached(p)

Control ==
  /\ \A p \in Processes : Inside(p) /\ Signed(p)
  /\ \A e \in Enrollers : Reported(e)

Journals == \A e \in Enrollers : Persisted(e)

Inv == TypeOK /\ Control /\ Journals /\ Volume

-----------------------------------------------------------------------------
(* Facts about the operators                                               *)

\* A set of numbers has a least one.
LEMMA Least ==
  ASSUME NEW S, S \subseteq Nat, S # {}
  PROVE  \E i \in S : \A j \in S : i <= j
<1> DEFINE R == OpToRel(<, Nat)
<1>1. IsWellFoundedOn(R, Nat)
  BY NatLessThanWellFounded
<1>2. \A x, y \in Nat : <<x, y>> \in R <=> x < y
  BY DEF OpToRel
<1> HIDE DEF R
<1>3. PICK x \in S : \A y \in S : ~(<<y, x>> \in R)
  BY <1>1, WFMin
<1>4. ASSUME NEW y \in S
      PROVE  x <= y
  <2>1. x \in Nat /\ y \in Nat
    OBVIOUS
  <2>2. ~(y < x)
    BY <1>2, <1>3, <2>1
  <2>3. QED
    BY SMT, <2>1, <2>2
<1>5. QED
  BY <1>4

\* first_free_slot, and the id the library allocates: one of the set.
LEMMA FirstOfMember ==
  ASSUME NEW S, S \subseteq Ids, S # {}
  PROVE  FirstOf(S) \in S
<1>1. S \subseteq Nat
  BY SMT, BoundsAssumption DEF Ids
<1>2. \E i \in S : \A j \in S : i <= j
  BY <1>1, Least
<1>3. QED
  BY <1>2 DEF FirstOf

\* The script: where the storage call is, and what the other positions do.
LEMMA ScriptIs ==
  /\ DOMAIN Script = 1..15 /\ Len(Script) = 15
  /\ Script[1] = <<"create", "journal">> /\ Script[2] = <<"write", "journal">>
  /\ Script[3] = <<"sync_file", "journal">> /\ Script[4] = <<"sync_directory", "journal">>
  /\ Script[5] = <<"prepare", "journal">> /\ Script[6] = <<"create", "bundle">>
  /\ Script[7] = <<"write", "bundle">> /\ Script[8] = <<"sync_file", "bundle">>
  /\ Script[9] = <<"sync_directory", "bundle">> /\ Script[10] = <<"write", "journal">>
  /\ Script[11] = <<"write", "journal">> /\ Script[12] = <<"sync_file", "journal">>
  /\ Script[13] = <<"add", "journal">> /\ Script[14] = <<"write", "journal">>
  /\ Script[15] = <<"sync_file", "journal">>
BY SMT DEF Script

\* The thirteenth step of the script is the one that calls add_enrollment.
LEMMA AtAdd ==
  ASSUME TypeOK, NEW e \in Enrollers
  PROVE  At(e, "add") <=> Running(e) /\ pc[e] = 13
<1>1. pc[e] \in 0..16
  BY DEF TypeOK, ProcessType, Processes
<1>2. pc[e] \in 1..15 => (Script[pc[e]][1] = "add" <=> pc[e] = 13)
  BY SMT, <1>1, ScriptIs
<1>3. QED
  BY SMT, <1>2, ScriptIs DEF At

\* A process that works on an envelope works on one of an enroller, and knows
\* its slot once it is inside leelo-luks.
LEMMA EnvelopeType ==
  ASSUME TypeOK, Control, NEW p \in Processes, Running(p)
  PROVE  /\ envelope(p) \in Enrollers
         /\ luks[p] # "idle" => slot(p) \in Ids
<1>1. Inside(p) /\ Signed(p)
  BY DEF Control
<1>2. CASE p \in Enrollers
  BY SMT, <1>1, <1>2 DEF envelope, slot, Inside, Signed
<1>3. CASE p \notin Enrollers
  <2>1. p \in Resumers /\ p \in DOMAIN subject
    BY <1>1, <1>3 DEF Processes, Running, Signed
  <2>2. envelope(p) = subject[p] /\ subject[p] \in Enrollers
    BY <1>3, <2>1 DEF envelope, TypeOK
  <2>3. QED
    BY <1>1, <1>3, <2>1, <2>2 DEF slot, Inside, Signed
<1>4. QED
  BY <1>2, <1>3

\* What a write leaves is a header again.
LEMMA WriteType ==
  ASSUME VolumeType, NEW h \in Headers, Write(h)
  PROVE  VolumeType'
BY DEF VolumeType, Write

\* The header that add_enrollment writes: the signed slot, and nothing else changed.
LEMMA WithSlotIs ==
  ASSUME TypeOK, Control, NEW e \in Enrollers, luks[e] # "idle"
  PROVE  /\ WithSlot(e) \in Headers
         /\ WithSlot(e).tokens = header.tokens
         /\ WithSlot(e).slots[target[e]] = e
         /\ \A id \in Ids \ {target[e]} : WithSlot(e).slots[id] = header.slots[id]
<1>1. target[e] \in Ids /\ slot(e) = target[e]
  BY SMT DEF Control, Inside, Signed, Processes, slot, envelope
<1>2. header \in Headers /\ e \in Owners
  BY DEF TypeOK, VolumeType, Owners
<1>3. QED
  BY <1>1, <1>2 DEF WithSlot, Headers

\* The header that attach_locked writes: a token in a free place, nothing else changed.
LEMMA WithTokenIs ==
  ASSUME TypeOK, Control, NEW p \in Processes, luks[p] # "idle",
         Free(header.tokens) # {}
  PROVE  /\ WithToken(p) \in Headers
         /\ WithToken(p).slots = header.slots
         /\ \E t \in Ids :
              /\ header.tokens[t] = "free"
              /\ WithToken(p).tokens[t] = envelope(p)
              /\ \A id \in Ids \ {t} : WithToken(p).tokens[id] = header.tokens[id]
<1> DEFINE t == FirstOf(Free(header.tokens))
<1>1. t \in Ids /\ header.tokens[t] = "free"
  BY FirstOfMember DEF Free
<1>2. header \in Headers
  BY DEF TypeOK, VolumeType
<1>3. Running(p)
  BY DEF Control, Inside
<1>4. envelope(p) \in Owners
  BY <1>3, EnvelopeType DEF Owners
<1>5. WithToken(p) = [header EXCEPT !.tokens[t] = envelope(p)]
  BY DEF WithToken
<1> HIDE DEF t
<1>6. QED
  BY SMT, <1>1, <1>2, <1>4, <1>5 DEF Headers

-----------------------------------------------------------------------------
(* Types                                                                   *)

\* A step is one of these.
LEMMA Cases ==
  ASSUME Next
  PROVE  \/ \E e \in Enrollers : \/ Choose(e) \/ Persist(e) \/ PersistFails(e)
                                 \/ CheckAdd(e) \/ AddSlot(e)
         \/ \E r \in Resumers : Recover(r) \/ Retry(r)
         \/ \E p \in Processes : \/ Acquire(p) \/ Sync(p) \/ Attach(p) \/ SetToken(p)
                                 \/ Verify(p) \/ Kill(p)
         \/ PowerLoss
         \/ Native
BY DEF Next, EnrollStep, ResumeStep, StorageStep

\* The volume stays well formed.
LEMMA StepVolumeType ==
  ASSUME TypeOK, Control, Next
  PROVE  VolumeType'
<1>1. CASE UNCHANGED <<header, surviving>>
  BY <1>1 DEF TypeOK, VolumeType
<1>2. ASSUME NEW e \in Enrollers, AddSlot(e)
      PROVE  VolumeType'
  <2>1. luks[e] # "idle" /\ (Write(WithSlot(e)) \/ UNCHANGED <<header, surviving>>)
    BY <1>2 DEF AddSlot
  <2>2. QED
    BY <1>1, <2>1, WithSlotIs, WriteType DEF TypeOK
<1>3. ASSUME NEW p \in Processes, SetToken(p)
      PROVE  VolumeType'
  <2>1. /\ luks[p] # "idle"
        /\ \/ Free(header.tokens) # {} /\ Write(WithToken(p))
           \/ UNCHANGED <<header, surviving>>
    BY <1>3 DEF SetToken, TokenWritable
  <2>2. QED
    BY <1>1, <2>1, WithTokenIs, WriteType DEF TypeOK
<1>4. ASSUME NEW p \in Processes, Sync(p)
      PROVE  VolumeType'
  BY <1>4 DEF Sync, TypeOK, VolumeType
<1>5. CASE PowerLoss
  BY <1>5 DEF PowerLoss, TypeOK, VolumeType
<1>6. CASE Native
  <2>1. PICK h : /\ Write(h)
                 /\ \E id \in Ids, owner \in {"native", "free"} :
                      \/ h = [header EXCEPT !.slots[id] = owner]
                      \/ h = [header EXCEPT !.tokens[id] = owner]
    BY <1>6 DEF Native
  <2>2. header \in Headers
    BY DEF TypeOK, VolumeType
  <2>3. h \in Headers
    BY SMT, <2>1, <2>2 DEF Headers, Owners
  <2>4. QED
    BY <2>1, <2>3, WriteType DEF TypeOK
<1>7. ASSUME NEW e \in Enrollers,
             Choose(e) \/ Persist(e) \/ PersistFails(e) \/ CheckAdd(e)
      PROVE  VolumeType'
  BY <1>1, <1>7 DEF Choose, Persist, PersistFails, CheckAdd, volume
<1>8. ASSUME NEW r \in Resumers, Recover(r) \/ Retry(r)
      PROVE  VolumeType'
  BY <1>1, <1>8 DEF Recover, Retry, volume
<1>9. ASSUME NEW p \in Processes, Acquire(p) \/ Attach(p) \/ Verify(p) \/ Kill(p)
      PROVE  VolumeType'
  BY <1>1, <1>9 DEF Acquire, Attach, Verify, Kill, volume
<1>10. QED
  BY <1>2, <1>3, <1>4, <1>5, <1>6, <1>7, <1>8, <1>9, Cases

\* A power loss leaves a file as it was, or as something the device may hold.
LEMMA PowerLossFiles ==
  ASSUME PowerLoss
  PROVE  /\ files' = [e \in Enrollers |-> [f \in Files |-> files'[e][f]]]
         /\ \A e \in Enrollers, f \in Files :
              files'[e][f] \in LeftOf(files[e][f]) \cup {files[e][f]}
<1> DEFINE unsettled == {x \in Enrollers \X Files :
                           LeftOf(files[x[1]][x[2]]) # {files[x[1]][x[2]]}}
<1>1. PICK left :
        /\ \A x \in unsettled : left[x] \in LeftOf(files[x[1]][x[2]])
        /\ files' = [e \in Enrollers |-> [f \in Files |->
                       IF <<e, f>> \in unsettled THEN left[<<e, f>>] ELSE files[e][f]]]
  BY DEF PowerLoss
<1>2. ASSUME NEW e \in Enrollers, NEW f \in Files
      PROVE  files'[e][f] \in LeftOf(files[e][f]) \cup {files[e][f]}
  <2>1. files'[e][f] = IF <<e, f>> \in unsettled THEN left[<<e, f>>] ELSE files[e][f]
    BY <1>1
  <2>2. <<e, f>> \in unsettled => left[<<e, f>>] \in LeftOf(files[e][f])
    BY <1>1
  <2>3. QED
    BY <2>1, <2>2
<1>3. files' = [e \in Enrollers |-> [f \in Files |-> files'[e][f]]]
  BY <1>1
<1>4. QED
  BY <1>2, <1>3

\* What a file operation leaves, and what a crash leaves, are files.
LEMMA FilesType ==
  ASSUME TypeOK, Next
  PROVE  files' \in [Enrollers -> [Files -> FileStates]]
<1>1. CASE UNCHANGED files
  BY <1>1 DEF TypeOK
<1>2. ASSUME NEW e \in Enrollers, Persist(e)
      PROVE  files' \in [Enrollers -> [Files -> FileStates]]
  <2>1. files[e] \in [Files -> FileStates]
    BY DEF TypeOK
  <2>2. \A operation, file : Applied(operation, file, files[e]) \in [Files -> FileStates]
    BY SMT, <2>1 DEF Applied, FileStates
  <2>3. files' = [files EXCEPT ![e] = Applied(Script[pc[e]][1], Script[pc[e]][2], @)]
    BY <1>2 DEF Persist
  <2>4. QED
    BY <2>2, <2>3 DEF TypeOK
<1>3. CASE PowerLoss
  <2>1. \A e \in Enrollers, f \in Files :
          LeftOf(files[e][f]) \subseteq FileStates /\ files[e][f] \in FileStates
    <3>1. ASSUME NEW e \in Enrollers, NEW f \in Files
          PROVE  LeftOf(files[e][f]) \subseteq FileStates /\ files[e][f] \in FileStates
      <4>1. files[e][f] \in FileStates
        BY DEF TypeOK
      <4>2. QED
        BY SMT, <4>1 DEF LeftOf, FileStates, NoFile
    <3>2. QED
      BY <3>1
  <2>2. QED
    BY <1>3, <2>1, PowerLossFiles
<1>4. QED
  BY <1>1, <1>2, <1>3, Cases
  DEF Choose, PersistFails, CheckAdd, AddSlot, Recover, Retry, Acquire, Sync, Attach,
      SetToken, Verify, Kill, Native

\* Every step keeps the types of what a process knows of itself.
LEMMA StepProcessType ==
  ASSUME TypeOK, Control, Next
  PROVE  ProcessType'
<1> USE DEF ProcessType
<1>p. Enrollers \subseteq Processes /\ Resumers \subseteq Processes /\ ProcessType
  BY DEF Processes, TypeOK
<1>e. \A p \in Processes : luks[p] # "idle" => pc[p] \in {1, 13}
  BY DEF Control, Inside
<1>1. ASSUME NEW e \in Enrollers, Choose(e)
      PROVE  ProcessType'
  BY SMT, <1>1, <1>p DEF Choose, End, control, Statuses, Calls
<1>2. ASSUME NEW e \in Enrollers, Persist(e)
      PROVE  ProcessType'
  <2>1. pc[e] \in 1..15 /\ e \in Processes
    BY <1>2, <1>p, ScriptIs DEF Persist
  <2>2. QED
    BY SMT, <1>2, <1>p, <2>1 DEF Persist, Statuses
<1>3. ASSUME NEW e \in Enrollers, PersistFails(e)
      PROVE  ProcessType'
  BY <1>3, <1>p DEF PersistFails, End, Statuses, Calls
<1>4. ASSUME NEW e \in Enrollers, CheckAdd(e)
      PROVE  ProcessType'
  BY SMT, <1>4, <1>p DEF CheckAdd, Goto, Fail, End, Statuses, Calls, StorageStates
<1>5. ASSUME NEW e \in Enrollers, AddSlot(e)
      PROVE  ProcessType'
  <2>1. /\ UNCHANGED pc
        /\ Goto(e, "slot_sync") \/ \E partial \in BOOLEAN : Fail(e, partial)
    BY <1>5 DEF AddSlot
  <2>2. QED
    BY <1>p, <2>1 DEF Goto, Fail, End, Statuses, Calls, StorageStates
<1>6. ASSUME NEW r \in Resumers, Recover(r)
      PROVE  ProcessType'
  BY SMT, <1>6, <1>p DEF Recover, End, control, Statuses, Calls
<1>7. ASSUME NEW r \in Resumers, Retry(r)
      PROVE  ProcessType'
  BY SMT, <1>7, <1>p DEF Retry, Statuses, StorageStates
<1>8. ASSUME NEW p \in Processes, Acquire(p)
      PROVE  ProcessType'
  BY <1>8, <1>p DEF Acquire, End, Statuses, Calls, Attaching, StorageStates
<1>9. ASSUME NEW p \in Processes, Sync(p)
      PROVE  ProcessType'
  BY <1>9, <1>p DEF Sync, Goto, Fail, End, Statuses, Calls, Attaching, StorageStates
<1>10. ASSUME NEW p \in Processes, Attach(p)
       PROVE  ProcessType'
  BY <1>10, <1>p DEF Attach, Goto, Fail, End, Statuses, Calls, Attaching, StorageStates
<1>11. ASSUME NEW p \in Processes, SetToken(p)
       PROVE  ProcessType'
  <2>1. UNCHANGED pc /\ (Goto(p, "token_sync") \/ Fail(p, TRUE))
    BY <1>11 DEF SetToken
  <2>2. QED
    BY <1>p, <2>1 DEF Goto, Fail, End, Statuses, Calls, Attaching
<1>12. ASSUME NEW p \in Processes, Verify(p)
       PROVE  ProcessType'
  BY SMT, <1>12, <1>p, <1>e DEF Verify, Fail, End, Statuses, Calls, StorageStates
<1>13. ASSUME NEW p \in Processes, Kill(p)
       PROVE  ProcessType'
  BY <1>13, <1>p DEF Kill, End, Statuses, Calls
<1>14. CASE PowerLoss
  BY <1>14, <1>p DEF PowerLoss, Statuses, Calls
<1>15. CASE Native
  BY <1>15, <1>p DEF Native, process
<1>16. QED
  BY <1>1, <1>2, <1>3, <1>4, <1>5, <1>6, <1>7, <1>8, <1>9, <1>10, <1>11, <1>12,
     <1>13, <1>14, <1>15, Cases

\* Every step keeps the types.
LEMMA StepType ==
  ASSUME TypeOK, Control, Next
  PROVE  TypeOK'
<1>1. UNCHANGED subject
  BY Cases
  DEF Choose, Persist, PersistFails, CheckAdd, AddSlot, Recover, Retry, Acquire, Sync,
      Attach, SetToken, Verify, Kill, PowerLoss, Native
<1>2. target' \in [Enrollers -> Ids \cup {SLOT_COUNT}]
  <2>1. ASSUME NEW e \in Enrollers, Choose(e)
        PROVE  target' \in [Enrollers -> Ids \cup {SLOT_COUNT}]
    <3>1. \/ UNCHANGED target
          \/ /\ target' = [target EXCEPT ![e] = FirstOf(Free(header.slots))]
             /\ Free(header.slots) # {}
      BY <2>1 DEF Choose
    <3>2. Free(header.slots) # {} => FirstOf(Free(header.slots)) \in Ids
      BY FirstOfMember DEF Free
    <3>3. QED
      BY <3>1, <3>2 DEF TypeOK
  <2>2. CASE UNCHANGED target
    BY <2>2 DEF TypeOK
  <2>3. QED
    BY <2>1, <2>2, Cases
    DEF Persist, PersistFails, CheckAdd, AddSlot, Recover, Retry, Acquire, Sync,
        Attach, SetToken, Verify, Kill, PowerLoss, Native
<1>3. QED
  BY <1>1, <1>2, StepVolumeType, StepProcessType, FilesType DEF TypeOK

-----------------------------------------------------------------------------
(* Control                                                                 *)

Ordered(q) ==
  /\ Inside(q)
  /\ Signed(q)
  /\ q \in Enrollers => Reported(q)

\* A process that ends, whatever it reports, drops the lock and leaves the others
\* as they were.
LEMMA EndOrdered ==
  ASSUME TypeOK, Control, NEW p \in Processes, NEW how \in {"ok", "failed", "killed"},
         End(p, how), Running(p), UNCHANGED <<target, subject>>,
         pc'[p] = pc[p] \/ p \notin Enrollers,
         p \in Enrollers => (storage'[p] = "committed" <=> storage[p] = "committed"),
         \A q \in Processes \ {p} : pc'[q] = pc[q] /\ storage'[q] = storage[q]
  PROVE  Control'
<1>1. SUFFICES ASSUME NEW q \in Processes
               PROVE  Ordered(q)'
  BY DEF Control, Ordered, Processes
<1>2. Ordered(q) /\ Ordered(p)
  BY DEF Control, Ordered
<1>3. /\ luks'[p] = "idle" /\ status'[p] = how /\ how # "running" /\ how # "absent"
      /\ \A x \in Processes \ {p} : luks'[x] = luks[x] /\ status'[x] = status[x]
      /\ lock' = IF lock = p THEN "none" ELSE lock
  BY DEF End, TypeOK, ProcessType
<1>4. CASE q = p
  BY <1>2, <1>3, <1>4 DEF Ordered, Inside, Signed, Reported, Running
<1>5. CASE q # p
  BY <1>2, <1>3, <1>5 DEF Ordered, Inside, Signed, Reported, Running
<1>6. QED
  BY <1>4, <1>5

\* A process inside leelo-luks goes on to its next step.
LEMMA GotoOrdered ==
  ASSUME TypeOK, Control, NEW p \in Processes, luks[p] # "idle",
         NEW step \in Calls \ {"idle"}, p \notin Enrollers => step \in Attaching,
         Goto(p, step), UNCHANGED <<target, subject, pc>>
  PROVE  Control'
<1>1. SUFFICES ASSUME NEW q \in Processes
               PROVE  Ordered(q)'
  BY DEF Control, Ordered, Processes
<1>2. Ordered(q) /\ Ordered(p)
  BY DEF Control, Ordered
<1>3. /\ luks'[p] = step /\ step # "idle"
      /\ \A x \in Processes \ {p} : luks'[x] = luks[x]
      /\ status' = status /\ lock' = lock /\ storage' = storage
  BY DEF Goto, TypeOK, ProcessType
<1>4. CASE q = p
  BY <1>2, <1>3, <1>4 DEF Ordered, Inside, Signed, Reported, Running
<1>5. CASE q # p
  BY <1>2, <1>3, <1>5 DEF Ordered, Inside, Signed, Reported, Running
<1>6. QED
  BY <1>4, <1>5

\* A storage call that fails reports not_mutated or leaves the state alone.
LEMMA FailOrdered ==
  ASSUME TypeOK, Control, NEW p \in Processes, NEW partial \in BOOLEAN,
         luks[p] # "idle", Fail(p, partial), UNCHANGED <<target, subject, pc>>
  PROVE  Control'
<1>1. Running(p) /\ (p \in Enrollers => pc[p] = 13 /\ storage[p] # "committed")
  BY DEF Control, Inside, Reported
<1>2. End(p, "failed")
  BY DEF Fail
<1>3. /\ storage'[p] # "committed" \/ p \notin Enrollers
      /\ \A q \in Processes \ {p} : storage'[q] = storage[q]
  BY <1>1 DEF Fail, TypeOK, ProcessType
<1>4. QED
  BY <1>1, <1>2, <1>3, EndOrdered

\* Every step keeps the control facts: the lock, the signed slots, the script.
LEMMA StepControl ==
  ASSUME TypeOK, Control, Journals, Next
  PROVE  Control'
<1>p. Enrollers \subseteq Processes /\ Resumers \subseteq Processes /\ ProcessType
  BY DEF Processes, TypeOK
<1>d. Enrollers \cap Resumers = {} /\ "none" \notin Processes
  BY ProcessesAssumption DEF Processes
<1>o. /\ \A q \in Processes : Ordered(q)
      /\ (\A q \in Processes : Ordered(q)') => Control'
  BY DEF Control, Ordered, Processes
<1>1. ASSUME NEW e \in Enrollers, Choose(e)
      PROVE  Control'
  <2>1. CASE End(e, "failed") /\ UNCHANGED <<pc, target>>
    BY <1>1, <1>p, <2>1, EndOrdered DEF Choose
  <2>2. CASE /\ target' = [target EXCEPT ![e] = FirstOf(Free(header.slots))]
             /\ pc' = [pc EXCEPT ![e] = 1]
             /\ Free(header.slots) # {}
             /\ UNCHANGED control
    <3>1. target'[e] \in Ids /\ \A x \in Enrollers \ {e} : target'[x] = target[x]
      BY <2>2, FirstOfMember DEF Free, TypeOK
    <3>2. /\ pc[e] = 0 /\ pc'[e] = 1 /\ e \notin Resumers
          /\ \A x \in Processes \ {e} : pc'[x] = pc[x]
          /\ UNCHANGED <<status, luks, lock, storage, subject>>
      BY <1>1, <1>p, <1>d, <2>2 DEF Choose, control, ProcessType
    <3>3. ASSUME NEW q \in Processes
          PROVE  Ordered(q)'
      <4>1. Ordered(q) /\ Ordered(e)
        BY <1>o, <1>p
      <4>2. CASE q = e
        BY SMT, <3>1, <3>2, <4>1, <4>2 DEF Ordered, Inside, Signed, Reported, Running
      <4>3. CASE q # e
        <5>1. q \in Resumers /\ target[subject[q]] \in Ids
                /\ q \in DOMAIN subject => target'[subject[q]] \in Ids
          BY <3>1 DEF TypeOK
        <5>2. QED
          BY <3>1, <3>2, <4>1, <4>3, <5>1 DEF Ordered, Inside, Signed, Reported, Running
      <4>4. QED
        BY <4>2, <4>3
    <3>4. QED
      BY <1>o, <3>3
  <2>3. QED
    BY <1>1, <2>1, <2>2 DEF Choose
<1>2. ASSUME NEW e \in Enrollers, Persist(e)
      PROVE  Control'
  <2>1. pc[e] \in 1..15 \ {13} /\ e \in Processes /\ Running(e) /\ e \notin Resumers
    BY <1>2, <1>p, <1>d, AtAdd, ScriptIs DEF Persist
  <2>2. /\ pc'[e] = pc[e] + 1
        /\ \A x \in Processes \ {e} : pc'[x] = pc[x] /\ status'[x] = status[x]
        /\ UNCHANGED <<luks, lock, storage, subject, target>>
        /\ status'[e] # "absent"
    BY <1>2, <1>p, <2>1 DEF Persist, ProcessType, Running
  <2>3. ASSUME NEW q \in Processes
        PROVE  Ordered(q)'
    <3>1. Ordered(q) /\ Ordered(e)
      BY SMT, <1>o, <1>p
    <3>2. pc[e] > 12 <=> pc[e] > 13
      BY SMT, <2>1
    <3>3. CASE q = e
      BY SMT, <2>1, <2>2, <3>1, <3>2, <3>3 DEF Ordered, Inside, Signed, Reported, Running
    <3>4. CASE q # e
      BY <2>2, <3>1, <3>4 DEF Ordered, Inside, Signed, Reported, Running
    <3>5. QED
      BY SMT, <3>3, <3>4
  <2>4. QED
    BY SMT, <1>o, <2>3
<1>3. ASSUME NEW e \in Enrollers, PersistFails(e)
      PROVE  Control'
  BY <1>3, <1>p, EndOrdered DEF PersistFails
<1>4. ASSUME NEW e \in Enrollers, CheckAdd(e)
      PROVE  Control'
  <2>1. /\ luks[e] # "idle" /\ UNCHANGED <<target, subject, pc>>
        /\ Goto(e, "add") \/ Fail(e, FALSE)
    BY <1>4 DEF CheckAdd
  <2>2. QED
    BY <1>p, <2>1, GotoOrdered, FailOrdered DEF Calls
<1>5. ASSUME NEW e \in Enrollers, AddSlot(e)
      PROVE  Control'
  <2>1. /\ luks[e] # "idle" /\ UNCHANGED <<target, subject, pc>>
        /\ Goto(e, "slot_sync") \/ \E partial \in BOOLEAN : Fail(e, partial)
    BY <1>5 DEF AddSlot
  <2>2. QED
    BY <1>p, <2>1, GotoOrdered, FailOrdered DEF Calls
<1>6. ASSUME NEW r \in Resumers, Recover(r)
      PROVE  Control'
  <2>1. r \in Processes /\ r \notin Enrollers /\ Running(r) /\ r \in DOMAIN subject
    BY <1>6, <1>p, <1>d, <1>o DEF Recover, Running, Ordered, Signed
  <2>2. CASE End(r, "failed") /\ UNCHANGED pc
    BY <1>6, <2>1, <2>2, EndOrdered DEF Recover
  <2>3. CASE /\ files[subject[r]]["bundle"].written = 1
             /\ pc' = [pc EXCEPT ![r] = 1]
             /\ UNCHANGED control
    <3>1. subject[r] \in Enrollers /\ subject[r] \in Processes
      BY <1>p, <2>1 DEF TypeOK
    <3>2. pc[subject[r]] > 0
      <4>1. Remains(files[subject[r]]["bundle"], BundleAt(pc[subject[r]]))
        BY <3>1 DEF Journals, Persisted
      <4>2. pc[subject[r]] \in 0..16
        BY <1>p, <3>1 DEF ProcessType
      <4>3. QED
        BY SMT, <2>3, <4>1, <4>2 DEF Remains, BundleAt
    <3>3. target[subject[r]] \in Ids
      BY <1>o, <3>1, <3>2 DEF Ordered, Signed
    <3>4. /\ pc[r] = 0 /\ pc'[r] = 1
          /\ \A x \in Processes \ {r} : pc'[x] = pc[x]
          /\ UNCHANGED <<status, luks, lock, storage, subject, target>>
      BY <1>6, <1>p, <2>1, <2>3 DEF Recover, control, ProcessType
    <3>5. luks[r] = "idle"
      BY SMT, <1>o, <2>1, <3>4 DEF Ordered, Inside
    <3>6. ASSUME NEW q \in Processes
          PROVE  Ordered(q)'
      <4>1. Ordered(q)
        BY <1>o
      <4>2. CASE q = r
        BY <2>1, <3>3, <3>4, <3>5, <4>1, <4>2 DEF Ordered, Inside, Signed, Running
      <4>3. CASE q # r
        BY <3>4, <4>1, <4>3 DEF Ordered, Inside, Signed, Reported, Running
      <4>4. QED
        BY SMT, <4>2, <4>3
    <3>7. QED
      BY SMT, <1>o, <3>6
  <2>4. QED
    BY <1>6, <2>2, <2>3 DEF Recover
<1>7. ASSUME NEW r \in Resumers, Retry(r)
      PROVE  Control'
  <2>1. r \in Processes /\ r \notin Enrollers /\ ~Running(r) /\ status[r] # "absent"
    BY <1>7, <1>p, <1>d DEF Retry, Running
  <2>2. /\ pc'[r] = 0 /\ status'[r] = "running"
        /\ \A x \in Processes \ {r} :
             pc'[x] = pc[x] /\ status'[x] = status[x] /\ storage'[x] = storage[x]
        /\ UNCHANGED <<luks, lock, subject, target>>
    BY <1>7, <1>p, <2>1 DEF Retry, ProcessType
  <2>3. ASSUME NEW q \in Processes
        PROVE  Ordered(q)'
    <3>1. Ordered(q)
      BY SMT, <1>o
    <3>2. CASE q = r
      BY SMT, <2>1, <2>2, <3>1, <3>2 DEF Ordered, Inside, Signed, Running
    <3>3. CASE q # r
      BY <2>2, <3>1, <3>3 DEF Ordered, Inside, Signed, Reported, Running
    <3>4. QED
      BY SMT, <3>2, <3>3
  <2>4. QED
    BY SMT, <1>o, <2>3
<1>8. ASSUME NEW p \in Processes, Acquire(p)
      PROVE  Control'
  <2>1. /\ luks[p] = "idle" /\ Running(p)
        /\ IF p \in Enrollers THEN pc[p] = 13 ELSE pc[p] = 1
        /\ UNCHANGED <<target, subject, pc>>
    BY <1>8, AtAdd DEF Acquire
  <2>2. p \in Enrollers => storage[p] = "not_mutated"
    BY SMT, <1>o, <2>1 DEF Ordered, Reported
  <2>3. CASE /\ End(p, "failed")
             /\ storage' = [storage EXCEPT ![p] = IF p \in Enrollers THEN "not_mutated"
                                                 ELSE "pending_reconciliation"]
    <3>1. /\ storage'[p] # "committed"
          /\ \A q \in Processes \ {p} : storage'[q] = storage[q]
      BY <1>p, <2>3 DEF ProcessType
    <3>2. QED
      BY <2>1, <2>2, <2>3, <3>1, EndOrdered
  <2>4. CASE /\ lock = "none" /\ lock' = p
             /\ luks' = [luks EXCEPT ![p] = IF p \in Enrollers THEN "add_check" ELSE "attach"]
             /\ storage' = [storage EXCEPT ![p] = "pending_reconciliation"]
             /\ UNCHANGED status
    <3>1. /\ luks'[p] = IF p \in Enrollers THEN "add_check" ELSE "attach"
          /\ storage'[p] = "pending_reconciliation"
          /\ \A x \in Processes \ {p} : luks'[x] = luks[x] /\ storage'[x] = storage[x]
      BY <1>p, <2>4 DEF ProcessType
    <3>2. \A x \in Processes : luks[x] = "idle"
      BY <1>d, <1>o, <2>4 DEF Ordered, Inside
    <3>3. ASSUME NEW q \in Processes
          PROVE  Ordered(q)'
      <4>1. Ordered(q)
        BY <1>o
      <4>2. CASE q = p
        BY SMT, <2>1, <2>4, <3>1, <4>1, <4>2
        DEF Ordered, Inside, Signed, Reported, Running, Attaching
      <4>3. CASE q # p
        BY <2>1, <2>4, <3>1, <3>2, <4>1, <4>3
        DEF Ordered, Inside, Signed, Reported, Running
      <4>4. QED
        BY <4>2, <4>3
    <3>4. QED
      BY <1>o, <3>3
  <2>5. QED
    BY <1>8, <2>3, <2>4 DEF Acquire
<1>9. ASSUME NEW p \in Processes, Sync(p) \/ Attach(p) \/ SetToken(p)
      PROVE  Control'
  <2>1. /\ luks[p] # "idle" /\ UNCHANGED <<target, subject, pc>>
        /\ Fail(p, TRUE) \/ \E step \in Attaching : Goto(p, step)
    BY <1>9 DEF Sync, Attach, SetToken, Attaching
  <2>2. QED
    BY <2>1, GotoOrdered, FailOrdered DEF Calls, Attaching
<1>10. ASSUME NEW p \in Processes, Verify(p)
       PROVE  Control'
  <2>1. /\ luks[p] # "idle" /\ UNCHANGED <<target, subject>> /\ Running(p)
        /\ IF p \in Enrollers THEN pc[p] = 13 ELSE pc[p] = 1
    BY <1>10, <1>o DEF Verify, Ordered, Inside
  <2>2. CASE Fail(p, TRUE) /\ UNCHANGED pc
    BY <2>1, <2>2, FailOrdered
  <2>3. CASE /\ End(p, IF p \in Enrollers THEN "running" ELSE "ok")
             /\ storage' = [storage EXCEPT ![p] = "committed"]
             /\ pc' = [pc EXCEPT ![p] = @ + 1]
    <3>1. /\ storage'[p] = "committed" /\ pc'[p] = pc[p] + 1
          /\ \A x \in Processes \ {p} : storage'[x] = storage[x] /\ pc'[x] = pc[x]
      BY <1>p, <2>3 DEF ProcessType
    <3>2. CASE p \notin Enrollers
      BY <2>1, <2>3, <3>1, <3>2, EndOrdered
    <3>3. CASE p \in Enrollers
      <4>1. /\ luks'[p] = "idle" /\ status'[p] = "running" /\ p \notin Resumers
            /\ \A x \in Processes \ {p} : luks'[x] = luks[x] /\ status'[x] = status[x]
            /\ lock' = IF lock = p THEN "none" ELSE lock
        BY <1>d, <1>p, <2>3, <3>3 DEF End, ProcessType
      <4>2. ASSUME NEW q \in Processes
            PROVE  Ordered(q)'
        <5>1. Ordered(q)
          BY SMT, <1>o
        <5>2. CASE q = p
          BY SMT, <2>1, <3>1, <3>3, <4>1, <5>1, <5>2 DEF Ordered, Inside, Signed, Reported
        <5>3. CASE q # p
          BY <2>1, <3>1, <4>1, <5>1, <5>3 DEF Ordered, Inside, Signed, Reported, Running
        <5>4. QED
          BY SMT, <5>2, <5>3
      <4>3. QED
        BY SMT, <1>o, <4>2
    <3>4. QED
      BY <3>2, <3>3
  <2>4. QED
    BY <1>10, <2>2, <2>3 DEF Verify
<1>11. ASSUME NEW p \in Processes, Kill(p)
       PROVE  Control'
  BY <1>11, EndOrdered DEF Kill
<1>12. CASE PowerLoss
  <2>1. /\ \A q \in Processes : /\ luks'[q] = "idle" /\ status'[q] # "running"
                                /\ status[q] = "absent" => status'[q] = "absent"
        /\ UNCHANGED <<target, subject, pc, storage>>
    BY <1>12 DEF PowerLoss, Running
  <2>2. ASSUME NEW q \in Processes
        PROVE  Ordered(q)'
    <3>1. Ordered(q)
      BY <1>o
    <3>2. /\ luks'[q] = "idle" /\ status'[q] # "running"
          /\ status[q] = "absent" => status'[q] = "absent"
          /\ target' = target /\ subject' = subject /\ pc' = pc /\ storage' = storage
      BY <2>1
    <3>3. Inside(q)' /\ Signed(q)'
      BY <3>1, <3>2 DEF Ordered, Inside, Signed, Running
    <3>4. q \in Enrollers => Reported(q)'
      BY <3>1, <3>2 DEF Ordered, Reported, Running
    <3>5. QED
      BY <3>3, <3>4 DEF Ordered
  <2>3. QED
    BY <1>o, <2>2
<1>13. CASE Native
  BY <1>13, <1>o DEF Native, process, Ordered, Inside, Signed, Reported, Running
<1>14. QED
  BY <1>1, <1>2, <1>3, <1>4, <1>5, <1>6, <1>7, <1>8, <1>9, <1>10, <1>11, <1>12,
     <1>13, Cases

-----------------------------------------------------------------------------
(* The files                                                               *)

\* A file operation takes the files from one position of the script to the next.
LEMMA AppliedAt ==
  ASSUME NEW n \in 1..15 \ {13}, NEW f, f["journal"] = JournalAt(n), f["bundle"] = BundleAt(n)
  PROVE  /\ Applied(Script[n][1], Script[n][2], f)["journal"] = JournalAt(n + 1)
         /\ Applied(Script[n][1], Script[n][2], f)["bundle"] = BundleAt(n + 1)
BY SMT, ScriptIs DEF Applied, Files, JournalAt, BundleAt

\* A file that is where the script says holds what the script says.
LEMMA RemainsAt ==
  ASSUME NEW n \in 0..16
  PROVE  Remains(JournalAt(n), JournalAt(n)) /\ Remains(BundleAt(n), BundleAt(n))
BY SMT DEF Remains, JournalAt, BundleAt

\* A crash leaves of a file no less than was synced.
LEMMA LeftRemains ==
  ASSUME NEW file \in FileStates, NEW at \in FileStates, Remains(file, at),
         NEW left \in LeftOf(file) \cup {file}
  PROVE  Remains(left, at)
<1>1. CASE left = file
  BY <1>1
<1>2. CASE left = NoFile /\ file.entry # "durable"
  BY SMT, <1>2 DEF Remains, NoFile, FileStates
<1>3. CASE \E n \in file.synced..file.written :
             left = [entry |-> "durable", written |-> n, synced |-> n]
  BY SMT, <1>3 DEF Remains, FileStates
<1>4. QED
  BY <1>1, <1>2, <1>3 DEF LeftOf

\* Every step keeps the files at the enrollment's position in the script.
LEMMA StepJournals ==
  ASSUME TypeOK, Control, Journals, Next
  PROVE  Journals'
<1>p. Enrollers \subseteq Processes /\ Resumers \subseteq Processes /\ ProcessType
  BY SMT DEF Processes, TypeOK
<1>d. \A e \in Enrollers : e \notin Resumers
  BY ProcessesAssumption
<1> DEFINE Still(x) == /\ status'[x] = "running" => status[x] = "running"
                       /\ \/ pc'[x] = pc[x]
                          \/ pc[x] = 0 /\ pc'[x] = 1
                          \/ pc[x] = 13 /\ pc'[x] = 14
<1>1. ASSUME UNCHANGED files, \A x \in Enrollers : Still(x)
      PROVE  Journals'
  <2>1. SUFFICES ASSUME NEW e \in Enrollers
                 PROVE  Persisted(e)'
    BY DEF Journals
  <2>2. Persisted(e)
    BY DEF Journals
  <2>3. JournalAt(pc'[e]) = JournalAt(pc[e]) /\ BundleAt(pc'[e]) = BundleAt(pc[e])
    BY SMT, <1>1 DEF JournalAt, BundleAt
  <2>4. QED
    BY <1>1, <2>2, <2>3 DEF Persisted, Running
<1>2. ASSUME NEW e \in Enrollers, Persist(e)
      PROVE  Journals'
  <2>1. pc[e] \in 1..15 \ {13} /\ e \in Processes /\ Running(e)
    BY <1>2, <1>p, AtAdd, ScriptIs DEF Persist
  <2>2. /\ pc'[e] = pc[e] + 1
        /\ \A x \in Processes \ {e} : pc'[x] = pc[x] /\ status'[x] = status[x]
    BY <1>2, <1>p, <2>1 DEF Persist, ProcessType
  <2>f. /\ files'[e] = Applied(Script[pc[e]][1], Script[pc[e]][2], files[e])
        /\ \A x \in Enrollers \ {e} : files'[x] = files[x]
    BY <1>2 DEF Persist, TypeOK
  <2>3. files[e]["journal"] = JournalAt(pc[e]) /\ files[e]["bundle"] = BundleAt(pc[e])
    BY <2>1 DEF Journals, Persisted
  <2>4. files'[e]["journal"] = JournalAt(pc'[e]) /\ files'[e]["bundle"] = BundleAt(pc'[e])
    <3>1. ASSUME NEW n \in 1..15 \ {13}, n = pc[e]
          PROVE  /\ files'[e]["journal"] = JournalAt(n + 1)
                 /\ files'[e]["bundle"] = BundleAt(n + 1)
      BY SMT, <2>3, <2>f, <3>1, AppliedAt
    <3>2. QED
      BY <2>1, <2>2, <3>1
  <2>5. pc'[e] \in 0..16
    BY SMT, <2>1, <2>2
  <2>6. Persisted(e)'
    BY <2>4, <2>5, RemainsAt DEF Persisted
  <2>7. ASSUME NEW x \in Enrollers \ {e}
        PROVE  Persisted(x)'
    BY <1>p, <2>2, <2>f DEF Journals, Persisted, Running
  <2>8. QED
    BY <2>6, <2>7 DEF Journals
<1>3. CASE PowerLoss
  <2>1. SUFFICES ASSUME NEW e \in Enrollers
                 PROVE  Persisted(e)'
    BY SMT DEF Journals
  <2>2. pc' = pc /\ ~Running(e)' /\ pc[e] \in 0..16
    BY <1>3, <1>p DEF PowerLoss, Running, ProcessType
  <2>3. /\ files[e]["journal"] \in FileStates /\ files[e]["bundle"] \in FileStates
        /\ files'[e]["journal"] \in LeftOf(files[e]["journal"]) \cup {files[e]["journal"]}
        /\ files'[e]["bundle"] \in LeftOf(files[e]["bundle"]) \cup {files[e]["bundle"]}
    BY <1>3, PowerLossFiles DEF TypeOK, Files
  <2>4. JournalAt(pc[e]) \in FileStates /\ BundleAt(pc[e]) \in FileStates
    BY <2>2 DEF JournalAt, BundleAt, FileStates
  <2>5. Remains(files[e]["journal"], JournalAt(pc[e]))
        /\ Remains(files[e]["bundle"], BundleAt(pc[e]))
    BY DEF Journals, Persisted
  <2>6. /\ Remains(files'[e]["journal"], JournalAt(pc[e]))
        /\ Remains(files'[e]["bundle"], BundleAt(pc[e]))
    BY <2>3, <2>4, <2>5, LeftRemains
  <2>7. QED
    BY <2>2, <2>6 DEF Persisted
<1>4. ASSUME NEW p \in Processes, Verify(p)
      PROVE  Journals'
  <2>1. p \in Enrollers => pc[p] = 13 /\ status[p] = "running"
    BY <1>4 DEF Verify, Control, Inside, Running
  <2>2. \A x \in Enrollers : Still(x)
    BY SMT, <1>4, <1>p, <2>1 DEF Verify, Fail, End, ProcessType
  <2>3. QED
    BY <1>1, <1>4, <2>2 DEF Verify
<1>5. ASSUME NEW r \in Resumers, Recover(r) \/ Retry(r)
      PROVE  Journals'
  <2>1. \A x \in Enrollers : Still(x)
    BY <1>5, <1>d, <1>p DEF Recover, Retry, End, control, ProcessType
  <2>2. QED
    BY <1>1, <1>5, <2>1 DEF Recover, Retry
<1>6. ASSUME NEW e \in Enrollers, Choose(e) \/ PersistFails(e)
      PROVE  Journals'
  <2>1. \A x \in Enrollers : Still(x)
    BY <1>6, <1>p DEF Choose, PersistFails, End, control, ProcessType
  <2>2. QED
    BY <1>1, <1>6, <2>1 DEF Choose, PersistFails
<1>7. ASSUME NEW p \in Processes, UNCHANGED <<files, pc>>,
             End(p, "failed") \/ End(p, "killed") \/ UNCHANGED status
      PROVE  Journals'
  <2>1. \A x \in Enrollers : Still(x)
    BY <1>7, <1>p DEF End, ProcessType
  <2>2. QED
    BY <1>1, <1>7, <2>1
<1>8. ASSUME NEW p \in Processes, Acquire(p) \/ Sync(p) \/ Attach(p) \/ SetToken(p) \/ Kill(p)
      PROVE  Journals'
  <2>1. /\ UNCHANGED <<files, pc>>
        /\ End(p, "failed") \/ End(p, "killed") \/ UNCHANGED status
    BY <1>8 DEF Acquire, Sync, Attach, SetToken, Kill, Fail, Goto
  <2>2. QED
    BY <1>7, <2>1
<1>9. ASSUME NEW e \in Enrollers, CheckAdd(e) \/ AddSlot(e)
      PROVE  Journals'
  <2>1. UNCHANGED <<files, pc>> /\ (End(e, "failed") \/ UNCHANGED status)
    BY <1>9 DEF CheckAdd, AddSlot, Fail, Goto
  <2>2. QED
    BY <1>7, <1>p, <2>1
<1>10. CASE Native
  BY <1>1, <1>10 DEF Native, process
<1>11. QED
  BY <1>2, <1>3, <1>4, <1>5, <1>6, <1>8, <1>9, <1>10, Cases

-----------------------------------------------------------------------------
(* The volume                                                              *)

Kept(e, h) == Holds(e, h) /\ During(e, h)

\* One process at a time is inside leelo-luks.
LEMMA Alone ==
  ASSUME Control, NEW p \in Processes, NEW q \in Processes, luks[p] # "idle", q # p
  PROVE  luks[q] = "idle"
BY DEF Control, Inside

\* Where an enroller's slot matters its position is known.
LEMMA TargetKnown ==
  ASSUME TypeOK, Control, NEW e \in Enrollers,
         luks[e] # "idle" \/ storage[e] = "committed" \/ pc[e] > 0
  PROVE  target[e] \in Ids /\ pc[e] > 0
<1>1. Inside(e) /\ Signed(e) /\ Reported(e) /\ pc[e] \in 0..16
  BY DEF Control, Processes, TypeOK, ProcessType
<1>2. QED
  BY SMT, <1>1 DEF Inside, Signed, Reported

\* Two states of the volume that have the same of an enrollment.
Alike(e, h, g) ==
  \A id \in Ids : /\ h.slots[id] = e <=> g.slots[id] = e
                  /\ h.tokens[id] = e <=> g.tokens[id] = e

\* What holds of a header holds of one with the same slot and tokens of the enrollment.
LEMMA AlikeKept ==
  ASSUME TypeOK, Control, NEW e \in Enrollers, NEW h, NEW g, Alike(e, h, g), Kept(e, g)
  PROVE  Kept(e, h)
<1>1. Holds(e, h)
  BY DEF Kept, Holds, Alike
<1>2. HasSlot(h, e) <=> HasSlot(g, e)
  BY DEF HasSlot, Alike
<1>3. HasToken(h, e) <=> HasToken(g, e)
  BY DEF HasToken, Alike
<1>4. luks[e] # "idle" \/ storage[e] = "committed" =>
        (h.slots[target[e]] = e <=> g.slots[target[e]] = e)
  BY TargetKnown DEF Alike
<1>5. During(e, h)
  BY <1>2, <1>3, <1>4 DEF Kept, During, Attaching
<1>6. QED
  BY <1>1, <1>5 DEF Kept

\* An enroller that at most ends, or goes on outside leelo-luks.
Passive(e) ==
  /\ pc'[e] = pc[e] \/ pc'[e] = pc[e] + 1 
  /\ target'[e] = target[e] \/ pc[e] = 0
  /\ luks'[e] \in {luks[e], "idle"}
  /\ storage'[e] = storage[e] \/ storage'[e] = "not_mutated"

\* A step that an enrollment takes no part in keeps what its headers hold.
LEMMA PassiveKept ==
  ASSUME TypeOK, Control, NEW e \in Enrollers, NEW h, Kept(e, h), Passive(e),
         storage'[e] = storage[e] \/ ~HasSlot(h, e)
  PROVE  Kept(e, h)'
<1>1. pc[e] \in 0..16
  BY DEF TypeOK, ProcessType, Processes
<1>2. CASE target'[e] = target[e]
  <2>1. Holds(e, h)'
    BY SMT, <1>1, <1>2 DEF Kept, Passive, Holds
  <2>2. During(e, h)'
    BY <1>2 DEF Kept, Passive, During, HasSlot, HasToken, Attaching
  <2>3. QED
    BY <2>1, <2>2 DEF Kept
<1>3. CASE pc[e] = 0
  <2>1. ~HasSlot(h, e) /\ ~HasToken(h, e)
    BY SMT, <1>1, <1>3 DEF Kept, Holds, HasSlot, HasToken
  <2>2. luks[e] = "idle" /\ storage[e] # "committed"
    BY SMT, <1>3, TargetKnown
  <2>3. Holds(e, h)'
    BY <2>1 DEF Holds, HasSlot, HasToken
  <2>4. During(e, h)'
    BY <2>1, <2>2 DEF Passive, During, HasSlot, HasToken, Attaching
  <2>5. QED
    BY SMT, <2>3, <2>4 DEF Kept
<1>4. QED
  BY <1>2, <1>3 DEF Passive

\* What attach_locked has established stays while nobody writes.
LEMMA AttachedStays ==
  ASSUME TypeOK, Control, Volume, NEW p \in Processes, UNCHANGED <<header, subject>>,
         luks'[p] = "token" => luks[p] = "token",
         \A e \in Enrollers : target'[e] = target[e] \/ pc[e] = 0
  PROVE  Attached(p)'
<1>1. SUFFICES ASSUME luks[p] = "token"
               PROVE  Activates(p)' /\ ~HasToken(header, envelope(p)')
  BY DEF Attached
<1>2. Activates(p) /\ ~HasToken(header, envelope(p))
  BY <1>1 DEF Volume, Attached
<1>3. envelope(p)' = envelope(p)
  BY DEF envelope
<1>4. envelope(p) \in Enrollers /\ slot(p) \in Ids
  BY <1>1, EnvelopeType DEF Control, Inside
<1>5. pc[envelope(p)] # 0
  <2>1. Holds(envelope(p), header)
    BY <1>4 DEF Volume, TypeOK, VolumeType
  <2>2. QED
    BY SMT, <1>2, <1>4, <2>1 DEF Holds, Activates, slot
<1>6. target'[envelope(p)] = target[envelope(p)]
  BY <1>4, <1>5
<1>7. slot(p)' = slot(p)
  BY <1>3, <1>6 DEF slot
<1>8. QED
  BY <1>2, <1>3, <1>7 DEF Activates

\* A step that writes nothing and takes no enroller further inside leelo-luks.
LEMMA PassiveVolume ==
  ASSUME TypeOK, Control, Volume, surviving' \subseteq surviving, UNCHANGED subject,
         header' = header \/ \A p \in Processes : luks'[p] = "idle",
         \A p \in Processes : luks'[p] = "token" => luks[p] = "token",
         \A e \in Enrollers :
           Passive(e) /\ (storage'[e] = storage[e] \/ \A h \in surviving : ~HasSlot(h, e))
  PROVE  Volume'
<1>1. ASSUME NEW e \in Enrollers, NEW h \in surviving'
      PROVE  Kept(e, h)'
  <2>1. h \in surviving /\ Kept(e, h)
    BY DEF Volume, Kept
  <2>2. QED
    BY <2>1, PassiveKept
<1>2. ASSUME NEW e \in Enrollers
      PROVE  Now(e)'
  <2>1. CASE luks'[e] = "idle"
    BY <2>1 DEF Now
  <2>2. CASE luks'[e] = luks[e] /\ luks[e] # "idle" /\ header' = header
    <3>1. target'[e] = target[e]
      BY SMT, <2>2, TargetKnown DEF Passive
    <3>2. Now(e)
      BY DEF Volume
    <3>3. QED
      BY <2>2, <3>1, <3>2 DEF Now, HasToken
  <2>3. QED
    BY <2>1, <2>2 DEF Passive, Processes
<1>3. ASSUME NEW p \in Processes
      PROVE  Attached(p)'
  <2>1. CASE luks'[p] = "idle"
    BY <2>1 DEF Attached
  <2>2. CASE luks'[p] # "idle"
    BY <2>2, AttachedStays DEF Passive
  <2>3. QED
    BY <2>1, <2>2
<1>4. QED
  BY <1>1, <1>2, <1>3 DEF Volume, Kept

\* A process goes on inside leelo-luks without a write, the others stay.
LEMMA MoveVolume ==
  ASSUME TypeOK, Control, Volume, NEW p \in Processes, surviving' \subseteq surviving,
         UNCHANGED <<header, subject, target>>,
         \A q \in Processes \ {p} :
           pc'[q] = pc[q] /\ luks'[q] = luks[q] /\ storage'[q] = storage[q],
         Attached(p)',
         p \in Enrollers => Now(p)' /\ \A h \in surviving' : Kept(p, h)'
  PROVE  Volume'
<1>1. ASSUME NEW e \in Enrollers, e # p
      PROVE  Now(e)' /\ \A h \in surviving' : Kept(e, h)'
  <2>1. Passive(e) /\ storage'[e] = storage[e] /\ luks'[e] = luks[e]
    BY <1>1 DEF Passive, Processes
  <2>2. \A h \in surviving' : Kept(e, h)'
    BY <2>1, PassiveKept DEF Volume, Kept
  <2>3. Now(e)'
    BY <2>1 DEF Volume, Now, HasToken
  <2>4. QED
    BY <2>2, <2>3
<1>2. ASSUME NEW q \in Processes, q # p
      PROVE  Attached(q)'
  BY <1>2, AttachedStays
<1>3. QED
  BY <1>1, <1>2 DEF Volume, Kept

\* A process ends without a write; a plain error of the enroll command means
\* that no surviving state has the slot.
LEMMA EndVolume ==
  ASSUME TypeOK, Control, Volume, NEW p \in Processes, NEW how, End(p, how),
         UNCHANGED <<header, surviving, target, subject, pc>>,
         \A q \in Processes \ {p} : storage'[q] = storage[q],
         p \in Enrollers => \/ storage'[p] = storage[p]
                            \/ /\ storage'[p] = "not_mutated"
                               /\ \A h \in surviving : ~HasSlot(h, p)
  PROVE  Volume'
<1>1. \A q \in Processes : luks'[q] = IF q = p THEN "idle" ELSE luks[q]
  BY DEF End, TypeOK, ProcessType
<1>2. \A e \in Enrollers :
        Passive(e) /\ (storage'[e] = storage[e] \/ \A h \in surviving : ~HasSlot(h, e))
  BY <1>1 DEF Passive, Processes
<1>3. QED
  BY <1>1, <1>2, PassiveVolume

\* A process that fails leaves the volume in a state its report admits.
LEMMA FailVolume ==
  ASSUME TypeOK, Control, Volume, NEW p \in Processes, NEW partial \in BOOLEAN,
         Fail(p, partial), UNCHANGED <<header, surviving, target, subject, pc>>,
         p \in Enrollers /\ ~partial => \A h \in surviving : ~HasSlot(h, p)
  PROVE  Volume'
<1>1. End(p, "failed")
  BY DEF Fail
<1>2. /\ \A q \in Processes \ {p} : storage'[q] = storage[q]
      /\ \/ storage'[p] = storage[p]
         \/ storage'[p] = "not_mutated" /\ p \in Enrollers /\ ~partial
  BY DEF Fail, TypeOK, ProcessType
<1>3. QED
  BY <1>1, <1>2, EndVolume

\* Steps outside leelo-luks.
LEMMA OutsideVolume ==
  ASSUME TypeOK, Control, Volume, Next
  PROVE  /\ \A e \in Enrollers : Choose(e) \/ Persist(e) \/ PersistFails(e) => Volume'
         /\ \A r \in Resumers : Recover(r) \/ Retry(r) => Volume'
         /\ \A p \in Processes : Kill(p) => Volume'
         /\ PowerLoss => Volume'
<1>p. Enrollers \subseteq Processes /\ Resumers \subseteq Processes /\ ProcessType
  BY DEF Processes, TypeOK
<1>d. \A e \in Enrollers : e \notin Resumers
  BY ProcessesAssumption
<1>1. ASSUME NEW p \in Processes, UNCHANGED <<header, surviving, target, subject, pc, storage>>,
             End(p, "failed") \/ End(p, "killed")
      PROVE  Volume'
  BY <1>1, EndVolume
<1>2. ASSUME UNCHANGED <<header, surviving, luks, storage, subject>>,
             \A e \in Enrollers : /\ pc'[e] = pc[e] \/ pc'[e] = pc[e] + 1
                                  /\ target'[e] = target[e] \/ pc[e] = 0
      PROVE  Volume'
  <2>1. \A e \in Enrollers : Passive(e)
    BY <1>2 DEF Passive
  <2>2. QED
    BY <1>2, <2>1, PassiveVolume
<1>3. ASSUME NEW e \in Enrollers, Choose(e)
      PROVE  Volume'
  <2>1. CASE End(e, "failed") /\ UNCHANGED <<pc, target>>
    BY <1>1, <1>3, <1>p, <2>1 DEF Choose, volume
  <2>2. CASE /\ target' = [target EXCEPT ![e] = FirstOf(Free(header.slots))]
             /\ pc' = [pc EXCEPT ![e] = 1]
             /\ UNCHANGED control
    <3>1. \A x \in Enrollers : /\ pc'[x] = pc[x] \/ pc'[x] = pc[x] + 1
                               /\ target'[x] = target[x] \/ pc[x] = 0
      BY SMT, <1>3, <1>p, <2>2 DEF Choose, ProcessType, TypeOK
    <3>2. QED
      BY <1>2, <1>3, <2>2, <3>1 DEF Choose, volume, control
  <2>3. QED
    BY <1>3, <2>1, <2>2 DEF Choose
<1>4. ASSUME NEW e \in Enrollers, Persist(e)
      PROVE  Volume'
  <2>1. \A x \in Enrollers : pc'[x] = pc[x] \/ pc'[x] = pc[x] + 1
    BY <1>4, <1>p DEF Persist, ProcessType
  <2>2. QED
    BY <1>2, <1>4, <2>1 DEF Persist, volume
<1>5. ASSUME NEW e \in Enrollers, PersistFails(e)
      PROVE  Volume'
  BY <1>1, <1>5, <1>p DEF PersistFails, volume
<1>6. ASSUME NEW r \in Resumers, Recover(r)
      PROVE  Volume'
  <2>1. CASE End(r, "failed") /\ UNCHANGED pc
    BY <1>1, <1>6, <1>p, <2>1 DEF Recover, volume
  <2>2. CASE pc' = [pc EXCEPT ![r] = 1] /\ UNCHANGED control
    <3>1. \A x \in Enrollers : pc'[x] = pc[x]
      BY <1>d, <1>p, <2>2 DEF ProcessType
    <3>2. QED
      BY <1>2, <1>6, <2>2, <3>1 DEF Recover, volume, control
  <2>3. QED
    BY <1>6, <2>1, <2>2 DEF Recover
<1>7. ASSUME NEW r \in Resumers, Retry(r)
      PROVE  Volume'
  <2>1. \A e \in Enrollers : Passive(e) /\ storage'[e] = storage[e]
    BY <1>7, <1>d, <1>p DEF Retry, Passive, ProcessType
  <2>2. QED
    BY <1>7, <2>1, PassiveVolume DEF Retry, volume
<1>8. ASSUME NEW p \in Processes, Kill(p)
      PROVE  Volume'
  BY <1>1, <1>8 DEF Kill, volume
<1>9. CASE PowerLoss
  <2>1. /\ \A p \in Processes : luks'[p] = "idle"
        /\ UNCHANGED <<target, subject, pc, storage>>
        /\ surviving' \subseteq surviving
    BY <1>9 DEF PowerLoss
  <2>2. \A e \in Enrollers : Passive(e)
    BY <2>1 DEF Passive, Processes
  <2>3. QED
    BY <2>1, <2>2, PassiveVolume
<1>10. QED
  BY <1>3, <1>4, <1>5, <1>6, <1>7, <1>8, <1>9

\* What the surviving states have of the enrollment of p goes on with the call.
LEMMA GotoVolume ==
  ASSUME TypeOK, Control, Volume, NEW p \in Processes, luks[p] # "idle",
         NEW step \in Calls, Goto(p, step), surviving' \subseteq surviving,
         UNCHANGED <<header, subject, target, pc>>,
         step = "token" => Activates(p) /\ ~HasToken(header, envelope(p)),
         p \in Enrollers => 
           /\ step = "slot_sync" => header.slots[target[p]] = p
           /\ step = "token_sync" => HasToken(header, p)
           /\ \A h \in surviving' :
                /\ step \in {"add_check", "add"} => ~HasSlot(h, p)
                /\ step \in Attaching => h.slots[target[p]] = p
                /\ step \in {"slot_sync", "attach", "token"} => ~HasToken(h, p)
                /\ step = "verify" => HasToken(h, p)
  PROVE  Volume'
<1>1. /\ \A q \in Processes : luks'[q] = IF q = p THEN step ELSE luks[q]
      /\ storage' = storage
  BY DEF Goto, TypeOK, ProcessType
<1>2. Attached(p)'
  BY <1>1 DEF Attached, Activates, slot, envelope, HasToken
<1>3. ASSUME p \in Enrollers
      PROVE  Now(p)'
  BY <1>1, <1>3 DEF Now, HasToken
<1>4. ASSUME p \in Enrollers, NEW h \in surviving'
      PROVE  Kept(p, h)'
  <2>1. Holds(p, h)
    BY <1>4 DEF Volume
  <2>2. storage[p] = "pending_reconciliation"
    BY <1>4 DEF Control, Reported
  <2>3. Holds(p, h)'
    BY <2>1 DEF Holds
  <2>4. During(p, h)'
    BY <1>1, <1>4, <2>2 DEF During, HasSlot, HasToken
  <2>5. QED
    BY <2>3, <2>4 DEF Kept
<1>5. QED
  BY <1>1, <1>2, <1>3, <1>4, MoveVolume

\* Steps inside leelo-luks that write nothing.
LEMMA InsideVolume ==
  ASSUME TypeOK, Control, Volume, Next
  PROVE  /\ \A e \in Enrollers : CheckAdd(e) => Volume'
         /\ \A p \in Processes : Acquire(p) \/ Sync(p) \/ Attach(p) \/ Verify(p) => Volume'
<1>p. Enrollers \subseteq Processes /\ Resumers \subseteq Processes /\ ProcessType
  BY SMT DEF Processes, TypeOK
<1>v. /\ header \in surviving
      /\ \A e \in Enrollers : Now(e) /\ \A h \in surviving : Holds(e, h) /\ During(e, h)
  BY DEF TypeOK, VolumeType, Volume
<1>1. ASSUME NEW e \in Enrollers, CheckAdd(e)
      PROVE  Volume'
  <2>1. /\ luks[e] = "add_check" /\ UNCHANGED <<header, surviving, target, subject, pc>>
        /\ Goto(e, "add") \/ Fail(e, FALSE)
    BY <1>1 DEF CheckAdd
  <2>2. \A h \in surviving : ~HasSlot(h, e)
    BY <1>v, <2>1 DEF During
  <2>3. CASE Goto(e, "add")
    BY <1>p, <2>1, <2>2, <2>3, GotoVolume DEF Calls, Attaching
  <2>4. CASE Fail(e, FALSE)
    BY <1>p, <2>1, <2>2, <2>4, FailVolume
  <2>5. QED
    BY <2>1, <2>3, <2>4
<1>2. ASSUME NEW p \in Processes, Acquire(p)
      PROVE  Volume'
  <2>1. /\ luks[p] = "idle" /\ UNCHANGED <<header, surviving, target, subject, pc>>
        /\ p \in Enrollers => Running(p) /\ pc[p] = 13
    BY <1>2, AtAdd DEF Acquire, volume
  <2>2. p \in Enrollers => storage[p] = "not_mutated"
    BY SMT, <2>1 DEF Control, Reported
  <2>3. p \in Enrollers => \A h \in surviving : ~HasSlot(h, p)
    BY <1>v, <2>2 DEF During
  <2>4. CASE /\ End(p, "failed")
             /\ storage' = [storage EXCEPT ![p] = IF p \in Enrollers THEN "not_mutated"
                                                 ELSE "pending_reconciliation"]
    <3>1. /\ p \in Enrollers => storage'[p] = "not_mutated"
          /\ \A q \in Processes \ {p} : storage'[q] = storage[q]
      BY <1>p, <2>4 DEF ProcessType
    <3>2. QED
      BY <2>1, <2>3, <2>4, <3>1, EndVolume
  <2>5. CASE /\ luks' = [luks EXCEPT ![p] = IF p \in Enrollers THEN "add_check" ELSE "attach"]
             /\ storage' = [storage EXCEPT ![p] = "pending_reconciliation"]
    <3>1. /\ luks'[p] = IF p \in Enrollers THEN "add_check" ELSE "attach"
          /\ storage'[p] = "pending_reconciliation"
          /\ \A q \in Processes \ {p} : luks'[q] = luks[q] /\ storage'[q] = storage[q]
      BY <1>p, <2>5 DEF ProcessType
    <3>2. Attached(p)' /\ Now(p)'
      BY <3>1 DEF Attached, Now
    <3>3. ASSUME p \in Enrollers, NEW h \in surviving
          PROVE  Kept(p, h)'
      <4>1. Holds(p, h)'
        BY SMT, <1>v, <2>1, <3>3 DEF Holds
      <4>2. During(p, h)'
        BY <2>3, <3>1, <3>3 DEF During, HasSlot, Attaching
      <4>3. QED
        BY <4>1, <4>2 DEF Kept
    <3>4. QED
      BY <2>1, <3>1, <3>2, <3>3, MoveVolume
  <2>6. QED
    BY <1>2, <2>4, <2>5 DEF Acquire
<1>3. ASSUME NEW p \in Processes, Sync(p)
      PROVE  Volume'
  <2>1. /\ luks[p] \in {"slot_sync", "token_sync"}
        /\ UNCHANGED <<header, target, subject, pc>>
    BY <1>3 DEF Sync
  <2>2. CASE Fail(p, TRUE) /\ UNCHANGED surviving
    BY <2>1, <2>2, FailVolume
  <2>3. CASE surviving' = {header} /\ Goto(p, "attach") /\ luks[p] = "slot_sync"
    <3>1. p \in Enrollers => header.slots[target[p]] = p /\ ~HasToken(header, p)
      BY <1>v, <2>3 DEF Now, During
    <3>2. QED
      BY <1>v, <2>1, <2>3, <3>1, GotoVolume DEF Calls, Attaching
  <2>4. CASE surviving' = {header} /\ Goto(p, "verify") /\ luks[p] = "token_sync"
    <3>1. p \in Enrollers => header.slots[target[p]] = p /\ HasToken(header, p)
      BY <1>v, <2>4 DEF Now, During, Attaching
    <3>2. QED
      BY <1>v, <2>1, <2>4, <3>1, GotoVolume DEF Calls, Attaching
  <2>5. QED
    BY <1>3, <2>2, <2>3, <2>4 DEF Sync
<1>4. ASSUME NEW p \in Processes, Attach(p)
      PROVE  Volume'
  <2>1. luks[p] = "attach" /\ UNCHANGED <<header, surviving, target, subject, pc>>
    BY <1>4 DEF Attach
  <2>2. HasToken(header, envelope(p)) <=> TokensOf(header, envelope(p)) # {}
    BY DEF HasToken, TokensOf
  <2>3. p \in Enrollers =>
          \A h \in surviving : h.slots[target[p]] = p /\ ~HasToken(h, p)
    BY <1>v, <2>1 DEF During, Attaching
  <2>4. CASE Fail(p, TRUE)
    BY <2>1, <2>4, FailVolume
  <2>5. CASE Activates(p) /\ ~HasToken(header, envelope(p)) /\ Goto(p, "token")
    BY <2>1, <2>3, <2>5, GotoVolume DEF Calls, Attaching
  <2>6. CASE HasToken(header, envelope(p)) /\ Goto(p, "verify")
    <3>1. p \notin Enrollers
      BY <1>v, <2>3, <2>6 DEF envelope
    <3>2. QED
      BY <2>1, <2>6, <3>1, GotoVolume DEF Calls, Attaching
  <2>7. QED
    BY <1>4, <2>2, <2>4, <2>5, <2>6 DEF Attach
<1>5. ASSUME NEW p \in Processes, Verify(p)
      PROVE  Volume'
  <2>1. luks[p] = "verify" /\ UNCHANGED <<header, surviving, target, subject>>
    BY <1>5 DEF Verify, volume
  <2>2. CASE Fail(p, TRUE) /\ UNCHANGED pc
    BY <2>1, <2>2, FailVolume
  <2>3. CASE /\ End(p, IF p \in Enrollers THEN "running" ELSE "ok")
             /\ storage' = [storage EXCEPT ![p] = "committed"]
             /\ pc' = [pc EXCEPT ![p] = @ + 1]
    <3>1. /\ luks'[p] = "idle" /\ storage'[p] = "committed" /\ pc'[p] = pc[p] + 1
          /\ pc[p] \in 0..16
          /\ \A q \in Processes \ {p} :
               pc'[q] = pc[q] /\ luks'[q] = luks[q] /\ storage'[q] = storage[q]
      BY <1>p, <2>3 DEF End, ProcessType
    <3>2. Attached(p)' /\ Now(p)'
      BY <3>1 DEF Attached, Now
    <3>3. ASSUME p \in Enrollers, NEW h \in surviving
          PROVE  Kept(p, h)'
      <4>1. Holds(p, h)'
        BY SMT, <1>v, <2>1, <3>1, <3>3 DEF Holds
      <4>2. During(p, h)'
        BY <1>v, <2>1, <3>1, <3>3 DEF During, HasToken, Attaching
      <4>3. QED
        BY SMT, <4>1, <4>2 DEF Kept
    <3>4. QED
      BY <2>1, <3>1, <3>2, <3>3, MoveVolume
  <2>4. QED
    BY <1>5, <2>2, <2>3 DEF Verify
<1>6. QED
  BY <1>1, <1>2, <1>3, <1>4, <1>5

\* A write: the enrollments S it is about, and the others, which it does not touch.
LEMMA WriteVolume ==
  ASSUME TypeOK, Control, Volume, NEW S, NEW h, Write(h), UNCHANGED target,
         \A x \in Enrollers \ S :
           Alike(x, h, header) /\ Passive(x) /\ storage'[x] = storage[x],
         \A e \in Enrollers \cap S : Now(e)' /\ \A g \in surviving \cup {h} : Kept(e, g)',
         \A p \in Processes : Attached(p)'
  PROVE  Volume'
<1>1. header' = h /\ surviving' = surviving \cup {h} /\ header \in surviving
  BY DEF Write, TypeOK, VolumeType
<1>2. ASSUME NEW x \in Enrollers, x \notin S, NEW g \in surviving'
      PROVE  Kept(x, g)'
  <2>1. \A s \in surviving : Kept(x, s)
    BY DEF Volume, Kept
  <2>2. Kept(x, h)
    BY <1>1, <1>2, <2>1, AlikeKept
  <2>3. QED
    BY <1>1, <1>2, <2>1, <2>2, PassiveKept
<1>3. ASSUME NEW x \in Enrollers, x \notin S
      PROVE  Now(x)'
  <2>1. CASE luks'[x] = "idle"
    BY <2>1 DEF Now
  <2>2. CASE luks'[x] = luks[x] /\ luks[x] # "idle"
    <3>1. target[x] \in Ids
      BY <2>2, TargetKnown
    <3>2. /\ h.slots[target[x]] = x <=> header.slots[target[x]] = x
          /\ HasToken(h, x) <=> HasToken(header, x)
      BY <1>3, <3>1 DEF Alike, HasToken
    <3>3. Now(x)
      BY DEF Volume
    <3>4. HasToken(header, x)' <=> HasToken(h, x)
      BY <1>1 DEF HasToken
    <3>5. QED
      BY <1>1, <2>2, <3>2, <3>3, <3>4 DEF Now
  <2>3. QED
    BY <1>3, <2>1, <2>2 DEF Passive
<1>4. QED
  BY <1>1, <1>2, <1>3 DEF Volume, Kept

\* A native writer touches no slot and no token of an enrollment.
LEMMA NativeVolume ==
  ASSUME TypeOK, Control, Volume, Native
  PROVE  Volume'
<1>1. PICK h :
        /\ Write(h)
        /\ \E id \in Ids, owner \in {"native", "free"} :
             \/ header.slots[id] \in {"native", "free"} /\ h = [header EXCEPT !.slots[id] = owner]
             \/ header.tokens[id] \in {"native", "free"} /\ h = [header EXCEPT !.tokens[id] = owner]
  BY DEF Native
<1>2. header \in Headers
  BY DEF TypeOK, VolumeType
<1>3. \A x \in Enrollers : x \notin {"native", "free"}
  BY ProcessesAssumption
<1>4. ASSUME NEW x \in Enrollers
      PROVE  Alike(x, h, header)
  BY SMT, <1>1, <1>2, <1>3 DEF Alike, Headers
<1>5. UNCHANGED <<target, subject, pc, luks, storage, status>> /\ header' = h
  BY <1>1 DEF Native, process, Write
<1>6. \A x \in Enrollers : Passive(x)
  BY <1>5 DEF Passive
<1>7. ASSUME NEW p \in Processes
      PROVE  Attached(p)'
  <2>1. SUFFICES ASSUME luks[p] = "token"
                 PROVE  h.slots[slot(p)] = envelope(p) /\ ~HasToken(h, envelope(p))
    BY <1>5 DEF Attached, Activates, slot, envelope, HasToken
  <2>2. header.slots[slot(p)] = envelope(p) /\ ~HasToken(header, envelope(p))
    BY <2>1 DEF Volume, Attached, Activates
  <2>3. envelope(p) \in Enrollers /\ slot(p) \in Ids
    BY <2>1, EnvelopeType DEF Control, Inside
  <2>4. QED
    BY <1>4, <2>2, <2>3 DEF Alike, HasToken
<1>8. /\ \A x \in Enrollers \ {} :
           Alike(x, h, header) /\ Passive(x) /\ storage'[x] = storage[x]
      /\ \A e \in Enrollers \cap {} : Now(e)' /\ \A g \in surviving \cup {h} : Kept(e, g)'
  BY <1>4, <1>5, <1>6
<1>9. QED
  BY <1>1, <1>5, <1>7, <1>8, WriteVolume

\* Adding the slot keeps the facts about every surviving header.
LEMMA AddSlotVolume ==
  ASSUME TypeOK, Control, Volume, NEW e \in Enrollers, AddSlot(e)
  PROVE  Volume'
<1>p. e \in Processes /\ Enrollers \subseteq Processes /\ ProcessType
  BY DEF Processes, TypeOK
<1>1. /\ luks[e] = "add" /\ UNCHANGED <<target, subject, pc>>
      /\ pc[e] = 13 /\ storage[e] = "pending_reconciliation" /\ target[e] \in Ids
      /\ slot(e) = target[e]
  BY <1>p, TargetKnown DEF AddSlot, Control, Inside, Reported, slot, envelope
<1>2. \A h \in surviving : ~HasSlot(h, e) /\ ~HasToken(h, e)
  BY SMT, <1>1 DEF Volume, During, Holds, HasSlot, HasToken
<1>3. CASE UNCHANGED <<header, surviving>> /\ \E partial \in BOOLEAN : Fail(e, partial)
  BY <1>1, <1>2, <1>3, <1>p, FailVolume
<1>4. CASE /\ SlotWritable(e) /\ Write(WithSlot(e))
           /\ Goto(e, "slot_sync") \/ Fail(e, header'.slots[slot(e)] # "free")
  <2> DEFINE h == WithSlot(e)
  <2>1. /\ h.tokens = header.tokens /\ h.slots[target[e]] = e
        /\ \A id \in Ids \ {target[e]} : h.slots[id] = header.slots[id]
        /\ header.slots[target[e]] = "free" /\ header \in surviving
    BY <1>1, <1>4, WithSlotIs DEF SlotWritable, TypeOK, VolumeType
  <2>2. header' = h /\ e # "free"
    BY <1>4, ProcessesAssumption DEF Write
  <2> HIDE DEF h
  <2>3. /\ luks'[e] \in {"slot_sync", "idle"} /\ storage' = storage
        /\ \A q \in Processes \ {e} : luks'[q] = luks[q]
    BY <1>1, <1>4, <1>p, <2>1, <2>2 DEF Goto, Fail, End, ProcessType
  <2>4. ASSUME NEW x \in Enrollers \ {e}
        PROVE  Alike(x, h, header) /\ Passive(x) /\ storage'[x] = storage[x]
    <3>1. Alike(x, h, header)
      BY <2>1, ProcessesAssumption DEF Alike
    <3>2. QED
      BY <1>1, <1>p, <2>3, <3>1 DEF Passive
  <2>5. Now(e)'
    BY <1>1, <2>1, <2>2, <2>3 DEF Now
  <2>6. ASSUME NEW g \in surviving \cup {h}
        PROVE  Kept(e, g)'
    <3>1. Holds(e, g)'
      <4>1. ~HasToken(g, e) /\ \A id \in Ids : g.slots[id] = e => id = target[e]
        BY SMT, <1>2, <2>1 DEF HasToken, HasSlot
      <4>2. QED
        BY SMT, <1>1, <4>1 DEF Holds, HasToken
    <3>2. During(e, g)'
      BY SMT, <1>1, <1>2, <2>1, <2>3 DEF During, HasToken, Attaching
    <3>3. QED
      BY <3>1, <3>2 DEF Kept
  <2>7. ASSUME NEW p \in Processes
        PROVE  Attached(p)'
    BY <1>1, <1>p, <2>3, Alone DEF Attached
  <2>8. \A x \in Enrollers \cap {e} :
          Now(x)' /\ \A g \in surviving \cup {h} : Kept(x, g)'
    BY <2>5, <2>6
  <2>9. Write(h) /\ UNCHANGED target
    BY <1>1, <1>4 DEF h
  <2>10. QED
    BY <2>4, <2>7, <2>8, <2>9, WriteVolume
<1>5. QED
  BY <1>3, <1>4 DEF AddSlot

\* Writing the token keeps the facts about every surviving header.
LEMMA SetTokenVolume ==
  ASSUME TypeOK, Control, Volume, NEW p \in Processes, SetToken(p)
  PROVE  Volume'
<1>p. Enrollers \subseteq Processes /\ ProcessType
  BY DEF Processes, TypeOK
<1>1. luks[p] = "token" /\ UNCHANGED <<target, subject, pc>> /\ Running(p)
  BY DEF SetToken, Control, Inside
<1>e. PICK e \in Enrollers : e = envelope(p)
  BY <1>1, EnvelopeType
<1>2. CASE UNCHANGED <<header, surviving>> /\ Fail(p, TRUE)
  BY <1>1, <1>2, FailVolume
<1>3. CASE /\ TokenWritable /\ Write(WithToken(p))
           /\ Goto(p, "token_sync") \/ Fail(p, TRUE)
  <2> DEFINE h == WithToken(p)
  <2>1. /\ target[e] \in Ids
        /\ header.slots[target[e]] = e /\ ~HasToken(header, e) /\ header \in surviving
        /\ p \in Enrollers => p = e
    BY <1>1, <1>e, EnvelopeType
    DEF Volume, Attached, Activates, slot, envelope, TypeOK, VolumeType
  <2>2. PICK t \in Ids : /\ h.slots = header.slots
                         /\ header.tokens[t] = "free" /\ h.tokens[t] = e
                         /\ \A id \in Ids \ {t} : h.tokens[id] = header.tokens[id]
    BY <1>1, <1>3, <1>e, WithTokenIs DEF TokenWritable
  <2>3. header' = h /\ Write(h) /\ UNCHANGED target
    BY <1>1, <1>3 DEF Write
  <2> HIDE DEF h
  <2>4. /\ luks'[p] \in {"token_sync", "idle"} /\ storage' = storage
        /\ \A q \in Processes \ {p} : luks'[q] = luks[q] /\ luks[q] = "idle"
    BY <1>1, <1>3, <1>p, Alone DEF Goto, Fail, End, ProcessType
  <2>5. ASSUME NEW x \in Enrollers \ {e}
        PROVE  Alike(x, h, header) /\ Passive(x) /\ storage'[x] = storage[x]
    <3>1. Alike(x, h, header)
      BY <2>2, ProcessesAssumption DEF Alike
    <3>2. QED
      BY <1>1, <1>p, <2>1, <2>4, <3>1 DEF Passive
  <2>6. HasToken(h, e)
    BY <2>2 DEF HasToken
  <2>7. Now(e)'
    BY <1>p, <2>1, <2>3, <2>4, <2>6 DEF Now, HasToken
  <2>8. ASSUME NEW g \in surviving \cup {h}
        PROVE  Kept(e, g)'
    <3>1. Holds(e, header) /\ During(e, header)
      BY <2>1 DEF Volume
    <3>2. CASE g = h
      <4>1. Holds(e, g)'
        BY SMT, <1>1, <2>1, <2>2, <3>1, <3>2 DEF Holds, HasToken
      <4>2. HasSlot(h, e) <=> HasSlot(header, e)
        BY <2>2 DEF HasSlot
      <4>3. e = p => storage[e] = "pending_reconciliation"
        BY <1>1, <2>1 DEF Control, Reported
      <4>4. luks'[e] \in {"token_sync", "idle"}
        BY <1>p, <2>1, <2>4
      <4>5. During(e, g)'
        BY <1>1, <2>1, <2>2, <2>4, <2>6, <3>1, <3>2, <4>2, <4>3, <4>4
        DEF During, HasSlot, HasToken, Attaching
      <4>6. QED
        BY <4>1, <4>5 DEF Kept
    <3>3. CASE g \in surviving /\ e = p
      <4>1. Holds(e, g) /\ During(e, g) /\ storage[e] = "pending_reconciliation"
        BY <1>1, <2>1, <3>3 DEF Volume, Control, Reported
      <4>2. Holds(e, g)' /\ During(e, g)'
        BY <1>1, <2>4, <3>3, <4>1 DEF Holds, During, Attaching
      <4>3. QED
        BY <4>2 DEF Kept
    <3>4. CASE g \in surviving /\ e # p
      <4>1. Kept(e, g)
        BY <2>1, <3>4 DEF Volume, Kept
      <4>2. Passive(e) /\ storage'[e] = storage[e]
        BY <1>1, <1>p, <2>1, <2>4, <3>4 DEF Passive
      <4>3. QED
        BY <2>1, <4>1, <4>2, PassiveKept
    <3>5. QED
      BY <3>2, <3>3, <3>4
  <2>9. ASSUME NEW q \in Processes
        PROVE  Attached(q)'
    BY <2>4 DEF Attached
  <2>10. \A x \in Enrollers \cap {e} :
           Now(x)' /\ \A g \in surviving \cup {h} : Kept(x, g)'
    BY <2>7, <2>8
  <2>11. QED
    BY <2>3, <2>5, <2>9, <2>10, WriteVolume
<1>4. QED
  BY <1>2, <1>3 DEF SetToken

\* Every step keeps the facts about every surviving header.
LEMMA StepVolume ==
  ASSUME TypeOK, Control, Volume, Next
  PROVE  Volume'
BY OutsideVolume, InsideVolume, AddSlotVolume, SetTokenVolume, NativeVolume, Cases

-----------------------------------------------------------------------------
(* The theorems                                                            *)

\* The initial states satisfy the invariant.
LEMMA InitInv == Init => Inv
<1> SUFFICES ASSUME Init
             PROVE  Inv
  OBVIOUS
<1> USE DEF Init
<1>p. /\ Enrollers \subseteq Processes /\ Resumers \subseteq Processes
      /\ Enrollers \cap Resumers = {}
      /\ Enrollers \cap {"free", "old", "native", "none"} = {}
  BY ProcessesAssumption DEF Processes
<1>s. /\ DOMAIN subject \subseteq Resumers
      /\ \A r \in DOMAIN subject : subject[r] \in Enrollers
      /\ \A p \in Resumers : status[p] # "absent" => p \in DOMAIN subject
      /\ status \in [Processes -> {"running", "absent"}]
  <2>1. PICK s \in Scenarios :
          /\ subject = s.subject
          /\ status = [p \in Processes |->
                         IF p \in s.enrollers \cup DOMAIN subject THEN "running" ELSE "absent"]
    OBVIOUS
  <2>2. /\ s.enrollers \subseteq Enrollers
        /\ \E R \in SUBSET Resumers : subject \in [R -> s.enrollers]
    <3>1. s.subject \in UNION {[R -> s.enrollers] : R \in SUBSET Resumers}
      BY ScenariosAssumption
    <3>2. PICK X \in {[R -> s.enrollers] : R \in SUBSET Resumers} : s.subject \in X
      BY <3>1
    <3>3. QED
      BY <2>1, <3>2, ScenariosAssumption
  <2>3. QED
    BY SMT, <1>p, <2>1, <2>2
<1>1. header \in Headers /\ surviving = {header}
  BY DEF Headers, Owners, Ids
<1>2. TypeOK
  <2>1. VolumeType
    BY <1>1 DEF VolumeType
  <2>2. ProcessType
    BY SMT, <1>s DEF ProcessType, Statuses, Calls, StorageStates
  <2>3. /\ files \in [Enrollers -> [Files -> FileStates]]
        /\ target \in [Enrollers -> Ids \cup {SLOT_COUNT}]
    BY DEF FileStates, NoFile
  <2>4. QED
    BY <1>s, <2>1, <2>2, <2>3 DEF TypeOK
<1>3. /\ \A p \in Processes : pc[p] = 0 /\ luks[p] = "idle"
      /\ \A e \in Enrollers : storage[e] = "not_mutated"
  BY <1>p
<1> HIDE DEF Init
<1>4. Control
  BY SMT, <1>p, <1>s, <1>3 DEF Control, Inside, Signed, Reported
<1>5. Journals
  <2>1. JournalAt(0) = NoFile /\ BundleAt(0) = NoFile /\ Remains(NoFile, NoFile)
    BY SMT DEF JournalAt, BundleAt, NoFile, Remains
  <2>2. \A e \in Enrollers : /\ files[e]["journal"] = NoFile /\ files[e]["bundle"] = NoFile
                             /\ pc[e] = 0
    BY <1>p, <1>3 DEF Init, Files
  <2>3. QED
    BY <2>1, <2>2 DEF Journals, Persisted
<1>6. Volume
  <2>1. ASSUME NEW e \in Enrollers
        PROVE  ~HasSlot(header, e) /\ ~HasToken(header, e)
    BY <1>p DEF Init, HasSlot, HasToken
  <2>2. ASSUME NEW e \in Enrollers
        PROVE  Now(e) /\ Holds(e, header) /\ During(e, header)
    BY <1>p, <1>3, <2>1 DEF Now, Holds, During, HasSlot, HasToken, Attaching
  <2>3. QED
    BY <1>1, <1>3, <2>2 DEF Volume, Attached
<1>7. QED
  BY <1>2, <1>4, <1>5, <1>6 DEF Inv

\* Every step keeps the invariant.
LEMMA StepInv == Inv /\ [Next]_vars => Inv'
<1>1. ASSUME Inv, Next
      PROVE  Inv'
  BY <1>1, StepType, StepControl, StepJournals, StepVolume DEF Inv
<1>2. ASSUME Inv, UNCHANGED vars
      PROVE  Inv'
  <2> USE <1>2 DEF Inv, vars, volume, process
  <2>1. TypeOK'
    BY DEF TypeOK, VolumeType, ProcessType
  <2>2. Control'
    BY DEF Control, Inside, Signed, Reported, Running
  <2>3. Journals'
    BY DEF Journals, Persisted, Running
  <2>4. Volume'
    BY SMT DEF Volume, Holds, During, HasSlot, HasToken, Now, Attached, Activates, slot, envelope
  <2>5. QED
    BY <2>1, <2>2, <2>3, <2>4
<1>3. QED
  BY <1>1, <1>2

\* The invariant holds in every reachable state.
LEMMA Invariant == Spec => []Inv
BY InitInv, StepInv, PTL DEF Spec

\* commit writes and syncs the signed bundle, its directory entry and the records
\* before it calls the storage: in every state of the volume that may survive, the
\* slot of an enrollment comes with all of them.
THEOREM BundleComesFirst == Spec => []BundleBeforeSlot
<1>1. ASSUME Inv
      PROVE  BundleBeforeSlot
  <2>1. SUFFICES ASSUME NEW e \in Enrollers, NEW h \in surviving, HasSlot(h, e)
                 PROVE  /\ files[e]["bundle"].entry = "durable"
                        /\ files[e]["bundle"].synced = 1
                        /\ files[e]["journal"].entry = "durable"
                        /\ files[e]["journal"].synced >= Records - 1
    BY DEF BundleBeforeSlot
  <2>2. pc[e] \in 13..16
    BY SMT, <1>1, <2>1 DEF Inv, Volume, Holds, HasSlot, TypeOK, ProcessType, Processes
  <2>3. files[e]["bundle"] \in FileStates /\ files[e]["journal"] \in FileStates
    BY <1>1 DEF Inv, TypeOK, Files
  <2>4. /\ Remains(files[e]["journal"], JournalAt(pc[e]))
        /\ Remains(files[e]["bundle"], BundleAt(pc[e]))
    BY <1>1 DEF Inv, Journals, Persisted
  <2>5. QED
    BY SMT, <2>2, <2>3, <2>4 DEF Remains, JournalAt, BundleAt, FileStates, Records
<1>2. QED
  BY <1>1, Invariant, PTL

\* attach_locked tests the exact signed slot and looks for the token before it
\* writes one: a token that may survive has its slot, and is the only one.
THEOREM TokensHaveTheirSlot == Spec => []TokenHasItsSlot
<1>1. ASSUME Inv
      PROVE  TokenHasItsSlot
  BY SMT, <1>1 DEF Inv, Volume, Holds, TokenHasItsSlot, TokensOf
<1>2. QED
  BY <1>1, Invariant, PTL

\* The final record follows the return of the storage call: a journal that has it
\* tells of an enrollment that every surviving state of the volume has.
THEOREM JournalIsTruthful == Spec => []JournalTruthful
<1>1. ASSUME Inv
      PROVE  JournalTruthful
  <2>1. SUFFICES ASSUME NEW e \in Enrollers, journal_committed(e), NEW h \in surviving
                 PROVE  Enrolled(h, e)
    BY DEF JournalTruthful
  <2>2. pc[e] \in 0..16 /\ files[e]["journal"] \in FileStates
    BY <1>1 DEF Inv, TypeOK, ProcessType, Processes, Files
  <2>3. pc[e] > 13
    <3>1. files[e]["journal"].written = 4
      BY <2>1 DEF journal_committed, Records
    <3>2. files[e]["journal"].written <= JournalAt(pc[e]).written
      BY <1>1 DEF Inv, Journals, Persisted, Remains
    <3>3. QED
      BY SMT, <2>2, <3>1, <3>2 DEF JournalAt
  <2>4. storage[e] = "committed" /\ target[e] \in Ids
    BY <1>1, <2>2, <2>3, TargetKnown DEF Inv, Control, Reported
  <2>5. QED
    BY SMT, <1>1, <2>4 DEF Inv, Volume, During, Enrolled, HasSlot, HasToken, TokensOf
<1>2. QED
  BY <1>1, Invariant, PTL

\* The storage state that the enroll command reports when it ends: not_mutated and
\* committed are both true of every surviving state of the volume.
THEOREM ReportIsTruthful == Spec => []StorageReportTruthful
<1>1. ASSUME Inv
      PROVE  StorageReportTruthful
  <2>1. SUFFICES ASSUME NEW e \in Enrollers, NEW h \in surviving
                 PROVE  /\ storage[e] = "not_mutated" => ~HasSlot(h, e)
                        /\ storage[e] = "committed" => Enrolled(h, e)
    BY DEF StorageReportTruthful
  <2>2. storage[e] = "committed" => target[e] \in Ids
    BY <1>1, TargetKnown DEF Inv
  <2>3. QED
    BY SMT, <1>1, <2>2 DEF Inv, Volume, During, Enrolled, HasSlot, HasToken, TokensOf
<1>2. QED
  BY <1>1, Invariant, PTL

\* The library writes a slot or a token only where the metadata is free: neither
\* command replaces one, its own or another's.
THEOREM WritesReplaceNothing == Spec => NothingOverwritten
<1> DEFINE Keeps(h) == \A id \in Ids :
                         /\ header.slots[id] # "free" => h.slots[id] = header.slots[id]
                         /\ header.tokens[id] # "free" => h.tokens[id] = header.tokens[id]
<1>1. ASSUME Inv, [Next]_vars
      PROVE  Keeps(header') \/ PowerLoss \/ Native
  <2> USE <1>1 DEF Inv
  <2>1. CASE UNCHANGED header
    BY <2>1
  <2>2. ASSUME NEW e \in Enrollers, AddSlot(e)
        PROVE  Keeps(header')
    <3>1. CASE SlotWritable(e) /\ header' = WithSlot(e)
      <4>1. luks[e] # "idle" /\ header.slots[target[e]] = "free"
        BY <2>2, <3>1 DEF AddSlot, SlotWritable, slot, envelope
      <4>2. QED
        BY SMT, <3>1, <4>1, WithSlotIs
    <3>2. QED
      BY <2>1, <2>2, <3>1 DEF AddSlot, Write
  <2>3. ASSUME NEW p \in Processes, SetToken(p)
        PROVE  Keeps(header')
    <3>1. luks[p] # "idle"
      BY <2>3 DEF SetToken
    <3>2. CASE Free(header.tokens) # {} /\ header' = WithToken(p)
      BY <3>1, <3>2, WithTokenIs
    <3>3. QED
      BY <2>1, <2>3, <3>2 DEF SetToken, TokenWritable, Write
  <2> HIDE DEF Keeps
  <2>4. QED
    BY <2>1, <2>2, <2>3, Cases
    DEF vars, volume, Choose, Persist, PersistFails, CheckAdd, Recover, Retry, Acquire,
        Sync, Attach, Verify, Kill
<1>2. QED
  BY <1>1, Invariant, PTL DEF Spec, NothingOverwritten
=============================================================================
