----------------------------- MODULE Enrollment -----------------------------
(***************************************************************************)
(* Enrollments that commit to one LUKS2 volume, and their resumption.      *)
(*                                                                         *)
(* An enroller runs the enroll command (leelo-cli enrollment.rs): a fixed  *)
(* script of file operations around one call of add_enrollment.  A resumer *)
(* runs resume-enrollment on a retained pending bundle and may be started  *)
(* again.  Both work on the volume through leelo-luks (linux.rs), which    *)
(* excludes other Leelo writers but not native cryptsetup.                 *)
(*                                                                         *)
(* What happens around them: any file or library call may fail, with or    *)
(* without its effect; a process may be killed; the machine may lose power,*)
(* which keeps only what was synced plus any part of the rest; a native    *)
(* cryptsetup may add and remove its own slots and tokens.  All of these   *)
(* are disturbances.  A scenario says who takes part and how many of them  *)
(* there may be.                                                           *)
(***************************************************************************)
EXTENDS Naturals, Sequences, FiniteSets

CONSTANTS
  Enrollers,        \* processes; each also names its envelope and credential
  Resumers,         \* processes
  SLOT_COUNT,       \* slots and tokens are 0..SLOT_COUNT - 1
  Space,            \* how many slots and tokens the JSON area has room for
  Scenarios         \* who enrolls, who resumes what, how many disturbances

ASSUME ProcessesAssumption ==
  /\ Enrollers \cap Resumers = {}
  /\ (Enrollers \cup Resumers) \cap {"free", "old", "native", "none"} = {}
ASSUME BoundsAssumption ==
  /\ SLOT_COUNT \in Nat \ {0}
  /\ Space \in Nat
ASSUME ScenariosAssumption ==
  \A s \in Scenarios :
    /\ s.enrollers \subseteq Enrollers
    /\ s.subject \in UNION {[R -> s.enrollers] : R \in SUBSET Resumers}
    /\ s.disturbances \in Nat

Processes == Enrollers \cup Resumers

Ids == 0..(SLOT_COUNT - 1)

VARIABLES
  header,     \* the volume's metadata as every process sees it
  surviving,  \* the metadata states a power loss may leave
  changed,    \* a native writer changed it since the lock holder's reload
  lock,       \* holder of the OFD write lock, or "none"
  files,      \* per enroller: the journal and the pending bundle
  target,     \* descriptor.slot of each enrollment, SLOT_COUNT before the choice
  subject,    \* whose bundle each resumer works on
  pc,         \* enroller: position in Script; resumer: 0, or 1 with the credential
  status,     \* running, how the process ended, or absent
  luks,       \* where a process is inside leelo-luks
  planned,    \* the token id attach_locked found or planned
  storage,    \* StorageState of its Operation
  disturbances  \* how many are left

volume == <<header, surviving, changed>>
process == <<pc, status, luks, planned, storage>>
vars == <<volume, lock, files, target, subject, process, disturbances>>

Files == {"journal", "bundle"}

\* Persistence operations of EnrollmentJournal::begin and commit, in order.  A
\* mistake: the directory entry of the bundle is not synced.
Script_unsynced ==
  << <<"create", "journal">>, <<"write", "journal">>, <<"sync_file", "journal">>,
     <<"sync_directory", "journal">>, <<"prepare", "journal">>,
     <<"create", "bundle">>, <<"write", "bundle">>, <<"sync_file", "bundle">>,
     <<"write", "journal">>, <<"write", "journal">>, <<"sync_file", "journal">>,
     <<"add", "journal">>,
     <<"write", "journal">>, <<"sync_file", "journal">> >>

\* A mistake: the final record is written before the storage call.
Script_eager ==
  << <<"create", "journal">>, <<"write", "journal">>, <<"sync_file", "journal">>,
     <<"sync_directory", "journal">>, <<"prepare", "journal">>,
     <<"create", "bundle">>, <<"write", "bundle">>, <<"sync_file", "bundle">>,
     <<"sync_directory", "bundle">>,
     <<"write", "journal">>, <<"write", "journal">>, <<"write", "journal">>,
     <<"add", "journal">>, <<"sync_file", "journal">> >>

\* The enroll command after preflight: the journal with its first record, the
\* engine's prepare and recovery test, the bundle, the records that say so, the
\* storage call, and the final record.
Script ==
  << <<"create", "journal">>, <<"write", "journal">>, <<"sync_file", "journal">>,
     <<"sync_directory", "journal">>, <<"prepare", "journal">>,
     <<"create", "bundle">>, <<"write", "bundle">>, <<"sync_file", "bundle">>,
     <<"sync_directory", "bundle">>,
     <<"write", "journal">>, <<"write", "journal">>, <<"sync_file", "journal">>,
     <<"add", "journal">>,
     <<"write", "journal">>, <<"sync_file", "journal">> >>

Records == 4   \* preflight, bundle, prepared and final

NoFile == [entry |-> "absent", written |-> 0, synced |-> 0]

Init ==
  /\ header = [slots |-> [id \in Ids |-> IF id = 0 THEN "old" ELSE "free"],
               tokens |-> [id \in Ids |-> "free"]]
  /\ surviving = {header}
  /\ changed = FALSE
  /\ lock = "none"
  /\ files = [e \in Enrollers |-> [f \in Files |-> NoFile]]
  /\ target = [e \in Enrollers |-> SLOT_COUNT]
  /\ \E s \in Scenarios :
       /\ subject = s.subject
       /\ status = [p \in Processes |->
                      IF p \in s.enrollers \cup DOMAIN subject THEN "running" ELSE "absent"]
       /\ disturbances = s.disturbances
  /\ pc = [p \in Processes |-> 0]
  /\ luks = [p \in Processes |-> "idle"]
  /\ planned = [p \in Processes |-> SLOT_COUNT]
  /\ storage = [p \in Processes |->
                  IF p \in Enrollers THEN "not_mutated" ELSE "unknown"]

-----------------------------------------------------------------------------
envelope(p) == IF p \in Enrollers THEN p ELSE subject[p]

slot(p) == target[envelope(p)]

\* The first element of a set of ids, SLOT_COUNT for none.
FirstOf(S) == IF S = {} THEN SLOT_COUNT ELSE CHOOSE i \in S : \A j \in S : i <= j

Free(entries) == {id \in Ids : entries[id] = "free"}

TokensOf(h, e) == {id \in Ids : h.tokens[id] = e}

Entries(h) == Cardinality(Ids \ Free(h.slots)) + Cardinality(Ids \ Free(h.tokens))

Running(p) == status[p] = "running"

Disturb ==
  /\ disturbances > 0
  /\ disturbances' = disturbances - 1

Undisturbed == UNCHANGED disturbances

control == <<status, luks, planned, lock>>

\* A mistake: the lock outlives its holder.
End_holding(p, how) ==
  /\ status' = [status EXCEPT ![p] = how]
  /\ luks' = [luks EXCEPT ![p] = "idle"]
  /\ planned' = [planned EXCEPT ![p] = SLOT_COUNT]
  /\ UNCHANGED lock

\* The process ends; the write lock is dropped with its descriptor.
End(p, how) ==
  /\ status' = [status EXCEPT ![p] = how]
  /\ luks' = [luks EXCEPT ![p] = "idle"]
  /\ planned' = [planned EXCEPT ![p] = SLOT_COUNT]
  /\ lock' = IF lock = p THEN "none" ELSE lock

-----------------------------------------------------------------------------
(* The enroll command                                                      *)

\* Up to the descriptor: open, test the old credential, first_free_slot.  The
\* slot is chosen without the write lock, long before it is used.
Choose(e) ==
  /\ Running(e)
  /\ pc[e] = 0
  /\ \/ /\ Free(header.slots) # {}
        /\ target' = [target EXCEPT ![e] = FirstOf(Free(header.slots))]
        /\ pc' = [pc EXCEPT ![e] = 1]
        /\ UNCHANGED control
     \/ /\ Free(header.slots) = {}
        /\ End(e, "failed")
        /\ UNCHANGED <<pc, target>>
  /\ Undisturbed
  /\ UNCHANGED <<volume, files, subject, storage>>

At(e, operation) ==
  /\ Running(e)
  /\ pc[e] \in DOMAIN Script
  /\ Script[pc[e]][1] = operation

\* What a file operation does to the files of one enrollment, which share a
\* directory; prepare touches none.
Applied(operation, file, f) ==
  [x \in Files |->
     [entry |-> IF operation = "create" /\ x = file THEN "visible"
                ELSE IF operation = "sync_directory" /\ f[x].entry # "absent"
                THEN "durable" ELSE f[x].entry,
      written |-> IF operation = "write" /\ x = file
                  THEN f[x].written + 1 ELSE f[x].written,
      synced |-> IF operation = "sync_file" /\ x = file
                 THEN f[x].written ELSE f[x].synced]]

\* The next file operation of e, or prepare and the recovery test, succeeds.
Persist(e) ==
  /\ Running(e)
  /\ pc[e] \in DOMAIN Script
  /\ ~At(e, "add")
  /\ files' = [files EXCEPT ![e] = Applied(Script[pc[e]][1], Script[pc[e]][2], @)]
  /\ pc' = [pc EXCEPT ![e] = @ + 1]
  /\ status' = [status EXCEPT ![e] = IF pc[e] = Len(Script) THEN "ok" ELSE @]
  /\ Undisturbed
  /\ UNCHANGED <<volume, lock, target, subject, luks, planned, storage>>

\* It fails and ends the command; files are never removed.  What a failed write
\* leaves of its record is no record to any reader (journal_committed and the
\* envelope's authenticate reject a truncated one), so it is not counted.
PersistFails(e) ==
  /\ Running(e)
  /\ pc[e] \in DOMAIN Script
  /\ ~At(e, "add")
  /\ End(e, "failed")
  /\ Disturb
  /\ UNCHANGED <<volume, files, target, subject, pc, storage>>

-----------------------------------------------------------------------------
(* leelo-luks                                                              *)

\* How a storage call of p ends in an error.  The enroll command reports
\* not_mutated unless the error says that the enrollment may be partial.
Fail(p, partial) ==
  /\ End(p, "failed")
  /\ storage' = IF p \in Enrollers /\ ~partial
                THEN [storage EXCEPT ![p] = "not_mutated"] ELSE storage

\* The call goes on to its next step.
Goto(p, step) ==
  /\ luks' = [luks EXCEPT ![p] = step]
  /\ UNCHANGED <<status, lock, storage>>

\* What a write of the library leaves on the volume.
Write(h) ==
  /\ header' = h
  /\ surviving' = surviving \cup {h}

\* The storage state is set before the call.  WriteLock::acquire does not wait:
\* WriterBusy is an error like any other.
Acquire(p) ==
  /\ luks[p] = "idle"
  /\ IF p \in Enrollers THEN At(p, "add") ELSE Running(p) /\ pc[p] = 1
  /\ \/ /\ lock = "none"
        /\ lock' = p
        /\ luks' = [luks EXCEPT ![p] = IF p \in Enrollers THEN "add_check" ELSE "attach"]
        /\ storage' = [storage EXCEPT ![p] = "pending_reconciliation"]
        /\ UNCHANGED <<status, planned>>
     \/ /\ lock # "none"
        /\ End(p, "failed")
        /\ storage' = [storage EXCEPT ![p] =
                         IF p \in Enrollers THEN "not_mutated" ELSE "pending_reconciliation"]
  /\ Undisturbed
  /\ UNCHANGED <<volume, files, target, subject, pc>>

\* slot_status, and token_plan with the reserve for the slot.
Addable(e) ==
  /\ header.slots[slot(e)] = "free"
  /\ Free(header.tokens) # {}
  /\ Entries(header) + 2 <= Space

\* add_enrollment before its first write: reload, slot_status, the old
\* credential, and room for the slot and the token.
CheckAdd(e) ==
  /\ luks[e] = "add_check"
  /\ changed' = FALSE
  /\ \/ Addable(e) /\ Goto(e, "add") /\ Undisturbed /\ UNCHANGED planned
     \/ ~Addable(e) /\ Fail(e, FALSE) /\ Undisturbed
     \/ Disturb /\ Fail(e, FALSE)
  /\ UNCHANGED <<header, surviving, files, target, subject, pc>>

\* crypt_keyslot_add_by_passphrase can do its work.  When a native writer has
\* changed the metadata since the context was loaded the library may refuse, or
\* work on what it reads under its own lock.
SlotWritable(e) == header.slots[slot(e)] = "free" /\ Entries(header) < Space

WithSlot(e) == [header EXCEPT !.slots[slot(e)] = e]

\* A mistake: a failed call is taken to have had no effect.
AddSlot_unchecked(e) ==
  /\ luks[e] = "add"
  /\ \/ /\ SlotWritable(e)
        /\ Write(WithSlot(e))
        /\ \/ Goto(e, "slot_sync") /\ Undisturbed /\ UNCHANGED planned
           \/ Disturb /\ Fail(e, FALSE)
     \/ /\ changed \/ ~SlotWritable(e)
        /\ Fail(e, FALSE)
        /\ Undisturbed
        /\ UNCHANGED <<header, surviving>>
  /\ UNCHANGED <<changed, files, target, subject, pc>>

\* The slot write.  A failed call may have had its effect: only a slot that a
\* fresh context shows inactive makes it a plain error.
AddSlot(e) ==
  /\ luks[e] = "add"
  /\ \/ /\ SlotWritable(e)
        /\ Write(WithSlot(e))
        /\ \/ Goto(e, "slot_sync") /\ Undisturbed /\ UNCHANGED planned
           \/ Disturb /\ Fail(e, header'.slots[slot(e)] # "free")
     \/ /\ changed \/ ~SlotWritable(e)
        /\ Fail(e, header.slots[slot(e)] # "free")
        /\ Undisturbed
        /\ UNCHANGED <<header, surviving>>
     \/ /\ Disturb
        /\ \E reloaded \in BOOLEAN :
             Fail(e, ~reloaded \/ header.slots[slot(e)] # "free")
        /\ UNCHANGED <<header, surviving>>
  /\ UNCHANGED <<changed, files, target, subject, pc>>

\* sync_all after the slot write and after the token write.
Sync(p) ==
  /\ luks[p] \in {"slot_sync", "token_sync"}
  /\ \/ /\ surviving' = {header}
        /\ Goto(p, IF luks[p] = "slot_sync" THEN "attach" ELSE "verify")
        /\ Undisturbed
        /\ UNCHANGED planned
     \/ Disturb /\ Fail(p, TRUE) /\ UNCHANGED surviving
  /\ UNCHANGED <<header, changed, files, target, subject, pc>>

\* The credential opens exactly the signed slot.
Activates(p) == header.slots[slot(p)] = envelope(p)

TokenWritable == Free(header.tokens) # {} /\ Entries(header) < Space

\* A mistake: the exact slot is not tested.
Attach_untested(p) ==
  LET present == TokensOf(header, envelope(p))
  IN  /\ luks[p] = "attach"
      /\ present # {} \/ TokenWritable
      /\ planned' = [planned EXCEPT ![p] =
                       FirstOf(IF present # {} THEN present ELSE Free(header.tokens))]
      /\ Goto(p, IF present # {} THEN "verify" ELSE "token")
      /\ changed' = FALSE
      /\ Undisturbed
      /\ UNCHANGED <<header, surviving, files, target, subject, pc>>

\* attach_locked before its write: reload, test the exact slot, look for the
\* token of this envelope, plan the id of a new one.  A token that is there is
\* verified and returned, without a sync.
Attach(p) ==
  LET present == TokensOf(header, envelope(p))
      possible == Activates(p) /\ (present # {} \/ TokenWritable)
  IN  /\ luks[p] = "attach"
      /\ changed' = FALSE
      /\ \/ /\ possible
            /\ planned' = [planned EXCEPT ![p] =
                             FirstOf(IF present # {} THEN present ELSE Free(header.tokens))]
            /\ Goto(p, IF present # {} THEN "verify" ELSE "token")
            /\ Undisturbed
         \/ ~possible /\ Fail(p, TRUE) /\ Undisturbed
         \/ Disturb /\ Fail(p, TRUE)
      /\ UNCHANGED <<header, surviving, files, target, subject, pc>>

\* crypt_token_json_set with id -1 allocates among the ids that are free when
\* the library writes.
WithToken(p) == [header EXCEPT !.tokens[FirstOf(Free(header.tokens))] = envelope(p)]

\* A mistake: the planned id is written, whatever it holds by then.
SetToken_replace(p) ==
  /\ luks[p] = "token"
  /\ Write([header EXCEPT !.tokens[planned[p]] = envelope(p)])
  /\ Goto(p, "token_sync")
  /\ Undisturbed
  /\ UNCHANGED <<changed, planned, files, target, subject, pc>>

\* The token write.  Another id than the planned one is an error although the
\* token is there.
SetToken(p) ==
  /\ luks[p] = "token"
  /\ \/ /\ TokenWritable
        /\ Write(WithToken(p))
        /\ \/ /\ FirstOf(Free(header.tokens)) = planned[p]
              /\ Goto(p, "token_sync")
              /\ Undisturbed
              /\ UNCHANGED planned
           \/ FirstOf(Free(header.tokens)) # planned[p] /\ Fail(p, TRUE) /\ Undisturbed
           \/ Disturb /\ Fail(p, TRUE)
     \/ /\ \/ (changed \/ ~TokenWritable) /\ Undisturbed
           \/ Disturb
        /\ Fail(p, TRUE)
        /\ UNCHANGED <<header, surviving>>
  /\ UNCHANGED <<changed, files, target, subject, pc>>

\* verify_persisted, and the return of the storage call: the lock is released
\* and the operation is committed.
Verify(p) ==
  LET persisted == header.tokens[planned[p]] = envelope(p) /\ Activates(p)
  IN  /\ luks[p] = "verify"
      /\ \/ /\ persisted
            /\ End(p, IF p \in Enrollers THEN "running" ELSE "ok")
            /\ storage' = [storage EXCEPT ![p] = "committed"]
            /\ pc' = [pc EXCEPT ![p] = @ + 1]
            /\ Undisturbed
         \/ ~persisted /\ Fail(p, TRUE) /\ Undisturbed /\ UNCHANGED pc
         \/ Disturb /\ Fail(p, TRUE) /\ UNCHANGED pc
      /\ UNCHANGED <<volume, files, target, subject>>

-----------------------------------------------------------------------------
(* The resume-enrollment command                                           *)

\* Reads and authenticates the bundle and recovers the credential with the
\* engine, which may fail.
Recover(r) ==
  LET bundle == files[subject[r]]["bundle"]
      complete == bundle.entry # "absent" /\ bundle.written = 1
  IN  /\ Running(r)
      /\ pc[r] = 0
      /\ \/ complete /\ pc' = [pc EXCEPT ![r] = 1] /\ Undisturbed /\ UNCHANGED control
         \/ ~complete /\ End(r, "failed") /\ Undisturbed /\ UNCHANGED pc
         \/ Disturb /\ End(r, "failed") /\ UNCHANGED pc
      /\ UNCHANGED <<volume, files, target, subject, storage>>

\* The command is run again.
Retry(r) ==
  /\ status[r] \in {"ok", "failed", "killed"}
  /\ status' = [status EXCEPT ![r] = "running"]
  /\ pc' = [pc EXCEPT ![r] = 0]
  /\ storage' = [storage EXCEPT ![r] = "unknown"]
  /\ Undisturbed
  /\ UNCHANGED <<volume, lock, files, target, subject, luks, planned>>

-----------------------------------------------------------------------------
(* The surroundings                                                        *)

\* A process dies; the kernel drops its lock with its descriptor.
Kill(p) ==
  /\ Running(p)
  /\ End(p, "killed")
  /\ Disturb
  /\ UNCHANGED <<volume, files, target, subject, pc, storage>>

\* What is left of a file: its directory entry if that was synced or happened
\* to be written, and the synced records with any of the others.
LeftOf(file) ==
  LET kept == {[entry |-> "durable", written |-> n, synced |-> n] :
                 n \in file.synced..file.written}
  IN  (IF file.entry = "durable" THEN {} ELSE {NoFile})
        \cup (IF file.entry = "absent" THEN {} ELSE kept)

\* Every process dies, and the volume and the files fall back to something the
\* device may hold.
PowerLoss ==
  /\ \E p \in Processes : Running(p)
  /\ header' \in surviving
  /\ surviving' = {header'}
  /\ LET unsettled == {x \in Enrollers \X Files :
                         LeftOf(files[x[1]][x[2]]) # {files[x[1]][x[2]]}}
         outcomes == UNION {LeftOf(files[x[1]][x[2]]) : x \in unsettled}
     IN  \E left \in [unsettled -> outcomes] :
           /\ \A x \in unsettled : left[x] \in LeftOf(files[x[1]][x[2]])
           /\ files' = [e \in Enrollers |-> [f \in Files |->
                          IF <<e, f>> \in unsettled THEN left[<<e, f>>] ELSE files[e][f]]]
  /\ lock' = "none"
  /\ status' = [p \in Processes |-> IF Running(p) THEN "killed" ELSE status[p]]
  /\ luks' = [p \in Processes |-> "idle"]
  /\ planned' = [p \in Processes |-> SLOT_COUNT]
  /\ changed' = FALSE
  /\ Disturb
  /\ UNCHANGED <<target, subject, pc, storage>>

\* A native cryptsetup adds or removes a slot or a token of its own.
Native ==
  /\ \E id \in Ids :
       \/ /\ header.slots[id] = "free" /\ Entries(header) < Space
          /\ Write([header EXCEPT !.slots[id] = "native"])
       \/ /\ header.tokens[id] = "free" /\ Entries(header) < Space
          /\ Write([header EXCEPT !.tokens[id] = "native"])
       \/ /\ header.slots[id] = "native"
          /\ Write([header EXCEPT !.slots[id] = "free"])
       \/ /\ header.tokens[id] = "native"
          /\ Write([header EXCEPT !.tokens[id] = "free"])
  /\ changed' = TRUE
  /\ Disturb
  /\ UNCHANGED <<lock, files, target, subject, process>>

-----------------------------------------------------------------------------
EnrollStep(e) ==
  \/ Choose(e)
  \/ Persist(e)
  \/ CheckAdd(e)
  \/ AddSlot(e)

ResumeStep(r) == Recover(r) \/ Retry(r)

StorageStep(p) ==
  \/ Acquire(p)
  \/ Sync(p)
  \/ Attach(p)
  \/ SetToken(p)
  \/ Verify(p)

Next ==
  \/ \E e \in Enrollers : EnrollStep(e) \/ PersistFails(e)
  \/ \E r \in Resumers : ResumeStep(r)
  \/ \E p \in Processes : StorageStep(p) \/ Kill(p)
  \/ PowerLoss
  \/ Native

Spec == Init /\ [][Next]_vars

\* A process that can take a step takes it, and the operator runs
\* resume-enrollment again whenever it has ended.
FairSpec ==
  /\ Spec
  /\ \A e \in Enrollers : WF_vars(EnrollStep(e) \/ StorageStep(e))
  /\ \A r \in Resumers : WF_vars(ResumeStep(r) \/ StorageStep(r))

-----------------------------------------------------------------------------
(* Properties                                                              *)

HasSlot(h, e) == \E id \in Ids : h.slots[id] = e

Enrolled(h, e) == HasSlot(h, e) /\ TokensOf(h, e) # {}

\* journal_committed of the collector: all four records, in order.
journal_committed(e) ==
  /\ files[e]["journal"].entry # "absent"
  /\ files[e]["journal"].written = Records

\* commit: no state of the volume that can survive holds the slot of an
\* enrollment unless its signed bundle, the bundle's directory entry and the
\* three records before the storage call survive with it.
BundleBeforeSlot ==
  \A e \in Enrollers, h \in surviving :
    HasSlot(h, e) =>
      /\ files[e]["bundle"].entry = "durable"
      /\ files[e]["bundle"].synced = 1
      /\ files[e]["journal"].entry = "durable"
      /\ files[e]["journal"].synced >= Records - 1

\* attach_locked tests the exact signed slot and looks for the token first: in no
\* state that can survive is there a token whose slot is missing or belongs to
\* someone else, or a second token of an envelope, also when resume-enrollment
\* races the enroller or another resume.
TokenHasItsSlot ==
  \A e \in Enrollers, h \in surviving :
    /\ TokensOf(h, e) # {} => target[e] \in Ids /\ h.slots[target[e]] = e
    /\ \A i, j \in TokensOf(h, e) : i = j

\* A journal with its final record, read at any time and after any crash, means
\* that the slot and the token are on the volume and stay there.
JournalTruthful ==
  \A e \in Enrollers :
    journal_committed(e) => \A h \in surviving : Enrolled(h, e)

\* The storage state of an enroll command: not_mutated means that no slot of it
\* is or can come back on the volume, committed that slot and token survive.
StorageReportTruthful ==
  \A e \in Enrollers :
    /\ storage[e] = "not_mutated" => \A h \in surviving : ~HasSlot(h, e)
    /\ storage[e] = "committed" => \A h \in surviving : Enrolled(h, e)

\* Neither command removes or replaces a slot or a token, its own or others'.
NothingOverwritten ==
  [][ \/ \A id \in Ids :
           /\ header.slots[id] # "free" => header'.slots[id] = header.slots[id]
           /\ header.tokens[id] # "free" => header'.tokens[id] = header.tokens[id]
      \/ PowerLoss
      \/ Native ]_vars

\* The slot of r's enrollment is on the volume, its token is not but could be.
Unfinished(r) ==
  /\ r \in DOMAIN subject
  /\ HasSlot(header, subject[r])
  /\ TokensOf(header, subject[r]) = {}
  /\ TokenWritable

\* An interrupted enrollment can be finished: when a slot is on the volume and
\* resume-enrollment is run until it succeeds, the token follows, unless the
\* slot is lost with power before it was synced or the metadata area is full.
ResumeCompletes == \A r \in Resumers : []<>~Unfinished(r)
=============================================================================
