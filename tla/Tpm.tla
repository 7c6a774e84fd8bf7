-------------------------------- MODULE Tpm --------------------------------
(***************************************************************************)
(* The TPM adapter (leelo-tpm linux.rs) in the order in which enrollment   *)
(* and unlock use it: pcr_digest reads the state to bind to, seal binds a  *)
(* seed to it, unseal tests the enrollment and later unlocks.  Each of     *)
(* them is a list of TPM commands, and between any two commands a PCR may  *)
(* be extended, the owner hierarchy cleared or the machine restarted.  Any *)
(* command may fail.  A PCR value is the number of measurements extended   *)
(* into it since the machine started, so a restart can reach an old state. *)
(***************************************************************************)
EXTENDS Naturals, Sequences, FiniteSets

CONSTANTS
  PCRS,         \* indices of the PCRs, from 0 up
  MASK,         \* descriptor.tpm_pcr_mask: the selected ones
  UNCOUNTED,    \* the PCRs whose extensions a TPM leaves out of its counter
  MAX_EXTENDS,  \* bound on the value of a PCR
  MAX_EVENTS    \* bound on restarts, clears and failed commands

ASSUME PcrsAssumption == PCRS \subseteq Nat /\ IsFiniteSet(PCRS)

ASSUME MaskAssumption == MASK \subseteq PCRS /\ MASK # {}   \* validate_mask

\* An assumption about the mask, not a check of the code: PC-client TPMs do not
\* count extensions of PCRs 16 and 21 to 23, and validate_mask allows them.
ASSUME CountedAssumption == MASK \cap UNCOUNTED = {}

VARIABLES
  pcr, counter, owner,  \* the TPM: PCRs, update counter, owner seed
  caller,      \* the call under way: digest, seal, test, unlock; idle; failed
  todo,        \* the commands the call still has to send
  held,        \* handles of objects and sessions the call's context owns
  session,     \* the policy session: its assertions, and the counter at PolicyPCR
  expected,    \* the policy digest of the trial session
  read,        \* pcr_digest: the values read so far, and the counter with them
  digest,      \* descriptor.tpm_pcr_digest, an option
  blob,        \* the sealed object, an option
  refusal,     \* why the last call failed, or "none"
  events

tpm == <<pcr, counter, owner>>
call == <<caller, todo, held, session, expected, read, refusal>>
vars == <<tpm, call, digest, blob, events>>

\* The selected PCRs in increasing order.
selection ==
  CHOOSE list \in [1..Cardinality(MASK) -> MASK] :
    \A i, j \in 1..Cardinality(MASK) : i < j => list[i] < list[j]

current == [i \in DOMAIN selection |-> pcr[selection[i]]]

Command(name) == [name |-> name, pcr |-> 0]

Commands(names) == [i \in DOMAIN names |-> Command(names[i])]

NoSession == [assertions |-> <<>>, at |-> {}]

NoRead == [values |-> <<>>, at |-> {}]

-----------------------------------------------------------------------------
(* The calls as lists of commands. *)

pcr_digest_commands ==
  [i \in DOMAIN selection |-> [name |-> "pcr_read", pcr |-> selection[i]]]

\* A mistake: the policy binds the command and not the PCRs.
apply_policy_unbound == Commands(<<"policy_command_code">>)

apply_policy == Commands(<<"policy_pcr", "policy_command_code">>)

expected_policy ==
  Commands(<<"trial">>) \o apply_policy
    \o Commands(<<"policy_get_digest", "flush_context">>)

seal_commands ==
  expected_policy \o Commands(<<"create_parent", "hmac", "create">>)

unseal_commands ==
  expected_policy \o Commands(<<"create_parent", "load", "policy">>)
    \o apply_policy \o Commands(<<"unseal">>)

\* A call begins: the context is new.
begin(name, commands) ==
  /\ caller' = name
  /\ todo' = commands
  /\ held' = {}
  /\ session' = NoSession
  /\ expected' = <<>>
  /\ read' = NoRead
  /\ refusal' = "none"

\* A call ends: dropping the context flushes what it owns.
end(name, why) ==
  /\ caller' = name
  /\ todo' = <<>>
  /\ held' = {}
  /\ session' = NoSession
  /\ expected' = <<>>
  /\ read' = NoRead
  /\ refusal' = why

\* An enrollment that fails is over; a failed unlock may be tried again.
refuse(why) == end(IF caller = "unlock" THEN "idle" ELSE "failed", why)

Init ==
  /\ pcr = [i \in PCRS |-> 0]
  /\ counter = 0
  /\ owner = 0
  /\ caller = "digest"
  /\ todo = pcr_digest_commands
  /\ held = {}
  /\ session = NoSession
  /\ expected = <<>>
  /\ read = NoRead
  /\ digest = {}
  /\ blob = {}
  /\ refusal = "none"
  /\ events = 0

Sending(name) == todo # <<>> /\ Head(todo).name = name

\* The parent was flushed by a clear of its hierarchy, and with it what was
\* loaded under it.
lost == "parent" \notin held

send == todo' = Tail(todo) /\ UNCHANGED <<caller, refusal>>

-----------------------------------------------------------------------------
(* pcr_digest *)

\* A mistake: update counters are not compared.
snapshot_changed_never == FALSE

snapshot_changed == read.at # {} /\ read.at # {counter}

PcrRead ==
  LET values == Append(read.values, pcr[Head(todo).pcr])
  IN  /\ Sending("pcr_read")
      /\ IF snapshot_changed THEN refuse("snapshot") /\ UNCHANGED digest
         ELSE IF Len(todo) = 1
           THEN begin("seal", seal_commands) /\ digest' = {values}
         ELSE /\ read' = [values |-> values, at |-> {counter}]
              /\ send
              /\ UNCHANGED <<held, session, expected, digest>>
      /\ UNCHANGED <<tpm, blob, events>>

-----------------------------------------------------------------------------
(* Sessions and policies *)

\* A session other than the trial one is salted to the parent.
start_session(kind) ==
  /\ Sending(kind)
  /\ IF kind # "trial" /\ lost THEN refuse("lost")
     ELSE held' = held \cup {kind} /\ session' = NoSession /\ send
          /\ UNCHANGED <<expected, read>>
  /\ UNCHANGED <<tpm, digest, blob, events>>

StartSession == \E kind \in {"trial", "hmac", "policy"} : start_session(kind)

\* A trial session takes the digest as given; a policy session compares it
\* with the PCRs and notes the update counter.
PolicyPcr ==
  /\ Sending("policy_pcr")
  /\ IF "policy" \in held /\ digest # {current}
     THEN refuse("policy_pcr")
     ELSE /\ session' = [assertions |-> Append(session.assertions,
                                               [code |-> FALSE, pcrs |-> digest]),
                         at |-> {counter}]
          /\ send
          /\ UNCHANGED <<held, expected, read>>
  /\ UNCHANGED <<tpm, digest, blob, events>>

PolicyCommandCode ==
  /\ Sending("policy_command_code")
  /\ session' = [session EXCEPT !.assertions =
                   Append(@, [code |-> TRUE, pcrs |-> {}])]
  /\ send
  /\ UNCHANGED <<tpm, held, expected, read, digest, blob, events>>

validate_public(auth_policy) ==
  \A object \in blob : object.policy = auth_policy

\* unseal validates the object's public part as soon as it has the policy.
PolicyGetDigest ==
  /\ Sending("policy_get_digest")
  /\ IF caller # "seal" /\ ~validate_public(session.assertions)
     THEN refuse("public")
     ELSE /\ expected' = session.assertions
          /\ send
          /\ UNCHANGED <<held, session, read>>
  /\ UNCHANGED <<tpm, digest, blob, events>>

FlushContext ==
  /\ Sending("flush_context")
  /\ held' = held \ {"trial"}
  /\ send
  /\ UNCHANGED <<tpm, session, expected, read, digest, blob, events>>

-----------------------------------------------------------------------------
(* Objects *)

\* A mistake: the parent is made from a fresh template each time.
parent_name_fresh == <<owner, counter>>

\* The primary is derived from the owner seed and a fixed template.
parent_name == <<owner, 0>>

\* unseal compares the parent's name with the one in the envelope.
CreateParent ==
  /\ Sending("create_parent")
  /\ IF caller # "seal" /\ \E object \in blob : object.parent # parent_name
     THEN refuse("parent")
     ELSE held' = held \cup {"parent"} /\ send
          /\ UNCHANGED <<session, expected, read>>
  /\ UNCHANGED <<tpm, digest, blob, events>>

\* The seed is sealed under the expected policy; the test of it follows.
Create ==
  /\ Sending("create")
  /\ IF lost THEN refuse("lost") /\ UNCHANGED blob
     ELSE /\ blob' = {[policy |-> expected, parent |-> parent_name,
                       owner |-> owner]}
          /\ begin("test", unseal_commands)
  /\ UNCHANGED <<tpm, digest, events>>

Load ==
  /\ Sending("load")
  /\ IF lost THEN refuse("lost")
     ELSE IF \E object \in blob : object.owner # owner THEN refuse("load")
     ELSE held' = held \cup {"object"} /\ send
          /\ UNCHANGED <<session, expected, read>>
  /\ UNCHANGED <<tpm, digest, blob, events>>

\* The TPM compares the session's policy with the object's, and the update
\* counter with the one at PolicyPCR.
Unseal ==
  /\ Sending("unseal")
  /\ IF lost THEN refuse("lost")
     ELSE IF
        \/ \E object \in blob : object.policy # session.assertions
        \/ session.at # {} /\ session.at # {counter}
     THEN refuse("pcr_changed")
     ELSE end("idle", "none")
  /\ UNCHANGED <<tpm, digest, blob, events>>

Unlock ==
  /\ caller = "idle"
  /\ begin("unlock", unseal_commands)
  /\ UNCHANGED <<tpm, digest, blob, events>>

-----------------------------------------------------------------------------
(* The world *)

Extend(i) ==
  /\ pcr[i] < MAX_EXTENDS
  /\ pcr' = [pcr EXCEPT ![i] = @ + 1]
  /\ counter' = IF i \in UNCOUNTED THEN counter ELSE counter + 1
  /\ UNCHANGED <<owner, call, digest, blob, events>>

event == events < MAX_EVENTS /\ events' = events + 1

CommandFails ==
  /\ todo # <<>>
  /\ event
  /\ refuse("fault")
  /\ UNCHANGED <<tpm, digest, blob>>

Clear ==
  /\ event
  /\ owner' = owner + 1
  /\ held' = held \ {"parent", "object"}
  /\ UNCHANGED <<pcr, counter, caller, todo, session, expected, read, refusal,
                 digest, blob>>

\* A restart ends the call under way and loses sessions and transient objects.
Restart ==
  /\ event
  /\ pcr' = [i \in PCRS |-> 0]
  /\ counter' = 0
  /\ end(IF caller \in {"unlock", "idle"} THEN "idle" ELSE "failed", "none")
  /\ UNCHANGED <<owner, digest, blob>>

Next ==
  \/ PcrRead \/ StartSession \/ PolicyPcr \/ PolicyCommandCode
  \/ PolicyGetDigest \/ FlushContext \/ CreateParent \/ Create \/ Load
  \/ Unseal \/ Unlock
  \/ (\E i \in PCRS : Extend(i)) \/ CommandFails \/ Clear \/ Restart

Spec == Init /\ [][Next]_vars

-----------------------------------------------------------------------------
(* Properties. *)

\* The digest an enrollment binds to is a state the PCRs were in: when the
\* last selected PCR is read, every other one still has the value that was
\* read before.  Nothing was extended between the reads.
DigestIsOneState ==
  [][digest' # digest => digest' = {current}]_vars

\* A seed is released only by the TPM that sealed it, while the PCRs are in
\* the state the enrollment was bound to.
ReleasedInBoundState ==
  [][Sending("unseal") /\ caller' = "idle" /\ refusal' = "none"
       /\ pcr' = pcr /\ owner' = owner /\ counter' = counter /\ events' = events
     => digest = {current} /\ owner \in {object.owner : object \in blob}]_vars

\* What justifies the refusal that a step reports.
Justified(why) ==
  \/ why = "fault"
  \/ why = "policy_pcr" /\ digest # {current}
  \/ why = "pcr_changed" /\ session.at # {counter}
  \/ why \in {"parent", "load", "lost"} /\ owner \notin {object.owner : object \in blob}

\* unseal gives up only for a reason outside of it: the PCRs are not in the
\* bound state or changed while it ran, the owner hierarchy was cleared, or a
\* command failed.  In particular the policy that seal computed is the one
\* that unseal computes again, after any number of restarts.
RefusalMeansChange ==
  [][(caller \in {"test", "unlock"}) /\ caller' # caller /\ refusal' # "none"
     => Justified(refusal')]_vars

=============================================================================
