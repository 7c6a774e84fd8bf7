------------------------------ MODULE TpmProofs ------------------------------
(***************************************************************************)
(* Proofs about the TPM adapter, for any PCRs and any selection of them,    *)
(* and however often they are extended, the owner hierarchy is cleared, the *)
(* machine restarted or a command fails.                                    *)
(*                                                                          *)
(* The properties are about single steps, and none of them says what the    *)
(* earlier commands of the call established.  The invariant does: it says   *)
(* where a call is in its list of commands, and for each position what the  *)
(* TPM and the adapter know by then.  The update counter is the version of  *)
(* the PCRs: what was read or compared at a counter is what the PCRs hold   *)
(* while the counter is the same.                                           *)
(***************************************************************************)
EXTENDS Tpm, FiniteSetTheorems, WellFoundedInduction, TLAPS

\* Most of what follows is reasoning about sets and functions, which is what Zenon
\* is good at; a leaf that needs arithmetic or records cites SMT.
USE Zenon

-----------------------------------------------------------------------------
(* The selection: every nonempty mask can be listed in increasing order. *)

\* A nonempty set of indices has a least one.
LEMMA Least ==
  ASSUME NEW T, T \subseteq Nat, T # {}
  PROVE  \E m \in T : \A t \in T : m <= t
<1> DEFINE R == OpToRel(<, Nat)
<1>1. IsWellFoundedOn(R, Nat)
  BY NatLessThanWellFounded
<1>2. \A x, y \in Nat : <<x, y>> \in R <=> x < y
  BY DEF OpToRel
<1> HIDE DEF R
<1>3. PICK m \in T : \A t \in T : ~(<<t, m>> \in R)
  BY <1>1, WFMin
<1>4. \A t \in T : ~(t < m)
  BY <1>2, <1>3
<1>5. \A t \in T : m <= t
  BY SMT, <1>4
<1> QED
  BY <1>5

\* A set that has 0 and with each number the next one has them all.
LEMMA Induction ==
  ASSUME NEW S, 0 \in S, \A n \in Nat : n \in S => n + 1 \in S
  PROVE  Nat \subseteq S
<1> SUFFICES ASSUME Nat \ S # {} PROVE FALSE
  OBVIOUS
<1>1. PICK x \in Nat \ S : \A t \in Nat \ S : x <= t
  BY Least
<1>2. x # 0
  BY <1>1
<1>3. x - 1 \in Nat /\ ~(x <= x - 1) /\ (x - 1) + 1 = x
  BY SMT, <1>2
<1>4. x - 1 \in S
  BY <1>1, <1>3
<1> QED
  BY <1>1, <1>3, <1>4

\* list has n members of T, each larger than those before it.
Increasing(list, T, n) ==
  /\ list \in [1..n -> T]
  /\ \A i, j \in 1..n : i < j => list[i] < list[j]

\* An increasing list stays one behind a smaller index.
LEMMA LeastFirst ==
  ASSUME NEW T, T \subseteq Nat, NEW m \in T, \A t \in T : m <= t,
         NEW n \in Nat, NEW list, Increasing(list, T \ {m}, n)
  PROVE  Increasing([i \in 1..(n + 1) |-> IF i = 1 THEN m ELSE list[i - 1]], T, n + 1)
<1> DEFINE more == [i \in 1..(n + 1) |-> IF i = 1 THEN m ELSE list[i - 1]]
<1>1. \A i \in 1..n : list[i] \in T \ {m} /\ list[i] \in Nat /\ m \in Nat
  BY DEF Increasing
<1>2. \A i \in 1..n : m < list[i]
  <2>1. \A t \in T \ {m} : m <= t
    OBVIOUS
  <2> QED
    BY SMT, <1>1, <2>1
<1>3. \A i \in 1..(n + 1) : i # 1 => i - 1 \in 1..n
  BY SMT
<1>4. more \in [1..(n + 1) -> T]
  BY <1>1, <1>3
<1>5. ASSUME NEW i \in 1..(n + 1), NEW j \in 1..(n + 1), i < j PROVE more[i] < more[j]
  <2>1. j # 1 /\ j - 1 \in 1..n /\ (i # 1 => i - 1 \in 1..n /\ i - 1 < j - 1)
    BY SMT, <1>5
  <2>2. CASE i = 1
    BY <1>2, <2>1, <2>2
  <2>3. CASE i # 1
    <3>1. list[i - 1] < list[j - 1]
      BY <2>1, <2>3 DEF Increasing
    <3> QED
      BY <2>1, <2>3, <3>1
  <2> QED
    BY <2>2, <2>3
<1> QED
  BY <1>4, <1>5 DEF Increasing

\* Every finite set of indices can be listed in increasing order.
LEMMA CanBeListed ==
  \A T \in SUBSET PCRS : \E list : Increasing(list, T, Cardinality(T))
<1> DEFINE S == {n \in Nat : \A T \in SUBSET PCRS :
                               Cardinality(T) = n => \E list : Increasing(list, T, n)}
<1>1. \A T \in SUBSET PCRS : IsFiniteSet(T) /\ T \subseteq Nat /\ Cardinality(T) \in Nat
  BY PcrsAssumption, FS_Subset, FS_CardinalityType
<1>2. 0 \in S
  <2>1. ASSUME NEW T \in SUBSET PCRS PROVE \E list : Increasing(list, T, 0)
    <3>1. 1..0 = {}
      BY SMT
    <3>2. [i \in 1..0 |-> i] \in [1..0 -> T]
      BY <3>1
    <3>3. Increasing([i \in 1..0 |-> i], T, 0)
      BY <3>1, <3>2 DEF Increasing
    <3> QED
      BY <3>3
  <2> QED
    BY <2>1
<1>3. ASSUME NEW n \in Nat, n \in S PROVE n + 1 \in S
  <2>1. ASSUME NEW T \in SUBSET PCRS, Cardinality(T) = n + 1
        PROVE  \E list : Increasing(list, T, n + 1)
    <3>1. T # {}
      <4>1. n + 1 # 0
        BY SMT
      <4> QED
        BY <2>1, <4>1, FS_EmptySet
    <3>2. PICK m \in T : \A t \in T : m <= t
      BY <1>1, <3>1, Least
    <3>3. Cardinality(T \ {m}) = n
      <4>1. Cardinality(T \ {m}) = Cardinality(T) - 1
        BY <1>1, FS_RemoveElement
      <4> QED
        BY SMT, <2>1, <4>1
    <3>4. PICK list : Increasing(list, T \ {m}, n)
      BY <1>3, <3>3
    <3> QED
      BY <1>1, <3>2, <3>4, LeastFirst
  <2>2. n + 1 \in Nat
    BY SMT
  <2> QED
    BY <2>1, <2>2
<1>4. Nat \subseteq S
  <2> HIDE DEF S
  <2> QED
    BY <1>2, <1>3, Induction
<1> QED
  BY <1>1, <1>4

\* The list that pcr_digest reads and PolicyPCR selects is one of selected PCRs,
\* and not empty: validate_mask lets no empty mask through.
LEMMA SelectionIsList ==
  selection \in Seq(PCRS) /\ selection \in Seq(MASK) /\ selection # <<>>
<1> DEFINE n == Cardinality(MASK)
<1>1. n \in Nat /\ n # 0
  BY PcrsAssumption, MaskAssumption, FS_Subset, FS_CardinalityType, FS_EmptySet
<1>2. \E list \in [1..n -> MASK] : \A i, j \in 1..n : i < j => list[i] < list[j]
  BY MaskAssumption, CanBeListed DEF Increasing
<1>3. selection \in [1..n -> MASK]
  BY <1>2 DEF selection
<1> HIDE DEF n
<1>4. selection \in [1..n -> PCRS]
  BY <1>3, MaskAssumption
<1>5. 1 \in 1..n
  BY SMT, <1>1
<1>6. selection \in Seq(MASK)
  BY SMT, <1>1, <1>3
<1> QED
  BY SMT, <1>1, <1>4, <1>5, <1>6

-----------------------------------------------------------------------------
(* The lists of commands. *)

\* The commands that the adapter sends.
Names ==
  {"pcr_read", "trial", "hmac", "policy", "policy_pcr", "policy_command_code",
   "policy_get_digest", "flush_context", "create_parent", "create", "load", "unseal"}

Cmd == [name : Names, pcr : PCRS \cup {0}]

\* The names of the commands of seal and of unseal.
SealNames ==
  <<"trial", "policy_pcr", "policy_command_code", "policy_get_digest",
    "flush_context", "create_parent", "hmac", "create">>

UnsealNames ==
  <<"trial", "policy_pcr", "policy_command_code", "policy_get_digest",
    "flush_context", "create_parent", "load", "policy", "policy_pcr",
    "policy_command_code", "unseal">>

NamedBy(commands, names) ==
  /\ commands \in Seq(Cmd)
  /\ Len(commands) = Len(names)
  /\ \A i \in 1..Len(names) : commands[i].name = names[i]

IsNames(names) ==
  /\ DOMAIN names = 1..Len(names) /\ Len(names) \in Nat
  /\ \A i \in 1..Len(names) : names[i] \in Names

\* all is names followed by more.
Joins(all, names, more) ==
  /\ IsNames(all) /\ IsNames(names) /\ IsNames(more)
  /\ Len(all) = Len(names) + Len(more)
  /\ \A i \in 1..Len(names) : all[i] = names[i]
  /\ \A i \in 1..Len(more) : all[Len(names) + i] = more[i]

\* The names of a concatenation of lists.
LEMMA NamesOfConcatenation ==
  ASSUME NEW a, NEW b, NEW names, NEW more, NEW all, Joins(all, names, more),
         NamedBy(a, names), NamedBy(b, more)
  PROVE  NamedBy(a \o b, all)
<1>1. a \in Seq(Cmd) /\ b \in Seq(Cmd) /\ Len(a) = Len(names) /\ Len(b) = Len(more)
  BY DEF NamedBy
<1>2. /\ a \o b \in Seq(Cmd)
      /\ Len(a \o b) = Len(a) + Len(b)
      /\ \A i \in 1..(Len(a) + Len(b)) :
           (a \o b)[i] = IF i <= Len(a) THEN a[i] ELSE b[i - Len(a)]
  BY SMT, <1>1
<1>3. Len(a) \in Nat /\ Len(b) \in Nat
  BY SMT, <1>1
<1>4. ASSUME NEW i \in 1..Len(all) PROVE (a \o b)[i].name = all[i]
  <2>1. CASE i <= Len(a)
    <3>1. i \in 1..Len(names) /\ (a \o b)[i] = a[i]
      BY SMT, <1>1, <1>2, <1>3, <2>1 DEF Joins
    <3> QED
      BY <3>1 DEF NamedBy, Joins
  <2>2. CASE ~(i <= Len(a))
    <3>1. PICK j \in 1..Len(more) : i = Len(names) + j /\ (a \o b)[i] = b[j]
      <4>1. /\ i - Len(a) \in 1..Len(more) /\ i = Len(names) + (i - Len(a))
            /\ i \in 1..(Len(a) + Len(b))
        BY SMT, <1>1, <1>3, <2>2 DEF Joins
      <4> QED
        BY <1>2, <2>2, <4>1
    <3> QED
      BY <3>1 DEF NamedBy, Joins
  <2> QED
    BY <2>1, <2>2
<1> QED
  BY <1>1, <1>2, <1>4 DEF NamedBy, Joins

\* The names of a list made from names.
LEMMA NamesOfCommands ==
  ASSUME NEW names, IsNames(names) PROVE NamedBy(Commands(names), names)
<1>1. DOMAIN names = 1..Len(names) /\ Len(names) \in Nat
  BY DEF IsNames
<1>2. \A i \in 1..Len(names) : names[i] \in Names
  BY DEF IsNames
<1>3. Commands(names) = [i \in 1..Len(names) |-> [name |-> names[i], pcr |-> 0]]
  BY <1>1 DEF Commands, Command
<1>4. \A i \in 1..Len(names) : [name |-> names[i], pcr |-> 0] \in Cmd
  BY SMT, <1>2 DEF Cmd
<1> HIDE DEF Cmd
<1>5. Commands(names) \in Seq(Cmd) /\ Len(Commands(names)) = Len(names)
  BY SMT, <1>1, <1>3, <1>4
<1>6. \A i \in 1..Len(names) : Commands(names)[i].name = names[i]
  BY SMT, <1>3
<1> QED
  BY <1>5, <1>6 DEF NamedBy

PolicyNames ==
  <<"trial", "policy_pcr", "policy_command_code", "policy_get_digest",
    "flush_context">>

\* The trial session.
LEMMA NamesOfPolicy == NamedBy(expected_policy, PolicyNames)
<1>1. Joins(<<"trial", "policy_pcr", "policy_command_code">>, <<"trial">>,
            <<"policy_pcr", "policy_command_code">>)
  BY SMT DEF Joins, IsNames, Names
<1>2. Joins(PolicyNames, <<"trial", "policy_pcr", "policy_command_code">>,
            <<"policy_get_digest", "flush_context">>)
  BY SMT DEF Joins, IsNames, Names, PolicyNames
<1>3. NamedBy(Commands(<<"trial">>) \o apply_policy,
              <<"trial", "policy_pcr", "policy_command_code">>)
  BY <1>1, NamesOfCommands, NamesOfConcatenation DEF apply_policy, Joins
<1> QED
  BY <1>2, <1>3, NamesOfCommands, NamesOfConcatenation DEF expected_policy, Joins

\* The commands of seal.
LEMMA NamesOfSeal == NamedBy(seal_commands, SealNames)
<1>1. Joins(SealNames, PolicyNames, <<"create_parent", "hmac", "create">>)
  BY SMT DEF Joins, IsNames, Names, PolicyNames, SealNames
<1>2. NamedBy(Commands(<<"create_parent", "hmac", "create">>),
              <<"create_parent", "hmac", "create">>)
  BY <1>1, NamesOfCommands DEF Joins
<1> QED
  BY <1>1, <1>2, NamesOfPolicy, NamesOfConcatenation DEF seal_commands

\* The commands of unseal.
LEMMA NamesOfUnseal == NamedBy(unseal_commands, UnsealNames)
<1> DEFINE load == <<"create_parent", "load", "policy">>
           apply == <<"policy_pcr", "policy_command_code">>
           upToLoad == <<"trial", "policy_pcr", "policy_command_code",
                         "policy_get_digest", "flush_context", "create_parent",
                         "load", "policy">>
           upToApply == <<"trial", "policy_pcr", "policy_command_code",
                          "policy_get_digest", "flush_context", "create_parent",
                          "load", "policy", "policy_pcr", "policy_command_code">>
<1>1. Joins(upToLoad, PolicyNames, load)
  BY SMT DEF Joins, IsNames, Names, PolicyNames
<1>2. Joins(upToApply, upToLoad, apply)
  BY SMT DEF Joins, IsNames, Names
<1>3. Joins(UnsealNames, upToApply, <<"unseal">>)
  BY SMT DEF Joins, IsNames, Names, UnsealNames
<1> HIDE DEF load, apply, upToLoad, upToApply
<1>4. /\ NamedBy(Commands(load), load) /\ NamedBy(Commands(apply), apply)
      /\ NamedBy(Commands(<<"unseal">>), <<"unseal">>)
  BY <1>1, <1>2, <1>3, NamesOfCommands DEF Joins
<1>5. NamedBy(expected_policy \o Commands(load), upToLoad)
  BY <1>1, <1>4, NamesOfPolicy, NamesOfConcatenation
<1>6. NamedBy((expected_policy \o Commands(load)) \o Commands(apply), upToApply)
  BY <1>2, <1>4, <1>5, NamesOfConcatenation
<1>7. NamedBy(((expected_policy \o Commands(load)) \o Commands(apply))
                \o Commands(<<"unseal">>), UnsealNames)
  BY <1>3, <1>4, <1>6, NamesOfConcatenation
<1> QED
  BY <1>7 DEF unseal_commands, apply_policy, load, apply

-----------------------------------------------------------------------------
(* The invariant. *)

Types ==
  /\ pcr \in [PCRS -> Nat] /\ counter \in Nat /\ owner \in Nat
  /\ todo \in Seq(Cmd)

\* pcr_digest sends the read of the k-th selected PCR next.  What it read before
\* was read at one update counter, and is what the PCRs hold if that is still the
\* counter.
Reading(k) ==
  /\ k \in 1..Len(selection)
  /\ Len(todo) = Len(selection) + 1 - k
  /\ \A i \in 1..Len(todo) :
       todo[i] = [name |-> "pcr_read", pcr |-> selection[i + k - 1]]
  /\ read \in [values : Seq(Nat), at : SUBSET (0..counter)]
  /\ Len(read.values) = k - 1
  /\ read.at = {} => k = 1
  /\ read.at = {counter} => \A i \in 1..(k - 1) : read.values[i] = pcr[selection[i]]

\* A call sends the k-th command of the list next.
Following(names, k) ==
  /\ k \in 1..Len(names)
  /\ Len(todo) = Len(names) + 1 - k
  /\ \A i \in 1..Len(todo) : todo[i].name = names[i + k - 1]

BindsPcrs == [code |-> FALSE, pcrs |-> digest]

\* The policy of the bound state.
Policy == <<BindsPcrs, [code |-> TRUE, pcrs |-> {}]>>

\* The session has the assertions, the one of the PCRs at an update counter that
\* the TPM was at.
Asserted(assertions) ==
  \E c \in 0..counter : session = [assertions |-> assertions, at |-> {c}]

\* The same of a policy session: if the counter is still the one, the PCRs are in
\* the bound state.
Checked(assertions) ==
  \E c \in 0..counter :
    /\ session = [assertions |-> assertions, at |-> {c}]
    /\ c = counter => digest = {current}

\* The trial session, which seal and unseal begin with.
Trial(k) ==
  /\ k = 2 => session = NoSession
  /\ k = 3 => Asserted(<<BindsPcrs>>)
  /\ k = 4 => Asserted(Policy)

Sealing(k) ==
  /\ Following(SealNames, k)
  /\ Trial(k)
  /\ k \in 5..8 => expected = Policy

\* After create_parent the parent is held unless its hierarchy was cleared since;
\* then comes the policy session.
Opening(k) ==
  /\ k \in 7..11 => \A object \in blob : object.owner = owner <=> "parent" \in held
  /\ k \in 9..11 => "policy" \in held
  /\ k = 9 => session = NoSession
  /\ k = 10 => Checked(<<BindsPcrs>>)
  /\ k = 11 => Checked(Policy)

Unsealing(k) == Following(UnsealNames, k) /\ Trial(k) /\ Opening(k)

\* There is one sealed object, under the policy of the bound state.
Enrolled ==
  \E w \in 0..owner : blob = {[policy |-> Policy, parent |-> <<w, 0>>, owner |-> w]}

Progress ==
  \/ caller = "digest" /\ \E k \in 1..Len(selection) : Reading(k)
  \/ caller = "seal" /\ \E k \in 1..8 : Sealing(k)
  \/ caller \in {"test", "unlock"} /\ Enrolled /\ \E k \in 1..11 : Unsealing(k)
  \/ caller = "idle" /\ Enrolled /\ todo = <<>>
  \/ caller = "failed" /\ todo = <<>>

IInv == Types /\ Progress

-----------------------------------------------------------------------------
(* Where a call is in its list. *)

\* seal sends eight commands, unseal eleven.
LEMMA NamesLength == Len(SealNames) = 8 /\ Len(UnsealNames) = 11
  BY SMT DEF SealNames, UnsealNames

\* The next command is the one of the position.
LEMMA HeadOfList ==
  ASSUME todo \in Seq(Cmd), NEW names, Len(names) \in Nat, NEW k, Following(names, k)
  PROVE  todo # <<>> /\ Head(todo).name = names[k]
<1>1. /\ k \in 1..Len(names) /\ Len(todo) = Len(names) + 1 - k
      /\ \A i \in 1..Len(todo) : todo[i].name = names[i + k - 1]
  BY DEF Following
<1>2. 1 \in 1..Len(todo) /\ 1 + k - 1 = k
  BY SMT, <1>1
<1>3. todo # <<>> /\ Head(todo) = todo[1]
  BY SMT, <1>2
<1> QED
  BY <1>1, <1>2, <1>3

\* Sending a command moves to the next position.
LEMMA TailOfList ==
  ASSUME todo \in Seq(Cmd), NEW names, Len(names) \in Nat, NEW k, NEW m, m = k + 1,
         k < Len(names), Following(names, k), todo' = Tail(todo)
  PROVE  todo' \in Seq(Cmd) /\ Following(names, m)'
<1>1. /\ k \in 1..Len(names) /\ Len(todo) = Len(names) + 1 - k
      /\ \A i \in 1..Len(todo) : todo[i].name = names[i + k - 1]
  BY DEF Following
<1>2. todo # <<>>
  BY HeadOfList
<1>3. /\ todo' \in Seq(Cmd) /\ Len(todo') = Len(todo) - 1
      /\ \A i \in 1..Len(todo') : todo'[i] = todo[i + 1]
  BY SMT, <1>2
<1>4. m \in 1..Len(names) /\ Len(todo') = Len(names) + 1 - m
  BY SMT, <1>1, <1>3
<1>5. \A i \in 1..Len(todo') : i + 1 \in 1..Len(todo) /\ (i + 1) + k - 1 = i + m - 1
  BY SMT, <1>1, <1>3
<1> QED
  BY <1>1, <1>3, <1>4, <1>5 DEF Following

\* A call begins with the first command of its list.
LEMMA ListBegins ==
  ASSUME NEW names, Len(names) \in Nat \ {0}, NEW commands, NamedBy(commands, names),
         todo' = commands
  PROVE  todo' \in Seq(Cmd) /\ Following(names, 1)'
<1>1. 1 \in 1..Len(names) /\ Len(names) + 1 - 1 = Len(names)
  BY SMT
<1>2. \A i \in 1..Len(names) : i + 1 - 1 = i
  BY SMT
<1> QED
  BY <1>1, <1>2 DEF Following, NamedBy

\* Which call sends a command, and where it is.
LEMMA Senders ==
  ASSUME IInv, NEW name, Sending(name)
  PROVE  \/ /\ caller = "digest" /\ name = "pcr_read"
            /\ \E k \in 1..Len(selection) : Reading(k)
         \/ /\ caller = "seal"
            /\ \E k \in 1..8 : Sealing(k) /\ SealNames[k] = name
         \/ /\ caller \in {"test", "unlock"} /\ Enrolled
            /\ \E k \in 1..11 : Unsealing(k) /\ UnsealNames[k] = name
<1>1. todo \in Seq(Cmd) /\ todo # <<>> /\ Head(todo).name = name
  BY DEF Sending, IInv, Types
<1>2. Len(SealNames) \in Nat /\ Len(UnsealNames) \in Nat
  BY SMT, NamesLength
<1>3. ASSUME NEW k, Sealing(k) PROVE SealNames[k] = name
  BY <1>1, <1>2, <1>3, HeadOfList DEF Sealing
<1>4. ASSUME NEW k, Unsealing(k) PROVE UnsealNames[k] = name
  BY <1>1, <1>2, <1>4, HeadOfList DEF Unsealing
<1>5. ASSUME NEW k, Reading(k) PROVE name = "pcr_read"
  <2>1. 1 \in 1..Len(todo) /\ Head(todo) = todo[1]
    BY SMT, <1>1
  <2>2. Head(todo) = [name |-> "pcr_read", pcr |-> selection[1 + k - 1]]
    BY <1>5, <2>1 DEF Reading
  <2> QED
    BY SMT, <1>1, <2>2
<1> QED
  BY <1>1, <1>3, <1>4, <1>5 DEF IInv, Progress

\* seal goes on to its next command.
LEMMA SealGoesOn ==
  ASSUME IInv, caller = "seal", NEW k, NEW m, m = k + 1, k \in 1..7, Sealing(k), send,
         UNCHANGED tpm, Trial(m)', m \in 5..8 => expected' = Policy'
  PROVE  IInv'
<1>1. Len(SealNames) \in Nat /\ k < Len(SealNames) /\ m \in 1..8
  BY SMT, NamesLength
<1>2. todo' \in Seq(Cmd) /\ Following(SealNames, m)'
  BY <1>1, TailOfList DEF IInv, Types, Sealing, send
<1>3. Types'
  BY <1>2 DEF IInv, Types, tpm
<1>4. Sealing(m)' /\ caller' = "seal"
  BY <1>2 DEF Sealing, send
<1> QED
  BY <1>1, <1>3, <1>4 DEF IInv, Progress

\* unseal goes on to its next command.
LEMMA UnsealGoesOn ==
  ASSUME IInv, caller \in {"test", "unlock"}, Enrolled, NEW k, NEW m, m = k + 1,
         k \in 1..10, Unsealing(k), send, UNCHANGED <<tpm, digest, blob>>,
         Trial(m)', Opening(m)'
  PROVE  IInv'
<1>1. Len(UnsealNames) \in Nat /\ k < Len(UnsealNames) /\ m \in 1..11
  BY SMT, NamesLength
<1>2. todo' \in Seq(Cmd) /\ Following(UnsealNames, m)'
  BY <1>1, TailOfList DEF IInv, Types, Unsealing, send
<1>3. Types'
  BY <1>2 DEF IInv, Types, tpm
<1>4. Unsealing(m)' /\ caller' \in {"test", "unlock"}
  BY <1>2 DEF Unsealing, send
<1>5. Enrolled'
  BY DEF Enrolled, Policy, BindsPcrs, tpm
<1> QED
  BY <1>1, <1>3, <1>4, <1>5 DEF IInv, Progress

-----------------------------------------------------------------------------
(* The steps. *)

\* A call that is refused is over; the sealed object stays what it is.
LEMMA Refused ==
  ASSUME IInv, NEW why, refuse(why), UNCHANGED <<tpm, digest, blob>>
  PROVE  IInv'
<1>1. todo' = <<>> /\ todo' \in Seq(Cmd)
  BY SMT DEF refuse, end
<1>2. Types'
  BY <1>1 DEF IInv, Types, tpm
<1>3. CASE caller = "unlock"
  <2>1. Enrolled
    BY SMT, <1>3 DEF IInv, Progress
  <2>2. Enrolled' /\ caller' = "idle"
    BY <1>3, <2>1 DEF Enrolled, Policy, BindsPcrs, tpm, refuse, end
  <2> QED
    BY <1>1, <1>2, <2>2 DEF IInv, Progress
<1>4. CASE caller # "unlock"
  BY <1>1, <1>2, <1>4 DEF IInv, Progress, refuse, end
<1> QED
  BY <1>3, <1>4

\* unseal begins, with a sealed object.
LEMMA UnsealBegins ==
  ASSUME IInv, NEW name \in {"test", "unlock"}, begin(name, unseal_commands),
         UNCHANGED tpm, Enrolled'
  PROVE  IInv'
<1>1. todo' \in Seq(Cmd) /\ Following(UnsealNames, 1)'
  <2>1. Len(UnsealNames) \in Nat \ {0}
    BY SMT, NamesLength
  <2> QED
    BY <2>1, NamesOfUnseal, ListBegins DEF begin
<1>2. Types'
  BY <1>1 DEF IInv, Types, tpm
<1>3. Trial(1)' /\ Opening(1)' /\ 1 \in 1..11
  BY SMT DEF Trial, Opening
<1> QED
  BY <1>1, <1>2, <1>3 DEF IInv, Progress, Unsealing, begin

\* A session starts without assertions; the policy session is the second one of unseal.
LEMMA StartSessionStep == ASSUME IInv, StartSession PROVE IInv'
<1> PICK kind \in {"trial", "hmac", "policy"} : start_session(kind)
  BY DEF StartSession
<1>1. Sending(kind) /\ UNCHANGED <<tpm, digest, blob>>
  BY DEF start_session
<1>2. CASE refuse("lost")
  BY <1>1, <1>2, Refused
<1>3. CASE /\ held' = held \cup {kind} /\ session' = NoSession /\ send
           /\ UNCHANGED expected
  <2>1. CASE caller = "seal" /\ \E k \in 1..8 : Sealing(k) /\ SealNames[k] = kind
    <3>1. PICK k \in 1..8 : Sealing(k) /\ SealNames[k] = kind
      BY <2>1
    <3>2. k \in {1, 7}
      BY SMT, <3>1 DEF SealNames
    <3>3. PICK m : m = k + 1
      OBVIOUS
    <3>4. k \in 1..7 /\ Trial(m)'
      BY SMT, <1>3, <3>2, <3>3 DEF Trial
    <3>5. m \in 5..8 => expected' = Policy'
      <4>1. m \in 5..8 => k \in 5..8
        BY SMT, <3>2, <3>3
      <4> QED
        BY <1>1, <1>3, <3>1, <4>1 DEF Sealing, Policy, BindsPcrs
    <3> QED
      BY <1>1, <1>3, <2>1, <3>1, <3>3, <3>4, <3>5, SealGoesOn
  <2>2. CASE /\ caller \in {"test", "unlock"} /\ Enrolled
             /\ \E k \in 1..11 : Unsealing(k) /\ UnsealNames[k] = kind
    <3>1. PICK k \in 1..11 : Unsealing(k) /\ UnsealNames[k] = kind
      BY <2>2
    <3>2. k \in {1, 8} /\ (k = 8 => kind = "policy")
      BY SMT, <3>1 DEF UnsealNames
    <3>3. PICK m : m = k + 1
      OBVIOUS
    <3>4. k \in 1..10 /\ Trial(m)'
      BY SMT, <1>3, <3>2, <3>3 DEF Trial
    <3>5. Opening(m)'
      <4>1. CASE k = 1
        BY SMT, <3>3, <4>1 DEF Opening
      <4>2. CASE k = 8
        <5>1. \A object \in blob : object.owner = owner <=> "parent" \in held
          BY SMT, <3>1, <4>2 DEF Unsealing, Opening
        <5>2. "policy" \in held' /\ ("parent" \in held' <=> "parent" \in held)
          BY <1>3, <3>2, <4>2
        <5>3. \A object \in blob' : object.owner = owner' <=> "parent" \in held'
          BY <1>1, <5>1, <5>2 DEF tpm
        <5> QED
          BY SMT, <1>3, <3>3, <4>2, <5>2, <5>3 DEF Opening
      <4> QED
        BY <3>2, <4>1, <4>2
    <3> QED
      BY <1>1, <1>3, <2>2, <3>1, <3>3, <3>4, <3>5, UnsealGoesOn
  <2> QED
    BY <1>1, <2>1, <2>2, Senders
<1> QED
  BY <1>2, <1>3 DEF start_session

\* The TPM compares the digest with the PCRs in the policy session, which is the
\* second one of unseal.
LEMMA PolicyPcrStep == ASSUME IInv, PolicyPcr PROVE IInv'
<1>1. Sending("policy_pcr") /\ UNCHANGED <<tpm, digest, blob>>
  BY DEF PolicyPcr
<1>2. CASE refuse("policy_pcr")
  BY <1>1, <1>2, Refused
<1>3. CASE /\ "policy" \in held => digest = {current}
           /\ session' = [assertions |-> Append(session.assertions, BindsPcrs),
                          at |-> {counter}]
           /\ send
           /\ UNCHANGED <<held, expected>>
  <2>1. counter \in 0..counter /\ counter' = counter
    BY SMT, <1>1 DEF IInv, Types, tpm
  <2>2. ASSUME session = NoSession
        PROVE  session' = [assertions |-> <<BindsPcrs'>>, at |-> {counter'}]
    <3>1. session.assertions = <<>>
      BY SMT, <2>2 DEF NoSession
    <3>2. Append(session.assertions, BindsPcrs) = <<BindsPcrs>>
      BY SMT, <3>1
    <3> QED
      BY <1>1, <1>3, <2>1, <3>2 DEF BindsPcrs
  <2>3. CASE caller = "seal" /\ \E k \in 1..8 : Sealing(k) /\ SealNames[k] = "policy_pcr"
    <3>1. PICK k \in 1..8 : Sealing(k) /\ SealNames[k] = "policy_pcr"
      BY <2>3
    <3>2. k = 2
      BY SMT, <3>1 DEF SealNames
    <3>3. Asserted(<<BindsPcrs>>)'
      BY <2>1, <2>2, <3>1, <3>2 DEF Asserted, Sealing, Trial
    <3>4. Trial(3)' /\ 3 = 2 + 1 /\ 2 \in 1..7 /\ 3 \notin 5..8
      BY SMT, <3>3 DEF Trial
    <3> QED
      BY <1>1, <1>3, <2>3, <3>1, <3>2, <3>4, SealGoesOn
  <2>4. CASE /\ caller \in {"test", "unlock"} /\ Enrolled
             /\ \E k \in 1..11 : Unsealing(k) /\ UnsealNames[k] = "policy_pcr"
    <3>1. PICK k \in 1..11 : Unsealing(k) /\ UnsealNames[k] = "policy_pcr"
      BY <2>4
    <3>2. k \in {2, 9}
      BY SMT, <3>1 DEF UnsealNames
    <3>3. CASE k = 2
      <4>1. Asserted(<<BindsPcrs>>)'
        BY <2>1, <2>2, <3>1, <3>3 DEF Asserted, Unsealing, Trial
      <4>2. Trial(3)' /\ Opening(3)' /\ 3 = 2 + 1 /\ 2 \in 1..10
        BY SMT, <4>1 DEF Trial, Opening
      <4> QED
        BY <1>1, <1>3, <2>4, <3>1, <3>3, <4>2, UnsealGoesOn
    <3>4. CASE k = 9
      <4>1. /\ session = NoSession /\ "policy" \in held
            /\ \A object \in blob : object.owner = owner <=> "parent" \in held
        BY SMT, <3>1, <3>4 DEF Unsealing, Opening
      <4>2. digest' = {current'}
        BY <1>1, <1>3, <4>1 DEF current, tpm
      <4>3. Checked(<<BindsPcrs>>)'
        BY <2>1, <2>2, <4>1, <4>2 DEF Checked
      <4>4. /\ "policy" \in held'
            /\ \A object \in blob' : object.owner = owner' <=> "parent" \in held'
        BY <1>1, <1>3, <4>1 DEF tpm
      <4>5. Trial(10)' /\ Opening(10)' /\ 10 = 9 + 1 /\ 9 \in 1..10
        BY SMT, <4>3, <4>4 DEF Trial, Opening
      <4> QED
        BY <1>1, <1>3, <2>4, <3>1, <3>4, <4>5, UnsealGoesOn
    <3> QED
      BY <3>2, <3>3, <3>4
  <2> QED
    BY <1>1, <2>3, <2>4, Senders
<1> QED
  BY <1>2, <1>3 DEF PolicyPcr, BindsPcrs

\* Append to a sequence of one.
LEMMA AppendToOne == ASSUME NEW a, NEW b PROVE Append(<<a>>, b) = <<a, b>>
<1> DEFINE S == {a, b}
<1>1. /\ <<a>> \in Seq(S) /\ Len(<<a>>) = 1 /\ <<a>>[1] = a
      /\ <<a, b>> \in Seq(S) /\ Len(<<a, b>>) = 2 /\ <<a, b>>[1] = a /\ <<a, b>>[2] = b
  BY SMT
<1>2. \A s \in Seq(S) :
        /\ Append(s, b) \in Seq(S) /\ Len(Append(s, b)) = Len(s) + 1
        /\ Append(s, b)[Len(s) + 1] = b
        /\ \A i \in 1..Len(s) : Append(s, b)[i] = s[i]
  BY SMT
<1>3. /\ Append(<<a>>, b) \in Seq(S) /\ Len(Append(<<a>>, b)) = 2
      /\ Append(<<a>>, b)[1] = a /\ Append(<<a>>, b)[2] = b
  BY SMT, <1>1, <1>2
<1>4. \A s, t \in Seq(S) :
        Len(s) = 2 /\ Len(t) = 2 /\ s[1] = t[1] /\ s[2] = t[2] => s = t
  BY SMT
<1> QED
  BY <1>1, <1>3, <1>4

\* The second assertion completes the policy, in either of unseal's sessions and in seal's.
LEMMA PolicyCommandCodeStep == ASSUME IInv, PolicyCommandCode PROVE IInv'
<1>1. /\ Sending("policy_command_code") /\ UNCHANGED <<tpm, digest, blob, held, expected>>
      /\ send
  BY DEF PolicyCommandCode
<1>2. Policy' = Policy /\ counter' = counter
  BY <1>1 DEF Policy, BindsPcrs, tpm
<1>3. ASSUME NEW c, session = [assertions |-> <<BindsPcrs>>, at |-> {c}]
      PROVE  session' = [assertions |-> Policy, at |-> {c}]
  <2>1. session' = [assertions |-> Append(<<BindsPcrs>>, [code |-> TRUE, pcrs |-> {}]),
                    at |-> {c}]
    BY SMT, <1>3 DEF PolicyCommandCode
  <2>2. Append(<<BindsPcrs>>, [code |-> TRUE, pcrs |-> {}]) = Policy
    BY AppendToOne DEF Policy
  <2> QED
    BY <2>1, <2>2
<1>4. CASE /\ caller = "seal"
           /\ \E k \in 1..8 : Sealing(k) /\ SealNames[k] = "policy_command_code"
  <2>1. PICK k \in 1..8 : Sealing(k) /\ SealNames[k] = "policy_command_code"
    BY <1>4
  <2>2. k = 3
    BY SMT, <2>1 DEF SealNames
  <2>3. Asserted(Policy)'
    BY <1>2, <1>3, <2>1, <2>2 DEF Asserted, Sealing, Trial
  <2>4. Trial(4)' /\ 4 = 3 + 1 /\ 3 \in 1..7 /\ 4 \notin 5..8
    BY SMT, <2>3 DEF Trial
  <2> QED
    BY <1>1, <1>4, <2>1, <2>2, <2>4, SealGoesOn
<1>5. CASE /\ caller \in {"test", "unlock"} /\ Enrolled
           /\ \E k \in 1..11 : Unsealing(k) /\ UnsealNames[k] = "policy_command_code"
  <2>1. PICK k \in 1..11 : Unsealing(k) /\ UnsealNames[k] = "policy_command_code"
    BY <1>5
  <2>2. k \in {3, 10}
    BY SMT, <2>1 DEF UnsealNames
  <2>3. CASE k = 3
    <3>1. Asserted(Policy)'
      BY <1>2, <1>3, <2>1, <2>3 DEF Asserted, Unsealing, Trial
    <3>2. Trial(4)' /\ Opening(4)' /\ 4 = 3 + 1 /\ 3 \in 1..10
      BY SMT, <3>1 DEF Trial, Opening
    <3> QED
      BY <1>1, <1>5, <2>1, <2>3, <3>2, UnsealGoesOn
  <2>4. CASE k = 10
    <3>1. /\ Checked(<<BindsPcrs>>) /\ "policy" \in held
          /\ \A object \in blob : object.owner = owner <=> "parent" \in held
      BY SMT, <2>1, <2>4 DEF Unsealing, Opening
    <3>2. Checked(Policy)'
      BY <1>1, <1>2, <1>3, <3>1 DEF Checked, current, tpm
    <3>3. /\ "policy" \in held'
          /\ \A object \in blob' : object.owner = owner' <=> "parent" \in held'
      BY <1>1, <3>1 DEF tpm
    <3>4. Trial(11)' /\ Opening(11)' /\ 11 = 10 + 1 /\ 10 \in 1..10
      BY SMT, <3>2, <3>3 DEF Trial, Opening
    <3> QED
      BY <1>1, <1>5, <2>1, <2>4, <3>4, UnsealGoesOn
  <2> QED
    BY <2>2, <2>3, <2>4
<1> QED
  BY <1>1, <1>4, <1>5, Senders

\* seal keeps the policy of its trial session.
LEMMA PolicyGetDigestStep == ASSUME IInv, PolicyGetDigest PROVE IInv'
<1>1. Sending("policy_get_digest") /\ UNCHANGED <<tpm, digest, blob>>
  BY DEF PolicyGetDigest
<1>2. CASE refuse("public")
  BY <1>1, <1>2, Refused
<1>3. CASE expected' = session.assertions /\ send
  <2>1. CASE /\ caller = "seal"
             /\ \E k \in 1..8 : Sealing(k) /\ SealNames[k] = "policy_get_digest"
    <3>1. PICK k \in 1..8 : Sealing(k) /\ SealNames[k] = "policy_get_digest"
      BY <2>1
    <3>2. k = 4
      BY SMT, <3>1 DEF SealNames
    <3>3. PICK c \in 0..counter : session = [assertions |-> Policy, at |-> {c}]
      BY <3>1, <3>2 DEF Sealing, Trial, Asserted
    <3>4. session.assertions = Policy
      BY SMT, <3>3
    <3>5. expected' = Policy'
      BY <1>1, <1>3, <3>4 DEF Policy, BindsPcrs
    <3>6. Trial(5)' /\ 5 = 4 + 1 /\ 4 \in 1..7
      BY SMT DEF Trial
    <3> QED
      BY <1>1, <1>3, <2>1, <3>1, <3>2, <3>5, <3>6, SealGoesOn
  <2>2. CASE /\ caller \in {"test", "unlock"} /\ Enrolled
             /\ \E k \in 1..11 : Unsealing(k) /\ UnsealNames[k] = "policy_get_digest"
    <3>1. PICK k \in 1..11 : Unsealing(k) /\ UnsealNames[k] = "policy_get_digest"
      BY <2>2
    <3>2. k = 4
      BY SMT, <3>1 DEF UnsealNames
    <3>3. Trial(5)' /\ Opening(5)' /\ 5 = 4 + 1 /\ 4 \in 1..10
      BY SMT DEF Trial, Opening
    <3> QED
      BY <1>1, <1>3, <2>2, <3>1, <3>2, <3>3, UnsealGoesOn
  <2> QED
    BY <1>1, <2>1, <2>2, Senders
<1> QED
  BY <1>2, <1>3 DEF PolicyGetDigest

\* Flushing the trial session keeps what was learned from it.
LEMMA FlushContextStep == ASSUME IInv, FlushContext PROVE IInv'
<1>1. /\ Sending("flush_context") /\ send
      /\ UNCHANGED <<tpm, digest, blob, expected>>
  BY DEF FlushContext
<1>2. CASE caller = "seal" /\ \E k \in 1..8 : Sealing(k) /\ SealNames[k] = "flush_context"
  <2>1. PICK k \in 1..8 : Sealing(k) /\ SealNames[k] = "flush_context"
    BY <1>2
  <2>2. k = 5 /\ 5 \in 5..8
    BY SMT, <2>1 DEF SealNames
  <2>3. expected' = Policy'
    BY <1>1, <2>1, <2>2 DEF Sealing, Policy, BindsPcrs
  <2>4. Trial(6)' /\ 6 = 5 + 1 /\ 5 \in 1..7
    BY SMT DEF Trial
  <2> QED
    BY <1>1, <1>2, <2>1, <2>2, <2>3, <2>4, SealGoesOn
<1>3. CASE /\ caller \in {"test", "unlock"} /\ Enrolled
           /\ \E k \in 1..11 : Unsealing(k) /\ UnsealNames[k] = "flush_context"
  <2>1. PICK k \in 1..11 : Unsealing(k) /\ UnsealNames[k] = "flush_context"
    BY <1>3
  <2>2. k = 5
    BY SMT, <2>1 DEF UnsealNames
  <2>3. Trial(6)' /\ Opening(6)' /\ 6 = 5 + 1 /\ 5 \in 1..10
    BY SMT DEF Trial, Opening
  <2> QED
    BY <1>1, <1>3, <2>1, <2>2, <2>3, UnsealGoesOn
<1> QED
  BY <1>1, <1>2, <1>3, Senders

\* unseal goes on only with the parent of the owner that sealed.
LEMMA CreateParentStep == ASSUME IInv, CreateParent PROVE IInv'
<1>1. Sending("create_parent") /\ UNCHANGED <<tpm, digest, blob>>
  BY DEF CreateParent
<1>2. CASE refuse("parent")
  BY <1>1, <1>2, Refused
<1>3. CASE /\ caller # "seal" => \A object \in blob : object.parent = parent_name
           /\ held' = held \cup {"parent"} /\ send /\ UNCHANGED expected
  <2>1. CASE caller = "seal" /\ \E k \in 1..8 : Sealing(k) /\ SealNames[k] = "create_parent"
    <3>1. PICK k \in 1..8 : Sealing(k) /\ SealNames[k] = "create_parent"
      BY <2>1
    <3>2. k = 6 /\ 6 \in 5..8
      BY SMT, <3>1 DEF SealNames
    <3>3. expected' = Policy'
      BY <1>1, <1>3, <3>1, <3>2 DEF Sealing, Policy, BindsPcrs
    <3>4. Trial(7)' /\ 7 = 6 + 1 /\ 6 \in 1..7
      BY SMT DEF Trial
    <3> QED
      BY <1>1, <1>3, <2>1, <3>1, <3>2, <3>3, <3>4, SealGoesOn
  <2>2. CASE /\ caller \in {"test", "unlock"} /\ Enrolled
             /\ \E k \in 1..11 : Unsealing(k) /\ UnsealNames[k] = "create_parent"
    <3>1. PICK k \in 1..11 : Unsealing(k) /\ UnsealNames[k] = "create_parent"
      BY <2>2
    <3>2. k = 6
      BY SMT, <3>1 DEF UnsealNames
    <3>3. \A object \in blob : object.owner = owner
      <4>1. PICK w \in 0..owner :
              blob = {[policy |-> Policy, parent |-> <<w, 0>>, owner |-> w]}
        BY <2>2 DEF Enrolled
      <4>2. caller # "seal"
        BY <2>2
      <4>3. [policy |-> Policy, parent |-> <<w, 0>>, owner |-> w].parent = <<owner, 0>>
        BY <1>3, <4>1, <4>2 DEF parent_name
      <4>4. w = owner
        BY SMT, <4>3
      <4> QED
        BY SMT, <4>1, <4>4
    <3>4. \A object \in blob' : object.owner = owner' <=> "parent" \in held'
      BY <1>1, <1>3, <3>3 DEF tpm
    <3>5. Trial(7)' /\ Opening(7)' /\ 7 = 6 + 1 /\ 6 \in 1..10
      BY SMT, <3>4 DEF Trial, Opening
    <3> QED
      BY <1>1, <1>3, <2>2, <3>1, <3>2, <3>5, UnsealGoesOn
  <2> QED
    BY <1>1, <2>1, <2>2, Senders
<1> QED
  BY <1>2, <1>3 DEF CreateParent

\* seal ends with an object under the policy of the bound state.
LEMMA CreateStep == ASSUME IInv, Create PROVE IInv'
<1>1. Sending("create") /\ UNCHANGED <<tpm, digest>>
  BY DEF Create
<1>2. CASE refuse("lost") /\ UNCHANGED blob
  BY <1>1, <1>2, Refused
<1>3. CASE /\ blob' = {[policy |-> expected, parent |-> parent_name, owner |-> owner]}
           /\ begin("test", unseal_commands)
  <2>1. CASE caller = "seal" /\ \E k \in 1..8 : Sealing(k) /\ SealNames[k] = "create"
    <3>1. PICK k \in 1..8 : Sealing(k) /\ SealNames[k] = "create"
      BY <2>1
    <3>2. k = 8 /\ 8 \in 5..8
      BY SMT, <3>1 DEF SealNames
    <3>3. expected = Policy'
      BY <1>1, <3>1, <3>2 DEF Sealing, Policy, BindsPcrs
    <3>4. owner \in 0..owner
      BY SMT DEF IInv, Types
    <3>5. Enrolled'
      BY <1>1, <1>3, <3>3, <3>4 DEF Enrolled, parent_name, tpm
    <3> QED
      BY <1>1, <1>3, <3>5, UnsealBegins
  <2>2. \A k \in 1..11 : UnsealNames[k] # "create"
    BY SMT DEF UnsealNames
  <2> QED
    BY <1>1, <2>1, <2>2, Senders
<1> QED
  BY <1>2, <1>3 DEF Create

\* Loading the object concerns nothing else.
LEMMA LoadStep == ASSUME IInv, Load PROVE IInv'
<1>1. Sending("load") /\ UNCHANGED <<tpm, digest, blob>>
  BY DEF Load
<1>2. CASE refuse("lost") \/ refuse("load")
  BY <1>1, <1>2, Refused
<1>3. CASE held' = held \cup {"object"} /\ send
  <2>1. CASE /\ caller \in {"test", "unlock"} /\ Enrolled
             /\ \E k \in 1..11 : Unsealing(k) /\ UnsealNames[k] = "load"
    <3>1. PICK k \in 1..11 : Unsealing(k) /\ UnsealNames[k] = "load"
      BY <2>1
    <3>2. k = 7
      BY SMT, <3>1 DEF UnsealNames
    <3>3. \A object \in blob : object.owner = owner <=> "parent" \in held
      BY SMT, <3>1, <3>2 DEF Unsealing, Opening
    <3>4. \A object \in blob' : object.owner = owner' <=> "parent" \in held'
      BY <1>1, <1>3, <3>3 DEF tpm
    <3>5. Trial(8)' /\ Opening(8)' /\ 8 = 7 + 1 /\ 7 \in 1..10
      BY SMT, <3>4 DEF Trial, Opening
    <3> QED
      BY <1>1, <1>3, <2>1, <3>1, <3>2, <3>5, UnsealGoesOn
  <2>2. \A k \in 1..8 : SealNames[k] # "load"
    BY SMT DEF SealNames
  <2> QED
    BY <1>1, <2>1, <2>2, Senders
<1> QED
  BY <1>2, <1>3 DEF Load

\* The end of unseal leaves the enrollment as it is.
LEMMA UnsealStep == ASSUME IInv, Unseal PROVE IInv'
<1>1. Sending("unseal") /\ UNCHANGED <<tpm, digest, blob>>
  BY DEF Unseal
<1>2. CASE refuse("lost") \/ refuse("pcr_changed")
  BY <1>1, <1>2, Refused
<1>3. CASE end("idle", "none")
  <2>1. \A k \in 1..8 : SealNames[k] # "unseal"
    BY SMT DEF SealNames
  <2>2. Enrolled
    BY <1>1, <2>1, Senders
  <2>3. Enrolled'
    BY <1>1, <2>2 DEF Enrolled, Policy, BindsPcrs, tpm
  <2>4. todo' = <<>> /\ todo' \in Seq(Cmd) /\ caller' = "idle"
    BY SMT, <1>3 DEF end
  <2> QED
    BY <1>1, <2>3, <2>4 DEF IInv, Types, Progress, tpm
<1> QED
  BY <1>2, <1>3 DEF Unseal

\* An unlock begins with the object of the enrollment.
LEMMA UnlockStep == ASSUME IInv, Unlock PROVE IInv'
<1>1. caller = "idle" /\ UNCHANGED <<tpm, digest, blob>> /\ begin("unlock", unseal_commands)
  BY DEF Unlock
<1>2. Enrolled
  BY SMT, <1>1 DEF IInv, Progress
<1>3. Enrolled'
  BY <1>1, <1>2 DEF Enrolled, Policy, BindsPcrs, tpm
<1> QED
  BY <1>1, <1>3, UnsealBegins

\* The values read so far and the one that is read now are what the selected PCRs
\* hold, unless the update counter changed between the reads.
LEMMA OneSnapshot ==
  ASSUME IInv, NEW k, Reading(k), ~snapshot_changed,
         NEW values, values = Append(read.values, pcr[Head(todo).pcr])
  PROVE  /\ values \in Seq(Nat) /\ Len(values) = k
         /\ \A i \in 1..k : values[i] = pcr[selection[i]]
<1>1. /\ k \in 1..Len(selection) /\ Len(todo) = Len(selection) + 1 - k
      /\ \A i \in 1..Len(todo) :
           todo[i] = [name |-> "pcr_read", pcr |-> selection[i + k - 1]]
      /\ read.values \in Seq(Nat) /\ Len(read.values) = k - 1
  BY SMT DEF Reading
<1>2. selection \in Seq(PCRS) /\ Len(selection) \in Nat /\ selection[k] \in PCRS
  BY SMT, <1>1, SelectionIsList
<1>3. 1 \in 1..Len(todo) /\ Head(todo) = todo[1] /\ 1 + k - 1 = k
  BY SMT, <1>1, <1>2 DEF IInv, Types
<1>4. Head(todo).pcr = selection[k]
  <2>1. Head(todo) = [name |-> "pcr_read", pcr |-> selection[k]]
    BY <1>1, <1>3
  <2> QED
    BY SMT, <2>1
<1>5. pcr[selection[k]] \in Nat
  BY <1>2 DEF IInv, Types
<1>6. values = Append(read.values, pcr[selection[k]])
  BY <1>4
<1>7. /\ values \in Seq(Nat) /\ Len(values) = k /\ values[k] = pcr[selection[k]]
      /\ \A i \in 1..(k - 1) : values[i] = read.values[i]
  BY SMT, <1>1, <1>2, <1>5, <1>6
<1>8. \A i \in 1..(k - 1) : read.values[i] = pcr[selection[i]]
  <2>1. CASE read.at = {}
    BY SMT, <2>1 DEF Reading
  <2>2. CASE read.at = {counter}
    BY <2>2 DEF Reading
  <2> QED
    BY <2>1, <2>2 DEF snapshot_changed
<1>9. \A i \in 1..k : i = k \/ i \in 1..(k - 1)
  BY SMT, <1>1, <1>2
<1> QED
  BY <1>7, <1>8, <1>9

\* A read continues the snapshot, completes it or refuses.
LEMMA PcrReadStep == ASSUME IInv, PcrRead PROVE IInv'
<1> DEFINE values == Append(read.values, pcr[Head(todo).pcr])
<1>1. Sending("pcr_read") /\ UNCHANGED <<tpm, blob>>
  BY DEF PcrRead
<1>2. PICK k \in 1..Len(selection) : caller = "digest" /\ Reading(k)
  <2>1. /\ \A k \in 1..8 : SealNames[k] # "pcr_read"
        /\ \A k \in 1..11 : UnsealNames[k] # "pcr_read"
    BY SMT DEF SealNames, UnsealNames
  <2> QED
    BY <1>1, <2>1, Senders
<1>3. CASE refuse("snapshot") /\ UNCHANGED digest
  BY <1>1, <1>3, Refused
<1>4. CASE begin("seal", seal_commands)
  <2>1. todo' \in Seq(Cmd) /\ Following(SealNames, 1)'
    <3>1. Len(SealNames) \in Nat \ {0}
      BY SMT, NamesLength
    <3> QED
      BY <1>4, <3>1, NamesOfSeal, ListBegins DEF begin
  <2>2. Types'
    BY <1>1, <2>1 DEF IInv, Types, tpm
  <2>3. Trial(1)' /\ 1 \in 1..8 /\ 1 \notin 5..8
    BY SMT DEF Trial
  <2> QED
    BY <1>4, <2>1, <2>2, <2>3 DEF IInv, Progress, Sealing, begin
<1>5. CASE /\ ~snapshot_changed /\ Len(todo) # 1 /\ send
           /\ read' = [values |-> values, at |-> {counter}]
  <2>1. /\ values \in Seq(Nat) /\ Len(values) = k
        /\ \A i \in 1..k : values[i] = pcr[selection[i]]
    <3> HIDE DEF values
    <3>1. \A v : v = Append(read.values, pcr[Head(todo).pcr]) =>
            /\ v \in Seq(Nat) /\ Len(v) = k
            /\ \A i \in 1..k : v[i] = pcr[selection[i]]
      BY <1>2, <1>5, OneSnapshot
    <3>2. values = Append(read.values, pcr[Head(todo).pcr])
      BY DEF values
    <3> QED
      BY <3>1, <3>2
  <2> HIDE DEF values
  <2>2. /\ Len(todo) = Len(selection) + 1 - k /\ Len(selection) \in Nat
        /\ \A i \in 1..Len(todo) :
             todo[i] = [name |-> "pcr_read", pcr |-> selection[i + k - 1]]
    BY SMT, <1>2, SelectionIsList DEF Reading
  <2>3. /\ todo' \in Seq(Cmd) /\ Len(todo') = Len(todo) - 1
        /\ \A i \in 1..Len(todo') : todo'[i] = todo[i + 1]
    BY SMT, <1>1, <1>5 DEF send, Sending, IInv, Types
  <2>4. k + 1 \in 1..Len(selection) /\ Len(todo') = Len(selection) + 1 - (k + 1)
    BY SMT, <1>5, <2>2, <2>3
  <2>5. \A i \in 1..Len(todo') :
          todo'[i] = [name |-> "pcr_read", pcr |-> selection[i + (k + 1) - 1]]
    <3>1. \A i \in 1..Len(todo') :
            i + 1 \in 1..Len(todo) /\ (i + 1) + k - 1 = i + (k + 1) - 1
      BY SMT, <2>2, <2>3
    <3> QED
      BY <2>2, <2>3, <3>1
  <2>6. /\ read'.values = values /\ read'.at = {counter}
        /\ read' \in [values : Seq(Nat), at : SUBSET (0..counter)]
    BY SMT, <1>5, <2>1 DEF IInv, Types
  <2>7. (k + 1) - 1 = k
    BY SMT
  <2>8. Reading(k + 1)'
    <3>1. read'.at # {}
      BY <2>6
    <3> QED
      BY <1>1, <2>1, <2>4, <2>5, <2>6, <2>7, <3>1 DEF Reading, tpm
  <2>9. caller' = "digest" /\ Types'
    BY <1>1, <1>2, <1>5, <2>3 DEF send, IInv, Types, tpm
  <2> QED
    BY <2>4, <2>8, <2>9 DEF IInv, Progress
<1> QED
  BY <1>3, <1>4, <1>5 DEF PcrRead

\* The invariant speaks of the selected PCRs only: a step that changes others, and
\* nothing else, keeps it.
LEMMA OtherPcrs ==
  ASSUME IInv, UNCHANGED <<counter, owner, call, digest, blob>>,
         pcr' \in [PCRS -> Nat], \A i \in MASK : pcr'[i] = pcr[i]
  PROVE  IInv'
<1>1. /\ UNCHANGED <<counter, owner, caller, todo, held, session, expected>>
      /\ UNCHANGED <<read, digest, blob>>
  BY DEF call
<1>2. DOMAIN selection = 1..Len(selection)
      /\ \A i \in 1..Len(selection) : selection[i] \in MASK
  BY SMT, SelectionIsList
<1>3. \A i \in 1..Len(selection) : pcr'[selection[i]] = pcr[selection[i]]
  BY <1>2
<1>4. current' = current
  BY <1>2, <1>3 DEF current
<1>5. Types' /\ (Enrolled => Enrolled')
  BY <1>1 DEF IInv, Types, Enrolled, Policy, BindsPcrs
<1>6. ASSUME NEW k, Trial(k) PROVE Trial(k)'
  BY <1>1, <1>6 DEF Trial, Asserted, Policy, BindsPcrs
<1>7. ASSUME NEW k, Opening(k) PROVE Opening(k)'
  BY <1>1, <1>4, <1>7 DEF Opening, Checked, Policy, BindsPcrs
<1>8. ASSUME NEW k, Sealing(k) PROVE Sealing(k)'
  BY <1>1, <1>6, <1>8 DEF Sealing, Following, Policy, BindsPcrs
<1>9. ASSUME NEW k, Unsealing(k) PROVE Unsealing(k)'
  BY <1>1, <1>6, <1>7, <1>9 DEF Unsealing, Following
<1>10. ASSUME NEW k, Reading(k) PROVE Reading(k)'
  <2>1. k \in 1..Len(selection)
    BY <1>10 DEF Reading
  <2>2. \A i \in 1..(k - 1) : i \in 1..Len(selection)
    BY SMT, <2>1, SelectionIsList
  <2> QED
    BY <1>1, <1>3, <1>10, <2>2 DEF Reading
<1> QED
  BY <1>1, <1>5, <1>8, <1>9, <1>10 DEF IInv, Progress

\* A PCR that is not counted is not selected.
LEMMA UncountedStep ==
  ASSUME IInv, NEW i \in UNCOUNTED \cap PCRS, Extend(i) PROVE IInv'
<1>1. /\ pcr' = [pcr EXCEPT ![i] = @ + 1]
      /\ UNCHANGED <<counter, owner, call, digest, blob>>
  BY DEF Extend
<1>2. \A n \in Nat : n + 1 \in Nat
  BY SMT
<1>3. pcr' \in [PCRS -> Nat]
  BY <1>1, <1>2 DEF IInv, Types
<1>4. \A j \in MASK : j \in PCRS /\ j # i
  BY CountedAssumption, MaskAssumption
<1>5. \A j \in MASK : pcr'[j] = pcr[j]
  BY <1>1, <1>4 DEF IInv, Types
<1> QED
  BY <1>1, <1>3, <1>5, OtherPcrs

\* Any other PCR that is extended changes the update counter: what was read or
\* checked before is not at the counter any more.
LEMMA CountedStep ==
  ASSUME IInv, NEW i \in PCRS \ UNCOUNTED, Extend(i) PROVE IInv'
<1>1. /\ pcr' = [pcr EXCEPT ![i] = @ + 1] /\ counter' = counter + 1
      /\ UNCHANGED <<owner, call, digest, blob>>
  BY DEF Extend
<1>2. /\ \A n \in Nat : n + 1 \in Nat
      /\ \A c \in 0..counter : c \in 0..counter' /\ c # counter'
  BY SMT, <1>1 DEF IInv, Types
<1>3. Types'
  BY <1>1, <1>2 DEF IInv, Types, call
<1>4. Policy' = Policy /\ BindsPcrs' = BindsPcrs /\ (Enrolled => Enrolled')
  BY <1>1 DEF Enrolled, Policy, BindsPcrs
<1>5. /\ \A a : Asserted(a) =>
           \E c \in 0..counter' : session' = [assertions |-> a, at |-> {c}]
      /\ \A a : Checked(a) =>
           \E c \in 0..counter' : session' = [assertions |-> a, at |-> {c}] /\ c # counter'
  BY <1>1, <1>2 DEF Asserted, Checked, call
<1>6. ASSUME NEW k, Trial(k) PROVE Trial(k)'
  BY <1>1, <1>4, <1>5, <1>6 DEF Trial, Asserted, call
<1>7. ASSUME NEW k, Opening(k) PROVE Opening(k)'
  BY <1>1, <1>4, <1>5, <1>7 DEF Opening, Checked, call
<1>8. ASSUME NEW k, Sealing(k) PROVE Sealing(k)'
  BY <1>1, <1>4, <1>6, <1>8 DEF Sealing, Following, call
<1>9. ASSUME NEW k, Unsealing(k) PROVE Unsealing(k)'
  BY <1>1, <1>6, <1>7, <1>9 DEF Unsealing, Following, call
<1>10. ASSUME NEW k, Reading(k) PROVE Reading(k)'
  <2>1. read \in [values : Seq(Nat), at : SUBSET (0..counter)]
    BY <1>10 DEF Reading
  <2>2. read.at \subseteq 0..counter
    BY SMT, <2>1
  <2>3. read \in [values : Seq(Nat), at : SUBSET (0..counter')] /\ read.at # {counter'}
    <3>1. read.at \subseteq 0..counter' /\ read.at # {counter'}
      BY <1>2, <2>2
    <3> QED
      BY SMT, <2>1, <3>1
  <2> QED
    BY <1>1, <1>10, <2>3 DEF Reading, call
<1> QED
  BY <1>1, <1>3, <1>4, <1>8, <1>9, <1>10 DEF IInv, Progress, call

\* A clear changes the owner, and the parent goes with it.
LEMMA ClearStep == ASSUME IInv, Clear PROVE IInv'
<1>1. /\ owner' = owner + 1 /\ held' = held \ {"parent", "object"}
      /\ UNCHANGED <<pcr, counter, caller, todo, session, expected, read, digest, blob>>
  BY DEF Clear
<1>2. owner' \in Nat /\ \A w \in 0..owner : w \in 0..owner' /\ w # owner'
  BY SMT, <1>1 DEF IInv, Types
<1>3. Types'
  BY <1>1, <1>2 DEF IInv, Types
<1>4. Policy' = Policy /\ BindsPcrs' = BindsPcrs /\ (Enrolled => Enrolled')
  BY <1>1, <1>2 DEF Enrolled, Policy, BindsPcrs
<1>5. ASSUME NEW k, Trial(k) PROVE Trial(k)'
  BY <1>1, <1>4, <1>5 DEF Trial, Asserted
<1>6. ASSUME NEW k, Opening(k), Enrolled PROVE Opening(k)'
  <2>1. PICK w \in 0..owner :
          blob = {[policy |-> Policy, parent |-> <<w, 0>>, owner |-> w]}
    BY <1>6 DEF Enrolled
  <2>2. \A object \in blob : object.owner = w
    BY SMT, <2>1
  <2>3. \A object \in blob' : object.owner = owner' <=> "parent" \in held'
    BY <1>1, <1>2, <2>2
  <2>4. "policy" \in held => "policy" \in held'
    BY <1>1
  <2> QED
    BY <1>1, <1>4, <1>6, <2>3, <2>4 DEF Opening, Checked, current
<1>7. ASSUME NEW k, Sealing(k) PROVE Sealing(k)'
  BY <1>1, <1>4, <1>5, <1>7 DEF Sealing, Following
<1>8. ASSUME NEW k, Unsealing(k), Enrolled PROVE Unsealing(k)'
  BY <1>1, <1>5, <1>6, <1>8 DEF Unsealing, Following
<1>9. ASSUME NEW k, Reading(k) PROVE Reading(k)'
  BY <1>1, <1>9 DEF Reading
<1> QED
  BY <1>1, <1>3, <1>4, <1>7, <1>8, <1>9 DEF IInv, Progress

\* A restart ends the call; the object and the digest are on disk.
LEMMA RestartStep == ASSUME IInv, Restart PROVE IInv'
<1>1. /\ pcr' = [i \in PCRS |-> 0] /\ counter' = 0 /\ UNCHANGED <<owner, digest, blob>>
      /\ end(IF caller \in {"unlock", "idle"} THEN "idle" ELSE "failed", "none")
  BY DEF Restart
<1>2. 0 \in Nat /\ todo' = <<>> /\ todo' \in Seq(Cmd)
  BY SMT, <1>1 DEF end
<1>3. Types'
  BY <1>1, <1>2 DEF IInv, Types
<1>4. caller \in {"unlock", "idle"} => Enrolled
  BY SMT DEF IInv, Progress
<1>5. Enrolled => Enrolled'
  BY <1>1 DEF Enrolled, Policy, BindsPcrs
<1> QED
  BY <1>1, <1>2, <1>3, <1>4, <1>5 DEF IInv, Progress, end

\* pcr_digest begins with the first selected PCR.
LEMMA InitIInv == Init => IInv
<1> SUFFICES ASSUME Init PROVE IInv
  OBVIOUS
<1>1. /\ DOMAIN selection = 1..Len(selection) /\ Len(selection) \in Nat
      /\ 1 \in 1..Len(selection)
      /\ \A i \in 1..Len(selection) : selection[i] \in PCRS
  BY SMT, SelectionIsList
<1>2. todo = [i \in 1..Len(selection) |-> [name |-> "pcr_read", pcr |-> selection[i]]]
  BY <1>1 DEF Init, pcr_digest_commands
<1>3. \A i \in 1..Len(selection) : [name |-> "pcr_read", pcr |-> selection[i]] \in Cmd
  BY SMT, <1>1 DEF Cmd, Names
<1>4. todo \in Seq(Cmd) /\ Len(todo) = Len(selection)
  BY SMT, <1>1, <1>2, <1>3
<1>5. \A i \in 1..Len(todo) :
        todo[i] = [name |-> "pcr_read", pcr |-> selection[i + 1 - 1]]
  <2>1. \A i \in 1..Len(selection) : i + 1 - 1 = i
    BY SMT
  <2> QED
    BY <1>2, <1>4, <2>1
<1>6. 0 \in Nat /\ Len(selection) + 1 - 1 = Len(selection) /\ 1..(1 - 1) = {}
  BY SMT, <1>1
<1>7. /\ read \in [values : Seq(Nat), at : SUBSET (0..counter)]
      /\ Len(read.values) = 1 - 1 /\ read.at = {}
  BY SMT DEF Init, NoRead
<1>8. Reading(1)
  BY <1>1, <1>4, <1>5, <1>6, <1>7 DEF Reading
<1>9. Types
  BY <1>4, <1>6 DEF Init, Types
<1> QED
  BY <1>1, <1>8, <1>9 DEF Init, IInv, Progress

\* Every step keeps the invariant.
LEMMA StepIInv == IInv /\ [Next]_vars => IInv'
<1> SUFFICES ASSUME IInv, [Next]_vars PROVE IInv'
  OBVIOUS
<1>1. CASE CommandFails
  BY <1>1, Refused DEF CommandFails
<1>2. CASE UNCHANGED vars
  <2>1. pcr' = pcr /\ UNCHANGED <<counter, owner, call, digest, blob>>
    BY <1>2 DEF vars, tpm
  <2> QED
    BY <2>1, OtherPcrs DEF IInv, Types
<1>3. ASSUME NEW i \in PCRS, Extend(i) PROVE IInv'
  BY <1>3, CountedStep, UncountedStep
<1> QED
  BY <1>1, <1>2, <1>3, PcrReadStep, StartSessionStep, PolicyPcrStep, PolicyCommandCodeStep,
     PolicyGetDigestStep, FlushContextStep, CreateParentStep, CreateStep, LoadStep,
     UnsealStep, UnlockStep, ClearStep, RestartStep
     DEF Next

\* The invariant holds in every reachable state.
LEMMA AlwaysIInv == Spec => []IInv
  BY InitIInv, StepIInv, PTL DEF Spec

-----------------------------------------------------------------------------
(* The theorems. *)

\* Only the last read of pcr_digest sets the digest.
LEMMA WhoSetsDigest == ASSUME Next, digest' # digest PROVE PcrRead
  BY DEF Next, StartSession, start_session, PolicyPcr, PolicyCommandCode,
     PolicyGetDigest, FlushContext, CreateParent, Create, Load, Unseal, Unlock,
     Extend, CommandFails, Clear, Restart

\* The comparison of update counters in pcr_digest is enough: whatever is extended
\* between its reads, and for any selection of PCRs, the digest that an enrollment
\* binds to is a state that all selected PCRs were in at once.
THEOREM DigestIsASnapshot == Spec => DigestIsOneState
<1>1. ASSUME IInv, [Next]_vars
      PROVE  [digest' # digest => digest' = {current}]_vars
  <2> SUFFICES ASSUME Next, digest' # digest PROVE digest' = {current}
    BY <1>1
  <2>1. PcrRead
    BY WhoSetsDigest
  <2>2. /\ Sending("pcr_read") /\ ~snapshot_changed /\ Len(todo) = 1
        /\ digest' = {Append(read.values, pcr[Head(todo).pcr])}
    BY <2>1 DEF PcrRead
  <2>3. PICK k \in 1..Len(selection) : Reading(k)
    <3>1. /\ \A k \in 1..8 : SealNames[k] # "pcr_read"
          /\ \A k \in 1..11 : UnsealNames[k] # "pcr_read"
      BY SMT DEF SealNames, UnsealNames
    <3> QED
      BY <1>1, <2>2, <3>1, Senders
  <2>4. PICK values : values = Append(read.values, pcr[Head(todo).pcr])
    OBVIOUS
  <2>5. /\ values \in Seq(Nat) /\ Len(values) = k
        /\ \A i \in 1..k : values[i] = pcr[selection[i]]
    <3>1. \A v : v = Append(read.values, pcr[Head(todo).pcr]) =>
            /\ v \in Seq(Nat) /\ Len(v) = k
            /\ \A i \in 1..k : v[i] = pcr[selection[i]]
      BY <1>1, <2>2, <2>3, OneSnapshot
    <3> QED
      BY <2>4, <3>1
  <2>6. DOMAIN selection = 1..Len(selection) /\ Len(selection) \in Nat
    BY SMT, SelectionIsList
  <2>7. k = Len(selection)
    <3>1. 1 = Len(selection) + 1 - k
      BY <2>2, <2>3 DEF Reading
    <3>2. \A n \in Nat : \A j \in 1..n : 1 = n + 1 - j => j = n
      BY SMT
    <3> QED
      BY <2>6, <3>1, <3>2
  <2>8. values = [i \in 1..k |-> pcr[selection[i]]]
    <3>1. \A s \in Seq(Nat) : s = [i \in 1..Len(s) |-> s[i]]
      BY SMT
    <3> QED
      BY <2>5, <3>1
  <2> QED
    BY <2>2, <2>4, <2>6, <2>7, <2>8 DEF current
<1> QED
  BY <1>1, AlwaysIInv, PTL DEF Spec, DigestIsOneState

\* The number of restarts, clears and failed commands is a number.
Counted == events \in Nat

\* It always is.
LEMMA AlwaysCounted == Spec => []Counted
<1>1. Init => Counted
  BY SMT DEF Init, Counted
<1>2. ASSUME Counted, [Next]_vars PROVE Counted'
  <2>1. events' = events \/ events' = events + 1
    BY <1>2 DEF Next, vars, call, StartSession, start_session, PcrRead, PolicyPcr,
       PolicyCommandCode, PolicyGetDigest, FlushContext, CreateParent, Create, Load,
       Unseal, Unlock, Extend, CommandFails, Clear, Restart, event
  <2> QED
    BY SMT, <1>2, <2>1 DEF Counted
<1> QED
  BY <1>1, <1>2, PTL DEF Spec

\* The owner of the sealed object.
LEMMA SealedObject ==
  ASSUME Enrolled
  PROVE  \E w \in 0..owner :
           /\ blob # {} /\ {object.owner : object \in blob} = {w}
           /\ \A object \in blob : /\ object.policy = Policy /\ object.owner = w
                                   /\ object.parent = <<w, 0>>
<1>1. PICK w \in 0..owner :
        blob = {[policy |-> Policy, parent |-> <<w, 0>>, owner |-> w]}
  BY DEF Enrolled
<1>2. \A object \in blob :
        object.policy = Policy /\ object.owner = w /\ object.parent = <<w, 0>>
  BY SMT, <1>1
<1>3. blob # {}
  BY <1>1
<1> QED
  BY <1>2, <1>3

\* A step that hands out the seed is the last one of unseal.
LEMMA WhoReleases ==
  ASSUME IInv, Counted, Next, Sending("unseal"), caller' = "idle",
         refusal' = "none", owner' = owner, counter' = counter, events' = events
  PROVE  Unseal
<1>1. \A name \in Names : Sending(name) => name = "unseal"
  BY DEF Sending
<1>2. caller # "idle"
  <2>1. \A k \in 1..8 : SealNames[k] # "unseal"
    BY SMT DEF SealNames
  <2> QED
    BY <2>1, Senders
<1>3. ASSUME NEW i \in PCRS, Extend(i) PROVE FALSE
  BY <1>2, <1>3 DEF Extend, call
<1>4. ~event /\ owner' # owner + 1
  BY SMT DEF event, Counted, IInv, Types
<1>5. /\ "unseal" # "pcr_read" /\ "unseal" # "policy_pcr"
      /\ "unseal" # "policy_command_code" /\ "unseal" # "policy_get_digest"
      /\ "unseal" # "flush_context" /\ "unseal" # "create_parent"
      /\ "unseal" # "create" /\ "unseal" # "load"
      /\ \A kind \in {"trial", "hmac", "policy"} : kind # "unseal"
  OBVIOUS
<1> QED
  BY <1>2, <1>3, <1>4, <1>5 DEF Next, Sending, PcrRead, StartSession, start_session,
     PolicyPcr, PolicyCommandCode, PolicyGetDigest, FlushContext, CreateParent,
     Create, Load, Unlock, CommandFails, Clear, Restart

\* unseal in its last step.
LEMMA LastCommand ==
  ASSUME IInv, Sending("unseal")
  PROVE  /\ Enrolled /\ Checked(Policy)
         /\ \A object \in blob : object.owner = owner <=> "parent" \in held
<1>1. \A k \in 1..8 : SealNames[k] # "unseal"
  BY SMT DEF SealNames
<1>2. PICK k \in 1..11 : Enrolled /\ Unsealing(k) /\ UnsealNames[k] = "unseal"
  BY <1>1, Senders
<1>3. k = 11
  BY SMT, <1>2 DEF UnsealNames
<1> QED
  BY SMT, <1>2, <1>3 DEF Unsealing, Opening

\* For any PCRs, however they are extended, cleared and restarted in between: unseal
\* hands out the seed only under the owner that sealed it, while the PCRs are in the
\* state of the enrollment.
THEOREM ReleaseNeedsBoundState == Spec => ReleasedInBoundState
<1>1. ASSUME IInv, Counted, [Next]_vars
      PROVE  [Sending("unseal") /\ caller' = "idle" /\ refusal' = "none"
                /\ pcr' = pcr /\ owner' = owner /\ counter' = counter
                /\ events' = events
              => digest = {current} /\ owner \in {object.owner : object \in blob}]_vars
  <2> SUFFICES ASSUME Next, Sending("unseal"), caller' = "idle", refusal' = "none",
                      owner' = owner, counter' = counter, events' = events
               PROVE  digest = {current} /\ owner \in {object.owner : object \in blob}
    BY <1>1
  <2>1. Unseal
    BY <1>1, WhoReleases
  <2>2. ~lost /\ ~(session.at # {} /\ session.at # {counter})
    BY <2>1 DEF Unseal, refuse, end
  <2>3. /\ Enrolled /\ Checked(Policy)
        /\ \A object \in blob : object.owner = owner <=> "parent" \in held
    BY <1>1, LastCommand
  <2>4. digest = {current}
    <3>1. PICK c \in 0..counter : /\ session = [assertions |-> Policy, at |-> {c}]
                                  /\ c = counter => digest = {current}
      BY <2>3 DEF Checked
    <3>2. session.at = {c}
      BY SMT, <3>1
    <3> QED
      BY <2>2, <3>1, <3>2
  <2>5. owner \in {object.owner : object \in blob}
    BY <2>2, <2>3, SealedObject DEF lost
  <2> QED
    BY <2>4, <2>5
<1> QED
  BY <1>1, AlwaysIInv, AlwaysCounted, PTL DEF Spec, ReleasedInBoundState

\* After create_parent, a parent that is lost was cleared away.
LEMMA LostMeansCleared ==
  ASSUME Enrolled, NEW k, k \in 7..11, Unsealing(k), lost
  PROVE  owner \notin {object.owner : object \in blob}
<1>1. \A object \in blob : object.owner = owner <=> "parent" \in held
  BY DEF Unsealing, Opening
<1> QED
  BY <1>1 DEF lost

\* A refusal of unseal tells of a change, whatever the PCRs and the order of events:
\* the policy of seal is the policy of unseal, and no refusal comes from the adapter.
THEOREM RefusalsAreJustified == Spec => RefusalMeansChange
<1>1. ASSUME IInv, [Next]_vars
      PROVE  [(caller \in {"test", "unlock"}) /\ caller' # caller /\ refusal' # "none"
              => Justified(refusal')]_vars
  <2> SUFFICES ASSUME Next, caller \in {"test", "unlock"}, caller' # caller,
                      refusal' # "none"
               PROVE  Justified(refusal')
    BY <1>1
  <2>1. ASSUME NEW name, Sending(name)
        PROVE  Enrolled /\ \E k \in 1..11 : Unsealing(k) /\ UnsealNames[k] = name
    BY <1>1, <2>1, Senders
  <2>2. ~send
    BY DEF send
  <2>3. ASSUME NEW why, refuse(why) PROVE refusal' = why
    BY <2>3 DEF refuse, end
  <2>4. CASE PcrRead \/ Create
    <3>1. \A k \in 1..11 : UnsealNames[k] # "pcr_read" /\ UnsealNames[k] # "create"
      BY SMT DEF UnsealNames
    <3> QED
      BY <2>1, <2>4, <3>1 DEF PcrRead, Create
  <2>5. CASE StartSession
    <3>1. PICK kind \in {"trial", "hmac", "policy"} : start_session(kind)
      BY <2>5 DEF StartSession
    <3>2. Sending(kind) /\ kind # "trial" /\ lost /\ refuse("lost")
      BY <2>2, <3>1 DEF start_session
    <3>3. PICK k \in 1..11 : Enrolled /\ Unsealing(k) /\ UnsealNames[k] = kind
      BY <2>1, <3>2
    <3>4. k \in 7..11
      BY SMT, <3>2, <3>3 DEF UnsealNames
    <3> QED
      BY <2>3, <3>2, <3>3, <3>4, LostMeansCleared DEF Justified
  <2>6. CASE PolicyPcr
    BY <2>2, <2>3, <2>6 DEF PolicyPcr, Justified
  <2>7. CASE PolicyGetDigest
    <3>1. Sending("policy_get_digest") /\ ~validate_public(session.assertions)
      BY <2>2, <2>7 DEF PolicyGetDigest
    <3>2. PICK k \in 1..11 :
            Enrolled /\ Unsealing(k) /\ UnsealNames[k] = "policy_get_digest"
      BY <2>1, <3>1
    <3>3. k = 4
      BY SMT, <3>2 DEF UnsealNames
    <3>4. PICK c \in 0..counter : session = [assertions |-> Policy, at |-> {c}]
      BY <3>2, <3>3 DEF Unsealing, Trial, Asserted
    <3>5. session.assertions = Policy
      BY SMT, <3>4
    <3> QED
      BY <3>1, <3>2, <3>5, SealedObject DEF validate_public
  <2>8. CASE CreateParent
    <3>1. /\ Sending("create_parent") /\ refuse("parent")
          /\ \E object \in blob : object.parent # parent_name
      BY <2>2, <2>8 DEF CreateParent
    <3>2. Enrolled
      BY <2>1, <3>1
    <3>3. owner \notin {object.owner : object \in blob}
      BY <3>1, <3>2, SealedObject DEF parent_name
    <3> QED
      BY <2>3, <3>1, <3>3 DEF Justified
  <2>9. CASE Load
    <3>1. Sending("load") /\ \/ lost /\ refuse("lost")
                             \/ refuse("load") /\ \E object \in blob : object.owner # owner
      BY <2>2, <2>9 DEF Load
    <3>2. PICK k \in 1..11 : Enrolled /\ Unsealing(k) /\ UnsealNames[k] = "load"
      BY <2>1, <3>1
    <3>3. k \in 7..11
      BY SMT, <3>2 DEF UnsealNames
    <3>4. CASE lost /\ refuse("lost")
      BY <2>3, <3>2, <3>3, <3>4, LostMeansCleared DEF Justified
    <3>5. CASE refuse("load") /\ \E object \in blob : object.owner # owner
      <4>1. owner \notin {object.owner : object \in blob}
        BY <3>2, <3>5, SealedObject
      <4> QED
        BY <2>3, <3>5, <4>1 DEF Justified
    <3> QED
      BY <3>1, <3>4, <3>5
  <2>10. CASE Unseal
    <3>1. Sending("unseal") /\ ~end("idle", "none")
      BY <2>10 DEF Unseal, end
    <3>2. /\ Enrolled /\ Checked(Policy)
          /\ \A object \in blob : object.owner = owner <=> "parent" \in held
      BY <1>1, <3>1, LastCommand
    <3>3. CASE lost /\ refuse("lost")
      BY <2>3, <3>2, <3>3 DEF lost, Justified
    <3>4. CASE /\ refuse("pcr_changed")
               /\ \/ \E object \in blob : object.policy # session.assertions
                  \/ session.at # {} /\ session.at # {counter}
      <4>1. session.assertions = Policy
        BY SMT, <3>2 DEF Checked
      <4>2. session.at # {counter}
        BY <3>2, <3>4, <4>1, SealedObject
      <4> QED
        BY <2>3, <3>4, <4>2 DEF Justified
    <3> QED
      BY <2>10, <3>1, <3>3, <3>4 DEF Unseal
  <2>11. CASE CommandFails
    BY <2>3, <2>11 DEF CommandFails, Justified
  <2>12. CASE \/ PolicyCommandCode \/ FlushContext \/ Unlock \/ Clear \/ Restart
              \/ \E i \in PCRS : Extend(i)
    BY <2>2, <2>12 DEF PolicyCommandCode, FlushContext, Unlock, Clear, Restart, Extend,
       call, end
  <2> QED
    BY <2>4, <2>5, <2>6, <2>7, <2>8, <2>9, <2>10, <2>11, <2>12 DEF Next
<1> QED
  BY <1>1, AlwaysIInv, PTL DEF Spec, RefusalMeansChange
==============================================================================
