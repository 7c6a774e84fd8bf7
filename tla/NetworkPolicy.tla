--------------------------- MODULE NetworkPolicy ---------------------------
(***************************************************************************)
(* A production policy (leelo-policy lib.rs and verified_compile.rs): its  *)
(* network tree is compiled to a plan, the plan is certified against the   *)
(* tree, and a secret is split along the plan and recovered from the       *)
(* leaves that are supplied, in any order, with at most MAX_ALTERED leaves *)
(* whose authenticated value is not the one that was split.                *)
(* Positions are counted from 1 here and from 0 in the code.               *)
(***************************************************************************)
EXTENDS PolicyPlan, Sharing

CONSTANTS
  MAX_NODES,     \* nodes of a policy, the implicit root and TPM included
  MAX_DEPTH,     \* levels of a policy, the implicit root included
  TPM_NODE_ID,
  NETWORKS,      \* the trees ProductionPolicy::new is called with
  SHARED,        \* the trees among them that secrets are split for
  SECRETS,       \* the secrets that are split
  COEFFICIENTS,  \* the bytes the generator may draw
  UNKNOWN_ID,    \* an identifier no leaf has
  MAX_SUPPLIED,  \* bound on the leaves given to recover_network
  MAX_ALTERED,   \* bound on the altered ones among them
  ALTERATION     \* the bits an altered leaf has wrong in one byte

VARIABLES
  network,   \* the tree new was called with, an option
  policy,    \* the policy created, an option
  error,     \* the error new or split_network returned, or "None"
  secret,    \* the secret that was split
  leaves,    \* what split_network returned: network shares in plan order
  supplied   \* the network shares given to recover_network, in this order

vars == <<network, policy, error, secret, leaves, supplied>>

LeafNode(id, provider_id) ==
  [kind |-> "leaf", id |-> id, provider_id |-> provider_id]

ThresholdNode(id, required, children) ==
  [kind |-> "threshold", id |-> id, required |-> required,
   children |-> children]

(***************************************************************************)
(* Compilation.  The record c carries the compiler's mutable arguments; a  *)
(* call appends the node's gate last, so a child's index is the number of  *)
(* gates after it.                                                         *)
(***************************************************************************)
fail(c, e) == [c EXCEPT !.error = e]

add_gate(c, gate) == [c EXCEPT !.gates = Append(@, gate)]

RECURSIVE compile_node(_, _, _)
compile_node(node, depth, c) ==
  LET entered == [c EXCEPT !.count = @ + 1, !.ids = @ \cup {node.id}]
      child(acc, next) ==
        LET compiled == compile_node(next, depth + 1, acc.c)
        IN  IF acc.c.error # "None" THEN acc
            ELSE [c |-> compiled,
                  indices |-> Append(acc.indices, Len(compiled.gates))]
      forest == FoldLeft(child, [c |-> entered, indices |-> <<>>],
                         node.children)
  IN  IF depth > MAX_DEPTH THEN fail(c, "TooDeep")
      ELSE IF c.count >= MAX_NODES THEN fail(c, "TooManyNodes")
      ELSE IF node.id \in c.ids THEN fail(entered, "DuplicateNodeId")
      ELSE IF node.kind = "leaf" THEN
        IF node.provider_id \in c.providers
        THEN fail(entered, "DuplicateProvider")
        ELSE add_gate(
               [entered EXCEPT !.providers = @ \cup {node.provider_id},
                               !.leaves = Append(@, <<node.id,
                                                      node.provider_id>>)],
               Leaf(Len(c.leaves) + 1))
      ELSE IF node.required = 0 \/ node.required > Len(node.children)
        THEN fail(entered, "InvalidThreshold")
      ELSE IF forest.c.error # "None" THEN forest.c
      ELSE add_gate(forest.c, Threshold(node.required, forest.indices))

(***************************************************************************)
(* The checker: whether the gates and leaves from these positions on begin *)
(* with the image of the node, and the positions after it.                 *)
(***************************************************************************)
\* the leaf's response index is taken on trust
leaf_checked_trusting(node, gates, names, gate, leaf) ==
  /\ names[leaf] = <<node.id, node.provider_id>>
  /\ gates[gate].kind = "leaf"

leaf_checked(node, gates, names, gate, leaf) ==
  /\ names[leaf] = <<node.id, node.provider_id>>
  /\ gates[gate] = Leaf(leaf)

threshold_checked(node, gates, forest) ==
  /\ node.required # 0
  /\ node.required <= Len(node.children)
  /\ forest.ok
  /\ forest.gate <= Len(gates)
  /\ gates[forest.gate] = Threshold(node.required, forest.expected)

RECURSIVE check_subtree(_, _, _, _, _, _)
check_subtree(node, gates, names, gate_start, leaf_start, depth) ==
  LET result(ok, gate, leaf) ==
        IF ok THEN [ok |-> TRUE, gate |-> gate, leaf |-> leaf]
        ELSE [ok |-> FALSE, gate |-> gate_start, leaf |-> leaf_start]
      child(acc, next) ==
        LET checked == check_subtree(next, gates, names, acc.gate, acc.leaf,
                                     depth - 1)
        IN  IF ~acc.ok THEN acc
            ELSE [ok |-> checked.ok, gate |-> checked.gate,
                  leaf |-> checked.leaf,
                  expected |-> Append(acc.expected, checked.gate - 1)]
      forest == FoldLeft(child, [ok |-> TRUE, gate |-> gate_start,
                                 leaf |-> leaf_start, expected |-> <<>>],
                         node.children)
  IN  IF depth = 0 \/ gate_start > Len(gates) \/ leaf_start > Len(names)
      THEN result(FALSE, gate_start, leaf_start)
      ELSE IF node.kind = "leaf" THEN
        result(leaf_checked(node, gates, names, gate_start, leaf_start),
               gate_start + 1, leaf_start + 1)
      ELSE
        result(threshold_checked(node, gates, forest),
               forest.gate + 1, forest.leaf)

\* A network tree has at most three levels: the implicit root is the first.
check_compilation(node, gates, names) ==
  LET checked == check_subtree(node, gates, names, 1, 1, 3)
  IN  /\ checked.ok
      /\ checked.gate = Len(gates) + 1
      /\ checked.leaf = Len(names) + 1

\* the implicit root and the TPM node are not counted
start_uncounted ==
  [error |-> "None", count |-> 0, ids |-> {TPM_NODE_ID}, providers |-> {},
   gates |-> <<>>, leaves |-> <<>>]

start ==
  [error |-> "None", count |-> 2, ids |-> {TPM_NODE_ID}, providers |-> {},
   gates |-> <<>>, leaves |-> <<>>]

new(tree) ==
  LET plan == compile_node(tree, 2, start)
  IN  IF plan.error # "None" THEN Err(plan.error)
      ELSE IF ~check_compilation(tree, plan.gates, plan.leaves)
        THEN Err("InvalidCompilation")
      ELSE Ok([gates |-> plan.gates, leaves |-> plan.leaves])

(***************************************************************************)
(* Sharing along the plan.  rng maps a gate to what its split draws.       *)
(***************************************************************************)
RECURSIVE split_gate(_, _, _, _)
split_gate(plan, index, value, rng) ==
  LET gate == plan.gates[index]
      shares == split(value, gate.required, Len(gate.children), rng[index])
      child(acc, i) ==
        Try(acc, LAMBDA above :
          Try(split_gate(plan, gate.children[i], shares.value[i].value, rng),
              LAMBDA below : Ok(above \o below)))
  IN  IF gate.kind = "leaf"
      THEN Ok(<<[id |-> plan.leaves[gate.response][1], value |-> value]>>)
      ELSE IF ~IsOk(shares) THEN shares
      ELSE FoldLeft(child, Ok(<<>>), [i \in DOMAIN gate.children |-> i])

split_network(plan, value, rng) ==
  split_gate(plan, Len(plan.gates), value, rng)

\* The positions of the leaves with these identifiers.
responses(plan, ids) ==
  LET known(id) == {k \in DOMAIN plan.leaves : plan.leaves[k][1] = id}
      record(acc, id) ==
        IF ~IsOk(acc) THEN acc
        ELSE IF known(id) = {} THEN Err("UnknownNetworkLeaf")
        ELSE IF known(id) \subseteq acc.value THEN Err("DuplicateResponse")
        ELSE Ok(acc.value \cup known(id))
  IN  FoldLeft(record, Ok({}), ids)

network_satisfied(plan, ids) ==
  Try(responses(plan, ids),
      LAMBDA recorded : Ok(evaluate_network(plan.gates, recorded)))

\* a child's coordinate is its place among the children that have a value
gate_value_packed(plan, gate, values, recovered) ==
  IF gate.kind = "leaf"
  THEN Ok({recovered[i].value : i \in {j \in DOMAIN recovered :
             recovered[j].id = plan.leaves[gate.response][1]}})
  ELSE
    LET present == SelectSeq(gate.children, LAMBDA c : values[c] # {})
        shares == [i \in DOMAIN present |->
                    [index |-> byte(i),
                     value |-> CHOOSE v \in values[present[i]] : TRUE]]
    IN  IF Len(shares) < gate.required THEN Ok({})
        ELSE Try(reconstruct(gate.required, shares), LAMBDA v : Ok({v}))

\* The share a gate passes on: an option.  A child's value is moved to its
\* parent, the only gate of a certified plan that names it.
gate_value(plan, gate, values, recovered) ==
  IF gate.kind = "leaf"
  THEN Ok({recovered[i].value : i \in {j \in DOMAIN recovered :
             recovered[j].id = plan.leaves[gate.response][1]}})
  ELSE
    LET present == SelectSeq([i \in DOMAIN gate.children |-> i],
                             LAMBDA i : values[gate.children[i]] # {})
        shares == [k \in DOMAIN present |->
                    from_parts(byte(present[k]),
                      CHOOSE v \in values[gate.children[present[k]]] : TRUE
                    ).value]
    IN  IF Len(shares) < gate.required THEN Ok({})
        ELSE Try(reconstruct(gate.required, shares), LAMBDA v : Ok({v}))

recover_network(plan, recovered) ==
  LET step(acc, gate) ==
        Try(acc, LAMBDA values :
          Try(gate_value(plan, gate, values, recovered),
              LAMBDA value : Ok(Append(values, value))))
      root(values) ==
        IF Last(values) = {} THEN Err("FactorsNotSatisfied")
        ELSE Ok(CHOOSE v \in Last(values) : TRUE)
  IN  Try(responses(plan, [i \in DOMAIN recovered |-> recovered[i].id]),
          LAMBDA recorded : Try(FoldLeft(step, Ok(<<>>), plan.gates), root))

(***************************************************************************)
(* The machine: create a policy, split a secret, supply leaves.            *)
(***************************************************************************)
Plan == CHOOSE p \in policy : TRUE

\* What the generator may give: coefficients for every gate, except the one
\* at which it fails.
Draws(plan) ==
  LET gates == DOMAIN plan.gates
      degree(g) == IF plan.gates[g].kind = "leaf" THEN 0
                   ELSE plan.gates[g].required - 1
      drawn == UNION {{g} \X (1..SECRET_LEN) \X (1..degree(g)) : g \in gates}
  IN  {[g \in gates |->
         IF g = failing THEN {}
         ELSE {[b \in 1..SECRET_LEN |->
                 [d \in 1..degree(g) |-> draw[<<g, b, d>>]]]}] :
        draw \in [drawn -> COEFFICIENTS], failing \in gates \cup {0}}

Init ==
  /\ network = {}
  /\ policy = {}
  /\ error = "None"
  /\ secret = {}
  /\ leaves = <<>>
  /\ supplied = <<>>

Create(tree) ==
  LET result == new(tree)
  IN  /\ network = {}
      /\ network' = {tree}
      /\ policy' = IF IsOk(result) THEN {result.value} ELSE {}
      /\ error' = IF IsOk(result) THEN "None" ELSE result.value
      /\ UNCHANGED <<secret, leaves, supplied>>

Split(value, rng) ==
  LET result == split_network(Plan, value, rng)
  IN  /\ policy # {} /\ secret = {} /\ error = "None"
      /\ secret' = {value}
      /\ leaves' = IF IsOk(result) THEN result.value ELSE <<>>
      /\ error' = IF IsOk(result) THEN "None" ELSE result.value
      /\ UNCHANGED <<network, policy, supplied>>

Ids == [i \in DOMAIN supplied |-> supplied[i].id]

\* A leaf is altered when its wrapper authenticates another value.
Altered(shares) ==
  {i \in DOMAIN shares :
    \E k \in DOMAIN leaves : /\ leaves[k].id = shares[i].id
                             /\ leaves[k].value # shares[i].value}

\* The caller stops at the first list that is refused.
Supply(share) ==
  /\ leaves # <<>>
  /\ Len(supplied) < MAX_SUPPLIED
  /\ IsOk(network_satisfied(Plan, Ids))
  /\ supplied' = Append(supplied, share)
  /\ Cardinality(Altered(supplied')) <= MAX_ALTERED
  /\ UNCHANGED <<network, policy, error, secret, leaves>>

SupplyLeaf == \E k \in DOMAIN leaves : Supply(leaves[k])

SupplyAltered ==
  \E k \in DOMAIN leaves, b \in 1..SECRET_LEN :
    Supply([leaves[k] EXCEPT !.value[b] = xor(@, ALTERATION)])

SupplyUnknown ==
  \E value \in secret : Supply([id |-> UNKNOWN_ID, value |-> value])

Next ==
  \/ \E tree \in NETWORKS : Create(tree)
  \/ /\ policy # {} /\ network \subseteq SHARED
     /\ \E value \in SECRETS, rng \in Draws(Plan) : Split(value, rng)
  \/ SupplyLeaf
  \/ SupplyAltered
  \/ SupplyUnknown

Spec == Init /\ [][Next]_vars

(***************************************************************************)
(* What the tree itself says, without gates or positions.                  *)
(***************************************************************************)
\* The nodes of a tree with their depths, in preorder.
RECURSIVE Nodes(_, _)
Nodes(node, depth) ==
  <<[node |-> node, depth |-> depth]>>
    \o (IF node.kind = "leaf" THEN <<>>
        ELSE FlattenSeq([i \in DOMAIN node.children |->
                          Nodes(node.children[i], depth + 1)]))

WellFormed(tree) ==
  LET all == Nodes(tree, 2)
      at(i) == all[i].node
      leaf(i) == at(i).kind = "leaf"
  IN  /\ Len(all) + 2 <= MAX_NODES
      /\ \A i \in DOMAIN all :
           /\ all[i].depth <= MAX_DEPTH
           /\ at(i).id # TPM_NODE_ID
           /\ leaf(i) \/ at(i).required \in 1..Len(at(i).children)
      /\ \A i, j \in DOMAIN all : i # j =>
           /\ at(i).id # at(j).id
           /\ leaf(i) /\ leaf(j) => at(i).provider_id # at(j).provider_id

\* Whether the leaves with identifiers in ids satisfy the node.
RECURSIVE source_value(_, _)
source_value(node, ids) ==
  IF node.kind = "leaf" THEN node.id \in ids
  ELSE /\ node.required \in 1..Len(node.children)
       /\ Cardinality({i \in DOMAIN node.children :
                        source_value(node.children[i], ids)}) >= node.required

\* What recovery finds at a node when the leaves in ids were supplied and
\* those in bad carry another value: nothing, the value that was split,
\* another value, or shares that contradict each other.
RECURSIVE Found(_, _, _)
Found(node, ids, bad) ==
  LET below == [i \in DOMAIN node.children |->
                 Found(node.children[i], ids, bad)]
      Among(kinds) == {i \in DOMAIN below : below[i] \in kinds}
      present == Cardinality(Among({"right", "wrong"}))
  IN  IF node.kind = "leaf" THEN
        IF node.id \notin ids THEN "nothing"
        ELSE IF node.id \in bad THEN "wrong" ELSE "right"
      ELSE IF Among({"conflict"}) # {} THEN "conflict"
      ELSE IF present < node.required THEN "nothing"
      ELSE IF Among({"wrong"}) = {} THEN "right"
      ELSE IF present > node.required THEN "conflict" ELSE "wrong"

Tree == CHOOSE t \in network : TRUE

\* The sequences one edit away from s: an element replaced, dropped or added,
\* or two exchanged.
Edits(s, values) ==
  {ReplaceAt(s, i, v) : i \in DOMAIN s, v \in values}
    \cup {RemoveAt(s, i) : i \in DOMAIN s}
    \cup {InsertAt(s, i, v) : i \in 1..(Len(s) + 1), v \in values}
    \cup {ReplaceAt(ReplaceAt(s, i, s[j]), j, s[i]) : i, j \in DOMAIN s}

\* The plans a faulty compiler could have produced instead: a gate with another
\* response, requirement or one edit in its children, a leaf for a threshold or
\* a threshold for a leaf, one edit in the list of gates, or one edit in the
\* identifiers and providers of the leaves.
Miscompiled(plan) ==
  LET places == DOMAIN plan.gates
      responding == {Leaf(k) : k \in DOMAIN plan.leaves}
      children(gate) == IF gate.kind = "leaf" THEN <<>> ELSE gate.children
      deciding(gate) ==
        {Threshold(r, edges) :
          r \in 0..(Len(children(gate)) + 1),
          edges \in {children(gate)} \cup Edits(children(gate), places)}
      names == {<<plan.leaves[i][1], plan.leaves[j][2]>> :
                 i, j \in DOMAIN plan.leaves}
  IN  {[plan EXCEPT !.gates = g] :
        g \in UNION {{ReplaceAt(plan.gates, i, gate) :
                       gate \in responding \cup deciding(plan.gates[i])} :
                      i \in places}
              \cup Edits(plan.gates, ToSet(plan.gates) \cup responding)}
        \cup {[plan EXCEPT !.leaves = l] :
               l \in Edits(plan.leaves, names \cup {<<UNKNOWN_ID, UNKNOWN_ID>>})}

\* What the tree says of the leaves supplied.
Justified(result) ==
  LET bad == {supplied[i].id : i \in Altered(supplied)}
      found == Found(Tree, ToSet(Ids), bad)
      known == {leaves[k].id : k \in DOMAIN leaves}
  IN  IF \E i \in DOMAIN Ids : Ids[i] \notin known
               /\ IsInjective(SubSeq(Ids, 1, i - 1))
      THEN IsErr(result, "UnknownNetworkLeaf")
      ELSE IF ~IsInjective(Ids) THEN IsErr(result, "DuplicateResponse")
      ELSE CASE found = "nothing" -> IsErr(result, "FactorsNotSatisfied")
             [] found = "conflict" -> IsErr(result, "InconsistentShares")
             [] found = "right" -> IsOk(result) /\ result.value \in secret
             [] found = "wrong" -> IsOk(result) /\ result.value \notin secret

(***************************************************************************)
(* Properties.                                                             *)
(***************************************************************************)
\* ProductionPolicy::new accepts exactly the well-formed trees, within the limits
\* on nodes and levels counted with the implicit root and the TPM node, no
\* identifier or provider used twice and every threshold possible; and the plan
\* it makes decides every set of answers as the tree does: the compiler's
\* postorder positions (compile_node), the certifying checker and the
\* evaluator's reading of them (evaluate_network) agree.
CompilesFaithfully ==
  network # {} /\ secret = {} =>
    /\ (policy # {}) <=> WellFormed(Tree)
    /\ policy # {} =>
         \A answered \in SUBSET DOMAIN Plan.leaves :
           evaluate_network(Plan.gates, answered)
             = source_value(Tree, {Plan.leaves[k][1] : k \in answered})

\* check_compilation certifies the unverified compiler's output: of the plans
\* that differ from the compiled one in one gate, one child of a gate, the
\* order or number of gates, or one leaf's identity, it accepts none.
MiscompilationIsCaught ==
  policy # {} /\ secret = {} =>
    \A plan \in Miscompiled(Plan) :
      check_compilation(Tree, plan.gates, plan.leaves) => plan = Plan

\* Whatever leaves are supplied, in whatever order and with at most one
\* authenticated but wrong value among them, recover_network does what the
\* tree says: it refuses an unknown or repeated identifier, reports an
\* unsatisfied tree, detects a wrong value wherever a threshold holds a
\* surplus, returns the secret that was split when the wrong value does not
\* count, and otherwise returns some other secret.  A wrong value in a group
\* below its threshold does not count and goes unnoticed, although the comment
\* of recover_network speaks of checking every supplied leaf: such a group has
\* nothing to check it against.
RecoversAsTheTreeSays ==
  leaves # <<>> => Justified(recover_network(Plan, supplied))
=============================================================================
