-------------------------- MODULE MCNetworkPolicy --------------------------
(***************************************************************************)
(* Small instances of NetworkPolicy.                                       *)
(***************************************************************************)
EXTENDS NetworkPolicy

L(n) == LeafNode(n, n)

\* a single server; two of three; two of three with nested groups, as deep
\* as a policy may be
SharedNetworks ==
  {L(2),
   ThresholdNode(10, 2, <<L(2), L(3), L(4)>>),
   ThresholdNode(10, 2, <<L(2), ThresholdNode(11, 1, <<L(3), L(4)>>),
                          ThresholdNode(12, 2, <<L(5), L(6)>>)>>)}

MCSecrets == {<<byte(83), byte(1)>>, <<byte(0), byte(255)>>}

MCCoefficients == {byte(202)}

FlippedBit == {3}

\* Small trees in which identifiers, providers and thresholds go wrong, and
\* flat, deep and crossed trees at the limits.
Leaves == {LeafNode(id, provider) : id \in 1..3, provider \in 1..2}

Pairs ==
  {ThresholdNode(id, required, children) :
    id \in {3, 4}, required \in 0..3,
    children \in {<<>>} \cup {<<a>> : a \in Leaves}
                        \cup {<<a, b>> : a \in Leaves, b \in Leaves}}

Flat(required, count) ==
  ThresholdNode(100, required, [i \in 1..count |-> L(i + 1)])

Deep(levels) ==
  LET level[n \in 1..levels] ==
        IF n = 1 THEN L(2) ELSE ThresholdNode(10 + n, 1, <<level[n - 1]>>)
  IN  level[levels]

Crossed ==
  {ThresholdNode(20, required,
     <<a, ThresholdNode(21, 1, <<L(4), L(5)>>),
       ThresholdNode(22, 2, <<L(6), b>>)>>) :
    required \in 1..4, a \in {L(2), L(4), LeafNode(2, 5)},
    b \in {L(3), L(20), ThresholdNode(23, 1, <<L(7)>>)}}

MCNetworks ==
  SharedNetworks
    \cup Leaves \cup Pairs \cup Crossed \cup {Deep(n) : n \in 1..5}
    \cup {Flat(1, n) : n \in {7, 8, 9}}
=============================================================================
