--------------------------- MODULE MerkleSumTree ---------------------------
(***************************************************************************)
(* The Merkle sum tree of what an institution owes, as three programs      *)
(* compute it: the prover (services/prover/src/tree.rs) builds it and its  *)
(* paths, the circuit (circuits/merkle, circuits/lib) recomputes its root  *)
(* from the leaves, and the contract (contracts/proof-registry) folds a    *)
(* customer's path.  A hash is the tuple of what was hashed: Poseidon2 is  *)
(* taken to be injective, and the tree's encoding is what is at stake.     *)
(***************************************************************************)
EXTENDS Solvency, Sequences, SequencesExt

CONSTANTS
  MaxU128,   \* 2^128 - 1 in the prover and the contract; small in a model
  FieldP,    \* the order of the field the circuit adds in
  DEPTH      \* the depth of the circuit's tree

ASSUME TreeAssumption ==
  /\ DEPTH \in Nat /\ MaxU128 \in Nat /\ FieldP \in Nat
  /\ 2^DEPTH * MaxU64 <= MaxU128 /\ MaxU128 < FieldP

\* The number of leaves.
N == 2^DEPTH

\* A number as a field element, so that it is never a hash; Poseidon2::hash([..], 4).
Num(n) == <<n>>
hash4(a, b, c, d) == <<a, b, c, d>>

Saturated(n) == IF n > MaxU128 THEN MaxU128 ELSE n
Node(hash, sum) == [hash |-> hash, sum |-> sum]
-----------------------------------------------------------------------------
(* The prover.                                                             *)

leaf(id_hash, balance) == Node(hash4(id_hash, Num(balance), Num(0), Num(0)), balance)

hash_pair_hashes(left, right) ==
  Node(hash4(left.hash, right.hash, Num(0), Num(0)), Saturated(left.sum + right.sum))
hash_pair(left, right) ==
  Node(hash4(left.hash, Num(left.sum), right.hash, Num(right.sum)),
       Saturated(left.sum + right.sum))

\* One round of build: a node without a partner is paired with itself.
parents(level) ==
  [i \in 1..((Len(level) + 1) \div 2) |->
     hash_pair(level[2 * i - 1], level[IF 2 * i <= Len(level) THEN 2 * i ELSE 2 * i - 1])]

\* MerkleSumTree::build: the levels from the leaves up to the root.
build(leaves) ==
  LET level[k \in 0..DEPTH] == IF k = 0 THEN leaves ELSE parents(level[k - 1])
  IN level

root(levels) == levels[DEPTH][1]

\* inclusion_path: one sibling per level, and its side.
inclusion_path_unsided(levels, index) ==
  [k \in 1..DEPTH |->
     LET idx == index \div 2^(k - 1)
     IN [sibling |-> levels[k - 1][IF idx % 2 = 1 THEN idx ELSE idx + 2],
         sibling_is_left |-> FALSE]]
inclusion_path(levels, index) ==
  [k \in 1..DEPTH |->
     LET idx == index \div 2^(k - 1)
     IN [sibling |-> levels[k - 1][IF idx % 2 = 1 THEN idx ELSE idx + 2],
         sibling_is_left |-> idx % 2 = 1]]
-----------------------------------------------------------------------------
(* The circuit.  Sums are field additions.                                 *)

combine(left, right) ==
  Node(hash4(left.hash, Num(left.sum), right.hash, Num(right.sum)),
       (left.sum + right.sum) % FieldP)

\* compute_root: each round folds the pairs of the live front of one array and leaves
\* the rest as it is.
compute_root(ids, balances) ==
  LET layer[k \in 0..DEPTH] ==
        IF k = 0
        THEN [i \in 0..(N - 1) |->
                Node(hash4(ids[i + 1], Num(balances[i + 1]), Num(0), Num(0)), balances[i + 1])]
        ELSE [j \in 0..(N - 1) |->
                IF j < 2^(DEPTH - k) THEN combine(layer[k - 1][2 * j], layer[k - 1][2 * j + 1])
                ELSE layer[k - 1][j]]
  IN layer[DEPTH][0]

\* The part of fn main that is about the tree: it commits to the leaves, and both its
\* sum and the sum of the balances are L.
TreeHolds(ids, balances, root_h, l) ==
  /\ \A i \in 1..N : balances[i] \in U64
  /\ compute_root(ids, balances) = Node(root_h, l)
  /\ LET sum[n \in 0..N] == IF n = 0 THEN 0 ELSE (sum[n - 1] + balances[n]) % FieldP
     IN sum[N] = l
-----------------------------------------------------------------------------
(* The contract.                                                           *)

poseidon2_leaf(id_hash, balance) == hash4(id_hash, Num(balance), Num(0), Num(0))
poseidon2_node(left_hash, left_sum, right_hash, right_sum) ==
  hash4(left_hash, Num(left_sum), right_hash, Num(right_sum))

\* One round of verify_inclusion's loop.
climb(node, step) ==
  LET s == step.sibling
  IN Node(IF step.sibling_is_left
          THEN poseidon2_node(s.hash, s.sum, node.hash, node.sum)
          ELSE poseidon2_node(node.hash, node.sum, s.hash, s.sum),
          Saturated(node.sum + s.sum))

\* verify_inclusion, once it has read the proof.
Verifies(meta, id_hash, balance, path) ==
  LET node[k \in 0..Len(path)] ==
        IF k = 0 THEN Node(poseidon2_leaf(id_hash, balance), balance)
        ELSE climb(node[k - 1], path[k])
  IN node[Len(path)] = Node(meta.root_h, meta.l)
=============================================================================
