----------------------------- MODULE Inclusion -----------------------------
(***************************************************************************)
(* A customer's inclusion, from end to end: the rows of what is owed       *)
(* (liabilities), the witness and the tree the prover makes of them        *)
(* (services/prover/src/proving.rs, service.rs), the proof on the contract *)
(* (Registry), the tree saved beside its row (orchestrator/internal/repo)  *)
(* and the reference GetInclusion makes of it, which verify_inclusion      *)
(* checks.  A cycle is what it leaves: a proof, and a tree unless it died  *)
(* or failed to save; Cycle is about its steps.  No ledger closes: time    *)
(* and rent are Registry's own subject.                                    *)
(***************************************************************************)
EXTENDS Registry, MerkleSumTree

CONSTANTS
  Customer,      \* customers, by id_hash
  Balance,       \* the balances that are tried
  MaxRows        \* bound: rows of liabilities

\* No customer has the id of a padding leaf.
ASSUME InclusionAssumption ==
  Num(0) \notin Customer /\ Balance \subseteq Nat /\ MaxRows \in Nat

VARIABLES
  liabilities,   \* the rows, by as_of
  trees,         \* merkle_trees joined with proofs, oldest first
  committed      \* history: the rows each proof was made from

inclusionVars == <<liabilities, trees, committed>>

InclusionInit == liabilities = << >> /\ trees = << >> /\ committed = << >>
-----------------------------------------------------------------------------
\* CreateLiability: a row is added; a customer may have several.
CreateLiability(c, b) ==
  /\ Len(liabilities) < MaxRows
  /\ liabilities' = Append(liabilities, [id |-> c, balance |-> b])
  /\ UNCHANGED <<trees, committed, vars>>

Ids(rows) == [i \in DOMAIN rows |-> rows[i].id]
Balances(rows) == [i \in DOMAIN rows |-> rows[i].balance]
Total(rows) ==
  LET sum[n \in 0..Len(rows)] == IF n = 0 THEN 0 ELSE sum[n - 1] + rows[n].balance
  IN sum[Len(rows)]

\* The checks of the service and of prove before anything is built.
Accepts(rows, reserves) ==
  /\ Len(rows) \in 1..N
  /\ \A i \in DOMAIN rows : rows[i].balance \in U64
  /\ reserves >= Total(rows)

\* prove pads the leaves, and write_prover_toml the witness, each on its own.
Filled(seq, with) == seq \o [i \in 1..(N - Len(seq)) |-> with]

Leaves_sparse(rows) ==
  Filled([i \in DOMAIN rows |-> leaf(rows[i].id, rows[i].balance)], Node(Num(0), 0))
Leaves(rows) ==
  Filled([i \in DOMAIN rows |-> leaf(rows[i].id, rows[i].balance)], leaf(Num(0), 0))

\* serialize_tree: the customers' leaves with their paths.
serialize_tree(levels, rows) ==
  [i \in DOMAIN rows |->
     [id_hash |-> rows[i].id, balance |-> rows[i].balance,
      path |-> inclusion_path(levels, i - 1)]]

\* nargo execute: the witness of write_prover_toml satisfies the circuit.
Executes(rows, root_h) ==
  TreeHolds(Filled(Ids(rows), Num(0)), Filled(Balances(rows), 0), root_h, Total(rows))

\* Adds the saved tree under the id that its proof has on the contract.
RowId_next == Len(trees) + 1
RowId == NextId

\* A cycle that proves, publishes, and saves unless it fails to.
PublishTree(reserves, prev, saved) ==
  LET levels == build(Leaves(liabilities))
      pub == [reserves_total |-> reserves, liabilities_total |-> Total(liabilities),
              prev_reserves |-> prev, root_hash |-> root(levels).hash]
  IN /\ pub.liabilities_total \in Amount      \* bound: the totals that are tried
     /\ Accepts(liabilities, reserves)
     /\ Executes(liabilities, pub.root_hash)
     /\ publish_proof(owner, pub, pub)
     /\ committed' = Append(committed, liabilities)
     /\ trees' = IF saved
                 THEN Append(trees, [id |-> RowId, leaves |-> serialize_tree(levels, liabilities)])
                 ELSE trees
     /\ UNCHANGED liabilities

Deploy(o) == constructor(o) /\ UNCHANGED inclusionVars

InclusionNext ==
  \/ \E c \in Customer, b \in Balance : CreateLiability(c, b)
  \/ \E reserves, prev \in Amount, saved \in BOOLEAN : PublishTree(reserves, prev, saved)
  \/ \E o \in Address : Deploy(o)

InclusionSpec == Init /\ InclusionInit /\ [][InclusionNext]_<<vars, inclusionVars>>
-----------------------------------------------------------------------------
\* GetInclusion: the customer's leaf in the tree of a row, and the proof's id.
findLeaf(leaves, c) == leaves[SelectInSeq(leaves, LAMBDA l : l.id_hash = c)]

\* The contract's answer, if neither the instance nor the proof is archived.
verify_inclusion(id, l) == Verifies(proofs[id], l.id_hash, l.balance, l.path)
-----------------------------------------------------------------------------
(* Properties.                                                             *)

\* GetInclusion, verify_inclusion: every customer of a saved tree is included, with one
\* of its own rows, whatever was saved or lost before and whatever is owed by now.
SavedPathsVerify ==
  \A t \in Range(trees) :
    /\ \A l \in Range(t.leaves) : verify_inclusion(t.id, l)
    /\ \A c \in Range(Ids(committed[t.id])) :
         [id |-> c, balance |-> findLeaf(t.leaves, c).balance] \in Range(committed[t.id])

\* verify_inclusion: whichever customer, balance and path come together, saved for this
\* proof or another, the answer is yes only for a row the proof was made from.
OnlyCommittedVerifies ==
  \A id \in DOMAIN committed, t \in Range(trees), c \in Customer, b \in Balance :
    \A l \in Range(t.leaves) :
      verify_inclusion(id, [l EXCEPT !.id_hash = c, !.balance = b]) =>
        [id |-> c, balance |-> b] \in Range(committed[id])

\* compute_root against MerkleSumTree::build: what the prover accepts, the circuit proves
\* as soon as the total is a u64; neither padding nor addition tells them apart.
CircuitAgrees ==
  Accepts(liabilities, MaxU64) => Executes(liabilities, root(build(Leaves(liabilities))).hash)

\* The total on record counts every row of its witness, each as often as it is there.
TotalIsCounted == \A id \in DOMAIN committed : proofs[id].l = Total(committed[id])

\* The tree means the same to the prover, the circuit, the contract and a customer.
InclusionIsExact ==
  SavedPathsVerify /\ OnlyCommittedVerifies /\ CircuitAgrees /\ TotalIsCounted
=============================================================================
