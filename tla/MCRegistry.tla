----------------------------- MODULE MCRegistry -----------------------------
(* The contract under whatever its callers declare, and under the proofs of   *)
(* the trees a prover builds.  A behaviour is one or the other.               *)
EXTENDS Inclusion

CONSTANTS
  h,             \* stands for any root that no tree of the model has
  TreeProofs     \* bound: proofs published with their trees

VARIABLE part

Rows == UNION {[1..n -> [id: Customer, balance: Balance \cap U64]] : n \in 1..MaxRows}
Roots == {h} \cup {root(build(Leaves(rows))).hash : rows \in Rows}

RegistryInit == part \in {"record", "trees"} /\ Init /\ InclusionInit

\* A root is stored and never looked at by what writes the record: one stands for all.
OfRecord ==
  /\ part = "record" /\ UNCHANGED <<part, inclusionVars>>
  /\ Calls(PubInputs(Amount, {h}))

OfTrees ==
  /\ part = "trees" /\ UNCHANGED part
  /\ InclusionNext
  /\ latest_id' <= TreeProofs

RegistryNext == OfRecord \/ OfTrees

RegistrySpec == RegistryInit /\ [][RegistryNext]_<<part, vars, inclusionVars>>
=============================================================================
