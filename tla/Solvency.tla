------------------------------ MODULE Solvency ------------------------------
(***************************************************************************)
(* The relation that the solvency circuit enforces                         *)
(* (circuits/solvency/src/main.nr) over a proof's public inputs, and the   *)
(* two checks of the proof-registry contract that depend on nothing but    *)
(* their arguments (contracts/proof-registry/src/lib.rs).                  *)
(*                                                                         *)
(* Amounts are minor units.  The circuit computes on u64 and an overflow   *)
(* makes the witness unsatisfiable, so the width is kept as MaxU64.  The   *)
(* contract computes on u128, wide enough never to overflow on a value the *)
(* circuit has accepted.                                                   *)
(***************************************************************************)
EXTENDS Integers

CONSTANT MaxU64          \* 2^64 - 1 in the circuit; small in a model

ASSUME MaxU64Assumption == MaxU64 \in Nat

U64 == 0..MaxU64

\* storage.rs PubInputs.  root_hash is the commitment of the liability tree;
\* what it commits to is the subject of module MerkleSumTree.
PubInputs(amounts, roots) ==
  [reserves_total: amounts, liabilities_total: amounts,
   prev_reserves: amounts, root_hash: roots]

\* The mutated forms, named <definition>_<change>, are bugs this code could have;
\* PROJECT.json says which property catches each.
FraudBound_wraps(r, r_prev) ==
  (10 * r) % (MaxU64 + 1) <= (11 * r_prev) % (MaxU64 + 1)

\* assert(10 * r_u64 <= 11 * r_prev_u64): both products must fit in a u64.
FraudBound(r, r_prev) ==
  /\ 10 * r <= MaxU64
  /\ 11 * r_prev <= MaxU64
  /\ 10 * r <= 11 * r_prev

\* fn main: there is a witness for these public inputs.  The private inputs are
\* existentially quantified in the circuit; any u64 total is a sum of u64
\* figures, so they constrain nothing more here.
Circuit(pub) ==
  /\ pub.reserves_total \in U64
  /\ pub.liabilities_total \in U64
  /\ pub.prev_reserves \in U64
  /\ pub.reserves_total >= pub.liabilities_total
  /\ FraudBound(pub.reserves_total, pub.prev_reserves)

enforce_growth_baseline_trusting(latest_id, previous, declared, total) ==
  latest_id = 0 => declared = total

\* fn enforce_growth_baseline: the declared previous total must be what the
\* contract last published, or the new total itself when nothing was published.
enforce_growth_baseline(latest_id, previous, declared, total) ==
  declared = IF latest_id = 0 THEN total ELSE previous
=============================================================================
