------------------------------ MODULE Registry ------------------------------
(***************************************************************************)
(* The proof-registry Soroban contract of one tenant                       *)
(* (contracts/proof-registry/src/lib.rs), with the rent of its two kinds   *)
(* of ledger entry: the contract instance (owner, verifying key, latest    *)
(* id) and one persistent entry per published proof.                       *)
(*                                                                         *)
(* A call that returns an error or traps is rolled back by the host, so a  *)
(* refused call is a step that changes nothing and has no action here: its *)
(* condition is the guard of the operation it would have been.  An entry   *)
(* whose time to live has run out is archived, and a call that touches it  *)
(* is refused.                                                             *)
(***************************************************************************)
EXTENDS Solvency

CONSTANTS
  Address,        \* accounts that may call the contract
  Amount,         \* the reserve and liability totals that are tried
  Root,           \* liability tree roots
  Garbage,        \* proof bytes that do not verify for the inputs they come with,
                  \* a proof made for other inputs included
  NoOwner,        \* the owner of a contract that is not deployed yet
  TTL_THRESHOLD,  \* lib.rs TTL_THRESHOLD, in ledgers
  TTL_BUMP,       \* lib.rs TTL_BUMP, in ledgers
  MinTTL,         \* the network's time to live of a new persistent entry
  MaxProofs,      \* bound: proofs published
  MaxLedger       \* bound: ledgers closed

ASSUME RegistryAssumption ==
  /\ Amount \subseteq Nat
  /\ NoOwner \notin Address
  /\ TTL_THRESHOLD \in Nat /\ TTL_BUMP \in Nat /\ MinTTL \in Nat
  /\ TTL_THRESHOLD < TTL_BUMP
  /\ MaxProofs \in Nat /\ MaxLedger \in Nat

VARIABLES
  owner,          \* DataKey::Owner, NoOwner before the constructor ran
  latest_id,      \* DataKey::LatestId
  proofs,         \* DataKey::Proof(id) -> ProofMeta
  proof_live,     \* the ledger until which each proof entry lives
  instance_live,  \* the ledger until which the instance lives
  ledger          \* the current ledger

vars == <<owner, latest_id, proofs, proof_live, instance_live, ledger>>

ProofMeta == [root_h: Root, r: Nat, l: Nat, timestamp: Nat]

TypeOK ==
  /\ owner \in Address \cup {NoOwner}
  /\ latest_id \in Nat
  /\ proofs \in [1..latest_id -> ProofMeta]
  /\ proof_live \in [1..latest_id -> Nat]
  /\ instance_live \in Nat
  /\ ledger \in Nat
-----------------------------------------------------------------------------
(* Rent: extend_ttl(threshold, extend_to) of the host.                     *)

extend_ttl(live) ==
  IF live - ledger <= TTL_THRESHOLD /\ live < ledger + TTL_BUMP
  THEN ledger + TTL_BUMP ELSE live

InstanceLive == owner # NoOwner /\ ledger <= instance_live
ProofLive(id) == id \in DOMAIN proofs /\ ledger <= proof_live[id]

\* The map f with key k set to v.
Set(f, k, v) == [x \in DOMAIN f \cup {k} |-> IF x = k THEN v ELSE f[x]]

\* verify_ultrahonk: the verifier accepts the bytes of a proof only for the
\* public inputs it was made for, and the prover can make one only where the
\* circuit has a witness.  A proof is named by those inputs.
verify_ultrahonk(proof, pub) == proof = pub /\ Circuit(pub)
-----------------------------------------------------------------------------
Init ==
  /\ owner = NoOwner
  /\ latest_id = 0
  /\ proofs = << >>
  /\ proof_live = << >>
  /\ instance_live = 0
  /\ ledger = 0

\* __constructor: runs once, and gives the instance the network's default rent.
constructor(o) ==
  /\ owner = NoOwner
  /\ owner' = o
  /\ latest_id' = 0
  /\ instance_live' = ledger + MinTTL
  /\ UNCHANGED <<proofs, proof_live, ledger>>

\* The id and the entry of the next proof, and the instance's rent after a write.
NextId_skips   == latest_id + 2
NextId_reuses  == IF latest_id = 0 THEN 1 ELSE latest_id
NextId         == latest_id + 1
MetaOf_swapped(pub) ==
  [root_h |-> pub.root_hash, r |-> pub.liabilities_total,
   l |-> pub.reserves_total, timestamp |-> ledger]
MetaOf(pub) ==
  [root_h |-> pub.root_hash, r |-> pub.reserves_total,
   l |-> pub.liabilities_total, timestamp |-> ledger]
RenewedInstance_forgotten == instance_live
RenewedInstance == extend_ttl(instance_live)

\* publish_proof(proof, pub_inputs), signed by caller.  Reading the previous
\* proof goes through get_proof, which renews that entry's rent too.
publish_proof(caller, proof, pub) ==
  /\ latest_id < MaxProofs
  /\ InstanceLive
  /\ caller = owner
  /\ verify_ultrahonk(proof, pub)
  /\ pub.reserves_total >= pub.liabilities_total
  /\ latest_id > 0 => ProofLive(latest_id)
  /\ enforce_growth_baseline(latest_id,
                             IF latest_id = 0 THEN 0 ELSE proofs[latest_id].r,
                             pub.prev_reserves, pub.reserves_total)
  /\ LET renewed == [i \in DOMAIN proof_live |->
                       IF i = latest_id THEN extend_ttl(proof_live[i])
                       ELSE proof_live[i]]
     IN /\ proofs' = Set(proofs, NextId, MetaOf(pub))
        /\ latest_id' = NextId
        /\ proof_live' = Set(renewed, NextId, extend_ttl(ledger + MinTTL))
  /\ instance_live' = RenewedInstance
  /\ UNCHANGED <<owner, ledger>>

\* get_proof(id), submitted as a transaction: it renews the proof's entry only.
\* verify_inclusion(id, ...) reads the proof the same way and writes nothing else.
get_proof(id) ==
  /\ InstanceLive
  /\ ProofLive(id)
  /\ proof_live' = [proof_live EXCEPT ![id] = extend_ttl(@)]
  /\ UNCHANGED <<owner, latest_id, proofs, instance_live, ledger>>

\* get_latest_proof: get_proof of the id the instance points at.
get_latest_proof == get_proof(latest_id)

\* A ledger closes.
CloseLedger ==
  /\ ledger < MaxLedger
  /\ ledger' = ledger + 1
  /\ UNCHANGED <<owner, latest_id, proofs, proof_live, instance_live>>

\* The calls there are, when proofs are submitted with one of these inputs.
Calls(inputs) ==
  \/ \E o \in Address : constructor(o)
  \/ \E caller \in Address, pub \in inputs : \E proof \in {pub, Garbage} :
       publish_proof(caller, proof, pub)
  \/ \E id \in DOMAIN proofs : get_proof(id)
  \/ get_latest_proof
  \/ CloseLedger

Inputs == PubInputs(Amount, Root)

Next == Calls(Inputs)

Spec == Init /\ [][Next]_vars
-----------------------------------------------------------------------------
(* Properties.                                                             *)

\* Every proof on record covers its liabilities: publish_proof is the only
\* writer, and nothing that it stored is below the bound later.
Covered == \A id \in DOMAIN proofs : proofs[id].r >= proofs[id].l

\* Reserves never grow by more than a tenth from one published proof to the
\* next, whatever previous total the prover declared: the circuit bounds growth
\* against a declared total, the contract ties that total to its own history.
GrowthBounded ==
  \A id \in DOMAIN proofs :
    id > 1 => 10 * proofs[id].r <= 11 * proofs[id - 1].r

\* A published proof is never altered or removed, and ids are handed out in order.
AppendOnly ==
  [][/\ latest_id' \in {latest_id, latest_id + 1}
     /\ \A id \in DOMAIN proofs :
          id \in DOMAIN proofs' /\ proofs'[id] = proofs[id]]_vars

\* A registry that publishes at least once every TTL_THRESHOLD ledgers never
\* finds its instance or its latest proof archived, so the read of the previous
\* proof in publish_proof cannot be what stops it.
SteadyPublisherStaysLive ==
  (/\ latest_id > 0
   /\ ledger - proofs[latest_id].timestamp <= TTL_THRESHOLD)
    => InstanceLive /\ ProofLive(latest_id)

\* The inductive strengthening of the invariants above: nothing is published
\* before the constructor ran, and the entries that publish_proof wrote or
\* renewed are paid for TTL_THRESHOLD ledgers past the latest publication.
Paid ==
  latest_id > 0 =>
    /\ owner # NoOwner
    /\ instance_live >= proofs[latest_id].timestamp + TTL_THRESHOLD
    /\ proof_live[latest_id] >= proofs[latest_id].timestamp + TTL_THRESHOLD

RegistryInv == TypeOK /\ Covered /\ GrowthBounded /\ Paid
-----------------------------------------------------------------------------
(* The registry implements the abstract coverage record: forget roots, times *)
(* and rent.                                                                 *)

Published == [id \in 1..latest_id |-> [r |-> proofs[id].r, l |-> proofs[id].l]]

Record == INSTANCE CoverageRecord WITH record <- Published

\* Every step of the contract appends one admissible entry to the record or
\* leaves the record as it is.
ImplementsRecord == Record!Spec
=============================================================================
