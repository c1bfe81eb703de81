--------------------------- MODULE InclusionProofs ---------------------------
(***************************************************************************)
(* Theorems about the proof-registry contract, for every set of amounts,   *)
(* every rent parameter with TTL_THRESHOLD < TTL_BUMP and every bound; and *)
(* about a customer's inclusion, for every depth of the tree,              *)
(* every number of customers and rows, and every order of rows, proofs and *)
(* lost trees.  Most of the latter is about one tree: what build makes of  *)
(* padded rows (TreeOver), what its nodes add up to, that the circuit      *)
(* recomputes it, and which paths the contract's fold follows to its root. *)
(***************************************************************************)
EXTENDS Inclusion, FiniteSetTheorems, SequenceTheorems, NaturalsInduction, WellFoundedInduction,
        TLAPS

-----------------------------------------------------------------------------
(* The contract.                                                             *)

\* What publish_proof leaves behind, however its caller chose the arguments:
\* the facts about the new entry that every theorem below uses.
LEMMA PublishEffect ==
  ASSUME TypeOK,
         NEW caller \in Address, NEW pub \in Inputs,
         NEW proof, publish_proof(caller, proof, pub)
  PROVE  /\ latest_id' = latest_id + 1
         /\ latest_id' \in Nat
         /\ proofs' \in [1..latest_id' -> ProofMeta]
         /\ proof_live' \in [1..latest_id' -> Nat]
         /\ instance_live' \in Nat
         /\ \A id \in 1..latest_id : proofs'[id] = proofs[id]
         /\ proofs'[latest_id'].r = pub.reserves_total
         /\ proofs'[latest_id'].l = pub.liabilities_total
         /\ proofs'[latest_id'].timestamp = ledger
         /\ instance_live' >= ledger + TTL_THRESHOLD
         /\ proof_live'[latest_id'] >= ledger + TTL_THRESHOLD
         /\ pub.reserves_total >= pub.liabilities_total
         /\ latest_id > 0 => 10 * pub.reserves_total <= 11 * proofs[latest_id].r
  <1> DEFINE id == latest_id + 1
             meta == [root_h |-> pub.root_hash, r |-> pub.reserves_total,
                      l |-> pub.liabilities_total, timestamp |-> ledger]
             renewed == [i \in DOMAIN proof_live |->
                           IF i = latest_id THEN extend_ttl(proof_live[i])
                           ELSE proof_live[i]]
  <1>1. /\ proofs' = Set(proofs, id, meta)
        /\ latest_id' = id
        /\ proof_live' = Set(renewed, id, extend_ttl(ledger + MinTTL))
        /\ instance_live' = extend_ttl(instance_live)
    BY DEF publish_proof, NextId, MetaOf, RenewedInstance
  <1>2. (1..latest_id) \cup {id} = 1..id
    BY DEF TypeOK
  <1>3. meta \in ProofMeta
    BY RegistryAssumption DEF TypeOK, ProofMeta, Inputs, PubInputs
  <1>4. \A x \in Nat : extend_ttl(x) \in Nat /\ extend_ttl(x) >= ledger + TTL_THRESHOLD
    BY RegistryAssumption DEF TypeOK, extend_ttl
  <1>5. ledger + MinTTL \in Nat
    BY RegistryAssumption DEF TypeOK
  <1>6. renewed \in [1..latest_id -> Nat]
    BY <1>4 DEF TypeOK
  <1>7. proofs' \in [1..id -> ProofMeta] /\ proofs'[id] = meta
    BY <1>1, <1>2, <1>3 DEF TypeOK, Set
  <1>8. \A i \in 1..latest_id : proofs'[i] = proofs[i]
    BY <1>1 DEF TypeOK, Set
  <1>9. /\ proof_live' \in [1..id -> Nat]
        /\ proof_live'[id] = extend_ttl(ledger + MinTTL)
    <2> HIDE DEF renewed
    <2> QED BY <1>1, <1>2, <1>4, <1>5, <1>6 DEF TypeOK, Set
  <1>10. /\ pub.reserves_total >= pub.liabilities_total
         /\ latest_id > 0 => 10 * pub.reserves_total <= 11 * proofs[latest_id].r
    BY DEF publish_proof, verify_ultrahonk, Circuit, FraudBound,
           enforce_growth_baseline, TypeOK
  <1>11. /\ meta.r = pub.reserves_total
         /\ meta.l = pub.liabilities_total
         /\ meta.timestamp = ledger
    OBVIOUS
  <1>12. instance_live' \in Nat /\ instance_live' >= ledger + TTL_THRESHOLD
    BY <1>1, <1>4 DEF TypeOK
  <1>13. id \in Nat
    BY DEF TypeOK
  <1> HIDE DEF id, meta, renewed
  <1> QED
    BY <1>1, <1>4, <1>5, <1>7, <1>8, <1>9, <1>10, <1>11, <1>12, <1>13 DEF id

\* A read renews the rent of one proof, never shortens it, and changes nothing
\* else of the registry.
LEMMA ReadEffect ==
  ASSUME TypeOK, NEW id, get_proof(id)
  PROVE  /\ UNCHANGED <<owner, latest_id, proofs, instance_live, ledger>>
         /\ proof_live' \in [1..latest_id -> Nat]
         /\ \A i \in 1..latest_id : proof_live'[i] >= proof_live[i]
  <1>1. \A x \in Nat : extend_ttl(x) \in Nat /\ extend_ttl(x) >= x
    BY RegistryAssumption DEF TypeOK, extend_ttl
  <1> DEFINE renewal == extend_ttl(proof_live[id])
  <1>2. /\ UNCHANGED <<owner, latest_id, proofs, instance_live, ledger>>
        /\ id \in 1..latest_id
        /\ proof_live' = [proof_live EXCEPT ![id] = renewal]
    BY DEF get_proof, ProofLive, TypeOK
  <1>3. proof_live \in [1..latest_id -> Nat] /\ ledger \in Nat
    BY DEF TypeOK
  <1>4. renewal \in Nat /\ renewal >= proof_live[id]
    BY <1>1, <1>2, <1>3
  <1> HIDE DEF renewal
  <1>5. proof_live' \in [1..latest_id -> Nat]
    BY <1>2, <1>3, <1>4
  <1>6. \A i \in 1..latest_id : proof_live'[i] >= proof_live[i]
    BY <1>2, <1>3, <1>4
  <1> QED
    BY <1>2, <1>3, <1>5, <1>6

\* The strengthened invariant holds initially and every operation keeps it.
LEMMA Inductive == Spec => []RegistryInv
  <1>1. Init => RegistryInv
    <2> SUFFICES ASSUME Init PROVE RegistryInv
      OBVIOUS
    <2>1. 1..0 = {} /\ proofs = << >> /\ proof_live = << >> /\ latest_id = 0
      BY DEF Init
    <2>2. TypeOK
      BY <2>1 DEF Init, TypeOK
    <2> QED
      BY <2>1, <2>2 DEF Init, RegistryInv, TypeOK, Covered, GrowthBounded, Paid
  <1>2. RegistryInv /\ [Next]_vars => RegistryInv'
    <2> SUFFICES ASSUME RegistryInv, [Next]_vars PROVE RegistryInv'
      OBVIOUS
    <2> USE DEF RegistryInv
    <2>1. ASSUME NEW o \in Address, constructor(o) PROVE RegistryInv'
      <3>1. latest_id = 0 /\ latest_id' = 0
        BY <2>1 DEF constructor, TypeOK, Paid
      <3>2. TypeOK'
        BY <2>1, <3>1, RegistryAssumption DEF constructor, TypeOK
      <3> QED
        BY <2>1, <3>1, <3>2 DEF constructor, Covered, GrowthBounded, Paid
    <2>2. ASSUME NEW caller \in Address, NEW pub \in Inputs,
                 NEW proof \in {pub, Garbage},
                 publish_proof(caller, proof, pub)
          PROVE  RegistryInv'
      <3>1. /\ UNCHANGED <<owner, ledger>>
            /\ owner # NoOwner
        BY <2>2 DEF publish_proof, InstanceLive
      <3>2. TypeOK'
        BY <2>2, <3>1, PublishEffect DEF TypeOK
      <3>3. Covered' /\ GrowthBounded'
        <4>1. \A id \in 1..latest_id' : id \in 1..latest_id \/ id = latest_id'
          BY <2>2, PublishEffect DEF TypeOK
        <4>2. \A id \in 1..latest_id' : proofs'[id].r >= proofs'[id].l
          BY <2>2, <4>1, PublishEffect DEF TypeOK, Covered
        <4>3. \A id \in 1..latest_id : id > 1 => id - 1 \in 1..latest_id
          BY DEF TypeOK
        <4>4. ASSUME NEW id \in 1..latest_id', id > 1
              PROVE  10 * proofs'[id].r <= 11 * proofs'[id - 1].r
          <5>1. CASE id \in 1..latest_id
            BY <2>2, <4>3, <4>4, <5>1, PublishEffect DEF TypeOK, GrowthBounded
          <5>2. CASE id = latest_id'
            <6>1. latest_id' = latest_id + 1 /\ latest_id \in Nat
              BY <2>2, PublishEffect DEF TypeOK
            <6>2. latest_id > 0 /\ id - 1 = latest_id /\ latest_id \in 1..latest_id
              BY <4>4, <5>2, <6>1
            <6> QED
              BY <2>2, <5>2, <6>2, PublishEffect
          <5> QED
            BY <4>1, <5>1, <5>2
        <4>5. DOMAIN proofs' = 1..latest_id'
          BY <3>2 DEF TypeOK
        <4> QED
          BY <4>2, <4>4, <4>5 DEF Covered, GrowthBounded
      <3>4. Paid'
        BY <2>2, <3>1, PublishEffect DEF Paid
      <3> QED
        BY <3>2, <3>3, <3>4
    <2>3. ASSUME NEW id, get_proof(id) PROVE RegistryInv'
      <3>1. TypeOK'
        BY <2>3, ReadEffect DEF TypeOK
      <3>2. Covered' /\ GrowthBounded'
        BY <2>3, ReadEffect DEF Covered, GrowthBounded
      <3>3. Paid'
        <4> SUFFICES ASSUME latest_id > 0
                     PROVE  proof_live'[latest_id]
                              >= proofs[latest_id].timestamp + TTL_THRESHOLD
          BY <2>3, ReadEffect DEF Paid
        <4>1. latest_id \in 1..latest_id
          BY DEF TypeOK
        <4>2. proofs[latest_id].timestamp \in Nat
          BY <4>1 DEF TypeOK, ProofMeta
        <4> QED
          BY <2>3, <4>1, <4>2, ReadEffect, RegistryAssumption DEF Paid, TypeOK
      <3> QED
        BY <3>1, <3>2, <3>3
    <2>4. CASE CloseLedger
      BY <2>4 DEF CloseLedger, TypeOK, Covered, GrowthBounded, Paid
    <2>5. CASE UNCHANGED vars
      BY <2>5 DEF vars, TypeOK, Covered, GrowthBounded, Paid
    <2> QED
      BY <2>1, <2>2, <2>3, <2>4, <2>5 DEF Next, Calls, get_latest_proof
  <1> QED
    BY <1>1, <1>2, PTL DEF Spec

\* The contract's storage has its declared shape in every reachable state: one
\* entry and one time to live for each id up to the latest, and no other.
THEOREM TypeCorrect == Spec => []TypeOK
  BY Inductive, PTL DEF RegistryInv

\* Every published proof covers its liabilities.
THEOREM AlwaysCovered == Spec => []Covered
  BY Inductive, PTL DEF RegistryInv

\* Published reserves never grow by more than a tenth from one proof to the next.
THEOREM AlwaysGrowthBounded == Spec => []GrowthBounded
  BY Inductive, PTL DEF RegistryInv

\* A registry that publishes within TTL_THRESHOLD ledgers of its latest proof
\* finds its instance and that proof unarchived.
THEOREM AlwaysSteadyPublisherStaysLive == Spec => []SteadyPublisherStaysLive
  <1>1. RegistryInv => SteadyPublisherStaysLive
    <2> SUFFICES ASSUME RegistryInv, latest_id > 0,
                        ledger - proofs[latest_id].timestamp <= TTL_THRESHOLD
                 PROVE  InstanceLive /\ ProofLive(latest_id)
      BY DEF SteadyPublisherStaysLive
    <2>1. latest_id \in 1..latest_id
      BY DEF RegistryInv, TypeOK
    <2>2. proofs[latest_id].timestamp \in Nat
      BY <2>1 DEF RegistryInv, TypeOK, ProofMeta
    <2> QED
      BY <2>1, <2>2, RegistryAssumption
      DEF RegistryInv, TypeOK, Paid, InstanceLive, ProofLive
  <1> QED
    BY <1>1, Inductive, PTL

\* No operation alters or removes a published proof, and ids grow one by one.
THEOREM RecordIsAppendOnly == Spec => AppendOnly
  <1> DEFINE Step == /\ latest_id' \in {latest_id, latest_id + 1}
                     /\ \A id \in DOMAIN proofs :
                          id \in DOMAIN proofs' /\ proofs'[id] = proofs[id]
  <1>1. RegistryInv /\ [Next]_vars => [Step]_vars
    <2> SUFFICES ASSUME RegistryInv, Next PROVE Step
      OBVIOUS
    <2> USE DEF RegistryInv
    <2>1. ASSUME NEW o \in Address, constructor(o) PROVE Step
      BY <2>1 DEF constructor, TypeOK, Paid
    <2>2. ASSUME NEW caller \in Address, NEW pub \in Inputs,
                 NEW proof \in {pub, Garbage},
                 publish_proof(caller, proof, pub)
          PROVE  Step
      <3>1. DOMAIN proofs = 1..latest_id /\ latest_id \in Nat
        BY DEF TypeOK
      <3>2. DOMAIN proofs' = 1..latest_id' /\ latest_id' = latest_id + 1
        BY <2>2, PublishEffect
      <3> QED
        BY <2>2, <3>1, <3>2, PublishEffect
    <2>3. ASSUME NEW id, get_proof(id) PROVE Step
      BY <2>3, ReadEffect
    <2>4. CASE CloseLedger
      BY <2>4 DEF CloseLedger
    <2> QED
      BY <2>1, <2>2, <2>3, <2>4 DEF Next, Calls, get_latest_proof
  <1> QED
    BY <1>1, Inductive, PTL DEF Spec, AppendOnly

\* The contract implements the abstract coverage record.
THEOREM RegistryImplementsRecord == Spec => ImplementsRecord
  <1>1. Init => Record!Init
    <2> SUFFICES ASSUME Init PROVE Published = << >>
      BY DEF Record!Init
    <2> QED
      BY DEF Init, Published
  <1>2. RegistryInv /\ [Next]_vars => [Record!Next]_Published
    <2> SUFFICES ASSUME RegistryInv, [Next]_vars
                 PROVE  Record!Next \/ Published' = Published
      OBVIOUS
    <2> USE DEF RegistryInv
    <2>1. ASSUME NEW o \in Address, constructor(o) PROVE Published' = Published
      BY <2>1 DEF constructor, TypeOK, Paid, Published
    <2>2. ASSUME NEW caller \in Address, NEW pub \in Inputs,
                 NEW proof \in {pub, Garbage},
                 publish_proof(caller, proof, pub)
          PROVE  Record!Next
      <3> DEFINE e == [r |-> pub.reserves_total, l |-> pub.liabilities_total]
      <3>1. e \in Record!Entry
        BY DEF Record!Entry, Inputs, PubInputs
      <3>2. /\ latest_id \in Nat
            /\ Published \in Seq([r: Nat, l: Nat])
            /\ Len(Published) = latest_id
        BY DEF Published, TypeOK, ProofMeta
      <3>3. Published' = Append(Published, e)
        BY SMTT(30), <2>2, <3>2, PublishEffect DEF Published, TypeOK
      <3>4. latest_id > 0 => Published[latest_id].r = proofs[latest_id].r
        BY <3>2 DEF Published
      <3>5. Record!Publish(e)
        BY <2>2, <3>2, <3>3, <3>4, PublishEffect DEF Record!Publish
      <3> QED
        BY <3>1, <3>5 DEF Record!Next
    <2>3. ASSUME NEW id, get_proof(id) PROVE Published' = Published
      BY <2>3, ReadEffect DEF Published
    <2>4. CASE CloseLedger
      BY <2>4 DEF CloseLedger, Published
    <2>5. CASE UNCHANGED vars
      BY <2>5 DEF vars, Published
    <2> QED
      BY <2>1, <2>2, <2>3, <2>4, <2>5 DEF Next, Calls, get_latest_proof
  <1> QED
    BY <1>1, <1>2, Inductive, PTL DEF Spec, ImplementsRecord, Record!Spec
-----------------------------------------------------------------------------
(* Induction over a set of numbers, and the powers of two.                 *)

\* A set of numbers has a least one.
LEMMA LeastNat ==
  ASSUME NEW T, T \subseteq Nat, T # {}
  PROVE  \E x \in T : \A y \in T : x <= y
  <1>1. PICK x \in T : \A y \in T : ~ (<<y, x>> \in OpToRel(<, Nat))
    BY WFMin, NatLessThanWellFounded
  <1>2. \A y \in T : ~ (y < x)
    BY <1>1 DEF OpToRel
  <1> QED BY <1>2

\* Induction, over a set of numbers.
LEMMA SetInduction ==
  ASSUME NEW T, 0 \in T, \A n \in Nat : n \in T => n + 1 \in T
  PROVE  Nat \subseteq T
  <1> SUFFICES ASSUME Nat \ T # {} PROVE FALSE
    OBVIOUS
  <1>1. PICK x \in Nat \ T : \A y \in Nat \ T : x <= y
    BY LeastNat
  <1>2. x # 0 /\ x - 1 \in Nat /\ x - 1 \in T
    BY <1>1
  <1> QED BY <1>1, <1>2

\* The sets with and without the last element.
LEMMA PowerSets ==
  ASSUME NEW n \in Nat
  PROVE  Cardinality(SUBSET (1..(n + 1))) = 2 * Cardinality(SUBSET (1..n))
  <1> DEFINE A == SUBSET (1..n)
             B == {X \in SUBSET (1..(n + 1)) : n + 1 \in X}
             f == [X \in A |-> X \cup {n + 1}]
  <1>1. IsFiniteSet(1..n) /\ IsFiniteSet(A) /\ Cardinality(A) \in Nat
    <2>1. IsFiniteSet(1..n)
      BY FS_Interval
    <2>2. IsFiniteSet(A)
      BY <2>1, FS_SUBSET
    <2> HIDE DEF A
    <2> QED BY <2>1, <2>2, FS_CardinalityType
  <1>2. f \in Bijection(A, B)
    <2>1. \A X \in A : f[X] \in B
      OBVIOUS
    <2>2. ASSUME NEW X \in A, NEW Y \in A, f[X] = f[Y] PROVE X = Y
      <3>1. n + 1 \notin X /\ n + 1 \notin Y
        OBVIOUS
      <3> QED BY <2>2, <3>1
    <2>3. ASSUME NEW Y \in B PROVE \E X \in A : f[X] = Y
      <3>1. Y \ {n + 1} \in A
        OBVIOUS
      <3>2. f[Y \ {n + 1}] = Y
        BY <3>1
      <3> QED BY <3>1, <3>2
    <2>4. f \in [A -> B]
      BY <2>1
    <2> HIDE DEF f, A, B
    <2> QED BY <2>2, <2>3, <2>4 DEF Bijection, Injection, Surjection, IsInjective
  <1>3. IsFiniteSet(B) /\ Cardinality(B) = Cardinality(A)
    <2>1. ExistsBijection(A, B)
      BY <1>2 DEF ExistsBijection
    <2> HIDE DEF A, B
    <2> QED BY <1>1, <2>1, FS_Bijection
  <1>4. SUBSET (1..(n + 1)) = A \cup B /\ A \cap B = {}
    <2>1. \A X \in SUBSET (1..(n + 1)) : n + 1 \notin X => X \in A
      OBVIOUS
    <2>2. A \subseteq SUBSET (1..(n + 1)) /\ A \cap B = {}
      OBVIOUS
    <2> QED BY <2>1, <2>2
  <1> HIDE DEF A, B
  <1>5. Cardinality(A \cup B) = Cardinality(A) + Cardinality(B) - Cardinality(A \cap B)
    BY <1>1, <1>3, FS_Union
  <1>6. Cardinality(A \cap B) = 0
    BY <1>4, FS_EmptySet
  <1>7. Cardinality(A \cup B) = 2 * Cardinality(A)
    BY <1>1, <1>3, <1>5, <1>6
  <1>8. Cardinality(SUBSET (1..(n + 1))) = 2 * Cardinality(A)
    BY <1>4, <1>7, Zenon
  <1> QED BY <1>8 DEF A

\* 2^n counts the subsets of n things, so it is a number and doubles.
LEMMA TwoPowers ==
  ASSUME NEW n \in Nat
  PROVE  2^n \in Nat /\ 2^(n + 1) = 2 * 2^n /\ 2^0 = 1
  <1>1. ASSUME NEW m \in Nat PROVE 2^m = Cardinality(SUBSET (1..m)) /\ 2^m \in Nat
    <2>1. IsFiniteSet(1..m) /\ Cardinality(1..m) = m
      BY FS_Interval
    <2>2. IsFiniteSet(SUBSET (1..m)) /\ Cardinality(SUBSET (1..m)) = 2^m
      BY <2>1, FS_SUBSET
    <2> QED BY <2>2, FS_CardinalityType
  <1>2. n + 1 \in Nat
    OBVIOUS
  <1>3. 2^(n + 1) = 2 * 2^n
    <2>1. Cardinality(SUBSET (1..(n + 1))) = 2 * Cardinality(SUBSET (1..n))
      BY PowerSets
    <2>2. 2^n = Cardinality(SUBSET (1..n)) /\ 2^(n + 1) = Cardinality(SUBSET (1..(n + 1)))
      BY <1>1, <1>2
    <2> QED BY <2>1, <2>2, Zenon
  <1>4. 2^0 = 1
    OBVIOUS
  <1> QED BY <1>1, <1>3, <1>4

\* 2^k counts what one node of level k stands for, and 2^(DEPTH - k) the nodes of it.
LEMMA Widths ==
  /\ N \in Nat /\ N > 0 /\ 2^0 = 1 /\ DEPTH \in Nat
  /\ \A k \in Nat : 2^k \in Nat /\ 2^k > 0 /\ 2^(k + 1) = 2 * 2^k
  /\ \A k \in 0..DEPTH : 2^(DEPTH - k) * 2^k = N
  <1>1. DEPTH \in Nat
    BY TreeAssumption
  <1>2. 2^0 = 1 /\ \A k \in Nat : 2^k \in Nat /\ 2^(k + 1) = 2 * 2^k
    BY TwoPowers
  <1>3. \A k \in Nat : 2^k > 0
    <2> DEFINE T == {k \in Nat : 2^k > 0}
    <2>1. 0 \in T
      BY <1>2
    <2>2. \A k \in Nat : k \in T => k + 1 \in T
      BY <1>2
    <2>3. Nat \subseteq T
      <3> HIDE DEF T
      <3> QED BY <2>1, <2>2, SetInduction
    <2> QED BY <2>3
  <1>4. \A k \in 0..DEPTH : 2^(DEPTH - k) * 2^k = N
    <2> DEFINE T == {k \in Nat : k <= DEPTH => 2^(DEPTH - k) * 2^k = N}
    <2>1. 0 \in T
      BY <1>1, <1>2 DEF N
    <2>2. ASSUME NEW k \in Nat, k \in T, k + 1 <= DEPTH
          PROVE  2^(DEPTH - (k + 1)) * 2^(k + 1) = N
      <3> DEFINE d == DEPTH - (k + 1)
      <3>1. d \in Nat /\ d + 1 = DEPTH - k
        BY <1>1, <2>2
      <3>2. 2^(DEPTH - k) = 2 * 2^d /\ 2^(k + 1) = 2 * 2^k /\ 2^d \in Nat /\ 2^k \in Nat
        BY <1>2, <3>1
      <3>3. 2^(DEPTH - k) * 2^k = N
        BY <1>1, <2>2
      <3> HIDE DEF d
      <3>4. \A x, y \in Nat : (2 * x) * y = x * (2 * y)
        OBVIOUS
      <3>5. (2 * 2^d) * 2^k = 2^d * (2 * 2^k)
        BY <3>2, <3>4
      <3> QED BY <3>2, <3>3, <3>5 DEF d
    <2>3. \A k \in Nat : k \in T => k + 1 \in T
      BY <2>2
    <2>4. Nat \subseteq T
      <3> HIDE DEF T
      <3> QED BY <2>1, <2>3, SetInduction
    <2> QED BY <1>1, <2>4
  <1> QED BY <1>1, <1>2, <1>3, <1>4 DEF N

-----------------------------------------------------------------------------
(* The padded rows, and the leaves made of them.                           *)

Row == [id: Customer, balance: Balance]
PadId(rows) == [i \in 1..N |-> IF i <= Len(rows) THEN rows[i].id ELSE Num(0)]
PadBalance(rows) == [i \in 1..N |-> IF i <= Len(rows) THEN rows[i].balance ELSE 0]

\* The form of a sequence of length m, and of what Filled makes of one.
OfLength(f, m) == f = [i \in 1..m |-> f[i]]
FilledUp(f, m, with) == [i \in 1..N |-> IF i <= m THEN f[i] ELSE with]

\* A function over 1..m is a sequence of length m.
LEMMA FunctionIsSeq ==
  ASSUME NEW m \in Nat, NEW f, OfLength(f, m)
  PROVE  f \in Seq({f[i] : i \in 1..m}) /\ Len(f) = m /\ DOMAIN f = 1..m
  <1> DEFINE S == {f[i] : i \in 1..m}
  <1>1. \A i \in 1..m : f[i] \in S
    OBVIOUS
  <1>2. f \in [1..m -> S]
    <2> HIDE DEF S
    <2> QED BY <1>1 DEF OfLength
  <1>3. f \in Seq(S)
    <2> HIDE DEF S
    <2> QED BY <1>2, SeqDef
  <1>4. DOMAIN f = 1..m
    BY <1>2
  <1>5. Len(f) = m
    <2> HIDE DEF S
    <2>1. Len(f) \in Nat /\ DOMAIN f = 1..Len(f)
      BY <1>3, LenProperties
    <2> QED BY <1>4, <2>1
  <1> QED BY <1>3, <1>4, <1>5

\* Filled keeps what there is and appends the padding up to N.
LEMMA FilledIs ==
  ASSUME NEW m \in Nat, m <= N, NEW f, OfLength(f, m), NEW with
  PROVE  Filled(f, with) = FilledUp(f, m, with)
  <1> DEFINE S == {f[i] : i \in 1..m} \cup {with}
             p == [i \in 1..(N - m) |-> with]
             r == [i \in 1..N |-> IF i <= m THEN f[i] ELSE with]
  <1>1. N \in Nat /\ N - m \in Nat
    BY Widths
  <1>2. f \in Seq(S) /\ Len(f) = m
    <2>1. f \in Seq({f[i] : i \in 1..m}) /\ Len(f) = m
      BY FunctionIsSeq
    <2>2. {f[i] : i \in 1..m} \subseteq S
      OBVIOUS
    <2> HIDE DEF S
    <2> QED BY <2>1, <2>2, SeqMonotonic
  <1>3. p \in Seq(S) /\ Len(p) = N - m
    <2>1. with \in S
      OBVIOUS
    <2>2. OfLength(p, N - m) /\ \A i \in 1..(N - m) : p[i] = with
      BY DEF OfLength
    <2>3. {p[i] : i \in 1..(N - m)} \subseteq S
      <3> HIDE DEF S, p
      <3> QED BY <2>1, <2>2
    <2> HIDE DEF S, p
    <2>4. p \in Seq({p[i] : i \in 1..(N - m)}) /\ Len(p) = N - m
      BY <1>1, <2>2, FunctionIsSeq
    <2> QED BY <2>3, <2>4, SeqMonotonic
  <1>4. Filled(f, with) = f \o p
    BY <1>2 DEF Filled
  <1>5. p = [i \in 1..(N - m) |-> with]
    OBVIOUS
  <1>6. \A i \in 1..N : (f \o p)[i] = IF i <= m THEN f[i] ELSE with
    <2> HIDE DEF S, p
    <2>1. \A i \in 1..N : (f \o p)[i] = IF i <= m THEN f[i] ELSE p[i - m]
      BY <1>1, <1>2, <1>3, ConcatProperties
    <2>2. \A i \in 1..N : ~ (i <= m) => p[i - m] = with
      BY <1>1, <1>5
    <2> QED BY <2>1, <2>2
  <1>7. f \o p = [i \in 1..N |-> (f \o p)[i]]
    <2> HIDE DEF S, p
    <2>1. f \o p \in Seq(S) /\ Len(f \o p) = N
      BY <1>1, <1>2, <1>3, ConcatProperties
    <2>2. f \o p \in [1..N -> S]
      BY <2>1, LenProperties
    <2> QED BY <2>2
  <1> HIDE DEF p
  <1>8. f \o p = r
    BY <1>6, <1>7
  <1> QED BY <1>4, <1>8 DEF FilledUp

\* The witness's ids and balances, and the prover's leaves, are padded alike.
LEMMA PaddedRows ==
  ASSUME NEW rows \in Seq(Row), Len(rows) <= N
  PROVE  /\ Filled(Ids(rows), Num(0)) = PadId(rows)
         /\ Filled(Balances(rows), 0) = PadBalance(rows)
         /\ Leaves(rows) = [i \in 1..N |-> leaf(PadId(rows)[i], PadBalance(rows)[i])]
  <1>1. Len(rows) \in Nat /\ DOMAIN rows = 1..Len(rows)
    BY LenProperties
  <1>2. Filled(Ids(rows), Num(0)) = PadId(rows)
    <2> DEFINE f == Ids(rows)
    <2>1. f = [i \in 1..Len(rows) |-> rows[i].id]
      BY <1>1 DEF Ids
    <2>2. f = [i \in 1..Len(rows) |-> f[i]] /\ \A i \in 1..Len(rows) : f[i] = rows[i].id
      <3> HIDE DEF f
      <3> QED BY <2>1
    <2>3. Filled(f, Num(0)) = FilledUp(f, Len(rows), Num(0))
      <3> HIDE DEF f
      <3>1. OfLength(f, Len(rows))
        BY <2>2 DEF OfLength
      <3>2. Len(rows) \in Nat /\ Len(rows) <= N
        BY <1>1
      <3> QED BY <3>1, <3>2, FilledIs
    <2>4. \A i \in 1..N : (IF i <= Len(rows) THEN f[i] ELSE Num(0))
                        = (IF i <= Len(rows) THEN rows[i].id ELSE Num(0))
      <3> HIDE DEF f
      <3> QED BY <1>1, <2>2, Widths
    <2> HIDE DEF f
    <2>5. Filled(f, Num(0)) = PadId(rows)
      BY <2>3, <2>4 DEF PadId, FilledUp
    <2> QED BY <2>5 DEF f
  <1>3. Filled(Balances(rows), 0) = PadBalance(rows)
    <2> DEFINE f == Balances(rows)
    <2>1. f = [i \in 1..Len(rows) |-> rows[i].balance]
      BY <1>1 DEF Balances
    <2>2. f = [i \in 1..Len(rows) |-> f[i]] /\ \A i \in 1..Len(rows) : f[i] = rows[i].balance
      <3> HIDE DEF f
      <3> QED BY <2>1
    <2>3. Filled(f, 0) = FilledUp(f, Len(rows), 0)
      <3> HIDE DEF f
      <3>1. OfLength(f, Len(rows))
        BY <2>2 DEF OfLength
      <3>2. Len(rows) \in Nat /\ Len(rows) <= N
        BY <1>1
      <3> QED BY <3>1, <3>2, FilledIs
    <2>4. \A i \in 1..N : (IF i <= Len(rows) THEN f[i] ELSE 0)
                        = (IF i <= Len(rows) THEN rows[i].balance ELSE 0)
      <3> HIDE DEF f
      <3> QED BY <1>1, <2>2, Widths
    <2> HIDE DEF f
    <2>5. Filled(f, 0) = PadBalance(rows)
      BY <2>3, <2>4 DEF PadBalance, FilledUp
    <2> QED BY <2>5 DEF f
  <1>4. Leaves(rows) = [i \in 1..N |-> leaf(PadId(rows)[i], PadBalance(rows)[i])]
    <2> DEFINE f == [i \in 1..Len(rows) |-> leaf(rows[i].id, rows[i].balance)]
               g == [i \in 1..N |-> leaf(PadId(rows)[i], PadBalance(rows)[i])]
    <2>1. Leaves(rows) = Filled(f, leaf(Num(0), 0))
      BY <1>1 DEF Leaves
    <2>2. f = [i \in 1..Len(rows) |-> f[i]]
          /\ \A i \in 1..Len(rows) : f[i] = leaf(rows[i].id, rows[i].balance)
      OBVIOUS
    <2>3. Filled(f, leaf(Num(0), 0)) = FilledUp(f, Len(rows), leaf(Num(0), 0))
      <3> HIDE DEF f
      <3>1. OfLength(f, Len(rows))
        BY <2>2 DEF OfLength
      <3>2. Len(rows) \in Nat /\ Len(rows) <= N
        BY <1>1
      <3> QED BY <3>1, <3>2, FilledIs
    <2>4. \A i \in 1..N : (IF i <= Len(rows) THEN f[i] ELSE leaf(Num(0), 0)) = g[i]
      <3>1. \A i \in 1..N : g[i] = leaf(PadId(rows)[i], PadBalance(rows)[i])
        OBVIOUS
      <3>2. \A i \in 1..N : PadId(rows)[i] = IF i <= Len(rows) THEN rows[i].id ELSE Num(0)
        BY DEF PadId
      <3>3. \A i \in 1..N : PadBalance(rows)[i] = IF i <= Len(rows) THEN rows[i].balance ELSE 0
        BY DEF PadBalance
      <3> HIDE DEF f, g
      <3> QED BY <1>1, <2>2, <3>1, <3>2, <3>3, Widths
    <2>5. g = [i \in 1..N |-> g[i]]
      OBVIOUS
    <2> HIDE DEF f, g
    <2>6. Leaves(rows) = g
      BY <2>1, <2>3, <2>4, <2>5 DEF FilledUp
    <2> QED BY <2>6 DEF g
  <1> QED BY <1>2, <1>3, <1>4

-----------------------------------------------------------------------------
(* What is owed up to each leaf.                                           *)

SumsTo(s, b, m) == s = [n \in 0..m |-> IF n = 0 THEN 0 ELSE s[n - 1] + b[n]]

\* SumsTo, one index at a time.
LEMMA SumsStep ==
  ASSUME NEW m \in Nat, NEW b, NEW s, SumsTo(s, b, m)
  PROVE  s[0] = 0 /\ \A n \in 1..m : s[n] = s[n - 1] + b[n]
  <1>1. s = [n \in 0..m |-> IF n = 0 THEN 0 ELSE s[n - 1] + b[n]]
    BY DEF SumsTo
  <1> DEFINE g == [n \in 0..m |-> IF n = 0 THEN 0 ELSE s[n - 1] + b[n]]
  <1>2. g[0] = 0 /\ \A n \in 1..m : g[n] = s[n - 1] + b[n]
    OBVIOUS
  <1>3. s = g
    BY <1>1
  <1> HIDE DEF g
  <1> QED BY <1>2, <1>3

\* The sums exist for every number of balances.
LEMMA SumsExist ==
  ASSUME NEW b
  PROVE  \A m \in Nat : \E s : SumsTo(s, b, m)
  <1> DEFINE T == {m \in Nat : \E s : SumsTo(s, b, m)}
  <1>1. 0 \in T
    <2> DEFINE s == [n \in 0..0 |-> 0]
    <2>1. s[0] = 0
      OBVIOUS
    <2>2. s = [n \in 0..0 |-> IF n = 0 THEN 0 ELSE s[n - 1] + b[n]]
      OBVIOUS
    <2>3. SumsTo(s, b, 0)
      BY <2>2 DEF SumsTo
    <2> HIDE DEF s
    <2> QED BY <2>3
  <1>2. ASSUME NEW m \in Nat, m \in T PROVE m + 1 \in T
    <2>1. PICK s : SumsTo(s, b, m)
      BY <1>2
    <2> DEFINE u == [n \in 0..(m + 1) |-> IF n = 0 THEN 0 ELSE s[n - 1] + b[n]]
    <2>2. s[0] = 0 /\ \A n \in 1..m : s[n] = s[n - 1] + b[n]
      BY <2>1, SumsStep
    <2>3. \A n \in 0..m : u[n] = s[n]
      BY <2>2
    <2>4. u = [n \in 0..(m + 1) |-> IF n = 0 THEN 0 ELSE u[n - 1] + b[n]]
      <3>1. \A n \in 0..(m + 1) : n # 0 => n - 1 \in 0..m
        OBVIOUS
      <3>2. \A n \in 0..(m + 1) : n # 0 => u[n - 1] = s[n - 1]
        <4> HIDE DEF u
        <4> QED BY <2>3, <3>1
      <3> DEFINE v == [n \in 0..(m + 1) |-> IF n = 0 THEN 0 ELSE u[n - 1] + b[n]]
      <3>3. \A n \in 0..(m + 1) : u[n] = IF n = 0 THEN 0 ELSE s[n - 1] + b[n]
        OBVIOUS
      <3>4. u = [n \in 0..(m + 1) |-> u[n]]
        OBVIOUS
      <3> HIDE DEF u
      <3>5. \A n \in 0..(m + 1) : v[n] = u[n]
        BY <3>2, <3>3
      <3>6. v = [n \in 0..(m + 1) |-> v[n]]
        OBVIOUS
      <3> HIDE DEF v
      <3>7. u = v
        BY <3>4, <3>5, <3>6
      <3> QED BY <3>7 DEF v
    <2>5. SumsTo(u, b, m + 1)
      BY <2>4 DEF SumsTo
    <2> HIDE DEF u
    <2> QED BY <2>5
  <1>3. Nat \subseteq T
    <2> HIDE DEF T
    <2> QED BY <1>1, <1>2, SetInduction
  <1> QED BY <1>3

\* Sums only grow.
LEMMA SumsGrow ==
  ASSUME NEW m \in Nat, NEW b, \A n \in 1..m : b[n] \in Nat, NEW s, SumsTo(s, b, m)
  PROVE  /\ \A n \in 0..m : s[n] \in Nat
         /\ \A x, y \in 0..m : x <= y => s[x] <= s[y]
  <1>1. s[0] = 0 /\ \A n \in 1..m : s[n] = s[n - 1] + b[n]
    BY SumsStep
  <1> DEFINE T == {n \in Nat : n <= m => \A x \in 0..n : s[x] \in Nat /\ s[x] <= s[n]}
  <1>2. 0 \in T
    BY <1>1
  <1>3. ASSUME NEW n \in Nat, n \in T, n + 1 <= m, NEW x \in 0..(n + 1)
        PROVE  s[x] \in Nat /\ s[x] <= s[n + 1]
    <2>1. s[n + 1] = s[n] + b[n + 1] /\ b[n + 1] \in Nat
      BY <1>1, <1>3
    <2>2. \A z \in 0..n : s[z] \in Nat /\ s[z] <= s[n]
      BY <1>3
    <2>3. s[n] \in Nat /\ s[n + 1] \in Nat /\ s[n] <= s[n + 1]
      BY <2>1, <2>2
    <2>4. CASE x = n + 1
      BY <2>3, <2>4
    <2>5. CASE x \in 0..n
      BY <2>2, <2>3, <2>5
    <2> QED BY <2>4, <2>5
  <1>4. \A n \in Nat : n \in T => n + 1 \in T
    BY <1>3
  <1>5. Nat \subseteq T
    <2> HIDE DEF T
    <2> QED BY <1>2, <1>4, SetInduction
  <1>6. \A n \in 0..m : \A x \in 0..n : s[x] \in Nat /\ s[x] <= s[n]
    BY <1>5
  <1> QED BY <1>6

\* The total of the rows, and of their padded balances, is the last sum.
RowSums(s, rows) ==
  s = [n \in 0..Len(rows) |-> IF n = 0 THEN 0 ELSE s[n - 1] + rows[n].balance]

\* The function in Total exists.
LEMMA RowSumsExist ==
  ASSUME NEW rows \in Seq(Row)
  PROVE  \E s : RowSums(s, rows)
  <1> DEFINE m == Len(rows)
             c == Balances(rows)
  <1>1. m \in Nat /\ DOMAIN rows = 1..m
    BY LenProperties
  <1>2. \A n \in 1..m : c[n] = rows[n].balance
    BY <1>1 DEF Balances
  <1>3. PICK s : SumsTo(s, c, m)
    <2> HIDE DEF m, c
    <2> QED BY <1>1, SumsExist
  <1> DEFINE g == [n \in 0..m |-> IF n = 0 THEN 0 ELSE s[n - 1] + c[n]]
             q == [n \in 0..m |-> IF n = 0 THEN 0 ELSE s[n - 1] + rows[n].balance]
  <1>4. s = g
    <2> HIDE DEF m, c
    <2> QED BY <1>3 DEF SumsTo
  <1>5. \A n \in 0..m : (IF n = 0 THEN 0 ELSE s[n - 1] + c[n])
                      = (IF n = 0 THEN 0 ELSE s[n - 1] + rows[n].balance)
    <2> HIDE DEF m, c
    <2> QED BY <1>1, <1>2
  <1>6. g = q
    <2> HIDE DEF m, c
    <2> QED BY <1>5
  <1>7. RowSums(s, rows)
    <2> HIDE DEF g, c
    <2> QED BY <1>4, <1>6 DEF RowSums
  <1> QED BY <1>7

\* Total counts the padded balances.
LEMMA TotalIsSum ==
  ASSUME NEW rows \in Seq(Row), Len(rows) <= N, NEW s, SumsTo(s, PadBalance(rows), N)
  PROVE  /\ Total(rows) = s[N] /\ s[N] \in Nat
         /\ \A n \in 1..N : PadBalance(rows)[n] \in Nat
  <1> DEFINE m == Len(rows)
             b == PadBalance(rows)
             sum == CHOOSE g : RowSums(g, rows)
  <1>1. m \in Nat /\ DOMAIN rows = 1..m /\ N \in Nat /\ m <= N
    BY LenProperties, Widths
  <1>2. \A n \in 1..N : b[n] = IF n <= m THEN rows[n].balance ELSE 0
    BY DEF PadBalance
  <1>3. \A n \in 1..m : rows[n].balance \in Nat
    <2>1. \A n \in 1..m : rows[n] \in Row
      BY <1>1, ElementOfSeq
    <2> QED BY <2>1, InclusionAssumption DEF Row
  <1>4. RowSums(sum, rows)
    <2>1. \E g : RowSums(g, rows)
      BY RowSumsExist
    <2> QED BY <2>1
  <1>5. Total(rows) = sum[m]
    BY DEF Total, RowSums
  <1>6. sum[0] = 0 /\ \A n \in 1..m : sum[n] = sum[n - 1] + rows[n].balance
    <2> HIDE DEF sum
    <2> DEFINE g == [n \in 0..m |-> IF n = 0 THEN 0 ELSE sum[n - 1] + rows[n].balance]
    <2>1. g[0] = 0 /\ \A n \in 1..m : g[n] = sum[n - 1] + rows[n].balance
      BY <1>1
    <2>2. sum = g
      BY <1>4 DEF RowSums
    <2> HIDE DEF g
    <2> QED BY <2>1, <2>2
  <1>7. s[0] = 0 /\ \A n \in 1..N : s[n] = s[n - 1] + b[n]
    BY <1>1, SumsStep
  <1> HIDE DEF b, m, sum
  <1>8. \A n \in 1..N : b[n] \in Nat
    BY <1>1, <1>2, <1>3
  <1> DEFINE T == {n \in Nat : n <= m => s[n] = sum[n]}
             U == {n \in Nat : m + n <= N => s[m + n] = s[m]}
  <1>9. Nat \subseteq T
    <2>1. 0 \in T
      BY <1>6, <1>7
    <2>2. ASSUME NEW n \in Nat, n \in T, n + 1 <= m PROVE s[n + 1] = sum[n + 1]
      <3>1. s[n + 1] = s[n] + b[n + 1] /\ sum[n + 1] = sum[n] + rows[n + 1].balance
        BY <1>1, <1>6, <1>7, <2>2
      <3>2. b[n + 1] = rows[n + 1].balance
        BY <1>1, <1>2, <2>2
      <3> QED BY <1>1, <2>2, <3>1, <3>2
    <2>3. \A n \in Nat : n \in T => n + 1 \in T
      BY <2>2
    <2> HIDE DEF T
    <2> QED BY <2>1, <2>3, SetInduction
  <1>10. \A n \in 0..N : s[n] \in Nat
    <2>1. SumsTo(s, b, N)
      BY DEF b
    <2> QED BY <1>1, <1>8, <2>1, SumsGrow
  <1>11. Nat \subseteq U
    <2>1. 0 \in U
      BY <1>1
    <2>2. ASSUME NEW n \in Nat, n \in U, m + (n + 1) <= N PROVE s[m + (n + 1)] = s[m]
      <3>1. s[m + (n + 1)] = s[m + n] + b[m + (n + 1)] /\ b[m + (n + 1)] = 0
        <4>1. m + (n + 1) \in 1..N /\ (m + (n + 1)) - 1 = m + n /\ ~ (m + (n + 1) <= m)
          BY <1>1, <2>2
        <4> QED BY <1>2, <1>7, <4>1
      <3>2. s[m + n] = s[m] /\ s[m] \in Nat
        BY <1>1, <1>10, <2>2
      <3> QED BY <3>1, <3>2
    <2>3. \A n \in Nat : n \in U => n + 1 \in U
      BY <2>2
    <2> HIDE DEF U
    <2> QED BY <2>1, <2>3, SetInduction
  <1>12. s[m] = sum[m] /\ s[N] = s[m]
    <2>1. m \in T /\ N - m \in U
      <3> HIDE DEF T, U
      <3> QED BY <1>1, <1>9, <1>11
    <2> QED BY <1>1, <2>1
  <1>13. Total(rows) = s[N] /\ s[N] \in Nat
    BY <1>1, <1>5, <1>10, <1>12
  <1> QED BY <1>8, <1>13 DEF b

-----------------------------------------------------------------------------
(* The levels that build makes.                                            *)

LevelsTo(f, leaves, m) == f = [k \in 0..m |-> IF k = 0 THEN leaves ELSE parents(f[k - 1])]

\* LevelsTo, one level at a time.
LEMMA LevelsStep ==
  ASSUME NEW m \in Nat, NEW leaves, NEW f, LevelsTo(f, leaves, m)
  PROVE  f[0] = leaves /\ \A k \in 1..m : f[k] = parents(f[k - 1])
  <1> DEFINE g == [k \in 0..m |-> IF k = 0 THEN leaves ELSE parents(f[k - 1])]
  <1>1. g[0] = leaves /\ \A k \in 1..m : g[k] = parents(f[k - 1])
    OBVIOUS
  <1>2. f = g
    BY DEF LevelsTo
  <1> HIDE DEF g
  <1> QED BY <1>1, <1>2

\* The levels exist for every depth.
LEMMA LevelsExist ==
  ASSUME NEW leaves
  PROVE  \A m \in Nat : \E f : LevelsTo(f, leaves, m)
  <1> DEFINE T == {m \in Nat : \E f : LevelsTo(f, leaves, m)}
  <1>1. 0 \in T
    <2> DEFINE f == [k \in 0..0 |-> leaves]
    <2>1. f[0] = leaves
      OBVIOUS
    <2>2. f = [k \in 0..0 |-> IF k = 0 THEN leaves ELSE parents(f[k - 1])]
      OBVIOUS
    <2>3. LevelsTo(f, leaves, 0)
      BY <2>2 DEF LevelsTo
    <2> HIDE DEF f
    <2> QED BY <2>3
  <1>2. ASSUME NEW m \in Nat, m \in T PROVE m + 1 \in T
    <2>1. PICK f : LevelsTo(f, leaves, m)
      BY <1>2
    <2> DEFINE g == [k \in 0..(m + 1) |-> IF k = 0 THEN leaves ELSE parents(f[k - 1])]
               v == [k \in 0..(m + 1) |-> IF k = 0 THEN leaves ELSE parents(g[k - 1])]
    <2>2. f[0] = leaves /\ \A k \in 1..m : f[k] = parents(f[k - 1])
      BY <2>1, LevelsStep
    <2>3. \A k \in 0..m : g[k] = f[k]
      BY <2>2
    <2>4. \A k \in 0..(m + 1) : g[k] = IF k = 0 THEN leaves ELSE parents(f[k - 1])
      OBVIOUS
    <2>5. g = [k \in 0..(m + 1) |-> g[k]] /\ v = [k \in 0..(m + 1) |-> v[k]]
      OBVIOUS
    <2>6. \A k \in 0..(m + 1) : k # 0 => k - 1 \in 0..m
      OBVIOUS
    <2>7. \A k \in 0..(m + 1) : v[k] = g[k]
      <3> HIDE DEF g
      <3> QED BY <2>3, <2>4, <2>6
    <2>8. g = v
      <3> HIDE DEF g, v
      <3> QED BY <2>5, <2>7
    <2>9. LevelsTo(g, leaves, m + 1)
      <3> HIDE DEF g
      <3> QED BY <2>8 DEF LevelsTo
    <2> HIDE DEF g
    <2> QED BY <2>9
  <1>3. Nat \subseteq T
    <2> HIDE DEF T
    <2> QED BY <1>1, <1>2, SetInduction
  <1> QED BY <1>3

\* build: the leaves, then a round of parents per level.
LEMMA LevelsAre ==
  ASSUME NEW leaves
  PROVE  /\ build(leaves)[0] = leaves
         /\ \A k \in 1..DEPTH : build(leaves)[k] = parents(build(leaves)[k - 1])
  <1> DEFINE level == CHOOSE f : LevelsTo(f, leaves, DEPTH)
  <1>1. LevelsTo(level, leaves, DEPTH)
    <2>1. \E f : LevelsTo(f, leaves, DEPTH)
      BY LevelsExist, Widths
    <2> QED BY <2>1
  <1>2. build(leaves) = level
    BY DEF build, LevelsTo
  <1> HIDE DEF level
  <1> QED BY <1>1, <1>2, LevelsStep, Widths

\* Where the nodes of a level are an even number, none is paired with itself.
LEMMA ParentsOf ==
  ASSUME NEW m \in Nat, NEW level, OfLength(level, 2 * m)
  PROVE  /\ OfLength(parents(level), m)
         /\ \A j \in 1..m : parents(level)[j] = hash_pair(level[2 * j - 1], level[2 * j])
  <1>1. Len(level) = 2 * m
    <2>1. 2 * m \in Nat
      OBVIOUS
    <2> QED BY <2>1, FunctionIsSeq
  <1>2. (2 * m + 1) \div 2 = m /\ \A j \in 1..m : 2 * j <= 2 * m
    OBVIOUS
  <1> DEFINE p == [j \in 1..m |->
                     hash_pair(level[2 * j - 1],
                               level[IF 2 * j <= 2 * m THEN 2 * j ELSE 2 * j - 1])]
  <1>3. parents(level) = p
    BY <1>1, <1>2 DEF parents
  <1>4. \A j \in 1..m : p[j] = hash_pair(level[2 * j - 1], level[2 * j])
    BY <1>2
  <1>5. p = [j \in 1..m |-> p[j]]
    OBVIOUS
  <1> HIDE DEF p
  <1> QED BY <1>3, <1>4, <1>5 DEF OfLength

\* The levels over ids and balances, up to the root.
TreeOver(levels, ids, balances) ==
  /\ \A j \in 1..N : levels[0][j] = leaf(ids[j], balances[j])
  /\ \A k \in 1..DEPTH : \A j \in 1..2^(DEPTH - k) :
       levels[k][j] = hash_pair(levels[k - 1][2 * j - 1], levels[k - 1][2 * j])

\* build makes a tree over the padded rows, in which no node is paired with itself.
LEMMA BuiltTree ==
  ASSUME NEW rows \in Seq(Row), Len(rows) <= N
  PROVE  TreeOver(build(Leaves(rows)), PadId(rows), PadBalance(rows))
  <1> DEFINE levels == build(Leaves(rows))
             T == {k \in Nat : k <= DEPTH => OfLength(levels[k], 2^(DEPTH - k))}
  <1>1. levels[0] = Leaves(rows) /\ \A k \in 1..DEPTH : levels[k] = parents(levels[k - 1])
    BY LevelsAre
  <1>2. Leaves(rows) = [j \in 1..N |-> leaf(PadId(rows)[j], PadBalance(rows)[j])]
    BY PaddedRows
  <1>3. /\ OfLength(Leaves(rows), N)
        /\ \A j \in 1..N : Leaves(rows)[j] = leaf(PadId(rows)[j], PadBalance(rows)[j])
    BY <1>2 DEF OfLength
  <1> HIDE DEF levels
  <1>4. Nat \subseteq T
    <2>1. 0 \in T
      BY <1>1, <1>3, Widths DEF N
    <2>2. ASSUME NEW k \in Nat, k \in T, k + 1 <= DEPTH
          PROVE  OfLength(levels[k + 1], 2^(DEPTH - (k + 1)))
      <3> DEFINE d == DEPTH - (k + 1)
                 w == 2^d
      <3>1. d \in Nat /\ d + 1 = DEPTH - k /\ k + 1 \in 1..DEPTH /\ (k + 1) - 1 = k
        BY <2>2, Widths
      <3>2. w \in Nat /\ 2^(d + 1) = 2 * w
        BY <3>1, Widths
      <3>3. OfLength(levels[k], 2 * w)
        <4>1. OfLength(levels[k], 2^(DEPTH - k))
          BY <2>2, Widths
        <4> QED BY <3>1, <3>2, <4>1
      <3>4. levels[k + 1] = parents(levels[k])
        BY <1>1, <3>1
      <3> HIDE DEF w
      <3>5. OfLength(levels[k + 1], w)
        BY <3>2, <3>3, <3>4, ParentsOf
      <3> QED BY <3>5 DEF w
    <2>3. \A k \in Nat : k \in T => k + 1 \in T
      BY <2>2
    <2> HIDE DEF T
    <2> QED BY <2>1, <2>3, SetInduction
  <1>5. ASSUME NEW k \in 1..DEPTH, NEW j \in 1..2^(DEPTH - k)
        PROVE  levels[k][j] = hash_pair(levels[k - 1][2 * j - 1], levels[k - 1][2 * j])
    <2> DEFINE d == DEPTH - k
               w == 2^d
    <2>1. d \in Nat /\ d + 1 = DEPTH - (k - 1) /\ k - 1 \in Nat /\ k - 1 <= DEPTH
      BY Widths
    <2>2. w \in Nat /\ 2^(d + 1) = 2 * w
      BY <2>1, Widths
    <2>3. OfLength(levels[k - 1], 2^(DEPTH - (k - 1)))
      BY <1>4, <2>1
    <2>4. OfLength(levels[k - 1], 2 * w)
      BY <2>1, <2>2, <2>3
    <2>5. levels[k] = parents(levels[k - 1])
      BY <1>1
    <2>6. j \in 1..w
      OBVIOUS
    <2> HIDE DEF w
    <2> QED BY <2>2, <2>4, <2>5, <2>6, ParentsOf
  <1>6. \A j \in 1..N : levels[0][j] = leaf(PadId(rows)[j], PadBalance(rows)[j])
    BY <1>1, <1>3
  <1> QED BY <1>5, <1>6 DEF TreeOver, levels

-----------------------------------------------------------------------------
(* The sums of the nodes: no node saturates below the bound of the total.  *)

\* j of v spans of width w.
LEMMA Span ==
  ASSUME NEW v \in Nat, NEW w \in Nat, NEW j \in 0..v
  PROVE  j * w \in Nat /\ j * w <= v * w
  <1>1. (v - j) * w \in Nat
    OBVIOUS
  <1>2. v * w = j * w + (v - j) * w
    OBVIOUS
  <1>3. j * w \in Nat
    OBVIOUS
  <1> QED BY <1>1, <1>2, <1>3

\* What the leaves under a node are owed.
Under(s, k, j) == s[j * 2^k] - s[(j - 1) * 2^k]

\* The spans of two siblings lie between the first leaf and the last, and add up.
LEMMA SpansAdd ==
  ASSUME NEW b, \A n \in 1..N : b[n] \in Nat, NEW s, SumsTo(s, b, N)
  PROVE  /\ \A k \in 0..DEPTH : \A j \in 1..2^(DEPTH - k) : Under(s, k, j) \in 0..s[N]
         /\ \A k \in Nat : k + 1 <= DEPTH =>
              \A j \in 1..2^(DEPTH - (k + 1)) :
                /\ 2 * j - 1 \in 1..2^(DEPTH - k) /\ 2 * j \in 1..2^(DEPTH - k)
                /\ Under(s, k, 2 * j - 1) + Under(s, k, 2 * j) = Under(s, k + 1, j)
  <1>1. /\ N \in Nat /\ DEPTH \in Nat /\ \A n \in 0..N : s[n] \in Nat
        /\ \A x, y \in 0..N : x <= y => s[x] <= s[y]
    BY Widths, SumsGrow
  <1>2. ASSUME NEW k \in 0..DEPTH, NEW j \in 1..2^(DEPTH - k)
        PROVE  /\ j * 2^k \in 0..N /\ (j - 1) * 2^k \in 0..N
               /\ Under(s, k, j) \in 0..s[N]
    <2> DEFINE v == 2^(DEPTH - k)
               w == 2^k
    <2>1. v \in Nat /\ w \in Nat /\ v * w = N
      <3>1. DEPTH - k \in Nat /\ k \in Nat
        BY <1>1
      <3> QED BY <3>1, Widths
    <2>2. j \in 0..v /\ j - 1 \in 0..v /\ j \in 1..v
      BY <2>1
    <2>3. j * w \in Nat /\ j * w <= v * w /\ (j - 1) * w \in Nat /\ (j - 1) * w <= v * w
      <3> HIDE DEF v, w
      <3> QED BY <2>1, <2>2, Span
    <2>4. (j - 1) * w <= j * w
      <3> HIDE DEF v, w
      <3>1. (j - 1) * w + w = j * w
        BY <2>1, <2>2
      <3> QED BY <2>1, <2>3, <3>1
    <2> DEFINE x == (j - 1) * w
               y == j * w
    <2>5. x \in 0..N /\ y \in 0..N /\ x <= y
      <3> HIDE DEF v, w
      <3> QED BY <1>1, <2>1, <2>3, <2>4
    <2>6. Under(s, k, j) = s[y] - s[x]
      BY DEF Under
    <2>7. s[y] - s[x] \in 0..s[N]
      <3> HIDE DEF x, y
      <3> QED BY <1>1, <2>5
    <2> QED BY <2>5, <2>6, <2>7
  <1>3. ASSUME NEW k \in Nat, k + 1 <= DEPTH, NEW j \in 1..2^(DEPTH - (k + 1))
        PROVE  /\ 2 * j - 1 \in 1..2^(DEPTH - k) /\ 2 * j \in 1..2^(DEPTH - k)
               /\ Under(s, k, 2 * j - 1) + Under(s, k, 2 * j) = Under(s, k + 1, j)
    <2> DEFINE d == DEPTH - (k + 1)
               v == 2^d
               w == 2^k
               x == (2 * j - 2) * w
               y == (2 * j - 1) * w
               z == (2 * j) * w
    <2>1. d \in Nat /\ d + 1 = DEPTH - k /\ k \in 0..DEPTH
      BY <1>1, <1>3
    <2>2. v \in Nat /\ w \in Nat /\ 2^(DEPTH - k) = 2 * v /\ 2^(k + 1) = 2 * w
      BY <1>3, <2>1, Widths
    <2>3. j \in 1..v /\ 2 * j - 1 \in 1..2^(DEPTH - k) /\ 2 * j \in 1..2^(DEPTH - k)
      <3>1. j \in 1..v
        OBVIOUS
      <3> HIDE DEF v
      <3> QED BY <2>2, <3>1
    <2>4. j * (2 * w) = z /\ (j - 1) * (2 * w) = x /\ (2 * j - 1) - 1 = 2 * j - 2
      <3> HIDE DEF v, w
      <3> QED BY <2>2, <2>3
    <2>5. Under(s, k + 1, j) = s[z] - s[x]
      <3>1. Under(s, k + 1, j) = s[j * (2 * w)] - s[(j - 1) * (2 * w)]
        BY <2>2 DEF Under
      <3> HIDE DEF w
      <3> QED BY <2>4, <3>1
    <2>6. Under(s, k, 2 * j - 1) = s[y] - s[x] /\ Under(s, k, 2 * j) = s[z] - s[y]
      BY <2>4 DEF Under
    <2>7. x \in 0..N /\ y \in 0..N /\ z \in 0..N
      <3> HIDE DEF v
      <3> QED BY <1>2, <2>1, <2>3, <2>4
    <2>8. s[x] \in Nat /\ s[y] \in Nat /\ s[z] \in Nat
      <3> HIDE DEF x, y, z
      <3> QED BY <1>1, <2>7
    <2> HIDE DEF x, y, z
    <2> QED BY <2>3, <2>5, <2>6, <2>8
  <1> QED BY <1>2, <1>3

\* A node's sum is what the leaves under it are owed.
LEMMA NodeSums ==
  ASSUME NEW levels, NEW ids, NEW b, TreeOver(levels, ids, b),
         \A n \in 1..N : b[n] \in Nat, NEW s, SumsTo(s, b, N), s[N] <= MaxU128
  PROVE  \A k \in 0..DEPTH : \A j \in 1..2^(DEPTH - k) :
           /\ levels[k][j] = Node(levels[k][j].hash, Under(s, k, j))
           /\ Under(s, k, j) \in 0..s[N]
  <1>1. N \in Nat /\ DEPTH \in Nat /\ \A n \in 0..N : s[n] \in Nat
    BY Widths, SumsGrow
  <1>2. \A k \in 0..DEPTH : \A j \in 1..2^(DEPTH - k) : Under(s, k, j) \in 0..s[N]
    BY SpansAdd
  <1> DEFINE OK(k) == \A j \in 1..2^(DEPTH - k) :
                        levels[k][j] = Node(levels[k][j].hash, Under(s, k, j))
             T == {k \in Nat : k <= DEPTH => OK(k)}
  <1>3. 0 \in T
    <2>1. ASSUME NEW j \in 1..N PROVE levels[0][j] = Node(levels[0][j].hash, Under(s, 0, j))
      <3>1. levels[0][j] = leaf(ids[j], b[j])
        BY DEF TreeOver
      <3>2. Under(s, 0, j) = b[j]
        <4>1. 2^0 = 1 /\ j * 1 = j /\ (j - 1) * 1 = j - 1
          BY <1>1, Widths
        <4>2. s[j] = s[j - 1] + b[j]
          BY <1>1, SumsStep
        <4>3. s[j] \in Nat /\ s[j - 1] \in Nat /\ b[j] \in Nat
          BY <1>1
        <4> QED BY <4>1, <4>2, <4>3 DEF Under
      <3> QED BY <3>1, <3>2 DEF leaf, Node
    <2>2. 2^(DEPTH - 0) = N
      BY <1>1 DEF N
    <2> QED BY <2>1, <2>2
  <1>4. ASSUME NEW k \in Nat, k \in T, k + 1 <= DEPTH, NEW j \in 1..2^(DEPTH - (k + 1))
        PROVE  levels[k + 1][j] = Node(levels[k + 1][j].hash, Under(s, k + 1, j))
    <2> DEFINE l == levels[k][2 * j - 1]
               r == levels[k][2 * j]
    <2>1. k + 1 \in 1..DEPTH /\ (k + 1) - 1 = k /\ k \in 0..DEPTH
      BY <1>1, <1>4
    <2>2. 2 * j - 1 \in 1..2^(DEPTH - k) /\ 2 * j \in 1..2^(DEPTH - k)
      BY <1>4, SpansAdd
    <2>3. levels[k + 1][j] = hash_pair(l, r)
      BY <2>1 DEF TreeOver
    <2>4. OK(k)
      BY <1>4, <2>1
    <2>5. l = Node(l.hash, Under(s, k, 2 * j - 1)) /\ r = Node(r.hash, Under(s, k, 2 * j))
      BY <2>2, <2>4
    <2>6. l.sum = Under(s, k, 2 * j - 1) /\ r.sum = Under(s, k, 2 * j)
      <3> HIDE DEF l, r
      <3> QED BY <2>5 DEF Node
    <2>7. Under(s, k, 2 * j - 1) + Under(s, k, 2 * j) = Under(s, k + 1, j)
      BY <1>4, SpansAdd
    <2>8. Saturated(l.sum + r.sum) = Under(s, k + 1, j)
      <3>1. Under(s, k + 1, j) \in 0..s[N]
        BY <1>2, <2>1
      <3>2. s[N] \in Nat /\ MaxU128 \in Nat
        BY <1>1, TreeAssumption
      <3> HIDE DEF l, r
      <3> QED BY <2>6, <2>7, <3>1, <3>2 DEF Saturated
    <2> HIDE DEF l, r
    <2> QED BY <2>3, <2>8 DEF hash_pair, Node
  <1>5. Nat \subseteq T
    <2>1. \A k \in Nat : k \in T => k + 1 \in T
      BY <1>4
    <2> HIDE DEF T
    <2> QED BY <1>3, <2>1, SetInduction
  <1>6. \A k \in 0..DEPTH : OK(k)
    BY <1>1, <1>5
  <1> QED BY <1>2, <1>6

-----------------------------------------------------------------------------
(* verify_inclusion's fold, and the path that inclusion_path makes of a    *)
(* tree: the fold follows the nodes above the leaf up to the root.         *)

NodesTo(f, first, path, m) ==
  f = [k \in 0..m |-> IF k = 0 THEN first ELSE climb(f[k - 1], path[k])]

\* NodesTo, one step of the path at a time.
LEMMA NodesStep ==
  ASSUME NEW m \in Nat, NEW first, NEW path, NEW f, NodesTo(f, first, path, m)
  PROVE  f[0] = first /\ \A k \in 1..m : f[k] = climb(f[k - 1], path[k])
  <1> DEFINE g == [k \in 0..m |-> IF k = 0 THEN first ELSE climb(f[k - 1], path[k])]
  <1>1. g[0] = first /\ \A k \in 1..m : g[k] = climb(f[k - 1], path[k])
    OBVIOUS
  <1>2. f = g
    BY DEF NodesTo
  <1> HIDE DEF g
  <1> QED BY <1>1, <1>2

\* The nodes of the fold exist for every path.
LEMMA NodesExist ==
  ASSUME NEW first, NEW path
  PROVE  \A m \in Nat : \E f : NodesTo(f, first, path, m)
  <1> DEFINE T == {m \in Nat : \E f : NodesTo(f, first, path, m)}
  <1>1. 0 \in T
    <2> DEFINE f == [k \in 0..0 |-> first]
    <2>1. f[0] = first
      OBVIOUS
    <2>2. f = [k \in 0..0 |-> IF k = 0 THEN first ELSE climb(f[k - 1], path[k])]
      OBVIOUS
    <2>3. NodesTo(f, first, path, 0)
      BY <2>2 DEF NodesTo
    <2> HIDE DEF f
    <2> QED BY <2>3
  <1>2. ASSUME NEW m \in Nat, m \in T PROVE m + 1 \in T
    <2>1. PICK f : NodesTo(f, first, path, m)
      BY <1>2
    <2> DEFINE g == [k \in 0..(m + 1) |-> IF k = 0 THEN first ELSE climb(f[k - 1], path[k])]
               v == [k \in 0..(m + 1) |-> IF k = 0 THEN first ELSE climb(g[k - 1], path[k])]
    <2>2. f[0] = first /\ \A k \in 1..m : f[k] = climb(f[k - 1], path[k])
      BY <2>1, NodesStep
    <2>3. \A k \in 0..m : g[k] = f[k]
      BY <2>2
    <2>4. \A k \in 0..(m + 1) : g[k] = IF k = 0 THEN first ELSE climb(f[k - 1], path[k])
      OBVIOUS
    <2>5. g = [k \in 0..(m + 1) |-> g[k]] /\ v = [k \in 0..(m + 1) |-> v[k]]
      OBVIOUS
    <2>6. \A k \in 0..(m + 1) : k # 0 => k - 1 \in 0..m
      OBVIOUS
    <2>7. \A k \in 0..(m + 1) : v[k] = g[k]
      <3> HIDE DEF g
      <3> QED BY <2>3, <2>4, <2>6
    <2>8. g = v
      <3> HIDE DEF g, v
      <3> QED BY <2>5, <2>7
    <2>9. NodesTo(g, first, path, m + 1)
      <3> HIDE DEF g
      <3> QED BY <2>8 DEF NodesTo
    <2> HIDE DEF g
    <2> QED BY <2>9
  <1>3. Nat \subseteq T
    <2> HIDE DEF T
    <2> QED BY <1>1, <1>2, SetInduction
  <1> QED BY <1>3

\* The nodes verify_inclusion goes through, and what it answers.
LEMMA Climbing ==
  ASSUME NEW meta, NEW id, NEW b, NEW path, Len(path) = DEPTH
  PROVE  \E node : /\ node[0] = leaf(id, b)
                   /\ \A k \in 1..DEPTH : node[k] = climb(node[k - 1], path[k])
                   /\ Verifies(meta, id, b, path) <=> node[DEPTH] = Node(meta.root_h, meta.l)
  <1> DEFINE first == Node(poseidon2_leaf(id, b), b)
             node == CHOOSE f : NodesTo(f, first, path, DEPTH)
  <1>1. NodesTo(node, first, path, DEPTH)
    <2>1. \E f : NodesTo(f, first, path, DEPTH)
      <3> HIDE DEF first
      <3> QED BY NodesExist, Widths
    <2> QED BY <2>1
  <1>2. Verifies(meta, id, b, path) <=> node[DEPTH] = Node(meta.root_h, meta.l)
    BY DEF Verifies, NodesTo
  <1>3. first = leaf(id, b)
    BY DEF poseidon2_leaf, leaf
  <1> HIDE DEF first, node
  <1>4. node[0] = first /\ \A k \in 1..DEPTH : node[k] = climb(node[k - 1], path[k])
    BY <1>1, NodesStep, Widths
  <1> QED BY <1>2, <1>3, <1>4

\* Halving an index, and the bound of a quotient.
LEMMA Halves ==
  ASSUME NEW i \in Nat, NEW w \in Nat, w > 0
  PROVE  /\ i \div w \in Nat /\ i \div (2 * w) = (i \div w) \div 2
         /\ \A v \in Nat : i < v * w => i \div w < v
  <1>1. i \div w \in Nat
    OBVIOUS
  <1>2. i \div (2 * w) = (i \div w) \div 2
    OBVIOUS
  <1>3. ASSUME NEW v \in Nat, i < v * w PROVE i \div w < v
    <2> DEFINE q == i \div w
    <2>1. q \in Nat /\ q * w <= i
      OBVIOUS
    <2> HIDE DEF q
    <2>2. SUFFICES ASSUME v <= q PROVE FALSE
      BY <1>3, <2>1 DEF q
    <2>3. v * w <= q * w
      BY <2>1, <2>2, Span
    <2>4. v * w \in Nat /\ q * w \in Nat
      BY <2>1
    <2> QED BY <1>3, <2>1, <2>3, <2>4
  <1> QED BY <1>1, <1>2, <1>3

\* The index, one to a level, of the node above leaf i + 1.
Above(i, k) == (i \div 2^k) + 1

\* The node above a leaf is within its level, and the root at the top.
LEMMA AboveIs ==
  ASSUME NEW i \in 0..(N - 1)
  PROVE  /\ \A k \in 0..DEPTH : Above(i, k) \in 1..2^(DEPTH - k)
         /\ \A k \in Nat : /\ i \div 2^k \in Nat
                           /\ Above(i, k + 1) = ((i \div 2^k) \div 2) + 1
         /\ Above(i, 0) = i + 1 /\ Above(i, DEPTH) = 1
  <1>1. ASSUME NEW k \in Nat
        PROVE  i \div 2^k \in Nat /\ Above(i, k + 1) = ((i \div 2^k) \div 2) + 1
    <2> DEFINE w == 2^k
    <2>1. w \in Nat /\ w > 0 /\ 2^(k + 1) = 2 * w
      BY Widths
    <2>2. i \div w \in Nat /\ i \div (2 * w) = (i \div w) \div 2
      <3>1. i \in Nat
        BY Widths
      <3> HIDE DEF w
      <3> QED BY <2>1, <3>1, Halves
    <2>3. Above(i, k + 1) = (i \div (2 * w)) + 1
      BY <2>1 DEF Above
    <2> HIDE DEF w
    <2>4. i \div w \in Nat /\ Above(i, k + 1) = ((i \div w) \div 2) + 1
      BY <2>2, <2>3
    <2> QED BY <2>4 DEF w
  <1>2. ASSUME NEW k \in 0..DEPTH PROVE Above(i, k) \in 1..2^(DEPTH - k)
    <2> DEFINE v == 2^(DEPTH - k)
               w == 2^k
    <2>1. v \in Nat /\ w \in Nat /\ w > 0 /\ v * w = N
      <3>1. DEPTH - k \in Nat /\ k \in Nat
        BY Widths
      <3> QED BY <3>1, Widths
    <2>2. i \in Nat /\ i < v * w
      BY <2>1, Widths
    <2>3. i \div w \in Nat /\ i \div w < v
      <3> HIDE DEF v, w
      <3> QED BY <2>1, <2>2, Halves
    <2>4. (i \div w) + 1 \in 1..v
      <3> HIDE DEF v, w
      <3> QED BY <2>1, <2>3
    <2> QED BY <2>4 DEF Above
  <1>3. Above(i, 0) = i + 1
    <2>1. 2^0 = 1 /\ i \in Nat /\ i \div 1 = i
      BY Widths
    <2> QED BY <2>1 DEF Above
  <1>4. Above(i, DEPTH) = 1
    <2>1. 2^(DEPTH - DEPTH) = 1 /\ DEPTH \in 0..DEPTH
      BY Widths
    <2> QED BY <1>2, <2>1
  <1> QED BY <1>1, <1>2, <1>3, <1>4

\* A path has a step for each level below the root.
LEMMA PathLength ==
  ASSUME NEW levels, NEW i
  PROVE  Len(inclusion_path(levels, i)) = DEPTH
  <1> DEFINE path == inclusion_path(levels, i)
  <1>1. OfLength(path, DEPTH)
    BY DEF OfLength, inclusion_path
  <1> HIDE DEF path
  <1>2. Len(path) = DEPTH
    BY <1>1, FunctionIsSeq, Widths
  <1> QED BY <1>2 DEF path

\* The fold of a leaf's own path is the node above it on every level.
LEMMA PathClimbs ==
  ASSUME NEW levels, NEW ids, NEW b, TreeOver(levels, ids, b),
         \A n \in 1..N : b[n] \in Nat, NEW s, SumsTo(s, b, N), s[N] <= MaxU128,
         NEW i \in 0..(N - 1), NEW node, node[0] = leaf(ids[i + 1], b[i + 1]),
         \A k \in 1..DEPTH : node[k] = climb(node[k - 1], inclusion_path(levels, i)[k])
  PROVE  node[DEPTH] = levels[DEPTH][1]
  <1> DEFINE T == {k \in Nat : k <= DEPTH => node[k] = levels[k][Above(i, k)]}
             path == inclusion_path(levels, i)
  <1>1. DEPTH \in Nat /\ N \in Nat /\ i \in Nat
    BY Widths
  <1>2. 0 \in T
    <2>1. levels[0][i + 1] = leaf(ids[i + 1], b[i + 1])
      BY <1>1 DEF TreeOver
    <2>2. Above(i, 0) = i + 1
      BY AboveIs
    <2> QED BY <2>1, <2>2
  <1>3. ASSUME NEW k \in Nat, k \in T, k + 1 <= DEPTH
        PROVE  node[k + 1] = levels[k + 1][Above(i, k + 1)]
    <2> DEFINE x == i \div 2^k
               j == Above(i, k + 1)
               lo == levels[k][2 * j - 1]
               hi == levels[k][2 * j]
    <2>1. k + 1 \in 1..DEPTH /\ (k + 1) - 1 = k /\ k \in 0..DEPTH /\ k + 1 \in 0..DEPTH
      BY <1>1, <1>3
    <2>2. x \in Nat /\ Above(i, k) = x + 1 /\ j = (x \div 2) + 1
      BY <1>3, AboveIs DEF Above
    <2>3. j \in 1..2^(DEPTH - (k + 1))
      BY <2>1, AboveIs
    <2>4. levels[k + 1][j] = hash_pair(lo, hi)
      BY <2>1, <2>3 DEF TreeOver
    <2>5. lo.sum \in Nat /\ hi.sum \in Nat
      <3>1. 2 * j - 1 \in 1..2^(DEPTH - k) /\ 2 * j \in 1..2^(DEPTH - k)
        BY <1>3, <2>3, SpansAdd
      <3>2. s[N] \in Nat
        BY <1>1, SumsGrow
      <3>3. \A n \in 1..2^(DEPTH - k) : /\ levels[k][n] = Node(levels[k][n].hash, Under(s, k, n))
                                        /\ Under(s, k, n) \in 0..s[N]
        BY <2>1, NodeSums
      <3>4. ASSUME NEW n \in 1..2^(DEPTH - k) PROVE levels[k][n].sum \in Nat
        <4> DEFINE z == levels[k][n]
                   u == Under(s, k, n)
        <4>1. z = Node(z.hash, u) /\ u \in 0..s[N]
          BY <3>3
        <4> HIDE DEF z, u
        <4>2. z.sum = u
          BY <4>1 DEF Node
        <4>3. z.sum \in Nat
          BY <3>2, <4>1, <4>2
        <4> QED BY <4>3 DEF z
      <3> HIDE DEF j
      <3> QED BY <3>1, <3>4
    <2>6. path[k + 1] = [sibling |-> levels[k][IF x % 2 = 1 THEN x ELSE x + 2],
                         sibling_is_left |-> x % 2 = 1]
      BY <2>1 DEF inclusion_path
    <2>7. node[k] = levels[k][x + 1] /\ node[k + 1] = climb(node[k], path[k + 1])
      BY <1>1, <1>3, <2>1, <2>2
    <2> HIDE DEF x, path, j
    <2>8. CASE x % 2 = 1
      <3>1. 2 * j - 1 = x /\ 2 * j = x + 1
        BY <2>2, <2>8
      <3>2. node[k] = hi /\ path[k + 1] = [sibling |-> lo, sibling_is_left |-> TRUE]
        BY <2>6, <2>7, <2>8, <3>1
      <3> HIDE DEF lo, hi
      <3>3. climb(hi, [sibling |-> lo, sibling_is_left |-> TRUE]) = hash_pair(lo, hi)
        <4>1. hi.sum + lo.sum = lo.sum + hi.sum
          BY <2>5
        <4> QED BY <4>1 DEF climb, hash_pair, poseidon2_node
      <3> QED BY <2>4, <2>7, <3>2, <3>3 DEF j
    <2>9. CASE x % 2 # 1
      <3>1. 2 * j - 1 = x + 1 /\ 2 * j = x + 2
        BY <2>2, <2>9
      <3>2. node[k] = lo /\ path[k + 1] = [sibling |-> hi, sibling_is_left |-> FALSE]
        BY <2>6, <2>7, <2>9, <3>1
      <3> HIDE DEF lo, hi
      <3>3. climb(lo, [sibling |-> hi, sibling_is_left |-> FALSE]) = hash_pair(lo, hi)
        BY DEF climb, hash_pair, poseidon2_node
      <3> QED BY <2>4, <2>7, <3>2, <3>3 DEF j
    <2> QED BY <2>8, <2>9
  <1>4. Nat \subseteq T
    <2>1. \A k \in Nat : k \in T => k + 1 \in T
      BY <1>3
    <2> HIDE DEF T
    <2> QED BY <1>2, <2>1, SetInduction
  <1>5. node[DEPTH] = levels[DEPTH][Above(i, DEPTH)]
    BY <1>1, <1>4
  <1> QED BY <1>5, AboveIs

\* A node on a path hashes to a node of the tree only if what it was made of does.
LEMMA PathDescends ==
  ASSUME NEW levels, NEW ids, NEW b, TreeOver(levels, ids, b), NEW path, NEW id, NEW c,
         NEW node, node[0] = leaf(id, c),
         \A k \in 1..DEPTH : node[k] = climb(node[k - 1], path[k]),
         node[DEPTH].hash = levels[DEPTH][1].hash
  PROVE  \E j \in 1..N : ids[j] = id /\ b[j] = c
  <1> DEFINE Met(k) == \E j \in 1..2^(DEPTH - k) : node[k].hash = levels[k][j].hash
             T == {d \in Nat : d <= DEPTH => Met(DEPTH - d)}
  <1>1. DEPTH \in Nat /\ N \in Nat /\ 2^0 = 1
    BY Widths
  <1>2. 0 \in T
    <2>1. DEPTH - 0 = DEPTH /\ DEPTH - DEPTH = 0
      BY <1>1
    <2>2. 1 \in 1..2^(DEPTH - DEPTH)
      BY <1>1, <2>1
    <2>3. Met(DEPTH)
      BY <2>2
    <2> QED BY <2>1, <2>3
  <1>3. ASSUME NEW d \in Nat, d \in T, d + 1 <= DEPTH PROVE Met(DEPTH - (d + 1))
    <2> DEFINE k == DEPTH - d
    <2>1. k \in 1..DEPTH /\ DEPTH - (d + 1) = k - 1 /\ DEPTH - k \in Nat
          /\ DEPTH - (k - 1) = (DEPTH - k) + 1
      BY <1>1, <1>3
    <2>2. Met(k)
      BY <1>1, <1>3
    <2> HIDE DEF k
    <2>3. PICK j \in 1..2^(DEPTH - k) : node[k].hash = levels[k][j].hash
      BY <2>2
    <2> DEFINE v == 2^(DEPTH - k)
               lo == levels[k - 1][2 * j - 1]
               hi == levels[k - 1][2 * j]
               n == node[k - 1]
               x == path[k].sibling
    <2>4. v \in Nat /\ 2^(DEPTH - (k - 1)) = 2 * v
      BY <2>1, Widths
    <2>5. 2 * j - 1 \in 1..2^(DEPTH - (k - 1)) /\ 2 * j \in 1..2^(DEPTH - (k - 1))
      <3>1. j \in 1..v
        OBVIOUS
      <3> HIDE DEF v
      <3> QED BY <2>4, <3>1
    <2>6. levels[k][j].hash = hash4(lo.hash, Num(lo.sum), hi.hash, Num(hi.sum))
      <3>1. levels[k][j] = hash_pair(lo, hi)
        BY <2>1 DEF TreeOver
      <3> HIDE DEF lo, hi
      <3> QED BY <3>1 DEF hash_pair, Node
    <2>7. \/ node[k].hash = hash4(x.hash, Num(x.sum), n.hash, Num(n.sum))
          \/ node[k].hash = hash4(n.hash, Num(n.sum), x.hash, Num(x.sum))
      <3>1. node[k] = climb(n, path[k])
        BY <2>1
      <3> HIDE DEF n
      <3> QED BY <3>1 DEF climb, Node, poseidon2_node
    <2>8. n.hash = lo.hash \/ n.hash = hi.hash
      <3> HIDE DEF lo, hi, n, x
      <3> QED BY <2>3, <2>6, <2>7 DEF hash4
    <2> QED BY <2>1, <2>5, <2>8
  <1>4. Nat \subseteq T
    <2>1. \A d \in Nat : d \in T => d + 1 \in T
      BY <1>3
    <2> HIDE DEF T
    <2> QED BY <1>2, <2>1, SetInduction
  <1>5. PICK j \in 1..N : node[0].hash = levels[0][j].hash
    <2>1. Met(DEPTH - DEPTH)
      BY <1>1, <1>4
    <2>2. DEPTH - DEPTH = 0 /\ 2^(DEPTH - 0) = N
      BY <1>1 DEF N
    <2>3. Met(0)
      BY <2>1, <2>2
    <2> QED BY <2>2, <2>3
  <1>6. levels[0][j] = leaf(ids[j], b[j])
    BY DEF TreeOver
  <1>7. hash4(id, Num(c), Num(0), Num(0)) = hash4(ids[j], Num(b[j]), Num(0), Num(0))
    BY <1>5, <1>6 DEF leaf, Node
  <1>8. id = ids[j] /\ c = b[j]
    BY <1>7 DEF hash4, Num
  <1> QED BY <1>8

-----------------------------------------------------------------------------
(* The circuit computes the same tree, and none of its additions wraps.    *)

\* The rows a proof is made from, and what the proof says of them.
Sound(rows) ==
  /\ rows \in Seq(Row) /\ Len(rows) \in 1..N
  /\ \A n \in 1..Len(rows) : rows[n].balance \in U64
  /\ Total(rows) \in U64

\* The bound of a u64 lies below that of a u128, and that below the field's order.
LEMMA Limits == MaxU64 \in Nat /\ MaxU128 \in Nat /\ FieldP \in Nat
                /\ MaxU64 <= MaxU128 /\ MaxU128 < FieldP
  <1>1. N \in Nat /\ 1 <= N /\ MaxU64 \in Nat
    BY Widths, MaxU64Assumption
  <1>2. 1 * MaxU64 <= N * MaxU64
    BY <1>1, Span
  <1>3. N * MaxU64 <= MaxU128 /\ MaxU128 < FieldP /\ MaxU128 \in Nat /\ FieldP \in Nat
    BY TreeAssumption DEF N
  <1>4. N * MaxU64 \in Nat /\ 1 * MaxU64 = MaxU64
    BY <1>1
  <1> QED BY <1>1, <1>2, <1>3, <1>4

\* A tree of sound rows, with the sums its nodes stand for.
SoundTree(levels, rows, s) ==
  /\ TreeOver(levels, PadId(rows), PadBalance(rows))
  /\ \A n \in 1..N : PadBalance(rows)[n] \in U64
  /\ SumsTo(s, PadBalance(rows), N)
  /\ s[N] = Total(rows) /\ s[N] \in U64 /\ s[N] <= MaxU128

\* build makes a sound tree of sound rows.
LEMMA SoundTrees ==
  ASSUME NEW rows, Sound(rows)
  PROVE  \E s : SoundTree(build(Leaves(rows)), rows, s)
  <1>1. N \in Nat /\ rows \in Seq(Row) /\ Len(rows) \in 1..N /\ Len(rows) <= N
    BY Widths DEF Sound
  <1>2. PICK s : SumsTo(s, PadBalance(rows), N)
    BY <1>1, SumsExist
  <1>3. Total(rows) = s[N] /\ s[N] \in U64
    BY <1>1, <1>2, TotalIsSum DEF Sound
  <1>4. s[N] <= MaxU128
    BY <1>3, Limits DEF U64
  <1>5. \A n \in 1..N : PadBalance(rows)[n] \in U64
    <2>1. \A n \in 1..N : PadBalance(rows)[n] = IF n <= Len(rows) THEN rows[n].balance ELSE 0
      BY DEF PadBalance
    <2>2. 0 \in U64
      BY Limits DEF U64
    <2>3. \A n \in 1..N : n <= Len(rows) => n \in 1..Len(rows)
      BY <1>1
    <2> QED BY <2>1, <2>2, <2>3 DEF Sound
  <1>6. TreeOver(build(Leaves(rows)), PadId(rows), PadBalance(rows))
    BY <1>1, BuiltTree
  <1> QED BY <1>2, <1>3, <1>4, <1>5, <1>6 DEF SoundTree

\* The root's sum is the total.
LEMMA RootIs ==
  ASSUME NEW levels, NEW rows, NEW s, SoundTree(levels, rows, s)
  PROVE  levels[DEPTH][1] = Node(levels[DEPTH][1].hash, Total(rows))
  <1>1. DEPTH \in 0..DEPTH /\ 1 \in 1..2^(DEPTH - DEPTH) /\ N \in Nat
    BY Widths
  <1>2. \A n \in 1..N : PadBalance(rows)[n] \in Nat
    BY Limits DEF SoundTree, U64
  <1>3. levels[DEPTH][1] = Node(levels[DEPTH][1].hash, Under(s, DEPTH, 1))
    BY <1>1, <1>2, NodeSums DEF SoundTree
  <1>4. Under(s, DEPTH, 1) = s[N]
    <2>1. Under(s, DEPTH, 1) = s[N] - s[0]
      <3>1. 1 * N = N /\ (1 - 1) * N = 0
        BY <1>1
      <3> QED BY <3>1 DEF Under, N
    <2>2. s[0] = 0
      BY <1>1, SumsStep DEF SoundTree
    <2>3. s[N] \in Nat
      BY Limits DEF SoundTree, U64
    <2> QED BY <2>1, <2>2, <2>3
  <1> QED BY <1>3, <1>4 DEF SoundTree

\* What a round leaves, from what the round before left.
FirstLayer(ids, balances) ==
  [i \in 0..(N - 1) |->
     Node(hash4(ids[i + 1], Num(balances[i + 1]), Num(0), Num(0)), balances[i + 1])]
NextLayer(layer, k) ==
  [j \in 0..(N - 1) |->
     IF j < 2^(DEPTH - k) THEN combine(layer[2 * j], layer[2 * j + 1]) ELSE layer[j]]

LayersTo(f, ids, balances, m) ==
  f = [k \in 0..m |->
         IF k = 0 THEN FirstLayer(ids, balances) ELSE NextLayer(f[k - 1], k)]

\* LayersTo, one round at a time.
LEMMA LayersStep ==
  ASSUME NEW m \in Nat, NEW ids, NEW b, NEW f, LayersTo(f, ids, b, m)
  PROVE  f[0] = FirstLayer(ids, b) /\ \A k \in 1..m : f[k] = NextLayer(f[k - 1], k)
  <1> DEFINE g == [k \in 0..m |-> IF k = 0 THEN FirstLayer(ids, b) ELSE NextLayer(f[k - 1], k)]
  <1>1. g[0] = FirstLayer(ids, b) /\ \A k \in 1..m : g[k] = NextLayer(f[k - 1], k)
    OBVIOUS
  <1>2. f = g
    BY DEF LayersTo
  <1> HIDE DEF g
  <1> QED BY <1>1, <1>2

\* The layers exist for every number of rounds.
LEMMA LayersExist ==
  ASSUME NEW ids, NEW b
  PROVE  \A m \in Nat : \E f : LayersTo(f, ids, b, m)
  <1> DEFINE T == {m \in Nat : \E f : LayersTo(f, ids, b, m)}
  <1>1. 0 \in T
    <2> DEFINE f == [k \in 0..0 |-> FirstLayer(ids, b)]
    <2>1. f = [k \in 0..0 |-> IF k = 0 THEN FirstLayer(ids, b) ELSE NextLayer(f[k - 1], k)]
      OBVIOUS
    <2> HIDE DEF f
    <2>2. LayersTo(f, ids, b, 0)
      BY <2>1 DEF LayersTo
    <2> QED BY <2>2
  <1>2. ASSUME NEW m \in Nat, m \in T PROVE m + 1 \in T
    <2>1. PICK f : LayersTo(f, ids, b, m)
      BY <1>2
    <2> DEFINE g == [k \in 0..(m + 1) |->
                       IF k = 0 THEN FirstLayer(ids, b) ELSE NextLayer(f[k - 1], k)]
               v == [k \in 0..(m + 1) |->
                       IF k = 0 THEN FirstLayer(ids, b) ELSE NextLayer(g[k - 1], k)]
    <2>2. f[0] = FirstLayer(ids, b) /\ \A k \in 1..m : f[k] = NextLayer(f[k - 1], k)
      BY <2>1, LayersStep
    <2>3. \A k \in 0..m : g[k] = f[k]
      BY <2>2
    <2>4. \A k \in 0..(m + 1) :
            g[k] = IF k = 0 THEN FirstLayer(ids, b) ELSE NextLayer(f[k - 1], k)
      OBVIOUS
    <2>5. g = [k \in 0..(m + 1) |-> g[k]] /\ v = [k \in 0..(m + 1) |-> v[k]]
      OBVIOUS
    <2>6. \A k \in 0..(m + 1) : k # 0 => k - 1 \in 0..m
      OBVIOUS
    <2>7. \A k \in 0..(m + 1) : v[k] = g[k]
      <3> HIDE DEF g
      <3> QED BY <2>3, <2>4, <2>6
    <2>8. g = v
      <3> HIDE DEF g, v
      <3> QED BY <2>5, <2>7
    <2>9. LayersTo(g, ids, b, m + 1)
      <3> HIDE DEF g
      <3> QED BY <2>8 DEF LayersTo
    <2> HIDE DEF g
    <2> QED BY <2>9
  <1>3. Nat \subseteq T
    <2> HIDE DEF T
    <2> QED BY <1>1, <1>2, SetInduction
  <1> QED BY <1>3

\* compute_root: the front of what DEPTH rounds leave.
LEMMA RoundsAre ==
  ASSUME NEW ids, NEW b
  PROVE  \E layer : /\ compute_root(ids, b) = layer[DEPTH][0]
                    /\ layer[0] = FirstLayer(ids, b)
                    /\ \A k \in 1..DEPTH : layer[k] = NextLayer(layer[k - 1], k)
  <1> DEFINE layer == CHOOSE f : LayersTo(f, ids, b, DEPTH)
  <1>1. LayersTo(layer, ids, b, DEPTH)
    <2>1. \E f : LayersTo(f, ids, b, DEPTH)
      BY LayersExist, Widths
    <2> QED BY <2>1
  <1>2. compute_root(ids, b) = layer[DEPTH][0]
    BY DEF compute_root, LayersTo, FirstLayer, NextLayer
  <1> HIDE DEF layer
  <1> QED BY <1>1, <1>2, LayersStep, Widths

\* The front of a layer is a level of the tree.
LEMMA CircuitRoot ==
  ASSUME NEW levels, NEW rows, NEW s, SoundTree(levels, rows, s)
  PROVE  compute_root(PadId(rows), PadBalance(rows)) = levels[DEPTH][1]
  <1> DEFINE ids == PadId(rows)
             b == PadBalance(rows)
  <1>1. DEPTH \in Nat /\ N \in Nat /\ N > 0 /\ \A k \in Nat : 2^k \in Nat
    BY Widths
  <1>2. /\ TreeOver(levels, ids, b) /\ SumsTo(s, b, N)
        /\ s[N] \in Nat /\ s[N] <= MaxU128 /\ \A n \in 1..N : b[n] \in Nat
    BY Limits DEF SoundTree, U64
  <1> HIDE DEF ids, b
  <1>3. PICK layer : /\ compute_root(ids, b) = layer[DEPTH][0]
                     /\ layer[0] = FirstLayer(ids, b)
                     /\ \A k \in 1..DEPTH : layer[k] = NextLayer(layer[k - 1], k)
    BY RoundsAre
  <1> DEFINE OK(k) == \A j \in 1..2^(DEPTH - k) : layer[k][j - 1] = levels[k][j]
             T == {k \in Nat : k <= DEPTH => OK(k)}
  <1>4. 0 \in T
    <2>1. ASSUME NEW j \in 1..N PROVE layer[0][j - 1] = levels[0][j]
      <3>1. j - 1 \in 0..(N - 1) /\ (j - 1) + 1 = j
        BY <1>1
      <3>2. layer[0][j - 1] = leaf(ids[j], b[j])
        BY <1>3, <3>1 DEF FirstLayer, leaf
      <3> QED BY <1>2, <3>2 DEF TreeOver
    <2>2. 2^(DEPTH - 0) = N
      BY <1>1 DEF N
    <2> QED BY <2>1, <2>2
  <1>5. ASSUME NEW k \in Nat, k \in T, k + 1 <= DEPTH, NEW j \in 1..2^(DEPTH - (k + 1))
        PROVE  layer[k + 1][j - 1] = levels[k + 1][j]
    <2> DEFINE l == levels[k][2 * j - 1]
               r == levels[k][2 * j]
               v == 2^(DEPTH - (k + 1))
    <2>1. k + 1 \in 1..DEPTH /\ (k + 1) - 1 = k /\ k \in 0..DEPTH /\ k + 1 \in 0..DEPTH
      BY <1>1, <1>5
    <2>2. /\ 2 * j - 1 \in 1..2^(DEPTH - k) /\ 2 * j \in 1..2^(DEPTH - k)
          /\ Under(s, k, 2 * j - 1) + Under(s, k, 2 * j) = Under(s, k + 1, j)
      BY <1>2, <1>5, SpansAdd
    <2>3. v \in Nat /\ v <= N /\ j \in 1..v
      <3>1. DEPTH - (k + 1) \in Nat /\ k + 1 \in Nat
        BY <1>1, <2>1
      <3>2. v \in Nat /\ 2^(k + 1) \in Nat /\ 2^(k + 1) > 0 /\ v * 2^(k + 1) = N
        BY <2>1, <3>1, Widths
      <3>3. v <= N
        <4> DEFINE w == 2^(k + 1)
        <4>1. v \in Nat /\ w \in Nat /\ 1 \in 0..w /\ v * w = N
          BY <3>2
        <4> HIDE DEF v, w
        <4>2. 1 * v <= w * v
          BY <4>1, Span
        <4> QED BY <4>1, <4>2
      <3> QED BY <3>2, <3>3
    <2>4. j - 1 \in 0..(N - 1) /\ j - 1 < v /\ 2 * (j - 1) = (2 * j - 1) - 1
          /\ 2 * (j - 1) + 1 = 2 * j - 1
      <3> HIDE DEF v
      <3> QED BY <1>1, <2>3
    <2>5. layer[k + 1][j - 1] = combine(layer[k][2 * (j - 1)], layer[k][2 * (j - 1) + 1])
      <3>1. layer[k + 1] = NextLayer(layer[k], k + 1)
        BY <1>3, <2>1
      <3> QED BY <2>4, <3>1 DEF NextLayer
    <2>6. layer[k][2 * (j - 1)] = l /\ layer[k][2 * (j - 1) + 1] = r
      <3>1. OK(k)
        BY <1>1, <1>5
      <3>2. layer[k][(2 * j - 1) - 1] = l /\ layer[k][2 * j - 1] = r
        BY <2>2, <3>1
      <3> QED BY <2>4, <3>2
    <2>7. levels[k + 1][j] = hash_pair(l, r)
      BY <1>2, <2>1 DEF TreeOver
    <2>8. l.sum = Under(s, k, 2 * j - 1) /\ r.sum = Under(s, k, 2 * j)
      <3>1. l = Node(l.hash, Under(s, k, 2 * j - 1)) /\ r = Node(r.hash, Under(s, k, 2 * j))
        BY <1>2, <2>1, <2>2, NodeSums
      <3> HIDE DEF l, r
      <3> QED BY <3>1 DEF Node
    <2>9. l.sum + r.sum \in 0..s[N]
      <3>1. Under(s, k + 1, j) \in 0..s[N]
        BY <1>2, <2>1, SpansAdd
      <3> HIDE DEF l, r
      <3> QED BY <2>2, <2>8, <3>1
    <2>10. (l.sum + r.sum) % FieldP = Saturated(l.sum + r.sum)
      <3> DEFINE x == l.sum + r.sum
      <3>1. x \in Nat /\ x <= MaxU128 /\ x < FieldP
        <4> HIDE DEF l, r
        <4> QED BY <1>2, <2>9, Limits
      <3> HIDE DEF x
      <3>2. x % FieldP = x /\ Saturated(x) = x
        BY <3>1, Limits DEF Saturated
      <3> QED BY <3>2 DEF x
    <2> HIDE DEF l, r
    <2> QED BY <2>5, <2>6, <2>7, <2>10 DEF combine, hash_pair
  <1>6. Nat \subseteq T
    <2>1. \A k \in Nat : k \in T => k + 1 \in T
      BY <1>5
    <2> HIDE DEF T
    <2> QED BY <1>4, <2>1, SetInduction
  <1>7. layer[DEPTH][0] = levels[DEPTH][1]
    <2>1. OK(DEPTH)
      <3>1. DEPTH \in T
        <4> HIDE DEF T
        <4> QED BY <1>1, <1>6
      <3>2. DEPTH <= DEPTH
        BY <1>1
      <3> HIDE DEF OK
      <3> QED BY <3>1, <3>2
    <2>2. 1 \in 1..2^(DEPTH - DEPTH) /\ 1 - 1 = 0
      BY Widths
    <2> QED BY <2>1, <2>2
  <1> QED BY <1>3, <1>7 DEF ids, b

FieldSums(g, b) == g = [n \in 0..N |-> IF n = 0 THEN 0 ELSE (g[n - 1] + b[n]) % FieldP]

\* The sum of the balances in the field is their sum.
LEMMA CircuitSum ==
  ASSUME NEW b, \A n \in 1..N : b[n] \in Nat, NEW s, SumsTo(s, b, N), s[N] <= MaxU128
  PROVE  (\E g : FieldSums(g, b)) /\ \A g : FieldSums(g, b) => g[N] = s[N]
  <1>1. /\ N \in Nat /\ \A n \in 0..N : s[n] \in Nat /\ s[n] <= s[N]
        /\ s[0] = 0 /\ \A n \in 1..N : s[n] = s[n - 1] + b[n]
    <2>1. N \in Nat
      BY Widths
    <2> QED BY <2>1, SumsGrow, SumsStep
  <1>2. \A n \in 1..N : (s[n - 1] + b[n]) % FieldP = s[n]
    <2>1. ASSUME NEW x \in Nat, x <= MaxU128 PROVE x % FieldP = x
      BY <2>1, Limits
    <2>2. \A n \in 1..N : s[n] \in Nat /\ s[n] <= MaxU128
      BY <1>1, Limits
    <2> QED BY <1>1, <2>1, <2>2
  <1>3. FieldSums(s, b)
    <2> DEFINE u == [n \in 0..N |-> IF n = 0 THEN 0 ELSE (s[n - 1] + b[n]) % FieldP]
               v == [n \in 0..N |-> IF n = 0 THEN 0 ELSE s[n - 1] + b[n]]
    <2>1. s = v
      BY DEF SumsTo
    <2>2. \A n \in 0..N : u[n] = IF n = 0 THEN 0 ELSE (s[n - 1] + b[n]) % FieldP
      OBVIOUS
    <2>3. u = [n \in 0..N |-> u[n]] /\ v = [n \in 0..N |-> v[n]]
      OBVIOUS
    <2>4. u = s
      <3> HIDE DEF u, v
      <3>1. \A n \in 0..N : u[n] = s[n]
        BY <1>1, <1>2, <2>2
      <3> QED BY <2>1, <2>3, <3>1
    <2> QED BY <2>4 DEF FieldSums
  <1>4. ASSUME NEW g, FieldSums(g, b) PROVE g[N] = s[N]
    <2> DEFINE T == {n \in Nat : n <= N => g[n] = s[n]}
               u == [n \in 0..N |-> IF n = 0 THEN 0 ELSE (g[n - 1] + b[n]) % FieldP]
    <2>1. g[0] = 0 /\ \A n \in 1..N : g[n] = (g[n - 1] + b[n]) % FieldP
      <3>1. u[0] = 0 /\ \A n \in 1..N : u[n] = (g[n - 1] + b[n]) % FieldP
        BY <1>1
      <3>2. g = u
        BY <1>4 DEF FieldSums
      <3> HIDE DEF u
      <3> QED BY <3>1, <3>2
    <2>2. 0 \in T
      BY <1>1, <2>1
    <2>3. ASSUME NEW n \in Nat, n \in T, n + 1 <= N PROVE g[n + 1] = s[n + 1]
      <3>1. n + 1 \in 1..N /\ (n + 1) - 1 = n /\ g[n] = s[n]
        BY <1>1, <2>3
      <3>2. g[n + 1] = (g[n] + b[n + 1]) % FieldP
        BY <2>1, <3>1
      <3>3. (s[n] + b[n + 1]) % FieldP = s[n + 1]
        BY <1>2, <3>1
      <3> QED BY <3>1, <3>2, <3>3
    <2>4. Nat \subseteq T
      <3>1. \A n \in Nat : n \in T => n + 1 \in T
        BY <2>3
      <3> HIDE DEF T
      <3> QED BY <2>2, <3>1, SetInduction
    <2> QED BY <1>1, <2>4
  <1> QED BY <1>3, <1>4

\* What the prover accepts, the circuit proves.
LEMMA CircuitProves ==
  ASSUME NEW rows, Sound(rows)
  PROVE  Executes(rows, root(build(Leaves(rows))).hash)
  <1> DEFINE levels == build(Leaves(rows))
             ids == PadId(rows)
             b == PadBalance(rows)
             l == Total(rows)
             sum == CHOOSE g : FieldSums(g, b)
  <1>1. PICK s : SoundTree(levels, rows, s)
    BY SoundTrees
  <1>2. Filled(Ids(rows), Num(0)) = ids /\ Filled(Balances(rows), 0) = b
    <2>1. rows \in Seq(Row) /\ Len(rows) <= N
      BY Widths DEF Sound
    <2> QED BY <2>1, PaddedRows
  <1> HIDE DEF levels
  <1>3. compute_root(ids, b) = Node(root(levels).hash, l)
    <2>1. compute_root(ids, b) = levels[DEPTH][1]
      BY <1>1, CircuitRoot
    <2>2. levels[DEPTH][1] = Node(levels[DEPTH][1].hash, l)
      BY <1>1, RootIs
    <2> QED BY <2>1, <2>2 DEF root
  <1>4. \A n \in 1..N : b[n] \in U64
    BY <1>1 DEF SoundTree
  <1>5. sum[N] = l
    <2>1. /\ \A n \in 1..N : b[n] \in Nat
          /\ SumsTo(s, b, N) /\ s[N] <= MaxU128 /\ s[N] = l
      BY <1>1, Limits DEF SoundTree, U64
    <2> HIDE DEF b, l
    <2>2. (\E g : FieldSums(g, b)) /\ \A g : FieldSums(g, b) => g[N] = s[N]
      BY <2>1, CircuitSum
    <2>3. FieldSums(sum, b)
      BY <2>2
    <2> HIDE DEF sum
    <2> QED BY <2>1, <2>2, <2>3
  <1>6. TreeHolds(ids, b, root(levels).hash, l)
    <2> HIDE DEF ids, b, l
    <2> QED BY <1>3, <1>4, <1>5 DEF TreeHolds, FieldSums
  <1> QED BY <1>2, <1>6 DEF Executes, levels

-----------------------------------------------------------------------------
(* What the contract answers about a row of a proof, and about any other.  *)

\* What a proof says of its rows.
MetaOver(meta, rows) ==
  /\ Sound(rows)
  /\ meta.root_h = root(build(Leaves(rows))).hash /\ meta.l = Total(rows)

\* A row's own path verifies against the proof over its rows.
LEMMA SavedVerifies ==
  ASSUME NEW rows, NEW meta, MetaOver(meta, rows), NEW i \in DOMAIN rows
  PROVE  Verifies(meta, rows[i].id, rows[i].balance,
                  inclusion_path(build(Leaves(rows)), i - 1))
  <1> DEFINE levels == build(Leaves(rows))
             path == inclusion_path(levels, i - 1)
             ids == PadId(rows)
             b == PadBalance(rows)
  <1>1. PICK s : SoundTree(levels, rows, s)
    BY SoundTrees DEF MetaOver
  <1>2. i \in 1..Len(rows) /\ Len(rows) \in 1..N /\ N \in Nat
    BY LenProperties, Widths DEF MetaOver, Sound
  <1>3. i - 1 \in 0..(N - 1) /\ (i - 1) + 1 = i /\ i \in 1..N /\ i <= Len(rows)
    BY <1>2
  <1>4. ids[i] = rows[i].id /\ b[i] = rows[i].balance
    BY <1>3 DEF PadId, PadBalance
  <1>5. Len(path) = DEPTH
    BY PathLength
  <1>6. meta.root_h = root(levels).hash /\ meta.l = Total(rows)
    BY DEF MetaOver
  <1>7. /\ TreeOver(levels, ids, b) /\ \A n \in 1..N : b[n] \in Nat
        /\ SumsTo(s, b, N) /\ s[N] <= MaxU128
    BY <1>1, Limits DEF SoundTree, U64
  <1> HIDE DEF levels
  <1>8. PICK node : /\ node[0] = leaf(ids[i], b[i])
                    /\ \A k \in 1..DEPTH : node[k] = climb(node[k - 1], path[k])
                    /\ Verifies(meta, ids[i], b[i], path)
                         <=> node[DEPTH] = Node(meta.root_h, meta.l)
    <2> HIDE DEF path, ids, b
    <2> QED BY <1>5, Climbing
  <1>9. node[DEPTH] = levels[DEPTH][1]
    <2> DEFINE j == i - 1
    <2>1. j \in 0..(N - 1) /\ j + 1 = i
      BY <1>3
    <2>2. \A k \in 1..DEPTH : node[k] = climb(node[k - 1], inclusion_path(levels, j)[k])
      BY <1>8
    <2> HIDE DEF j, ids, b
    <2>3. node[0] = leaf(ids[j + 1], b[j + 1])
      BY <1>8, <2>1
    <2> QED BY <1>7, <2>1, <2>2, <2>3, PathClimbs
  <1>10. node[DEPTH] = Node(meta.root_h, meta.l)
    <2>1. levels[DEPTH][1] = Node(levels[DEPTH][1].hash, Total(rows))
      BY <1>1, RootIs
    <2> QED BY <1>6, <1>9, <2>1 DEF root
  <1> HIDE DEF path, ids, b
  <1>11. Verifies(meta, rows[i].id, rows[i].balance, path)
    BY <1>4, <1>8, <1>10
  <1> QED BY <1>11 DEF path, levels

\* No path of the tree's depth verifies for anything but a row of the proof.
LEMMA OnlyRowsVerify ==
  ASSUME NEW rows, NEW meta, MetaOver(meta, rows), NEW c \in Customer, NEW b,
         NEW path, Len(path) = DEPTH, Verifies(meta, c, b, path)
  PROVE  [id |-> c, balance |-> b] \in Range(rows)
  <1> DEFINE levels == build(Leaves(rows))
             ids == PadId(rows)
             bal == PadBalance(rows)
  <1>1. PICK s : SoundTree(levels, rows, s)
    BY SoundTrees DEF MetaOver
  <1>2. meta.root_h = root(levels).hash /\ meta.l = Total(rows)
    BY DEF MetaOver
  <1> HIDE DEF levels
  <1>3. PICK node : /\ node[0] = leaf(c, b)
                    /\ \A k \in 1..DEPTH : node[k] = climb(node[k - 1], path[k])
                    /\ Verifies(meta, c, b, path) <=> node[DEPTH] = Node(meta.root_h, meta.l)
    BY Climbing
  <1>4. node[DEPTH].hash = levels[DEPTH][1].hash
    BY <1>2, <1>3 DEF Node, root
  <1>5. PICK j \in 1..N : ids[j] = c /\ bal[j] = b
    <2>1. TreeOver(levels, ids, bal)
      BY <1>1 DEF SoundTree
    <2> HIDE DEF ids, bal
    <2> QED BY <1>3, <1>4, <2>1, PathDescends, SMTT(30)
  <1>6. j <= Len(rows)
    <2>1. ids[j] = IF j <= Len(rows) THEN rows[j].id ELSE Num(0)
      BY DEF PadId
    <2>2. Num(0) \notin Customer
      BY InclusionAssumption
    <2> HIDE DEF ids
    <2> QED BY <1>5, <2>1, <2>2
  <1>7. rows[j].id = c /\ rows[j].balance = b
    BY <1>5, <1>6 DEF PadId, PadBalance
  <1>8. rows \in Seq(Row) /\ Len(rows) \in 1..N /\ N \in Nat
    BY Widths DEF MetaOver, Sound
  <1>9. j \in DOMAIN rows /\ rows[j] \in Row
    BY <1>6, <1>8, LenProperties, ElementOfSeq
  <1>10. rows[j] = [id |-> c, balance |-> b]
    BY <1>7, <1>9 DEF Row
  <1> QED BY <1>9, <1>10 DEF Range

\* The customer's leaf that GetInclusion finds is one of its own rows.
LEMMA FoundLeaf ==
  ASSUME NEW rows \in Seq(Row), NEW levels, NEW c \in Range(Ids(rows))
  PROVE  [id |-> c, balance |-> findLeaf(serialize_tree(levels, rows), c).balance]
           \in Range(rows)
  <1> DEFINE leaves == serialize_tree(levels, rows)
             I == {i \in 1..Len(leaves) : leaves[i].id_hash = c}
             x == CHOOSE y \in I : \A z \in I : y <= z
  <1>1. Len(rows) \in Nat /\ DOMAIN rows = 1..Len(rows)
    BY LenProperties
  <1>2. /\ OfLength(leaves, Len(rows))
        /\ \A i \in 1..Len(rows) : /\ leaves[i].id_hash = rows[i].id
                                   /\ leaves[i].balance = rows[i].balance
    BY <1>1 DEF serialize_tree, OfLength
  <1>3. Len(leaves) = Len(rows)
    <2> HIDE DEF leaves
    <2> QED BY <1>1, <1>2, FunctionIsSeq
  <1>4. PICK n \in 1..Len(rows) : rows[n].id = c
    BY <1>1 DEF Range, Ids
  <1> HIDE DEF leaves
  <1>5. I \subseteq Nat /\ n \in I
    BY <1>2, <1>3, <1>4
  <1>6. x \in I
    <2>1. \E y \in I : \A z \in I : y <= z
      <3> HIDE DEF I
      <3> QED BY <1>5, LeastNat
    <2> HIDE DEF I
    <2> QED BY <2>1
  <1>7. findLeaf(leaves, c) = leaves[x]
    <2>1. I # {}
      BY <1>5
    <2> QED BY <2>1 DEF findLeaf, SelectInSeq, Min
  <1> HIDE DEF x
  <1>8. x \in 1..Len(rows) /\ rows[x].id = c /\ leaves[x].balance = rows[x].balance
    BY <1>2, <1>3, <1>6
  <1>9. rows[x] \in Row /\ x \in DOMAIN rows
    BY <1>1, <1>8, ElementOfSeq
  <1>10. rows[x] = [id |-> c, balance |-> findLeaf(leaves, c).balance]
    BY <1>7, <1>8, <1>9 DEF Row
  <1>11. rows[x] \in Range(rows)
    BY <1>9 DEF Range
  <1> QED BY <1>10, <1>11 DEF leaves

-----------------------------------------------------------------------------
(* The inductive invariant: every proof is over the rows it was made from, *)
(* and every saved tree is the tree of the proof whose id it has.          *)

TreeOf(t, rows) == t.leaves = serialize_tree(build(Leaves(rows)), rows)

RecordTyped ==
  /\ latest_id \in Nat /\ DOMAIN proofs = 1..latest_id
  /\ owner = NoOwner => latest_id = 0
RowsTyped ==
  liabilities \in Seq(Row) /\ committed \in Seq(Seq(Row)) /\ Len(committed) = latest_id
TreesTyped == trees \in Seq(Range(trees))
ProofsAreOver == \A id \in 1..latest_id : MetaOver(proofs[id], committed[id])
TreesAreSaved ==
  \A t \in Range(trees) : t.id \in 1..latest_id /\ TreeOf(t, committed[t.id])

InclusionInv == RecordTyped /\ RowsTyped /\ TreesTyped /\ ProofsAreOver /\ TreesAreSaved

\* Nothing is proved or saved yet.
LEMMA InclusionInvInit == Init /\ InclusionInit => InclusionInv
  <1> SUFFICES ASSUME Init, InclusionInit PROVE InclusionInv
    OBVIOUS
  <1>1. latest_id = 0 /\ proofs = << >> /\ liabilities = << >> /\ trees = << >> /\ committed = << >>
    BY DEF Init, InclusionInit
  <1>2. 1..0 = {} /\ DOMAIN << >> = {}
    OBVIOUS
  <1>3. RecordTyped
    BY <1>1, <1>2 DEF RecordTyped
  <1>4. RowsTyped
    BY <1>1, EmptySeq DEF RowsTyped
  <1>5. TreesTyped
    BY <1>1, EmptySeq DEF TreesTyped
  <1>6. ProofsAreOver
    BY <1>1, <1>2 DEF ProofsAreOver
  <1>7. TreesAreSaved
    BY <1>1, <1>2 DEF TreesAreSaved, Range
  <1> QED BY <1>3, <1>4, <1>5, <1>6, <1>7 DEF InclusionInv

\* A sequence keeps its elements when one is added.
LEMMA Appended ==
  ASSUME NEW S, NEW q \in Seq(S), NEW e \in S
  PROVE  /\ Append(q, e) \in Seq(S) /\ Len(Append(q, e)) = Len(q) + 1
         /\ \A n \in 1..Len(q) : Append(q, e)[n] = q[n]
         /\ Append(q, e)[Len(q) + 1] = e
  OBVIOUS

\* A sequence of any elements, with its range.
LEMMA AppendedRange ==
  ASSUME NEW q, q \in Seq(Range(q)), NEW e
  PROVE  /\ Append(q, e) \in Seq(Range(Append(q, e)))
         /\ Range(Append(q, e)) \subseteq Range(q) \cup {e}
  <1> DEFINE S == Range(q) \cup {e}
             a == Append(q, e)
  <1>1. q \in Seq(S)
    <2>1. Range(q) \subseteq S
      OBVIOUS
    <2> HIDE DEF S
    <2> QED BY <2>1, SeqMonotonic
  <1>2. a \in Seq(S)
    <2>1. e \in S
      OBVIOUS
    <2> HIDE DEF S
    <2> QED BY <1>1, <2>1, Appended
  <1> HIDE DEF S, a
  <1>3. Len(a) \in Nat /\ a \in [1..Len(a) -> S] /\ DOMAIN a = 1..Len(a)
    BY <1>2, LenProperties
  <1>4. Range(a) \subseteq S
    BY <1>3 DEF Range
  <1>5. a \in Seq(Range(a))
    <2>1. a \in [1..Len(a) -> Range(a)]
      BY <1>3 DEF Range
    <2> HIDE DEF a
    <2> QED BY <1>3, <2>1, SeqDef
  <1> QED BY <1>4, <1>5 DEF S, a

\* The invariant is about the variables.
LEMMA InclusionStutters ==
  ASSUME InclusionInv, UNCHANGED <<vars, inclusionVars>>
  PROVE  InclusionInv'
  BY DEF InclusionInv, RecordTyped, RowsTyped, TreesTyped, ProofsAreOver, TreesAreSaved,
         vars, inclusionVars

\* CreateLiability leaves every proof and tree alone.
LEMMA RowIsAdded ==
  ASSUME InclusionInv, NEW c \in Customer, NEW b \in Balance, CreateLiability(c, b)
  PROVE  InclusionInv'
  <1>1. /\ liabilities' = Append(liabilities, [id |-> c, balance |-> b])
        /\ UNCHANGED <<trees, committed, owner, latest_id, proofs>>
    BY DEF CreateLiability, vars
  <1>2. liabilities' \in Seq(Row)
    <2>1. liabilities \in Seq(Row) /\ [id |-> c, balance |-> b] \in Row
      BY DEF InclusionInv, RowsTyped, Row
    <2> QED BY <1>1, <2>1, Appended
  <1> QED BY <1>1, <1>2 DEF InclusionInv, RecordTyped, RowsTyped, TreesTyped,
                            ProofsAreOver, TreesAreSaved

\* The constructor runs before anything is published.
LEMMA DeploysNothing ==
  ASSUME InclusionInv, NEW o \in Address, Deploy(o)
  PROVE  InclusionInv'
  <1>1. /\ owner = NoOwner /\ latest_id' = 0
        /\ UNCHANGED <<proofs, liabilities, trees, committed>>
    BY DEF Deploy, constructor, inclusionVars
  <1>2. latest_id = 0
    BY <1>1 DEF InclusionInv, RecordTyped
  <1> QED BY <1>1, <1>2 DEF InclusionInv, RecordTyped, RowsTyped, TreesTyped,
                            ProofsAreOver, TreesAreSaved

\* A cycle adds a proof over its rows, and the tree of that proof or none.
LEMMA ProofIsPublished ==
  ASSUME InclusionInv, NEW reserves \in Amount, NEW prev \in Amount, NEW saved \in BOOLEAN,
         PublishTree(reserves, prev, saved)
  PROVE  InclusionInv'
  <1> DEFINE rows == liabilities
             levels == build(Leaves(rows))
             pub == [reserves_total |-> reserves, liabilities_total |-> Total(rows),
                     prev_reserves |-> prev, root_hash |-> root(levels).hash]
             t == [id |-> RowId, leaves |-> serialize_tree(levels, rows)]
             id == latest_id + 1
  <1>1. /\ latest_id \in Nat /\ DOMAIN proofs = 1..latest_id /\ rows \in Seq(Row)
        /\ committed \in Seq(Seq(Row)) /\ Len(committed) = latest_id
    BY DEF InclusionInv, RecordTyped, RowsTyped
  <1>2. /\ Accepts(rows, reserves) /\ publish_proof(owner, pub, pub)
        /\ committed' = Append(committed, rows)
        /\ trees' = (IF saved THEN Append(trees, t) ELSE trees)
        /\ liabilities' = rows
    BY DEF PublishTree
  <1>3. /\ InstanceLive /\ Circuit(pub) /\ owner' = owner
        /\ latest_id' = id /\ proofs' = Set(proofs, id, MetaOf(pub))
    <2> HIDE DEF pub
    <2> QED BY <1>2 DEF publish_proof, verify_ultrahonk, NextId
  <1>4. MetaOver(MetaOf(pub), rows)
    <2>1. pub.liabilities_total \in U64
      BY <1>3 DEF Circuit
    <2>2. Sound(rows)
      <3>1. DOMAIN rows = 1..Len(rows)
        BY <1>1, LenProperties
      <3> QED BY <1>1, <1>2, <2>1, <3>1 DEF Accepts, Sound
    <2>3. MetaOf(pub).root_h = root(levels).hash /\ MetaOf(pub).l = Total(rows)
      BY DEF MetaOf
    <2> QED BY <2>2, <2>3 DEF MetaOver
  <1>5. t.id = id /\ TreeOf(t, rows)
    BY DEF TreeOf, RowId, NextId
  <1> HIDE DEF pub, t, levels
  <1> DEFINE meta == MetaOf(pub)
  <1>6. /\ id \in Nat /\ id \in 1..id /\ 1..id = (1..latest_id) \cup {id}
        /\ ~ (id \in 1..latest_id)
    BY <1>1
  <1>7. /\ DOMAIN (proofs') = 1..id /\ (proofs')[id] = meta
        /\ \A i \in 1..latest_id : (proofs')[i] = proofs[i]
    <2>1. proofs' = [x \in (1..latest_id) \cup {id} |-> IF x = id THEN meta ELSE proofs[x]]
      BY <1>1, <1>3 DEF Set
    <2> HIDE DEF id, meta
    <2> QED BY <1>6, <2>1
  <1>8. /\ committed' \in Seq(Seq(Row)) /\ Len(committed') = id
        /\ \A i \in 1..latest_id : (committed')[i] = committed[i]
        /\ (committed')[id] = rows
    BY <1>1, <1>2, Appended
  <1>9. RecordTyped'
    <2>1. owner # NoOwner
      BY <1>3 DEF InstanceLive
    <2> QED BY <1>3, <1>6, <1>7, <2>1 DEF RecordTyped
  <1>10. RowsTyped'
    BY <1>1, <1>2, <1>3, <1>8 DEF RowsTyped
  <1>11. ProofsAreOver'
    <2>1. ASSUME NEW i \in 1..id PROVE MetaOver((proofs')[i], (committed')[i])
      <3>1. CASE i = id
        BY <1>4, <1>7, <1>8, <3>1
      <3>2. CASE i \in 1..latest_id
        <4>1. MetaOver(proofs[i], committed[i])
          BY <3>2 DEF InclusionInv, ProofsAreOver
        <4> QED BY <1>7, <1>8, <3>2, <4>1
      <3> QED BY <1>6, <3>1, <3>2
    <2> QED BY <1>3, <2>1 DEF ProofsAreOver
  <1>12. TreesTyped' /\ Range(trees') \subseteq Range(trees) \cup {t}
    <2>1. trees \in Seq(Range(trees))
      BY DEF InclusionInv, TreesTyped
    <2>2. CASE trees' = trees
      BY <2>1, <2>2 DEF TreesTyped
    <2>3. CASE trees' = Append(trees, t)
      BY <2>1, <2>3, AppendedRange DEF TreesTyped
    <2> QED BY <1>2, <2>2, <2>3
  <1>13. TreesAreSaved'
    <2>1. ASSUME NEW u \in Range(trees')
          PROVE  u.id \in 1..id /\ TreeOf(u, (committed')[u.id])
      <3>1. CASE u = t
        BY <1>5, <1>6, <1>8, <3>1
      <3>2. CASE u \in Range(trees)
        <4>1. u.id \in 1..latest_id /\ TreeOf(u, committed[u.id])
          BY <3>2 DEF InclusionInv, TreesAreSaved
        <4> QED BY <1>6, <1>8, <4>1
      <3> QED BY <1>12, <3>1, <3>2
    <2> QED BY <1>3, <2>1 DEF TreesAreSaved
  <1> QED BY <1>9, <1>10, <1>11, <1>12, <1>13 DEF InclusionInv

\* The invariant of the inclusion: for every order of rows, proofs and lost trees.
THEOREM InclusionIsTyped == InclusionSpec => []InclusionInv
  <1>1. Init /\ InclusionInit => InclusionInv
    BY InclusionInvInit
  <1>2. InclusionInv /\ [InclusionNext]_<<vars, inclusionVars>> => InclusionInv'
    BY InclusionStutters, RowIsAdded, ProofIsPublished, DeploysNothing DEF InclusionNext
  <1> QED BY <1>1, <1>2, PTL DEF InclusionSpec
-----------------------------------------------------------------------------
(* What the invariant says of every answer.                                *)

\* Every saved path verifies, and finds a row of its customer.
LEMMA SavedAreExact ==
  ASSUME InclusionInv
  PROVE  SavedPathsVerify
  <1> SUFFICES ASSUME NEW t \in Range(trees)
               PROVE  /\ \A l \in Range(t.leaves) : verify_inclusion(t.id, l)
                      /\ \A c \in Range(Ids(committed[t.id])) :
                           [id |-> c, balance |-> findLeaf(t.leaves, c).balance]
                             \in Range(committed[t.id])
    BY DEF SavedPathsVerify
  <1> DEFINE rows == committed[t.id]
             levels == build(Leaves(rows))
             meta == proofs[t.id]
  <1>1. t.id \in 1..latest_id /\ t.leaves = serialize_tree(levels, rows)
    BY DEF InclusionInv, TreesAreSaved, TreeOf
  <1>2. MetaOver(meta, rows) /\ rows \in Seq(Row)
    BY <1>1 DEF InclusionInv, ProofsAreOver, MetaOver, Sound
  <1> HIDE DEF rows, meta, levels
  <1>3. ASSUME NEW l \in Range(t.leaves) PROVE verify_inclusion(t.id, l)
    <2>1. PICK i \in DOMAIN rows :
            l = [id_hash |-> rows[i].id, balance |-> rows[i].balance,
                 path |-> inclusion_path(levels, i - 1)]
      BY <1>1, <1>3 DEF serialize_tree, Range
    <2>2. Verifies(meta, rows[i].id, rows[i].balance, inclusion_path(levels, i - 1))
      BY <1>2, SavedVerifies DEF levels
    <2>3. Verifies(meta, l.id_hash, l.balance, l.path)
      BY <2>1, <2>2
    <2> QED BY <2>3 DEF verify_inclusion, meta
  <1>4. ASSUME NEW c \in Range(Ids(rows))
        PROVE  [id |-> c, balance |-> findLeaf(t.leaves, c).balance] \in Range(rows)
    BY <1>1, <1>2, <1>4, FoundLeaf
  <1> QED BY <1>3, <1>4 DEF rows

\* Nothing verifies but what was committed to.
LEMMA OnlyCommittedAre ==
  ASSUME InclusionInv
  PROVE  OnlyCommittedVerifies
  <1> SUFFICES ASSUME NEW id \in DOMAIN committed, NEW t \in Range(trees), NEW c \in Customer,
                      NEW b \in Balance, NEW l \in Range(t.leaves),
                      verify_inclusion(id, [l EXCEPT !.id_hash = c, !.balance = b])
               PROVE  [id |-> c, balance |-> b] \in Range(committed[id])
    BY DEF OnlyCommittedVerifies
  <1> DEFINE rows == committed[t.id]
             levels == build(Leaves(rows))
  <1>1. t.id \in 1..latest_id /\ t.leaves = serialize_tree(levels, rows)
    BY DEF InclusionInv, TreesAreSaved, TreeOf
  <1>2. id \in 1..latest_id
    <2>1. committed \in Seq(Seq(Row)) /\ Len(committed) = latest_id
      BY DEF InclusionInv, RowsTyped
    <2> QED BY <2>1, LenProperties
  <1>3. MetaOver(proofs[id], committed[id])
    BY <1>2 DEF InclusionInv, ProofsAreOver
  <1> HIDE DEF rows, levels
  <1>4. PICK i \in DOMAIN rows :
          l = [id_hash |-> rows[i].id, balance |-> rows[i].balance,
               path |-> inclusion_path(levels, i - 1)]
    BY <1>1 DEF serialize_tree, Range
  <1> DEFINE path == inclusion_path(levels, i - 1)
  <1>5. Len(path) = DEPTH
    BY PathLength
  <1> HIDE DEF path
  <1> DEFINE m == [l EXCEPT !.id_hash = c, !.balance = b]
  <1>6. m.id_hash = c /\ m.balance = b /\ m.path = path
    <2>1. DOMAIN l = {"id_hash", "balance", "path"} /\ l.path = path
      BY <1>4 DEF path
    <2> QED BY <2>1
  <1>7. Verifies(proofs[id], c, b, path)
    <2>1. Verifies(proofs[id], m.id_hash, m.balance, m.path)
      BY DEF verify_inclusion
    <2> HIDE DEF m
    <2> QED BY <1>6, <2>1
  <1> QED BY <1>3, <1>5, <1>7, OnlyRowsVerify

\* What the prover accepts, the circuit proves.
LEMMA CircuitIsAgreed ==
  ASSUME InclusionInv
  PROVE  CircuitAgrees
  <1> SUFFICES ASSUME Accepts(liabilities, MaxU64)
               PROVE  Executes(liabilities, root(build(Leaves(liabilities))).hash)
    BY DEF CircuitAgrees
  <1> DEFINE rows == liabilities
  <1>1. rows \in Seq(Row) /\ DOMAIN rows = 1..Len(rows)
    BY LenProperties DEF InclusionInv, RowsTyped
  <1>2. Len(rows) \in 1..N /\ Total(rows) <= MaxU64
        /\ \A n \in 1..Len(rows) : rows[n].balance \in U64
    BY <1>1 DEF Accepts
  <1>3. Total(rows) \in Nat
    <2>1. N \in Nat /\ Len(rows) <= N
      BY <1>2, Widths
    <2>2. PICK s : SumsTo(s, PadBalance(rows), N)
      BY <2>1, SumsExist
    <2> QED BY <1>1, <2>1, <2>2, TotalIsSum
  <1>4. Sound(rows)
    BY <1>1, <1>2, <1>3, Limits DEF Sound, U64
  <1> QED BY <1>4, CircuitProves

\* A total on record is the total of its rows.
LEMMA TotalsAreCounted ==
  ASSUME InclusionInv
  PROVE  TotalIsCounted
  <1>1. committed \in Seq(Seq(Row)) /\ Len(committed) = latest_id
    BY DEF InclusionInv, RowsTyped
  <1>2. DOMAIN committed = 1..latest_id
    BY <1>1, LenProperties
  <1> QED BY <1>2 DEF InclusionInv, ProofsAreOver, MetaOver, TotalIsCounted

\* verify_inclusion, MerkleSumTree::build, compute_root, GetInclusion: the tree means the
\* same to the prover, the circuit, the contract and a customer, at every depth.
THEOREM InclusionIsExactAlways == InclusionSpec => []InclusionIsExact
  <1>1. InclusionInv => InclusionIsExact
    BY SavedAreExact, OnlyCommittedAre, CircuitIsAgreed, TotalsAreCounted DEF InclusionIsExact
  <1> QED BY <1>1, InclusionIsTyped, PTL
=============================================================================
