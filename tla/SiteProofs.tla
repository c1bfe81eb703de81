----------------------------- MODULE SiteProofs -----------------------------
(***************************************************************************)
(* Theorems about those who read an institution's proofs, the public       *)
(* pages that look them up, the forms and mails, and the cached supplies:  *)
(* for every number of institutions, contracts, proofs and calls in        *)
(* flight, and every order of their steps.                                 *)
(***************************************************************************)
EXTENDS Readers, Lookup, Contact, KybMail, Supply, FiniteSetTheorems, SequenceTheorems, TLAPS

\* What the records look like, apart from the variables that hold them.
Contracts == [Org -> Seq(Contract)]
Chains == [Contract -> Seq(OrgProof)]
Tables == [Org -> Seq(Row)]

Owns(cs, t, c) == \E i \in DOMAIN cs[t] : cs[t][i] = c

\* A row names a proof of its institution that is on a contract of the institution.
Recorded(cs, ch, t, r) ==
  /\ r.proof.org = t /\ Owns(cs, t, r.of)
  /\ r.id \in DOMAIN ch[r.of] /\ ch[r.of][r.id] = r.proof

OnChain(ch, p) == \E c \in Contract : \E k \in DOMAIN ch[c] : ch[c][k] = p

\* A client has resolved nothing, or the contract its settings name, or one its institution
\* has or had.
ClientOK(cs, e, t, client) ==
  \/ client = Unresolved
  \/ e # None /\ client.contract = e /\ client.rot = 0
  \/ e = None /\ client.rot \in DOMAIN cs[t] /\ client.contract = cs[t][client.rot]

Conf(e, kind) == IF kind = "route" THEN None ELSE e

\* The proof of number no was on the i-th contract of t or on an earlier one.
PublishedBy(cs, ch, t, i, no) ==
  \E j \in DOMAIN cs[t] : j <= i /\ \E k \in DOMAIN ch[cs[t][j]] : ch[cs[t][j]][k].no = no

\* The proof a call read is of the institution that has the contract it was read from,
\* and if that is the call's own, it is as recent as the contract.
ProofOK(cs, c) ==
  \E k \in DOMAIN cs[c.proof.org] :
    /\ cs[c.proof.org][k] = c.client.contract
    /\ c.proof.org = c.org /\ c.since.rot <= k => c.since.no <= c.proof.no

\* What a call knows at each of its steps.
CallOK(cs, ch, rs, e, c) ==
  /\ c.org \in Org /\ c.since.rot <= Len(cs[c.org])
  /\ c.since.no = 0 \/ PublishedBy(cs, ch, c.org, c.since.rot, c.since.no)
  /\ ClientOK(cs, Conf(e, c.kind), c.org, c.client)
  /\ ~Shared(c.kind) /\ c.client.rot # 0 => c.since.rot <= c.client.rot
  /\ c.at \in {"resolved", "read"} \/ c.proof # None => c.client # Unresolved
  /\ c.kind = "inclusion" => c.row \in DOMAIN rs[c.org]
  /\ c.at # "done" => c.proof = None /\ c.out = "none"
  /\ c.reported # None => c.reported.org = c.org /\ OnChain(ch, c.reported)
  /\ c.kind = "oracle" /\ c.at \in {"resolve", "resolved", "read"} => c.reported # None
  /\ c.at = "ref" => c.kind = "inclusion"
  /\ c.proof # None => ProofOK(cs, c)
  /\ c.out = "solvent" =>
       /\ c.proof # None /\ c.reported # None
       /\ Len(cs[c.org]) = 1 /\ c.proof.org = c.org => c.reported.no <= c.proof.no
  /\ c.out = "excluded" =>
       Len(cs[c.org]) > 1 \/ \E u \in Org \ {c.org} : Owns(cs, u, c.client.contract)
  /\ c.out = "included" => Owns(cs, c.org, c.client.contract)

\* Contracts are deployed once, for one institution.
ContractsInv ==
  /\ \A c \in Deployed : c <= Cardinality(Deployed)
  /\ \A t, u \in Org : \A i \in DOMAIN contracts[t], j \in DOMAIN contracts[u] :
       contracts[t][i] = contracts[u][j] => t = u /\ i = j

\* An institution's proofs are on its contracts, numbered in the order of publication.
InOrder(cs, ch) ==
  \A t \in Org : \A i, j \in DOMAIN cs[t] : i < j =>
    \A k \in DOMAIN ch[cs[t][i]], l \in DOMAIN ch[cs[t][j]] : ch[cs[t][i]][k].no < ch[cs[t][j]][l].no

ChainInv ==
  /\ \A c \in Contract : \A k \in DOMAIN chain[c] : Owns(contracts, chain[c][k].org, c)
  /\ \A c \in Contract : \A k, l \in DOMAIN chain[c] : k < l => chain[c][k].no < chain[c][l].no
  /\ InOrder(contracts, chain)

NumbersInv ==
  \A t \in Org : /\ IsFiniteSet(ProofsOf(t))
                 /\ \A p \in ProofsOf(t) : p.no <= Cardinality(ProofsOf(t))

\* A cycle publishes the next proof, to a contract after which nothing is published yet.
CycleOK(cs, ch, next, t, c) ==
  /\ c \in Row => Recorded(cs, ch, t, c)
  /\ c \in Unsaved =>
       /\ c.proof = [org |-> t, no |-> next]
       /\ \E i \in DOMAIN cs[t] :
            cs[t][i] = c.of /\ \A j \in DOMAIN cs[t] : i < j => ch[cs[t][j]] = << >>

CyclesInv == \A t \in Org : CycleOK(contracts, chain, NextNo(t), t, cycle[t])

RowsInv == \A t \in Org : \A k \in DOMAIN rows[t] : Recorded(contracts, chain, t, rows[t][k])

ClientsInv == \A t \in Org : ClientOK(contracts, endpoint, t, sdk[t])

CallsInv ==
  \A s \in Slot : call[s] = NotAsked \/ CallOK(contracts, chain, rows, endpoint, call[s])

RecordInv == ContractsInv /\ ChainInv /\ NumbersInv /\ CyclesInv /\ RowsInv

ReadersInv == ReadersTypeOK /\ RecordInv /\ ClientsInv /\ CallsInv
-----------------------------------------------------------------------------
LEMMA NoneIsApart ==
  /\ None \notin Org /\ None \notin Nat /\ None \notin OrgProof /\ None \notin Row /\ None \notin Unsaved
  /\ MaxContracts \in Nat
  BY ReadersAssumption

\* The state holds records, and goes on holding what it holds.
OnRecord(cs, ch, rs) == cs \in Contracts /\ ch \in Chains /\ rs \in Tables

Grown(cs, ch, rs, cs2, ch2, rs2) ==
  /\ \A t \in Org : /\ DOMAIN cs[t] \subseteq DOMAIN cs2[t] /\ Len(cs[t]) <= Len(cs2[t])
                    /\ \A i \in DOMAIN cs[t] : cs2[t][i] = cs[t][i]
                    /\ DOMAIN rs[t] \subseteq DOMAIN rs2[t]
  /\ \A c \in Contract : /\ DOMAIN ch[c] \subseteq DOMAIN ch2[c]
                         /\ \A k \in DOMAIN ch[c] : ch2[c][k] = ch[c][k]

LEMMA HeldFacts ==
  ASSUME NEW cs, NEW ch, NEW rs, OnRecord(cs, ch, rs)
  PROVE  /\ \A t \in Org : /\ cs[t] \in Seq(Contract) /\ Len(cs[t]) \in Nat /\ DOMAIN cs[t] = 1..Len(cs[t])
                           /\ \A i \in DOMAIN cs[t] : cs[t][i] \in Contract /\ i \in Nat /\ i # 0
                           /\ rs[t] \in Seq(Row) /\ Len(rs[t]) \in Nat /\ DOMAIN rs[t] = 1..Len(rs[t])
                           /\ \A k \in DOMAIN rs[t] : rs[t][k] \in Row
         /\ \A c \in Contract : /\ ch[c] \in Seq(OrgProof) /\ Len(ch[c]) \in Nat
                                /\ DOMAIN ch[c] = 1..Len(ch[c])
                                /\ \A k \in DOMAIN ch[c] : ch[c][k] \in OrgProof
  <1>1. ASSUME NEW t \in Org
        PROVE  /\ cs[t] \in Seq(Contract) /\ Len(cs[t]) \in Nat /\ DOMAIN cs[t] = 1..Len(cs[t])
               /\ \A i \in DOMAIN cs[t] : cs[t][i] \in Contract /\ i \in Nat /\ i # 0
    <2>1. cs[t] \in Seq(Contract)
      BY DEF OnRecord, Contracts
    <2> QED BY <2>1
  <1>2. ASSUME NEW t \in Org
        PROVE  /\ rs[t] \in Seq(Row) /\ Len(rs[t]) \in Nat /\ DOMAIN rs[t] = 1..Len(rs[t])
               /\ \A k \in DOMAIN rs[t] : rs[t][k] \in Row
    <2>1. rs[t] \in Seq(Row)
      BY DEF OnRecord, Tables
    <2> QED BY <2>1
  <1>3. ASSUME NEW c \in Contract
        PROVE  /\ ch[c] \in Seq(OrgProof) /\ Len(ch[c]) \in Nat /\ DOMAIN ch[c] = 1..Len(ch[c])
               /\ \A k \in DOMAIN ch[c] : ch[c][k] \in OrgProof
    <2>1. ch[c] \in Seq(OrgProof)
      BY DEF OnRecord, Chains
    <2> QED BY <2>1
  <1> QED BY <1>1, <1>2, <1>3

LEMMA StateHeld == ReadersTypeOK => OnRecord(contracts, chain, rows)
  BY DEF ReadersTypeOK, OnRecord, Contracts, Chains, Tables

LEMMA StillRecorded ==
  ASSUME NEW cs, NEW ch, NEW rs, NEW cs2, NEW ch2, NEW rs2, Grown(cs, ch, rs, cs2, ch2, rs2),
         NEW t \in Org, NEW r \in Row, Recorded(cs, ch, t, r)
  PROVE  Recorded(cs2, ch2, t, r)
  <1>1. r.of \in Contract
    BY DEF Row
  <1> QED BY <1>1 DEF Recorded, Owns, Grown

LEMMA StillClient ==
  ASSUME NEW cs, NEW ch, NEW rs, NEW cs2, NEW ch2, NEW rs2, Grown(cs, ch, rs, cs2, ch2, rs2),
         NEW t \in Org, NEW e, NEW client, ClientOK(cs, e, t, client)
  PROVE  ClientOK(cs2, e, t, client)
  BY DEF ClientOK, Grown

\* Nothing a call knows is undone by what is deployed, published and saved.
LEMMA CallKept ==
  ASSUME NEW cs, NEW ch, NEW rs, NEW cs2, NEW ch2, NEW rs2, OnRecord(cs, ch, rs), OnRecord(cs2, ch2, rs2),
         Grown(cs, ch, rs, cs2, ch2, rs2), NEW e, NEW c \in Call, CallOK(cs, ch, rs, e, c)
  PROVE  CallOK(cs2, ch2, rs2, e, c)
  <1>1. /\ c.org \in Org /\ c.since.rot \in Nat /\ c.client.rot \in Nat
        /\ Len(cs[c.org]) \in Nat /\ Len(cs2[c.org]) \in Nat /\ Len(cs[c.org]) <= Len(cs2[c.org])
    BY HeldFacts DEF CallOK, Call, Client, Grown
  <1>2. c.since.rot <= Len(cs2[c.org])
    BY <1>1 DEF CallOK
  <1>3. c.since.no = 0 \/ PublishedBy(cs2, ch2, c.org, c.since.rot, c.since.no)
    <2> SUFFICES ASSUME PublishedBy(cs, ch, c.org, c.since.rot, c.since.no)
                 PROVE  PublishedBy(cs2, ch2, c.org, c.since.rot, c.since.no)
      BY DEF CallOK
    <2>1. PICK j \in DOMAIN cs[c.org] :
            j <= c.since.rot /\ \E k \in DOMAIN ch[cs[c.org][j]] : ch[cs[c.org][j]][k].no = c.since.no
      BY DEF PublishedBy
    <2>2. cs[c.org][j] \in Contract /\ j \in DOMAIN cs2[c.org] /\ cs2[c.org][j] = cs[c.org][j]
      BY <1>1, HeldFacts DEF Grown
    <2>3. \E k \in DOMAIN ch2[cs[c.org][j]] : ch2[cs[c.org][j]][k].no = c.since.no
      BY <2>1, <2>2 DEF Grown
    <2> QED BY <2>1, <2>2, <2>3 DEF PublishedBy
  <1>4. ClientOK(cs2, Conf(e, c.kind), c.org, c.client)
    BY <1>1, StillClient DEF CallOK
  <1>5. c.kind = "inclusion" => c.row \in DOMAIN rs2[c.org]
    BY <1>1 DEF CallOK, Grown
  <1>6. OnChain(ch, c.reported) => OnChain(ch2, c.reported)
    BY DEF OnChain, Grown
  <1>7. c.proof # None => ProofOK(cs2, c) /\ (c.proof.org = c.org => Len(cs[c.org]) # 0)
    <2> SUFFICES ASSUME c.proof # None
                 PROVE  ProofOK(cs2, c) /\ (c.proof.org = c.org => Len(cs[c.org]) # 0)
      OBVIOUS
    <2>1. c.proof.org \in Org
      BY DEF Call, OrgProof
    <2>2. PICK k \in DOMAIN cs[c.proof.org] :
            /\ cs[c.proof.org][k] = c.client.contract
            /\ c.proof.org = c.org /\ c.since.rot <= k => c.since.no <= c.proof.no
      BY DEF CallOK, ProofOK
    <2>3. k \in DOMAIN cs2[c.proof.org] /\ cs2[c.proof.org][k] = cs[c.proof.org][k]
      BY <2>1 DEF Grown
    <2>4. Len(cs[c.proof.org]) # 0
      BY <2>1, HeldFacts
    <2> QED BY <2>2, <2>3, <2>4 DEF ProofOK
  <1>8. c.out = "solvent" =>
          /\ c.proof # None /\ c.reported # None
          /\ Len(cs2[c.org]) = 1 /\ c.proof.org = c.org => c.reported.no <= c.proof.no
    <2> DEFINE a == Len(cs[c.org])
               b == Len(cs2[c.org])
    <2>1. a \in Nat /\ b \in Nat /\ a <= b
      BY <1>1
    <2>2. c.out = "solvent" =>
            /\ c.proof # None /\ c.reported # None
            /\ a = 1 /\ c.proof.org = c.org => c.reported.no <= c.proof.no
            /\ c.proof.org = c.org => a # 0
      BY <1>7 DEF CallOK
    <2> HIDE DEF a, b
    <2>3. b = 1 /\ a # 0 => a = 1
      BY <2>1
    <2> QED BY <2>2, <2>3 DEF b
  <1>9. \A u \in Org : Owns(cs, u, c.client.contract) => Owns(cs2, u, c.client.contract)
    BY DEF Owns, Grown
  <1>10. c.out = "excluded" =>
           Len(cs2[c.org]) > 1 \/ \E u \in Org \ {c.org} : Owns(cs2, u, c.client.contract)
    BY <1>1, <1>9 DEF CallOK
  <1>11. c.out = "included" => Owns(cs2, c.org, c.client.contract)
    BY <1>1, <1>9 DEF CallOK
  <1> QED BY <1>1, <1>2, <1>3, <1>4, <1>5, <1>6, <1>7, <1>8, <1>10, <1>11 DEF CallOK
-----------------------------------------------------------------------------
(* The orchestrator's steps.                                               *)

\* A step that touches no call and no client keeps what they know.
LEMMA ReadersKept ==
  ASSUME ReadersInv, UNCHANGED <<sdk, call, asked, endpoint>>, OnRecord(contracts', chain', rows'),
         Grown(contracts, chain, rows, contracts', chain', rows'),
         cycle' \in [Org -> Row \cup Unsaved \cup {None}],
         ContractsInv', ChainInv', NumbersInv', CyclesInv', RowsInv'
  PROVE  ReadersInv'
  <1>1. OnRecord(contracts, chain, rows)
    BY StateHeld DEF ReadersInv
  <1>2. ClientsInv'
    BY <1>1, StillClient DEF ReadersInv, ClientsInv
  <1>3. CallsInv'
    <2> SUFFICES ASSUME NEW s \in Slot, call[s] # NotAsked
                 PROVE  CallOK(contracts', chain', rows', endpoint, call[s])
      BY DEF CallsInv
    <2>1. call[s] \in Call /\ CallOK(contracts, chain, rows, endpoint, call[s])
      BY DEF ReadersInv, ReadersTypeOK, CallsInv
    <2> QED BY <1>1, <2>1, CallKept
  <1>4. ReadersTypeOK'
    BY DEF ReadersInv, ReadersTypeOK, OnRecord, Contracts, Chains, Tables
  <1> QED BY <1>2, <1>3, <1>4 DEF ReadersInv, RecordInv

LEMMA RowsKept ==
  ASSUME ReadersInv, Grown(contracts, chain, rows, contracts', chain', rows'), UNCHANGED rows
  PROVE  RowsInv'
  <1> SUFFICES ASSUME NEW t \in Org, NEW k \in DOMAIN rows[t]
               PROVE  Recorded(contracts', chain', t, rows[t][k])
    BY DEF RowsInv
  <1>1. rows[t][k] \in Row /\ Recorded(contracts, chain, t, rows[t][k])
    BY StateHeld, HeldFacts DEF ReadersInv, RecordInv, RowsInv
  <1> QED BY <1>1, StillRecorded

LEMMA DeployedIs ==
  ASSUME ReadersTypeOK
  PROVE  /\ \A c : c \in Deployed <=> \E t \in Org : Owns(contracts, t, c)
         /\ Deployed \subseteq Contract /\ IsFiniteSet(Deployed) /\ Cardinality(Deployed) \in Nat
  <1>1. OnRecord(contracts, chain, rows)
    BY StateHeld
  <1>2. \A c : c \in Deployed <=> \E t \in Org : Owns(contracts, t, c)
    BY DEF Deployed, Range, Owns
  <1>3. Deployed \subseteq Contract
    BY <1>1, <1>2, HeldFacts DEF Owns
  <1>4. IsFiniteSet(Contract)
    BY NoneIsApart, FS_Interval DEF Contract
  <1>5. IsFiniteSet(Deployed)
    BY <1>3, <1>4, FS_Subset
  <1>6. Cardinality(Deployed) \in Nat
    BY <1>5, FS_CardinalityType
  <1> QED BY <1>2, <1>3, <1>5, <1>6

\* A proof on a contract of t is a proof of t.
LEMMA OfOwner ==
  ASSUME ReadersTypeOK, ContractsInv, ChainInv, NEW c \in Contract, NEW k \in DOMAIN chain[c]
  PROVE  /\ chain[c][k] \in OrgProof /\ chain[c][k] \in ProofsOf(chain[c][k].org)
         /\ \A t \in Org : Owns(contracts, t, c) => chain[c][k].org = t
  <1>1. chain[c][k] \in OrgProof
    BY StateHeld, HeldFacts
  <1>2. chain[c][k].org \in Org /\ Owns(contracts, chain[c][k].org, c)
    BY <1>1 DEF ChainInv, OrgProof
  <1>3. chain[c][k] \in ProofsOf(chain[c][k].org)
    BY DEF ProofsOf, Range
  <1>4. ASSUME NEW t \in Org, Owns(contracts, t, c) PROVE chain[c][k].org = t
    BY <1>2, <1>4 DEF Owns, ContractsInv
  <1> QED BY <1>1, <1>3, <1>4

LEMMA SetTenantContractStep ==
  ASSUME ReadersInv, NEW t \in Org, SetTenantContract(t)
  PROVE  ReadersInv'
  <1> DEFINE new == Cardinality(Deployed) + 1
             old == contracts[t]
  <1>0. ReadersTypeOK /\ OnRecord(contracts, chain, rows) /\ ContractsInv /\ ChainInv /\ NumbersInv
        /\ CyclesInv /\ RowsInv
    BY StateHeld DEF ReadersInv, RecordInv
  <1>1. new \in Contract /\ new \notin Deployed /\ \A c \in Deployed : c <= new
    <2>1. Cardinality(Deployed) \in Nat /\ Cardinality(Deployed) < MaxContracts /\ Deployed \subseteq Contract
      BY <1>0, DeployedIs DEF SetTenantContract
    <2>2. new \in Contract
      BY <2>1, NoneIsApart DEF Contract
    <2>3. \A c \in Deployed : c <= Cardinality(Deployed) /\ c \in Nat
      BY <1>0, <2>1 DEF ContractsInv, Contract
    <2> QED BY <2>1, <2>2, <2>3
  <1>2. /\ contracts' = [contracts EXCEPT ![t] = Append(old, new)]
        /\ UNCHANGED <<chain, rows, cycle, sdk, call, asked, endpoint>>
    BY DEF SetTenantContract
  <1> HIDE DEF new
  <1>3. old \in Seq(Contract) /\ Len(old) \in Nat /\ DOMAIN old = 1..Len(old) /\ contracts \in [Org -> Seq(Contract)]
    BY <1>0, HeldFacts DEF OnRecord, Contracts
  <1> HIDE DEF old
  <1>4. /\ Append(old, new) \in Seq(Contract) /\ Len(Append(old, new)) = Len(old) + 1
        /\ DOMAIN Append(old, new) = DOMAIN old \cup {Len(old) + 1} /\ Len(old) + 1 \notin DOMAIN old
        /\ Append(old, new)[Len(old) + 1] = new
        /\ \A i \in DOMAIN old : Append(old, new)[i] = old[i]
    BY <1>1, <1>3
  <1>5. /\ contracts' \in [Org -> Seq(Contract)] /\ contracts'[t] = Append(old, new)
        /\ \A u \in Org : u # t => contracts'[u] = contracts[u]
    BY <1>2, <1>3, <1>4
  <1>6. Grown(contracts, chain, rows, contracts', chain', rows')
    <2>1. \A u \in Org : /\ DOMAIN contracts[u] \subseteq DOMAIN contracts'[u]
                         /\ Len(contracts[u]) <= Len(contracts'[u])
                         /\ \A i \in DOMAIN contracts[u] : contracts'[u][i] = contracts[u][i]
      <3> SUFFICES ASSUME NEW u \in Org
                   PROVE  /\ DOMAIN contracts[u] \subseteq DOMAIN contracts'[u]
                          /\ Len(contracts[u]) <= Len(contracts'[u])
                          /\ \A i \in DOMAIN contracts[u] : contracts'[u][i] = contracts[u][i]
        OBVIOUS
      <3>1. CASE u = t
        BY <1>3, <1>4, <1>5, <3>1 DEF old
      <3>2. CASE u # t
        BY <1>0, <1>5, <3>2, HeldFacts
      <3> QED BY <3>1, <3>2
    <2> QED BY <1>2, <2>1 DEF Grown
  <1>7. OnRecord(contracts', chain', rows')
    BY <1>0, <1>2, <1>5 DEF OnRecord, Contracts
  <1>8. \A u \in Org : \A i \in DOMAIN contracts'[u] :
          \/ i \in DOMAIN contracts[u] /\ contracts'[u][i] = contracts[u][i]
          \/ u = t /\ i = Len(old) + 1 /\ contracts'[u][i] = new
    BY <1>4, <1>5 DEF old
  <1>9. \A u \in Org : \A i \in DOMAIN contracts[u] : contracts[u][i] # new
    BY <1>0, <1>1, DeployedIs DEF Owns
  <1>10. chain[new] = << >>
    <2> SUFFICES ASSUME chain[new] # << >> PROVE FALSE
      OBVIOUS
    <2>1. chain[new] \in Seq(OrgProof) /\ Len(chain[new]) \in Nat /\ DOMAIN chain[new] = 1..Len(chain[new])
      BY <1>0, <1>1, HeldFacts
    <2>2. 1 \in DOMAIN chain[new]
      BY <2>1, EmptySeq
    <2>3. chain[new][1].org \in Org /\ Owns(contracts, chain[new][1].org, new)
      BY <1>0, <1>1, <2>2, HeldFacts DEF ChainInv, OrgProof
    <2> QED BY <1>0, <1>1, <2>3, DeployedIs
  <1>11. ContractsInv'
    <2>1. Deployed' = Deployed \cup {new}
      <3>1. ASSUME NEW c PROVE c \in Deployed' <=> c \in Deployed \cup {new}
        <4>1. c \in Deployed' <=> \E u \in Org : \E i \in DOMAIN contracts'[u] : contracts'[u][i] = c
          BY DEF Deployed, Range
        <4>2. c \in Deployed <=> \E u \in Org : \E i \in DOMAIN contracts[u] : contracts[u][i] = c
          BY DEF Deployed, Range
        <4>3. c \in Deployed' => c \in Deployed \cup {new}
          BY <1>8, <4>1, <4>2
        <4>4. c \in Deployed => c \in Deployed'
          BY <1>6, <4>1, <4>2 DEF Grown
        <4>5. new \in Deployed'
          <5>1. Len(old) + 1 \in DOMAIN contracts'[t] /\ contracts'[t][Len(old) + 1] = new
            BY <1>4, <1>5
          <5> QED BY <5>1 DEF Deployed, Range
        <4> QED BY <4>3, <4>4, <4>5
      <3> QED BY <3>1
    <2>2. Cardinality(Deployed') = new
      BY <1>0, <1>1, <2>1, DeployedIs, FS_AddElement DEF new
    <2>3. \A c \in Deployed' : c <= Cardinality(Deployed')
      BY <1>1, <2>1, <2>2 DEF Contract
    <2>4. ASSUME NEW u \in Org, NEW v \in Org, NEW i \in DOMAIN contracts'[u], NEW j \in DOMAIN contracts'[v],
                 contracts'[u][i] = contracts'[v][j]
          PROVE  u = v /\ i = j
      BY <1>0, <1>8, <1>9, <2>4 DEF ContractsInv
    <2> QED BY <2>3, <2>4 DEF ContractsInv
  <1>12. ChainInv'
    <2>1. \A c \in Contract : \A k \in DOMAIN chain'[c] : Owns(contracts', chain'[c][k].org, c)
      <3> SUFFICES ASSUME NEW c \in Contract, NEW k \in DOMAIN chain[c]
                   PROVE  Owns(contracts', chain[c][k].org, c)
        BY <1>2
      <3>1. chain[c][k].org \in Org /\ Owns(contracts, chain[c][k].org, c)
        BY <1>0, HeldFacts DEF ChainInv, OrgProof
      <3> QED BY <1>6, <3>1 DEF Owns, Grown
    <2>2. ASSUME NEW u \in Org, NEW i \in DOMAIN contracts'[u], NEW j \in DOMAIN contracts'[u], i < j,
                 NEW k \in DOMAIN chain[contracts'[u][i]], NEW l \in DOMAIN chain[contracts'[u][j]]
          PROVE  chain[contracts'[u][i]][k].no < chain[contracts'[u][j]][l].no
      <3>1. CASE contracts'[u][j] = new
        BY <1>10, <2>2, <3>1
      <3>2. CASE contracts'[u][j] # new
        <4>1. j \in DOMAIN contracts[u] /\ contracts'[u][j] = contracts[u][j]
          BY <1>8, <3>2
        <4>2. i \in DOMAIN contracts[u] /\ contracts'[u][i] = contracts[u][i]
          <5>1. u = t => DOMAIN contracts[u] = 1..Len(old) /\ Len(old) \in Nat
            BY <1>3 DEF old
          <5>2. i # Len(old) + 1 \/ u # t
            BY <2>2, <4>1, <5>1
          <5> QED BY <1>8, <5>2
        <4> QED BY <1>0, <2>2, <4>1, <4>2 DEF ChainInv, InOrder
      <3> QED BY <3>1, <3>2
    <2>3. \A c \in Contract : \A k, l \in DOMAIN chain'[c] : k < l => chain'[c][k].no < chain'[c][l].no
      BY <1>0, <1>2 DEF ChainInv
    <2>4. InOrder(contracts', chain)
      BY <2>2 DEF InOrder
    <2>5. InOrder(contracts', chain')
      BY <1>2, <2>4
    <2> QED BY <2>1, <2>3, <2>5 DEF ChainInv
  <1>13. \A u \in Org : ProofsOf(u)' = ProofsOf(u)
    BY <1>2 DEF ProofsOf
  <1>14. NumbersInv'
    BY <1>0, <1>13 DEF NumbersInv
  <1>15. CyclesInv'
    <2> SUFFICES ASSUME NEW u \in Org
                 PROVE  CycleOK(contracts', chain', NextNo(u)', u, cycle'[u])
      BY DEF CyclesInv
    <2> SUFFICES CycleOK(contracts', chain, NextNo(u)', u, cycle[u])
      BY <1>2
    <2>0. CycleOK(contracts, chain, NextNo(u), u, cycle[u])
      BY <1>0 DEF CyclesInv
    <2>1. cycle[u] \in Row => Recorded(contracts', chain, u, cycle[u])
      BY <1>2, <1>6, <2>0, StillRecorded DEF CycleOK
    <2>2. ASSUME cycle[u] \in Unsaved
          PROVE  /\ cycle[u].proof = [org |-> u, no |-> NextNo(u)']
                 /\ \E i \in DOMAIN contracts'[u] :
                      /\ contracts'[u][i] = cycle[u].of
                      /\ \A j \in DOMAIN contracts'[u] : i < j => chain[contracts'[u][j]] = << >>
      <3>1. cycle[u].proof = [org |-> u, no |-> NextNo(u)']
        BY <1>13, <2>0, <2>2 DEF CycleOK, NextNo
      <3>2. PICK i \in DOMAIN contracts[u] :
              /\ contracts[u][i] = cycle[u].of
              /\ \A j \in DOMAIN contracts[u] : i < j => chain[contracts[u][j]] = << >>
        BY <2>0, <2>2 DEF CycleOK
      <3>3. i \in DOMAIN contracts'[u] /\ contracts'[u][i] = cycle[u].of
        BY <1>6, <3>2 DEF Grown
      <3>4. \A j \in DOMAIN contracts'[u] : i < j => chain[contracts'[u][j]] = << >>
        BY <1>8, <1>10, <3>2
      <3> QED BY <3>1, <3>3, <3>4
    <2> QED BY <2>1, <2>2 DEF CycleOK
  <1>16. RowsInv'
    BY <1>2, <1>6, RowsKept
  <1>17. cycle' \in [Org -> Row \cup Unsaved \cup {None}]
    BY <1>0, <1>2 DEF ReadersTypeOK
  <1>18. UNCHANGED <<sdk, call, asked, endpoint>>
    BY <1>2
  <1> QED BY <1>6, <1>7, <1>11, <1>12, <1>14, <1>15, <1>16, <1>17, <1>18, ReadersKept
-----------------------------------------------------------------------------
LEMMA NextNoIs ==
  ASSUME ReadersInv, NEW t \in Org
  PROVE  /\ NextNo(t) \in Nat /\ NextNo(t) # 0 /\ IsFiniteSet(ProofsOf(t))
         /\ \A p \in ProofsOf(t) : p \in OrgProof /\ p.no \in Nat /\ p.no < NextNo(t)
  <1>1. IsFiniteSet(ProofsOf(t)) /\ \A p \in ProofsOf(t) : p.no <= Cardinality(ProofsOf(t))
    BY DEF ReadersInv, RecordInv, NumbersInv
  <1>2. Cardinality(ProofsOf(t)) \in Nat
    BY <1>1, FS_CardinalityType
  <1>3. \A p \in ProofsOf(t) : p \in OrgProof /\ p.no \in Nat
    <2> SUFFICES ASSUME NEW p \in ProofsOf(t) PROVE p \in OrgProof
      BY DEF OrgProof
    <2>1. PICK c \in Contract : \E k \in DOMAIN chain[c] : p = chain[c][k]
      BY DEF ProofsOf, Range
    <2> QED BY <2>1, StateHeld, HeldFacts DEF ReadersInv
  <1> QED BY <1>1, <1>2, <1>3 DEF NextNo

\* A step of one cycle that publishes nothing.
LEMMA OneCycle ==
  ASSUME ReadersInv, NEW t \in Org, NEW c \in Row \cup Unsaved \cup {None},
         cycle' = [cycle EXCEPT ![t] = c], CycleOK(contracts, chain, NextNo(t), t, c),
         contracts' = contracts, chain' = chain
  PROVE  /\ cycle' \in [Org -> Row \cup Unsaved \cup {None}]
         /\ ContractsInv' /\ ChainInv' /\ NumbersInv' /\ CyclesInv'
  <1>1. cycle' \in [Org -> Row \cup Unsaved \cup {None}]
    BY DEF ReadersInv, ReadersTypeOK
  <1>2. \A u \in Org : ProofsOf(u)' = ProofsOf(u)
    BY DEF ProofsOf
  <1>3. ContractsInv' /\ ChainInv' /\ NumbersInv'
    BY <1>2 DEF ReadersInv, RecordInv, ContractsInv, ChainInv, NumbersInv, Deployed
  <1>4. CyclesInv'
    <2> SUFFICES ASSUME NEW u \in Org
                 PROVE  CycleOK(contracts, chain, NextNo(u), u, cycle'[u])
      BY <1>2 DEF CyclesInv, NextNo
    <2>1. CycleOK(contracts, chain, NextNo(u), u, cycle[u])
      BY DEF ReadersInv, RecordInv, CyclesInv
    <2>2. cycle \in [Org -> Row \cup Unsaved \cup {None}]
      BY DEF ReadersInv, ReadersTypeOK
    <2>3. CASE u = t
      BY <2>2, <2>3
    <2>4. CASE u # t
      BY <2>1, <2>2, <2>4
    <2> QED BY <2>3, <2>4
  <1> QED BY <1>1, <1>3, <1>4

\* Where the record is as it was, or has grown by a row.
LEMMA GrownRows ==
  ASSUME ReadersInv, contracts' = contracts, chain' = chain,
         \A u \in Org : DOMAIN rows[u] \subseteq DOMAIN rows'[u]
  PROVE  Grown(contracts, chain, rows, contracts', chain', rows')
  <1>1. \A u \in Org : Len(contracts[u]) \in Nat
    BY StateHeld, HeldFacts DEF ReadersInv
  <1> QED BY <1>1 DEF Grown

LEMMA CycleResolvesStep ==
  ASSUME ReadersInv, NEW t \in Org, CycleResolves(t)
  PROVE  ReadersInv'
  <1> DEFINE p == [org |-> t, no |-> NextNo(t)]
             c == [proof |-> p, of |-> bound(t), id |-> None]
  <1>1. /\ cycle' = [cycle EXCEPT ![t] = c] /\ bound(t) # None
        /\ contracts' = contracts /\ chain' = chain /\ rows' = rows
        /\ sdk' = sdk /\ call' = call /\ asked' = asked
        /\ endpoint' = endpoint
    BY DEF CycleResolves
  <1>2. /\ contracts[t] \in Seq(Contract) /\ Len(contracts[t]) \in Nat
        /\ DOMAIN contracts[t] = 1..Len(contracts[t]) /\ contracts[t] # << >>
    BY <1>1, StateHeld, HeldFacts DEF ReadersInv, bound
  <1>3. /\ Len(contracts[t]) \in DOMAIN contracts[t] /\ bound(t) = contracts[t][Len(contracts[t])]
        /\ bound(t) \in Contract
    BY <1>2, EmptySeq DEF bound, Last
  <1>4. p \in OrgProof /\ c \in Unsaved /\ c \notin Row
    BY <1>3, NextNoIs, NoneIsApart DEF OrgProof, Unsaved, Row
  <1>5. CycleOK(contracts, chain, NextNo(t), t, c)
    <2>1. \A j \in DOMAIN contracts[t] : ~(Len(contracts[t]) < j)
      BY <1>2
    <2> QED BY <1>3, <1>4, <2>1 DEF CycleOK
  <1> HIDE DEF c
  <1>6. Grown(contracts, chain, rows, contracts', chain', rows')
    BY <1>1, GrownRows
  <1>7. OnRecord(contracts', chain', rows') /\ RowsInv'
    BY <1>1, <1>6, StateHeld, RowsKept DEF ReadersInv
  <1>8. /\ cycle' \in [Org -> Row \cup Unsaved \cup {None}]
        /\ ContractsInv' /\ ChainInv' /\ NumbersInv' /\ CyclesInv'
    BY <1>1, <1>4, <1>5, OneCycle
  <1> QED BY <1>1, <1>6, <1>7, <1>8, ReadersKept

LEMMA CycleFailsStep ==
  ASSUME ReadersInv, NEW t \in Org, CycleFails(t)
  PROVE  ReadersInv'
  <1>1. /\ cycle' = [cycle EXCEPT ![t] = None]
        /\ contracts' = contracts /\ chain' = chain /\ rows' = rows
        /\ sdk' = sdk /\ call' = call /\ asked' = asked
        /\ endpoint' = endpoint
    BY DEF CycleFails
  <1>2. CycleOK(contracts, chain, NextNo(t), t, None)
    BY NoneIsApart DEF CycleOK
  <1>3. Grown(contracts, chain, rows, contracts', chain', rows')
    BY <1>1, GrownRows
  <1>4. OnRecord(contracts', chain', rows') /\ RowsInv'
    BY <1>1, <1>3, StateHeld, RowsKept DEF ReadersInv
  <1>5. /\ cycle' \in [Org -> Row \cup Unsaved \cup {None}]
        /\ ContractsInv' /\ ChainInv' /\ NumbersInv' /\ CyclesInv'
    BY <1>1, <1>2, OneCycle
  <1> QED BY <1>1, <1>3, <1>4, <1>5, ReadersKept

LEMMA CycleSavesStep ==
  ASSUME ReadersInv, NEW t \in Org, CycleSaves(t)
  PROVE  ReadersInv'
  <1> DEFINE r == cycle[t]
             old == rows[t]
  <1>1. /\ rows' = [rows EXCEPT ![t] = Append(old, r)] /\ cycle' = [cycle EXCEPT ![t] = None]
        /\ r # None /\ r.id # None
        /\ contracts' = contracts /\ chain' = chain
        /\ sdk' = sdk /\ call' = call /\ asked' = asked
        /\ endpoint' = endpoint
    BY DEF CycleSaves, Savable
  <1>2. r \in Row /\ Recorded(contracts, chain, t, r)
    <2>1. r \in Row \cup Unsaved \cup {None}
      BY DEF ReadersInv, ReadersTypeOK
    <2>2. r \notin Unsaved
      BY <1>1 DEF Unsaved
    <2>3. CycleOK(contracts, chain, NextNo(t), t, r)
      BY DEF ReadersInv, RecordInv, CyclesInv
    <2> QED BY <1>1, <2>1, <2>2, <2>3 DEF CycleOK
  <1> HIDE DEF r
  <1>3. old \in Seq(Row) /\ rows \in [Org -> Seq(Row)]
    BY StateHeld, HeldFacts DEF ReadersInv, ReadersTypeOK
  <1> HIDE DEF old
  <1>4. /\ Append(old, r) \in Seq(Row) /\ DOMAIN old \subseteq DOMAIN Append(old, r)
        /\ \A k \in DOMAIN Append(old, r) : Append(old, r)[k] = r \/ (k \in DOMAIN old /\ Append(old, r)[k] = old[k])
    <2> HIDE DEF Row
    <2> QED BY <1>2, <1>3
  <1>5. /\ rows' \in [Org -> Seq(Row)] /\ rows'[t] = Append(old, r)
        /\ \A u \in Org : u # t => rows'[u] = rows[u]
    BY <1>1, <1>3, <1>4
  <1>6. Grown(contracts, chain, rows, contracts', chain', rows')
    <2>1. \A u \in Org : DOMAIN rows[u] \subseteq DOMAIN rows'[u]
      BY <1>4, <1>5 DEF old
    <2> QED BY <1>1, <2>1, GrownRows
  <1>7. OnRecord(contracts', chain', rows')
    BY <1>1, <1>5, StateHeld DEF ReadersInv, OnRecord, Tables
  <1>8. RowsInv'
    <2> SUFFICES ASSUME NEW u \in Org, NEW k \in DOMAIN rows'[u]
                 PROVE  Recorded(contracts, chain, u, rows'[u][k])
      BY <1>1 DEF RowsInv
    <2>1. \A v \in Org : \A l \in DOMAIN rows[v] : Recorded(contracts, chain, v, rows[v][l])
      BY DEF ReadersInv, RecordInv, RowsInv
    <2>2. CASE u = t
      BY <1>2, <1>4, <1>5, <2>1, <2>2 DEF old
    <2>3. CASE u # t
      BY <1>5, <2>1, <2>3
    <2> QED BY <2>2, <2>3
  <1>9. CycleOK(contracts, chain, NextNo(t), t, None)
    BY NoneIsApart DEF CycleOK
  <1>10. /\ cycle' \in [Org -> Row \cup Unsaved \cup {None}]
         /\ ContractsInv' /\ ChainInv' /\ NumbersInv' /\ CyclesInv'
    BY <1>1, <1>9, OneCycle
  <1> QED BY <1>1, <1>6, <1>7, <1>8, <1>10, ReadersKept

\* A publication: the institution's next proof, on one of its contracts.
LEMMA CyclePublishesStep ==
  ASSUME ReadersInv, NEW t \in Org, CyclePublishes(t)
  PROVE  ReadersInv'
  <1> DEFINE c == cycle[t]
             o == c.of
             p == c.proof
             old == chain[o]
             new == Append(old, p)
             k == Len(old) + 1
             r == [c EXCEPT !.id = k]
  <1>0. /\ ReadersTypeOK /\ OnRecord(contracts, chain, rows) /\ ContractsInv /\ ChainInv
        /\ NumbersInv /\ CyclesInv /\ RowsInv
    BY StateHeld DEF ReadersInv, RecordInv
  <1>1. /\ chain' = [chain EXCEPT ![o] = new] /\ cycle' = [cycle EXCEPT ![t] = r]
        /\ c # None /\ c.id = None
        /\ contracts' = contracts /\ rows' = rows /\ sdk' = sdk /\ call' = call /\ asked' = asked
        /\ endpoint' = endpoint
    <2>1. cycle \in [Org -> Row \cup Unsaved \cup {None}]
      BY <1>0 DEF ReadersTypeOK
    <2> QED BY <2>1 DEF CyclePublishes
  <1>2. c \in Unsaved
    <2>1. c \in Row \cup Unsaved \cup {None}
      BY <1>0 DEF ReadersTypeOK
    <2>2. c \notin Row
      BY <1>1, NoneIsApart DEF Row
    <2> QED BY <1>1, <2>1, <2>2
  <1>3. CycleOK(contracts, chain, NextNo(t), t, c)
    BY <1>0 DEF CyclesInv
  <1>4. o \in Contract /\ p \in OrgProof /\ p = [org |-> t, no |-> NextNo(t)]
    BY <1>2, <1>3 DEF Unsaved, CycleOK
  <1>5. PICK i \in DOMAIN contracts[t] :
          contracts[t][i] = o /\ \A j \in DOMAIN contracts[t] : i < j => chain[contracts[t][j]] = << >>
    BY <1>2, <1>3 DEF CycleOK
  <1>6. old \in Seq(OrgProof) /\ Len(old) \in Nat /\ DOMAIN old = 1..Len(old) /\ chain \in [Contract -> Seq(OrgProof)]
    BY <1>0, <1>4, HeldFacts DEF OnRecord, Chains
  <1>7. r \in Row /\ r.of = o /\ r.proof = p /\ r.id = k
    <2>1. k \in Nat
      BY <1>6
    <2> HIDE DEF k, old
    <2>2. r = [proof |-> c.proof, id |-> k, of |-> c.of]
      <3>1. c = [proof |-> c.proof, id |-> c.id, of |-> c.of]
        BY <1>2 DEF Unsaved
      <3> HIDE DEF c
      <3> QED BY <3>1
    <2> HIDE DEF c, r
    <2> QED BY <1>4, <2>1, <2>2 DEF Row
  <1>8. /\ p.org = t /\ p.no = NextNo(t)
        /\ \A q \in ProofsOf(t) : q.no \in Nat /\ q.no < p.no
        /\ p.no \in Nat
    BY <1>4, NextNoIs
  <1> HIDE DEF p, c, old, r
  <1>9. /\ new \in Seq(OrgProof) /\ DOMAIN new = 1..k /\ new[k] = p
        /\ \A l \in DOMAIN new : l = k \/ (l \in DOMAIN old /\ new[l] = old[l])
        /\ \A l \in DOMAIN old : l \in DOMAIN new /\ new[l] = old[l] /\ l < k
        /\ k \in DOMAIN new
    <2> HIDE DEF OrgProof
    <2> QED BY <1>4, <1>6
  <1> HIDE DEF new
  <1>10. /\ chain' \in [Contract -> Seq(OrgProof)] /\ chain'[o] = new
         /\ \A d \in Contract : d # o => chain'[d] = chain[d]
    BY <1>1, <1>4, <1>6, <1>9
  \* What is on a contract now was there or is the proof just published.
  <1>11. \A d \in Contract : \A l \in DOMAIN chain'[d] :
           \/ l \in DOMAIN chain[d] /\ chain'[d][l] = chain[d][l]
           \/ d = o /\ l = k /\ chain'[d][l] = p
    BY <1>9, <1>10 DEF old
  <1>12. Grown(contracts, chain, rows, contracts', chain', rows')
    <2>1. \A d \in Contract : DOMAIN chain[d] \subseteq DOMAIN chain'[d]
                              /\ \A l \in DOMAIN chain[d] : chain'[d][l] = chain[d][l]
      BY <1>9, <1>10 DEF old
    <2>2. \A u \in Org : Len(contracts[u]) \in Nat
      BY <1>0, HeldFacts
    <2> QED BY <1>1, <2>1, <2>2 DEF Grown
  <1>13. OnRecord(contracts', chain', rows')
    BY <1>0, <1>1, <1>10 DEF OnRecord, Chains
  <1>14. ContractsInv'
    BY <1>0, <1>1 DEF ContractsInv, Deployed
  <1>15. \A d \in Contract : \A l \in DOMAIN chain[d] : Owns(contracts, t, d) =>
           chain[d][l].org = t /\ chain[d][l].no \in Nat /\ chain[d][l].no < p.no
    BY <1>0, <1>8, OfOwner
  <1>16. Owns(contracts, t, o) /\ \A u \in Org : Owns(contracts, u, o) => u = t
    BY <1>0, <1>5 DEF Owns, ContractsInv
  <1>17. ChainInv'
    <2>1. \A d \in Contract : \A l \in DOMAIN chain'[d] : Owns(contracts', chain'[d][l].org, d)
      BY <1>0, <1>1, <1>8, <1>11, <1>16 DEF ChainInv
    <2>2. ASSUME NEW d \in Contract, NEW l \in DOMAIN chain'[d], NEW m \in DOMAIN chain'[d], l < m
          PROVE  chain'[d][l].no < chain'[d][m].no
      <3>1. CASE d # o
        BY <1>0, <1>10, <2>2, <3>1 DEF ChainInv
      <3>2. CASE d = o /\ m = k
        <4>1. l \in DOMAIN old /\ chain'[d][l] = chain[d][l]
          BY SMTT(30), <1>9, <1>10, <2>2, <3>2 DEF old
        <4>2. chain'[d][m] = p
          BY <1>9, <1>10, <3>2
        <4>3. chain[d][l].no < p.no
          BY <1>15, <1>16, <3>2, <4>1 DEF old
        <4> QED BY <4>1, <4>2, <4>3
      <3>3. CASE d = o /\ m # k
        <4>1. m \in DOMAIN chain[d] /\ chain'[d][m] = chain[d][m]
          BY <1>11, <3>3
        <4>2. l \in DOMAIN chain[d] /\ chain'[d][l] = chain[d][l]
          BY <1>6, <1>11, <2>2, <3>3, <4>1 DEF old
        <4> QED BY <1>0, <2>2, <4>1, <4>2 DEF ChainInv
      <3> QED BY <3>1, <3>2, <3>3
    <2>3. InOrder(contracts, chain')
      <3> SUFFICES ASSUME NEW u \in Org, NEW i2 \in DOMAIN contracts[u], NEW j2 \in DOMAIN contracts[u], i2 < j2,
                          NEW l \in DOMAIN chain'[contracts[u][i2]], NEW m \in DOMAIN chain'[contracts[u][j2]]
                   PROVE  chain'[contracts[u][i2]][l].no < chain'[contracts[u][j2]][m].no
        BY DEF InOrder
      <3>1. contracts[u][i2] \in Contract /\ contracts[u][j2] \in Contract /\ i2 \in Nat /\ j2 \in Nat
        BY <1>0, HeldFacts
      <3>2. \A h \in DOMAIN contracts[u] : contracts[u][h] = o => u = t /\ h = i
        BY <1>0, <1>5 DEF ContractsInv
      <3>3. CASE contracts[u][i2] = o
        <4>1. u = t /\ i2 = i /\ j2 # i
          BY <3>1, <3>2, <3>3
        <4>2. contracts[u][j2] # o /\ chain[contracts[u][j2]] = << >>
          BY <1>5, <3>2, <4>1
        <4> QED BY <1>10, <3>1, <4>2
      <3>4. CASE contracts[u][i2] # o /\ contracts[u][j2] # o
        BY <1>0, <1>10, <3>1, <3>4 DEF ChainInv, InOrder
      <3>5. CASE contracts[u][i2] # o /\ contracts[u][j2] = o
        <4>1. u = t /\ Owns(contracts, t, contracts[u][i2])
          BY <3>2, <3>5 DEF Owns
        <4>2. l \in DOMAIN chain[contracts[u][i2]] /\ chain'[contracts[u][i2]] = chain[contracts[u][i2]]
          BY <1>10, <3>1, <3>5
        <4>3. CASE m = k
          <5>1. chain'[contracts[u][j2]][m] = p
            BY <1>9, <1>10, <3>5, <4>3
          <5> QED BY <1>15, <3>1, <4>1, <4>2, <5>1
        <4>4. CASE m # k
          <5>1. m \in DOMAIN chain[contracts[u][j2]]
                /\ chain'[contracts[u][j2]][m] = chain[contracts[u][j2]][m]
            BY <1>11, <3>1, <4>4
          <5> QED BY <1>0, <4>2, <5>1 DEF ChainInv, InOrder
        <4> QED BY <4>3, <4>4
      <3> QED BY <3>3, <3>4, <3>5
    <2> QED BY <1>1, <2>1, <2>2, <2>3 DEF ChainInv
  <1>18. ProofsOf(t)' = ProofsOf(t) \cup {p} /\ p \notin ProofsOf(t)
    <2>1. \A q : q \in ProofsOf(t)' <=> q.org = t /\ \E d \in Contract : \E l \in DOMAIN chain'[d] : chain'[d][l] = q
      BY DEF ProofsOf, Range
    <2>2. \A q : q \in ProofsOf(t) <=> q.org = t /\ \E d \in Contract : \E l \in DOMAIN chain[d] : chain[d][l] = q
      BY DEF ProofsOf, Range
    <2>3. \A q \in ProofsOf(t)' : q \in ProofsOf(t) \cup {p}
      BY <1>11, <2>1, <2>2
    <2>4. \A q \in ProofsOf(t) : q \in ProofsOf(t)'
      BY SMTT(30), <1>12, <2>1, <2>2 DEF Grown
    <2>5. p \in ProofsOf(t)'
      BY <1>4, <1>8, <1>9, <1>10, <2>1
    <2>6. p \notin ProofsOf(t)
      BY <1>8
    <2> QED BY <2>3, <2>4, <2>5, <2>6
  <1>19. \A u \in Org : u # t => ProofsOf(u)' = ProofsOf(u)
    <2> SUFFICES ASSUME NEW u \in Org, u # t PROVE ProofsOf(u)' = ProofsOf(u)
      OBVIOUS
    <2>1. \A q : q \in ProofsOf(u)' <=> q.org = u /\ \E d \in Contract : \E l \in DOMAIN chain'[d] : chain'[d][l] = q
      BY DEF ProofsOf, Range
    <2>2. \A q : q \in ProofsOf(u) <=> q.org = u /\ \E d \in Contract : \E l \in DOMAIN chain[d] : chain[d][l] = q
      BY DEF ProofsOf, Range
    <2>3. \A q \in ProofsOf(u)' : q \in ProofsOf(u)
      BY <1>8, <1>11, <2>1, <2>2
    <2>4. \A q \in ProofsOf(u) : q \in ProofsOf(u)'
      BY SMTT(30), <1>12, <2>1, <2>2 DEF Grown
    <2> QED BY <2>3, <2>4
  <1>20. NumbersInv'
    <2> SUFFICES ASSUME NEW u \in Org
                 PROVE  /\ IsFiniteSet(ProofsOf(u)')
                        /\ \A q \in ProofsOf(u)' : q.no <= Cardinality(ProofsOf(u)')
      BY DEF NumbersInv
    <2>1. CASE u # t
      BY <1>0, <1>19, <2>1 DEF NumbersInv
    <2>2. CASE u = t
      <3>1. IsFiniteSet(ProofsOf(t))
        BY NextNoIs
      <3>2. IsFiniteSet(ProofsOf(t)') /\ Cardinality(ProofsOf(t)') = Cardinality(ProofsOf(t)) + 1
        BY <1>18, <3>1, FS_AddElement
      <3>3. Cardinality(ProofsOf(t)') = p.no
        BY <1>8, <3>2 DEF NextNo
      <3>4. \A q \in ProofsOf(t)' : q.no <= p.no
        BY <1>8, <1>18
      <3> QED BY <2>2, <3>2, <3>3, <3>4
    <2> QED BY <2>1, <2>2
  <1>21. cycle' \in [Org -> Row \cup Unsaved \cup {None}] /\ cycle'[t] = r
         /\ \A u \in Org : u # t => cycle'[u] = cycle[u]
    BY <1>0, <1>1, <1>7 DEF ReadersTypeOK
  <1>22. CyclesInv'
    <2> SUFFICES ASSUME NEW u \in Org
                 PROVE  CycleOK(contracts, chain', NextNo(u)', u, cycle'[u])
      BY <1>1 DEF CyclesInv
    <2>1. CASE u = t
      <3>1. Recorded(contracts, chain', t, r)
        BY <1>7, <1>8, <1>9, <1>10, <1>16 DEF Recorded
      <3>2. r \notin Unsaved
        BY <1>6, <1>7, NoneIsApart DEF Unsaved
      <3> QED BY <1>21, <2>1, <3>1, <3>2 DEF CycleOK
    <2>2. CASE u # t
      <3>1. CycleOK(contracts, chain, NextNo(u), u, cycle[u]) /\ cycle'[u] = cycle[u]
        BY <1>0, <1>21, <2>2 DEF CyclesInv
      <3>2. NextNo(u)' = NextNo(u)
        BY <1>19, <2>2 DEF NextNo
      <3>3. cycle[u] \in Row => Recorded(contracts, chain', u, cycle[u])
        BY <1>1, <1>12, <3>1, StillRecorded DEF CycleOK
      <3>4. \A j \in DOMAIN contracts[u] : contracts[u][j] \in Contract /\ contracts[u][j] # o
        BY <1>0, <1>5, <2>2, HeldFacts DEF ContractsInv
      <3>5. cycle[u] \in Unsaved => \E h \in DOMAIN contracts[u] :
              contracts[u][h] = cycle[u].of /\ \A j \in DOMAIN contracts[u] : h < j => chain'[contracts[u][j]] = << >>
        BY <1>10, <3>1, <3>4 DEF CycleOK
      <3> QED BY <3>1, <3>2, <3>3, <3>5 DEF CycleOK
    <2> QED BY <2>1, <2>2
  <1>23. RowsInv'
    BY <1>1, <1>12, RowsKept
  <1> QED BY <1>1, <1>12, <1>13, <1>14, <1>17, <1>20, <1>21, <1>22, <1>23, ReadersKept
-----------------------------------------------------------------------------
(* The calls.                                                              *)

\* The step of one call, which may settle the kept client of its institution.
LEMMA OneCall ==
  ASSUME ReadersInv, NEW s \in Slot, NEW c \in Call, call' = [call EXCEPT ![s] = c],
         CallOK(contracts, chain, rows, endpoint, c), sdk' \in [Org -> Client],
         \A t \in Org : ClientOK(contracts, endpoint, t, sdk'[t]), Untouched
  PROVE  ReadersInv'
  <1>1. /\ contracts' = contracts /\ chain' = chain /\ rows' = rows /\ cycle' = cycle /\ asked' = asked
        /\ endpoint' = endpoint
    BY DEF Untouched
  <1>2. call \in [Slot -> Call]
    BY DEF ReadersInv, ReadersTypeOK
  <1>3. ReadersTypeOK'
    BY <1>1, <1>2 DEF ReadersInv, ReadersTypeOK
  <1>4. \A u \in Org : ProofsOf(u)' = ProofsOf(u)
    BY <1>1 DEF ProofsOf
  <1>5. ContractsInv' /\ ChainInv' /\ NumbersInv' /\ RowsInv'
    BY <1>1, <1>4 DEF ReadersInv, RecordInv, ContractsInv, ChainInv, NumbersInv, RowsInv, Deployed
  <1>6. CyclesInv'
    BY <1>1, <1>4 DEF ReadersInv, RecordInv, CyclesInv, NextNo
  <1>7. ClientsInv'
    BY <1>1 DEF ClientsInv
  <1>8. CallsInv'
    <2> SUFFICES ASSUME NEW r \in Slot, call'[r] # NotAsked
                 PROVE  CallOK(contracts, chain, rows, endpoint, call'[r])
      BY <1>1 DEF CallsInv
    <2>1. CASE r = s
      BY <1>2, <2>1
    <2>2. CASE r # s
      BY <1>2, <2>2 DEF ReadersInv, CallsInv
    <2> QED BY <2>1, <2>2
  <1> QED BY <1>3, <1>5, <1>6, <1>7, <1>8 DEF ReadersInv, RecordInv

\* A call that has not ended is one that was asked.
LEMMA CallIs ==
  ASSUME ReadersInv, NEW s \in Slot, call[s].at # "done"
  PROVE  /\ call \in [Slot -> Call] /\ call[s] \in Call /\ CallOK(contracts, chain, rows, endpoint, call[s])
         /\ call[s].org \in Org /\ call[s].proof = None /\ call[s].out = "none"
         /\ contracts[call[s].org] \in Seq(Contract) /\ Len(contracts[call[s].org]) \in Nat
         /\ DOMAIN contracts[call[s].org] = 1..Len(contracts[call[s].org])
  <1>1. call \in [Slot -> Call] /\ call[s] \in Call
    BY DEF ReadersInv, ReadersTypeOK
  <1>2. call[s] # NotAsked
    BY DEF NotAsked
  <1>3. CallOK(contracts, chain, rows, endpoint, call[s])
    BY <1>2 DEF ReadersInv, CallsInv
  <1>4. call[s].org \in Org /\ call[s].proof = None /\ call[s].out = "none"
    BY <1>3 DEF CallOK
  <1> QED BY <1>1, <1>3, <1>4, StateHeld, HeldFacts DEF ReadersInv

\* How a call ends without a proof: with nothing to be wrong about.
LEMMA EndsWithout ==
  ASSUME ReadersInv, NEW s \in Slot, call[s].at # "done", NEW out \in Outcome,
         Done(s, out), Untouched, sdk' = sdk, out # "solvent",
         out = "excluded" => \/ Len(contracts[call[s].org]) > 1
                             \/ \E u \in Org \ {call[s].org} : Owns(contracts, u, call[s].client.contract),
         out = "included" => Owns(contracts, call[s].org, call[s].client.contract)
  PROVE  ReadersInv'
  <1> DEFINE c == call[s]
             c2 == [c EXCEPT !.at = "done", !.out = out]
  <1>1. call \in [Slot -> Call] /\ c \in Call /\ CallOK(contracts, chain, rows, endpoint, c) /\ c.proof = None
    BY CallIs
  <1>2. call' = [call EXCEPT ![s] = c2]
    BY <1>1 DEF Done
  <1> HIDE DEF c
  <1>3. /\ c2 \in Call /\ c2.at = "done" /\ c2.out = out /\ c2.proof = c.proof /\ c2.kind = c.kind
        /\ c2.org = c.org /\ c2.row = c.row /\ c2.client = c.client /\ c2.reported = c.reported
        /\ c2.since = c.since
    BY <1>1 DEF Call
  <1> HIDE DEF c2
  <1>4. CallOK(contracts, chain, rows, endpoint, c2)
    BY <1>1, <1>3 DEF CallOK, c
  <1>5. sdk' \in [Org -> Client] /\ \A t \in Org : ClientOK(contracts, endpoint, t, sdk'[t])
    BY DEF ReadersInv, ReadersTypeOK, ClientsInv
  <1> QED BY <1>2, <1>3, <1>4, <1>5, OneCall

\* A call goes on to its next step, with what it has learnt.
LEMMA GoesOn ==
  ASSUME ReadersInv, NEW s \in Slot, call[s].at # "done",
         NEW at \in {"resolve", "resolved", "read"}, NEW client \in Client, NEW reported \in OrgProof \cup {None},
         call' = [call EXCEPT ![s].at = at, ![s].client = client, ![s].reported = reported], Untouched,
         sdk' \in [Org -> Client], \A t \in Org : ClientOK(contracts, endpoint, t, sdk'[t]),
         ClientOK(contracts, Conf(endpoint, call[s].kind), call[s].org, client),
         ~Shared(call[s].kind) /\ client.rot # 0 => call[s].since.rot <= client.rot,
         at \in {"resolved", "read"} => client # Unresolved,
         reported # None => reported.org = call[s].org /\ OnChain(chain, reported),
         call[s].kind = "oracle" => reported # None
  PROVE  ReadersInv'
  <1> DEFINE c == call[s]
             c2 == [c EXCEPT !.at = at, !.client = client, !.reported = reported]
  <1>1. /\ call \in [Slot -> Call] /\ c \in Call /\ CallOK(contracts, chain, rows, endpoint, c)
        /\ c.proof = None /\ c.out = "none"
    BY CallIs
  <1>2. call' = [call EXCEPT ![s] = c2]
    BY <1>1
  <1> HIDE DEF c
  <1>3. /\ c2 \in Call /\ c2.at = at /\ c2.client = client /\ c2.reported = reported
        /\ c2.out = c.out /\ c2.proof = c.proof /\ c2.kind = c.kind
        /\ c2.org = c.org /\ c2.row = c.row /\ c2.since = c.since
    BY ZenonT(40), <1>1 DEF Call
  <1> HIDE DEF c2
  <1>4. CallOK(contracts, chain, rows, endpoint, c2)
    BY <1>1, <1>3 DEF CallOK, c
  <1> QED BY <1>2, <1>3, <1>4, OneCall

LEMMA SdkAsBefore ==
  ASSUME ReadersInv, sdk' = sdk
  PROVE  sdk' \in [Org -> Client] /\ \A t \in Org : ClientOK(contracts, endpoint, t, sdk'[t])
  BY DEF ReadersInv, ReadersTypeOK, ClientsInv

\* What the orchestrator reports of an institution is a proof of it that is on chain.
LEMMA LatestRowIs ==
  ASSUME ReadersInv, NEW t \in Org, rows[t] # << >>
  PROVE  /\ Last(rows[t]) \in Row /\ Recorded(contracts, chain, t, Last(rows[t]))
         /\ Last(rows[t]).proof \in OrgProof /\ Last(rows[t]).proof.org = t
         /\ Last(rows[t]).of \in Contract /\ OnChain(chain, Last(rows[t]).proof)
  <1>1. rows[t] \in Seq(Row) /\ Len(rows[t]) \in Nat /\ DOMAIN rows[t] = 1..Len(rows[t])
    BY StateHeld, HeldFacts DEF ReadersInv
  <1>2. Len(rows[t]) \in DOMAIN rows[t] /\ Last(rows[t]) = rows[t][Len(rows[t])]
    BY <1>1, EmptySeq DEF Last
  <1>3. Last(rows[t]) \in Row
    BY <1>2, StateHeld, HeldFacts DEF ReadersInv
  <1>4. Recorded(contracts, chain, t, Last(rows[t]))
    BY <1>2 DEF ReadersInv, RecordInv, RowsInv
  <1>5. Last(rows[t]).proof \in OrgProof /\ Last(rows[t]).of \in Contract
    BY <1>3 DEF Row
  <1> QED BY <1>3, <1>4, <1>5 DEF Recorded, OnChain

LEMMA getLatestProofStep ==
  ASSUME ReadersInv, NEW s \in Slot, getLatestProof(s)
  PROVE  ReadersInv'
  <1> DEFINE c == call[s]
             row == LatestRow(TenantParam(c))
  <1>1. c.at = "latest" /\ Untouched /\ sdk' = sdk
    BY DEF getLatestProof, At
  <1>2. /\ call \in [Slot -> Call] /\ c \in Call /\ CallOK(contracts, chain, rows, endpoint, c) /\ c.org \in Org
    BY <1>1, CallIs
  <1>3. CASE row = None
    <2>1. Done(s, "error")
      BY <1>3 DEF getLatestProof
    <2> QED BY <1>1, <2>1, EndsWithout DEF Outcome
  <1>4. CASE row # None
    <2>1. call' = [call EXCEPT ![s].at = "resolve", ![s].reported = row.proof]
      BY <1>4 DEF getLatestProof
    <2>2. rows[c.org] # << >> /\ row = Last(rows[c.org])
      BY <1>4 DEF LatestRow, TenantParam
    <2>3. row.proof \in OrgProof /\ row.proof.org = c.org /\ OnChain(chain, row.proof) /\ row.proof # None
      BY <1>2, <2>2, LatestRowIs, NoneIsApart
    <2>4. c.client \in Client /\ ClientOK(contracts, Conf(endpoint, c.kind), c.org, c.client)
          /\ (~Shared(c.kind) /\ c.client.rot # 0 => c.since.rot <= c.client.rot)
      BY <1>2 DEF CallOK, Call
    <2> HIDE DEF row
    <2>5. call' = [call EXCEPT ![s].at = "resolve", ![s].client = c.client, ![s].reported = row.proof]
      BY <1>2, <2>1 DEF Call
    <2> QED BY <1>1, <2>3, <2>4, <2>5, SdkAsBefore, GoesOn
  <1> QED BY <1>3, <1>4

LEMMA getInclusionRefStep ==
  ASSUME ReadersInv, NEW s \in Slot, getInclusionRef(s)
  PROVE  ReadersInv'
  <1> DEFINE c == call[s]
  <1>1. c.at = "ref" /\ Untouched /\ sdk' = sdk /\ call' = [call EXCEPT ![s].at = "resolve"]
    BY DEF getInclusionRef, At
  <1>2. /\ call \in [Slot -> Call] /\ c \in Call /\ CallOK(contracts, chain, rows, endpoint, c) /\ c.org \in Org
    BY <1>1, CallIs
  <1>3. /\ c.client \in Client /\ ClientOK(contracts, Conf(endpoint, c.kind), c.org, c.client) /\ c.reported \in OrgProof \cup {None}
        /\ (~Shared(c.kind) /\ c.client.rot # 0 => c.since.rot <= c.client.rot)
        /\ (c.reported # None => c.reported.org = c.org /\ OnChain(chain, c.reported))
        /\ c.kind # "oracle"
    BY <1>1, <1>2 DEF CallOK, Call
  <1>4. call' = [call EXCEPT ![s].at = "resolve", ![s].client = c.client, ![s].reported = c.reported]
    BY <1>1, <1>2 DEF Call
  <1> QED BY <1>1, <1>3, <1>4, SdkAsBefore, GoesOn

\* The contract of a client that need not ask: its own, or the one of its settings.
LEMMA KnownIs ==
  ASSUME ReadersInv, NEW s \in Slot, call[s].at = "resolve", Known(call[s]) # Unresolved
  PROVE  LET client == Known(call[s])
         IN /\ client \in Client /\ ClientOK(contracts, Conf(endpoint, call[s].kind), call[s].org, client)
            /\ ~Shared(call[s].kind) => client.rot = 0
            /\ Shared(call[s].kind) => ClientOK(contracts, endpoint, call[s].org, client)
  <1> DEFINE c == call[s]
             client == Known(c)
             e == Conf(endpoint, c.kind)
  <1>1. c.org \in Org /\ sdk \in [Org -> Client] /\ endpoint \in Contract \cup {None}
        /\ ClientOK(contracts, endpoint, c.org, sdk[c.org])
    BY CallIs DEF ReadersInv, ReadersTypeOK, ClientsInv
  <1>2. e \in Contract \cup {None} /\ e = Endpoint(c.kind) /\ (Shared(c.kind) => e = endpoint)
    BY <1>1 DEF Conf, Endpoint, Shared
  <1>3. CASE Cached(c) # Unresolved
    <2>1. Shared(c.kind) /\ client = sdk[c.org]
      BY <1>3 DEF Cached, Known
    <2> HIDE DEF client, e
    <2> QED BY <1>1, <1>2, <2>1 DEF client, e
  <1>4. CASE Cached(c) = Unresolved
    <2>1. client = [contract |-> e, rot |-> 0]
      BY <1>2, <1>4 DEF Known
    <2>2. e # None
      BY <2>1 DEF Unresolved
    <2> HIDE DEF client, e
    <2>3. client \in Client /\ client.contract = e /\ client.rot = 0
      BY <1>2, <2>1, <2>2 DEF Client
    <2>4. ClientOK(contracts, e, c.org, client)
      BY <2>2, <2>3 DEF ClientOK
    <2> QED BY <1>2, <2>3, <2>4 DEF client, e
  <1> QED BY <1>3, <1>4

\* The client that is kept is one that is of the record.
LEMMA KeptIs ==
  ASSUME ReadersInv, NEW s \in Slot, call[s].org \in Org, NEW client \in Client,
         Keeps(call[s], client), Shared(call[s].kind) => ClientOK(contracts, endpoint, call[s].org, client)
  PROVE  sdk' \in [Org -> Client] /\ \A t \in Org : ClientOK(contracts, endpoint, t, sdk'[t])
  <1>1. sdk \in [Org -> Client] /\ \A t \in Org : ClientOK(contracts, endpoint, t, sdk[t])
    BY DEF ReadersInv, ReadersTypeOK, ClientsInv
  <1>2. sdk' = IF Shared(call[s].kind) THEN [sdk EXCEPT ![call[s].org] = client] ELSE sdk
    BY DEF Keeps
  <1> QED BY <1>1, <1>2

LEMMA resolveKnownStep ==
  ASSUME ReadersInv, NEW s \in Slot, resolveKnown(s)
  PROVE  ReadersInv'
  <1> DEFINE c == call[s]
             client == Known(c)
  <1>1. /\ c.at = "resolve" /\ client # Unresolved /\ Untouched /\ Keeps(c, client)
        /\ call' = [call EXCEPT ![s].at = "read", ![s].client = client]
    BY DEF resolveKnown, At
  <1>2. /\ call \in [Slot -> Call] /\ c \in Call /\ CallOK(contracts, chain, rows, endpoint, c)
        /\ c.org \in Org
    BY <1>1, CallIs
  <1>3. /\ client \in Client /\ ClientOK(contracts, Conf(endpoint, c.kind), c.org, client)
        /\ ~Shared(c.kind) => client.rot = 0
        /\ Shared(c.kind) => ClientOK(contracts, endpoint, c.org, client)
    BY <1>1, KnownIs
  <1>4. /\ c.reported \in OrgProof \cup {None}
        /\ (c.reported # None => c.reported.org = c.org /\ OnChain(chain, c.reported))
        /\ (c.kind = "oracle" => c.reported # None)
    BY <1>1, <1>2 DEF CallOK, Call
  <1> HIDE DEF client
  <1>5. call' = [call EXCEPT ![s].at = "read", ![s].client = client, ![s].reported = c.reported]
    BY <1>1, <1>2 DEF Call
  <1>6. sdk' \in [Org -> Client] /\ \A t \in Org : ClientOK(contracts, endpoint, t, sdk'[t])
    BY <1>1, <1>2, <1>3, KeptIs
  <1>7. ~Shared(c.kind) /\ client.rot # 0 => c.since.rot <= client.rot
    BY <1>3
  <1> QED BY <1>1, <1>3, <1>4, <1>5, <1>6, <1>7, GoesOn

LEMMA getTenantContractStep ==
  ASSUME ReadersInv, NEW s \in Slot, getTenantContract(s)
  PROVE  ReadersInv'
  <1> DEFINE c == call[s]
             n == rotations(c.org)
             client == [contract |-> bound(c.org), rot |-> n]
  <1>1. c.at = "resolve" /\ Known(c) = Unresolved /\ Untouched /\ sdk' = sdk
    BY DEF getTenantContract, At
  <1>2. /\ call \in [Slot -> Call] /\ c \in Call /\ CallOK(contracts, chain, rows, endpoint, c) /\ c.org \in Org
        /\ contracts[c.org] \in Seq(Contract) /\ n \in Nat /\ DOMAIN contracts[c.org] = 1..n
    BY <1>1, CallIs DEF rotations
  <1>3. CASE bound(c.org) = None
    <2> DEFINE out == IF c.kind = "route" THEN "unknown" ELSE Caught(c.kind, "error")
    <2>1. Done(s, out)
      BY <1>3 DEF getTenantContract
    <2>2. out \in Outcome /\ out \notin {"solvent", "excluded", "included"}
      BY DEF Outcome, Caught
    <2> HIDE DEF out
    <2> QED BY <1>1, <2>1, <2>2, EndsWithout
  <1>4. CASE bound(c.org) # None
    <2>1. call' = [call EXCEPT ![s].at = "resolved", ![s].client = client]
      BY <1>4 DEF getTenantContract
    <2>2. contracts[c.org] # << >> /\ bound(c.org) = contracts[c.org][n]
      BY <1>4 DEF bound, rotations, Last
    <2>3. n \in DOMAIN contracts[c.org] /\ n # 0
      BY <1>2, <2>2, EmptySeq DEF rotations
    <2>4. client \in Client /\ client.rot = n /\ client.contract = contracts[c.org][n] /\ client # Unresolved
      BY <1>2, <2>2, <2>3 DEF Client, Unresolved
    <2>5. ClientOK(contracts, Conf(endpoint, c.kind), c.org, client) /\ c.since.rot <= client.rot
      <3>1. Conf(endpoint, c.kind) = None
        BY <1>1 DEF Known, Unresolved, Conf, Endpoint
      <3> QED BY <1>2, <2>3, <2>4, <3>1 DEF ClientOK, CallOK, rotations
    <2> HIDE DEF client
    <2>6. /\ c.reported \in OrgProof \cup {None}
          /\ (c.reported # None => c.reported.org = c.org /\ OnChain(chain, c.reported))
          /\ (c.kind = "oracle" => c.reported # None)
      BY <1>1, <1>2 DEF CallOK, Call
    <2>7. call' = [call EXCEPT ![s].at = "resolved", ![s].client = client, ![s].reported = c.reported]
      BY <1>2, <2>1 DEF Call
    <2> QED BY <1>1, <2>4, <2>5, <2>6, <2>7, SdkAsBefore, GoesOn
  <1> QED BY <1>3, <1>4

LEMMA resolvedStep ==
  ASSUME ReadersInv, NEW s \in Slot, resolved(s)
  PROVE  ReadersInv'
  <1> DEFINE c == call[s]
  <1>1. /\ c.at = "resolved" /\ Untouched /\ call' = [call EXCEPT ![s].at = "read"]
        /\ Keeps(c, c.client)
    BY DEF resolved, At
  <1>2. /\ call \in [Slot -> Call] /\ c \in Call /\ CallOK(contracts, chain, rows, endpoint, c) /\ c.org \in Org
    BY <1>1, CallIs
  <1>3. /\ c.client \in Client /\ ClientOK(contracts, Conf(endpoint, c.kind), c.org, c.client) /\ c.reported \in OrgProof \cup {None}
        /\ c.client # Unresolved
        /\ (~Shared(c.kind) /\ c.client.rot # 0 => c.since.rot <= c.client.rot)
        /\ (c.reported # None => c.reported.org = c.org /\ OnChain(chain, c.reported))
        /\ (c.kind = "oracle" => c.reported # None)
    BY <1>1, <1>2 DEF CallOK, Call
  <1>4. call' = [call EXCEPT ![s].at = "read", ![s].client = c.client, ![s].reported = c.reported]
    BY <1>1, <1>2 DEF Call
  <1>5. Shared(c.kind) => ClientOK(contracts, endpoint, c.org, c.client)
    BY <1>3 DEF Shared, Conf
  <1>6. sdk' \in [Org -> Client] /\ \A t \in Org : ClientOK(contracts, endpoint, t, sdk'[t])
    BY <1>1, <1>2, <1>3, <1>5, KeptIs
  <1> QED BY <1>1, <1>3, <1>4, <1>6, GoesOn

\* The latest proof of a contract is the latest of its institution, up to that contract.
LEMMA LatestIsNewest ==
  ASSUME ReadersInv, NEW t \in Org, NEW i \in DOMAIN contracts[t], chain[contracts[t][i]] # << >>
  PROVE  LET p == Last(chain[contracts[t][i]])
         IN /\ p \in OrgProof /\ p.org = t
            /\ \A j \in DOMAIN contracts[t] : j <= i =>
                 \A k \in DOMAIN chain[contracts[t][j]] : chain[contracts[t][j]][k].no <= p.no
  <1> DEFINE o == contracts[t][i]
             n == Len(chain[o])
             p == Last(chain[o])
  <1>0. ReadersTypeOK /\ OnRecord(contracts, chain, rows) /\ ContractsInv /\ ChainInv
    BY StateHeld DEF ReadersInv, RecordInv
  <1>1. o \in Contract /\ i \in Nat
    BY <1>0, HeldFacts
  <1>2. chain[o] \in Seq(OrgProof) /\ n \in Nat /\ DOMAIN chain[o] = 1..n
    BY <1>0, <1>1, HeldFacts
  <1>3. n \in DOMAIN chain[o] /\ p = chain[o][n]
    BY <1>2, EmptySeq DEF Last
  <1>4. p \in OrgProof /\ p.org = t /\ p.no \in Nat
    <2>1. chain[o][n] \in OrgProof /\ \A u \in Org : Owns(contracts, u, o) => chain[o][n].org = u
      BY <1>0, <1>1, <1>3, OfOwner
    <2>2. Owns(contracts, t, o)
      BY DEF Owns
    <2> QED BY <1>3, <2>1, <2>2 DEF OrgProof
  <1>5. ASSUME NEW j \in DOMAIN contracts[t], j <= i, NEW k \in DOMAIN chain[contracts[t][j]]
        PROVE  chain[contracts[t][j]][k].no <= p.no
    <2>1. contracts[t][j] \in Contract /\ j \in Nat
      BY <1>0, HeldFacts
    <2>2. chain[contracts[t][j]][k] \in OrgProof
      BY <1>0, <2>1, HeldFacts
    <2>3. chain[contracts[t][j]][k].no \in Nat
      BY <2>2 DEF OrgProof
    <2>4. CASE j = i
      <3>1. k \in 1..n
        BY <1>2, <2>4
      <3>2. CASE k = n
        BY <1>3, <1>4, <2>4, <3>2
      <3>3. CASE k # n
        <4>1. k < n
          BY <1>2, <3>1, <3>3
        <4>2. chain[o][k].no < chain[o][n].no
          BY <1>0, <1>1, <1>3, <2>4, <4>1 DEF ChainInv
        <4> QED BY <1>3, <1>4, <2>3, <2>4, <4>2
      <3> QED BY <3>2, <3>3
    <2>5. CASE j # i
      <3>1. j < i
        BY <1>1, <1>5, <2>1, <2>5
      <3>2. chain[contracts[t][j]][k].no < chain[o][n].no
        BY <1>0, <1>3, <3>1 DEF ChainInv, InOrder
      <3> QED BY <1>3, <1>4, <2>3, <3>2
    <2> QED BY <2>4, <2>5
  <1> QED BY <1>4, <1>5

\* The client of a call that reads: a contract its institution has or had, or the one of
\* its settings.
LEMMA ReadsFrom ==
  ASSUME ReadersInv, NEW s \in Slot, call[s].at = "read"
  PROVE  call[s].client.contract \in Contract /\ call[s].client # Unresolved
  <1>1. /\ CallOK(contracts, chain, rows, endpoint, call[s]) /\ call[s].org \in Org
    BY CallIs
  <1>2. endpoint \in Contract \cup {None}
    BY DEF ReadersInv, ReadersTypeOK
  <1>3. Conf(endpoint, call[s].kind) \in Contract \cup {None}
    BY <1>2 DEF Conf
  <1>4. call[s].client # Unresolved
    BY <1>1 DEF CallOK
  <1>5. ClientOK(contracts, Conf(endpoint, call[s].kind), call[s].org, call[s].client)
    BY <1>1 DEF CallOK
  <1> QED BY <1>1, <1>3, <1>4, <1>5, StateHeld, HeldFacts DEF ReadersInv, ClientOK

\* A contract that holds a proof is one of the institution the proof is of.
LEMMA OwnerOf ==
  ASSUME ReadersInv, NEW o \in Contract, NEW k \in DOMAIN chain[o]
  PROVE  /\ chain[o][k] \in OrgProof /\ chain[o][k].org \in Org
         /\ \E i \in DOMAIN contracts[chain[o][k].org] : contracts[chain[o][k].org][i] = o
  <1>1. chain[o][k] \in OrgProof
    BY StateHeld, HeldFacts DEF ReadersInv
  <1> QED BY <1>1 DEF OrgProof, ReadersInv, RecordInv, ChainInv, Owns

LEMMA readLatestStep ==
  ASSUME ReadersInv, NEW s \in Slot, readLatest(s)
  PROVE  ReadersInv'
  <1> DEFINE c == call[s]
             t == c.org
             o == c.client.contract
             p == get_latest_proof(o)
             out == IF c.kind = "oracle" THEN "solvent" ELSE "proof"
             c2 == [c EXCEPT !.at = "done", !.proof = p, !.out = out]
  <1>1. c.at = "read" /\ c.kind # "inclusion" /\ Untouched /\ sdk' = sdk
    BY DEF readLatest, At
  <1>2. /\ call \in [Slot -> Call] /\ c \in Call /\ CallOK(contracts, chain, rows, endpoint, c)
        /\ c.proof = None /\ c.out = "none" /\ t \in Org
        /\ Len(contracts[t]) \in Nat /\ DOMAIN contracts[t] = 1..Len(contracts[t])
    BY <1>1, CallIs
  <1>3. o \in Contract /\ c.client # Unresolved
    BY <1>1, ReadsFrom
  <1>4. CASE p = None
    <2> DEFINE e == Caught(c.kind, "error")
    <2>1. Done(s, e)
      BY <1>4 DEF readLatest
    <2>2. e \in Outcome /\ e \notin {"solvent", "excluded", "included"}
      BY DEF Outcome, Caught
    <2> HIDE DEF e
    <2> QED BY <1>1, <2>1, <2>2, EndsWithout
  <1>5. CASE p # None
    <2>1. call' = [call EXCEPT ![s] = c2]
      BY <1>2, <1>5 DEF readLatest
    <2>2. chain[o] # << >> /\ p = Last(chain[o])
      BY <1>5 DEF get_latest_proof
    <2>3. Len(chain[o]) \in DOMAIN chain[o] /\ p = chain[o][Len(chain[o])]
      <3>1. chain[o] \in Seq(OrgProof) /\ Len(chain[o]) \in Nat /\ DOMAIN chain[o] = 1..Len(chain[o])
        BY <1>3, StateHeld, HeldFacts DEF ReadersInv
      <3> QED BY <2>2, <3>1, EmptySeq DEF Last
    <2>4. p \in OrgProof /\ p.org \in Org /\ \E i \in DOMAIN contracts[p.org] : contracts[p.org][i] = o
      <3> HIDE DEF o, p
      <3> QED BY <1>3, <2>3, OwnerOf
    <2> HIDE DEF p
    <2>5. PICK i \in DOMAIN contracts[p.org] : contracts[p.org][i] = o
      BY <2>4
    <2>6. \A j \in DOMAIN contracts[p.org] : j <= i =>
            \A k \in DOMAIN chain[contracts[p.org][j]] : chain[contracts[p.org][j]][k].no <= p.no
      <3>1. chain[contracts[p.org][i]] # << >> /\ Last(chain[contracts[p.org][i]]) = p
        BY <2>2, <2>5
      <3> HIDE DEF o
      <3> QED BY <2>4, <3>1, LatestIsNewest
    <2>7. out \in Outcome /\ out \notin {"excluded", "included"} /\ (out = "solvent" <=> c.kind = "oracle")
      BY DEF Outcome
    <2>8. c.since.rot \in Nat /\ c.since.no \in Nat /\ p.no \in Nat
      BY <1>2, <2>4 DEF Call, OrgProof
    <2>9. p.org = t /\ c.since.rot <= i => c.since.no <= p.no
      <3> SUFFICES ASSUME p.org = t, c.since.rot <= i, c.since.no # 0 PROVE c.since.no <= p.no
        BY <2>8
      <3>1. PICK j \in DOMAIN contracts[t] :
              j <= c.since.rot /\ \E k \in DOMAIN chain[contracts[t][j]] : chain[contracts[t][j]][k].no = c.since.no
        BY <1>2 DEF CallOK, PublishedBy
      <3>2. j \in Nat /\ i \in Nat
        BY <1>2, <2>5
      <3>3. j <= i
        BY <2>8, <3>1, <3>2
      <3> QED BY <2>6, <3>1, <3>3
    <2>10. c.kind = "oracle" =>
             /\ c.reported # None
             /\ Len(contracts[t]) = 1 /\ p.org = t => c.reported.no <= p.no
      <3> SUFFICES ASSUME c.kind = "oracle"
                   PROVE  /\ c.reported # None
                          /\ Len(contracts[t]) = 1 /\ p.org = t => c.reported.no <= p.no
        OBVIOUS
      <3>1. c.reported # None /\ c.reported.org = t /\ OnChain(chain, c.reported)
        BY <1>1, <1>2 DEF CallOK
      <3>2. ASSUME Len(contracts[t]) = 1, p.org = t PROVE c.reported.no <= p.no
        <4>1. PICK d \in Contract : \E k \in DOMAIN chain[d] : chain[d][k] = c.reported
          BY <3>1 DEF OnChain
        <4>2. PICK j \in DOMAIN contracts[t] : contracts[t][j] = d
          BY <3>1, <4>1, OwnerOf
        <4>3. j = i /\ i <= i
          BY <1>2, <2>5, <3>2, <4>2
        <4> HIDE DEF c, o
        <4>4. \A k \in DOMAIN chain[d] : chain[d][k].no <= p.no
          BY <2>6, <3>2, <4>2, <4>3
        <4> QED BY <4>1, <4>4
      <3> QED BY <3>1, <3>2
    <2> HIDE DEF c, out
    <2>11. /\ c2 \in Call /\ c2.at = "done" /\ c2.proof = p /\ c2.out = out /\ c2.kind = c.kind
           /\ c2.org = c.org /\ c2.row = c.row /\ c2.client = c.client /\ c2.reported = c.reported
           /\ c2.since = c.since
      BY <1>2, <2>4, <2>7 DEF Call
    <2> HIDE DEF c2
    <2>12. ProofOK(contracts, c2)
      BY <2>5, <2>9, <2>11 DEF ProofOK
    <2>13. CallOK(contracts, chain, rows, endpoint, c2)
      BY <1>1, <1>2, <1>3, <1>5, <2>7, <2>10, <2>11, <2>12 DEF CallOK
    <2> QED BY <1>1, <2>1, <2>11, <2>13, SdkAsBefore, OneCall
  <1> QED BY <1>4, <1>5

LEMMA readInclusionStep ==
  ASSUME ReadersInv, NEW s \in Slot, readInclusion(s)
  PROVE  ReadersInv'
  <1> DEFINE c == call[s]
             t == c.org
             r == rows[t][c.row]
             o == c.client.contract
             out == verify_inclusion(o, r.id, r.proof)
  <1>1. c.at = "read" /\ c.kind = "inclusion" /\ Untouched /\ sdk' = sdk /\ Done(s, out)
    BY DEF readInclusion, At, InclusionId
  <1>2. /\ CallOK(contracts, chain, rows, endpoint, c) /\ t \in Org
        /\ Len(contracts[t]) \in Nat /\ DOMAIN contracts[t] = 1..Len(contracts[t])
    BY <1>1, CallIs
  <1>3. c.row \in DOMAIN rows[t] /\ o \in Contract
    BY <1>1, <1>2, ReadsFrom DEF CallOK
  <1>4. Recorded(contracts, chain, t, r)
    BY <1>2, <1>3 DEF ReadersInv, RecordInv, RowsInv
  <1>5. out \in Outcome /\ out # "solvent"
    BY DEF verify_inclusion, Outcome
  \* What is read is a proof, of the institution that has the contract.
  <1>6. ASSUME out \in {"excluded", "included"}
        PROVE  /\ r.id \in DOMAIN chain[o]
               /\ chain[o][r.id].org \in Org /\ Owns(contracts, chain[o][r.id].org, o)
               /\ out = "included" <=> chain[o][r.id] = r.proof
    <2> DEFINE i == r.id
               proof == r.proof
    <2>1. i \in DOMAIN chain[o] /\ (out = "included" <=> chain[o][i] = proof)
      <3>1. out = IF i \notin DOMAIN chain[o] THEN "error"
                  ELSE IF chain[o][i] = proof THEN "included" ELSE "excluded"
        BY DEF verify_inclusion
      <3> HIDE DEF out, i, proof, o
      <3> QED BY <1>6, <3>1
    <2> HIDE DEF out, r, o, t, c
    <2> QED BY <1>3, <2>1, OwnerOf DEF Owns
  <1>7. ASSUME out = "excluded"
        PROVE  Len(contracts[t]) > 1 \/ \E u \in Org \ {t} : Owns(contracts, u, o)
    <2> SUFFICES ASSUME Owns(contracts, t, o) PROVE Len(contracts[t]) > 1
      BY <1>6, <1>7
    <2>1. r.of # o
      BY <1>4, <1>6, <1>7 DEF Recorded
    <2>2. PICK j \in DOMAIN contracts[t] : contracts[t][j] = r.of
      BY <1>4 DEF Recorded, Owns
    <2>3. PICK i \in DOMAIN contracts[t] : contracts[t][i] = o
      BY DEF Owns
    <2>4. i # j
      BY <2>1, <2>2, <2>3
    <2> HIDE DEF out, r, o, t, c
    <2> QED BY <1>2, <2>2, <2>3, <2>4
  <1>8. ASSUME out = "included" PROVE Owns(contracts, t, o)
    BY <1>4, <1>6, <1>8 DEF Recorded
  <1> HIDE DEF out
  <1> QED BY <1>1, <1>5, <1>7, <1>8, EndsWithout

LEMMA requestFailsStep ==
  ASSUME ReadersInv, NEW s \in Slot, requestFails(s)
  PROVE  ReadersInv'
  <1> DEFINE out == IF At(s, "latest") THEN "failed" ELSE Caught(call[s].kind, "failed")
  <1>1. call[s].at # "done" /\ Untouched /\ sdk' = sdk /\ Done(s, out)
    BY DEF requestFails
  <1>2. out \in Outcome /\ out \notin {"solvent", "excluded", "included"}
    BY DEF Outcome, Caught
  <1> HIDE DEF out
  <1> QED BY <1>1, <1>2, EndsWithout

\* A call begins with what was saved and deployed then.
LEMMA askStep ==
  ASSUME ReadersInv, NEW s \in Slot, NEW kind \in Kind, NEW t \in Org, NEW deps \in {"chain", "embedder"},
         NEW i \in 0..MaxProofs, ask(s, kind, t, deps, i)
  PROVE  ReadersInv'
  <1> DEFINE c == [kind |-> kind, org |-> t, deps |-> deps, row |-> i, at |-> FirstStep(kind),
                   client |-> Unresolved, out |-> "none", proof |-> None, reported |-> None,
                   since |-> [no |-> SavedNo(t), rot |-> rotations(t)]]
  <1>0. ReadersTypeOK /\ OnRecord(contracts, chain, rows)
    BY StateHeld DEF ReadersInv
  <1>1. /\ call' = [r \in Slot |-> IF r # s THEN IF call[r].at = "done" THEN NotAsked ELSE call[r] ELSE c]
        /\ IF kind = "inclusion" THEN i \in 1..Saved(t) ELSE i = 0
        /\ asked' = asked + 1 /\ contracts' = contracts /\ chain' = chain /\ rows' = rows /\ cycle' = cycle
        /\ sdk' = sdk /\ endpoint' = endpoint
    BY DEF ask
  <1>2. /\ Len(contracts[t]) \in Nat /\ DOMAIN contracts[t] = 1..Len(contracts[t])
        /\ Len(rows[t]) \in Nat /\ DOMAIN rows[t] = 1..Len(rows[t])
    BY <1>0, HeldFacts
  <1>3. rotations(t) \in Nat /\ rotations(t) <= Len(contracts[t])
    BY <1>2 DEF rotations
  <1>4. SavedNo(t) \in Nat /\ (SavedNo(t) = 0 \/ PublishedBy(contracts, chain, t, rotations(t), SavedNo(t)))
    <2>1. CASE rows[t] = << >>
      BY <2>1 DEF SavedNo
    <2>2. CASE rows[t] # << >>
      <3> DEFINE r == Last(rows[t])
      <3>1. Recorded(contracts, chain, t, r) /\ r.proof \in OrgProof /\ SavedNo(t) = r.proof.no
        BY <2>2, LatestRowIs DEF SavedNo
      <3>2. PICK j \in DOMAIN contracts[t] : contracts[t][j] = r.of
        BY <3>1 DEF Recorded, Owns
      <3>3. j <= rotations(t)
        BY <1>2 DEF rotations
      <3>4. \E k \in DOMAIN chain[contracts[t][j]] : chain[contracts[t][j]][k].no = SavedNo(t)
        BY <3>1, <3>2 DEF Recorded
      <3>5. SavedNo(t) \in Nat
        BY <3>1 DEF OrgProof
      <3> QED BY <3>3, <3>4, <3>5 DEF PublishedBy
    <2> QED BY <2>1, <2>2
  <1>5. /\ FirstStep(kind) \in {"latest", "ref", "resolve"} /\ (FirstStep(kind) = "ref" <=> kind = "inclusion")
        /\ (FirstStep(kind) = "resolve" => kind # "oracle")
    BY DEF FirstStep, Kind
  <1>6. c \in Call
    <2>1. i \in Nat
      BY <1>2
    <2>2. Unresolved \in Client
      BY DEF Unresolved, Client
    <2> HIDE DEF Client, OrgProof
    <2> QED BY <1>3, <1>4, <1>5, <2>1, <2>2 DEF Call, Outcome, Kind
  <1>7. /\ c.kind = kind /\ c.org = t /\ c.row = i /\ c.at = FirstStep(kind) /\ c.client = Unresolved
        /\ c.out = "none" /\ c.proof = None /\ c.reported = None
        /\ c.since.no = SavedNo(t) /\ c.since.rot = rotations(t)
    OBVIOUS
  <1>8. kind = "inclusion" => i \in DOMAIN rows[t]
    BY <1>1, <1>2 DEF Saved
  <1> HIDE DEF c
  <1>9. CallOK(contracts, chain, rows, endpoint, c)
    BY <1>3, <1>4, <1>5, <1>7, <1>8 DEF CallOK, ClientOK, Unresolved
  <1>10. NotAsked \in Call
    <2>1. Unresolved \in Client
      BY DEF Unresolved, Client
    <2> HIDE DEF Client, OrgProof
    <2> QED BY <2>1 DEF NotAsked, Call, Outcome, Kind
  <1>11. call \in [Slot -> Call]
    BY <1>0 DEF ReadersTypeOK
  <1>12. \A r \in Slot : call'[r] = c \/ call'[r] = NotAsked \/ call'[r] = call[r]
    BY <1>1
  <1>13. call' \in [Slot -> Call]
    <2> HIDE DEF Call
    <2> QED BY <1>1, <1>6, <1>10, <1>11
  <1>14. ReadersTypeOK'
    BY <1>0, <1>1, <1>13 DEF ReadersTypeOK
  <1>15. \A u \in Org : ProofsOf(u)' = ProofsOf(u)
    BY <1>1 DEF ProofsOf
  <1>16. ContractsInv' /\ ChainInv' /\ NumbersInv' /\ RowsInv'
    BY <1>1, <1>15 DEF ReadersInv, RecordInv, ContractsInv, ChainInv, NumbersInv, RowsInv, Deployed
  <1>17. CyclesInv'
    BY <1>1, <1>15 DEF ReadersInv, RecordInv, CyclesInv, NextNo
  <1>18. ClientsInv'
    BY <1>1 DEF ReadersInv, ClientsInv
  <1>19. CallsInv'
    <2> SUFFICES ASSUME NEW r \in Slot, call'[r] # NotAsked
                 PROVE  CallOK(contracts, chain, rows, endpoint, call'[r])
      BY <1>1 DEF CallsInv
    <2>1. call[r] = NotAsked \/ CallOK(contracts, chain, rows, endpoint, call[r])
      BY DEF ReadersInv, CallsInv
    <2> QED BY <1>9, <1>12, <2>1
  <1> QED BY <1>14, <1>16, <1>17, <1>18, <1>19 DEF ReadersInv, RecordInv
-----------------------------------------------------------------------------
LEMMA ReadersStart == ReadersInit => ReadersInv
  <1> SUFFICES ASSUME ReadersInit PROVE ReadersInv
    OBVIOUS
  <1>1. NotAsked \in Call /\ Unresolved \in Client
    <2>1. Unresolved \in Client
      BY DEF Unresolved, Client
    <2> HIDE DEF Client, OrgProof
    <2> QED BY <2>1 DEF NotAsked, Call, Outcome, Kind
  <1>2. ReadersTypeOK
    BY <1>1 DEF ReadersInit, ReadersTypeOK
  <1>3. \A t \in Org : ProofsOf(t) = {}
    BY DEF ReadersInit, ProofsOf, Range
  <1>4. Deployed = {}
    BY DEF ReadersInit, Deployed, Range
  <1>5. ContractsInv
    BY <1>4 DEF ReadersInit, ContractsInv
  <1>6. ChainInv
    BY DEF ReadersInit, ChainInv, InOrder
  <1>7. NumbersInv
    BY <1>3, FS_EmptySet DEF NumbersInv
  <1>8. CyclesInv
    BY NoneIsApart DEF ReadersInit, CyclesInv, CycleOK
  <1>9. RowsInv /\ ClientsInv /\ CallsInv
    BY DEF ReadersInit, RowsInv, ClientsInv, ClientOK, CallsInv
  <1> QED BY <1>2, <1>5, <1>6, <1>7, <1>8, <1>9 DEF ReadersInv, RecordInv

LEMMA ReadersInvStep == ReadersInv /\ [ReadersNext]_readersVars => ReadersInv'
  <1> SUFFICES ASSUME ReadersInv, [ReadersNext]_readersVars PROVE ReadersInv'
    OBVIOUS
  <1>1. ASSUME NEW t \in Org, OrchestratorStep(t) PROVE ReadersInv'
    BY <1>1, SetTenantContractStep, CycleResolvesStep, CyclePublishesStep, CycleSavesStep, CycleFailsStep
       DEF OrchestratorStep
  <1>2. ASSUME NEW s \in Slot, CallStep(s) PROVE ReadersInv'
    BY <1>2, getLatestProofStep, getInclusionRefStep, resolveKnownStep, getTenantContractStep,
       resolvedStep, readLatestStep, readInclusionStep, requestFailsStep
       DEF CallStep
  <1>3. CASE \E s \in Slot, kind \in Kind, t \in Org, deps \in {"chain", "embedder"}, i \in 0..MaxProofs :
               ask(s, kind, t, deps, i)
    BY <1>3, askStep
  <1>4. CASE UNCHANGED readersVars
    <2>1. /\ contracts' = contracts /\ chain' = chain /\ rows' = rows /\ cycle' = cycle
          /\ sdk' = sdk /\ call' = call /\ asked' = asked
        /\ endpoint' = endpoint
      BY <1>4 DEF readersVars
    <2>2. \A u \in Org : ProofsOf(u)' = ProofsOf(u)
      BY <2>1 DEF ProofsOf
    <2>3. ContractsInv' /\ ChainInv' /\ NumbersInv'
      BY <2>1, <2>2 DEF ReadersInv, RecordInv, ContractsInv, ChainInv, NumbersInv, Deployed
    <2>4. ReadersTypeOK'
      BY <2>1 DEF ReadersInv, ReadersTypeOK
    <2>5. CyclesInv' /\ RowsInv' /\ ClientsInv' /\ CallsInv'
      BY <2>1, <2>2 DEF ReadersInv, RecordInv, CyclesInv, NextNo, RowsInv, ClientsInv, CallsInv
    <2> QED BY <2>3, <2>4, <2>5 DEF ReadersInv, RecordInv
  <1> QED BY <1>1, <1>2, <1>3, <1>4 DEF ReadersNext

\* Calls, cycles and rotations in any number and order: the record is in order, and a
\* call knows of it only what was true when it learnt it.
THEOREM ReadersInvariant == ReadersSpec => []ReadersInv
  BY ReadersStart, ReadersInvStep, PTL DEF ReadersSpec

LEMMA InvAnswers == ReadersInv => AnswersAreOfTheRecord
  <1> SUFFICES ASSUME ReadersInv PROVE AnswersAreOfTheRecord
    OBVIOUS
  <1>1. ASSUME NEW s \in Slot, Ended(s)
        PROVE  /\ call[s] \in Call /\ CallOK(contracts, chain, rows, endpoint, call[s]) /\ call[s].org \in Org
               /\ Len(contracts[call[s].org]) \in Nat
               /\ call[s].since.rot \in Nat /\ call[s].client.rot \in Nat /\ call[s].since.no \in Nat
               /\ (call[s].proof # None => call[s].proof.no \in Nat)
               /\ (call[s].reported # None => call[s].reported.no \in Nat)
    <2>1. call[s] \in Call
      BY DEF ReadersInv, ReadersTypeOK
    <2>2. call[s] # NotAsked
      BY <1>1 DEF Ended, NotAsked
    <2>3. CallOK(contracts, chain, rows, endpoint, call[s])
      BY <2>2 DEF ReadersInv, CallsInv
    <2>4. call[s].org \in Org /\ Len(contracts[call[s].org]) \in Nat
      BY <2>3, StateHeld, HeldFacts DEF ReadersInv, CallOK
    <2> QED BY <2>1, <2>3, <2>4 DEF Call, Client, OrgProof
  <1>2. ContractsInv /\ endpoint \in Contract \cup {None} /\ None \notin Contract
    BY NoneIsApart DEF ReadersInv, RecordInv, ReadersTypeOK, Contract
  \* Whose contract a client reads that is another's: the settings name it.
  <1>3. ASSUME NEW s \in Slot, Ended(s), NEW u \in Org, u # call[s].org,
               Owns(contracts, u, call[s].client.contract), call[s].client.contract \in Contract
        PROVE  Misdirected(s) /\ call[s].kind # "route"
    <2> DEFINE c == call[s]
               e == Conf(endpoint, c.kind)
               o == c.client.contract
    <2>1. ClientOK(contracts, e, c.org, c.client) /\ c.org \in Org
      BY <1>1, <1>3 DEF CallOK
    <2>2. \A i \in DOMAIN contracts[c.org] : contracts[c.org][i] # o
      BY <1>2, <1>3, <2>1 DEF Owns, ContractsInv
    <2>3. e # None /\ o = e
      BY <1>2, <1>3, <2>1, <2>2 DEF ClientOK, Unresolved
    <2>4. e = Endpoint(c.kind) /\ c.kind # "route"
      BY <2>3 DEF Conf, Endpoint
    <2>5. o \notin Range(contracts[c.org])
      BY <2>2 DEF Range
    <2> QED BY <2>3, <2>4, <2>5 DEF Misdirected
  \* A proof that was read is of the contract's institution.
  <1>4. ASSUME NEW s \in Slot, Ended(s), call[s].proof # None
        PROVE  /\ call[s].proof.org \in Org /\ ProofOK(contracts, call[s])
               /\ call[s].client.contract \in Contract /\ call[s].client # Unresolved
               /\ Owns(contracts, call[s].proof.org, call[s].client.contract)
    <2>1. ProofOK(contracts, call[s]) /\ call[s].client # Unresolved /\ call[s].proof.org \in Org
      BY <1>1, <1>4 DEF CallOK, Call, OrgProof
    <2>2. Owns(contracts, call[s].proof.org, call[s].client.contract)
      BY <2>1 DEF ProofOK, Owns
    <2>3. call[s].client.contract \in Contract
      BY <2>1, <2>2, StateHeld, HeldFacts DEF Owns, ReadersInv
    <2> QED BY <2>1, <2>2, <2>3
  <1>5. AnswersOwnInstitution
    <2> SUFFICES ASSUME NEW s \in Slot, Ended(s)
                 PROVE  /\ call[s].reported # None => call[s].reported.org = call[s].org
                        /\ call[s].proof # None => \/ call[s].proof.org = call[s].org
                                                   \/ Misdirected(s) /\ call[s].kind # "route"
      BY DEF AnswersOwnInstitution
    <2>1. call[s].reported # None => call[s].reported.org = call[s].org
      BY <1>1 DEF CallOK
    <2> QED BY <1>3, <1>4, <2>1
  <1>6. StaleOnlyIfRotated
    <2> SUFFICES ASSUME NEW s \in Slot, Ended(s), call[s].proof # None, ~Misdirected(s),
                        call[s].proof.no < call[s].since.no
                 PROVE  /\ Shared(call[s].kind) \/ Endpoint(call[s].kind) # None
                        /\ \A k \in DOMAIN contracts[call[s].org] :
                             contracts[call[s].org][k] = call[s].client.contract => k < call[s].since.rot
      BY DEF StaleOnlyIfRotated
    <2> DEFINE c == call[s]
               cs == contracts[c.org]
               e == Conf(endpoint, c.kind)
    <2>1. c.proof.org = c.org
      BY <1>3, <1>4
    <2>2. PICK k \in DOMAIN cs : cs[k] = c.client.contract /\ (c.since.rot <= k => c.since.no <= c.proof.no)
      BY <1>4, <2>1 DEF ProofOK
    <2>3. k \in Nat /\ k # 0 /\ k < c.since.rot
      <3>1. k \in Nat /\ k # 0
        BY <1>1, <2>2, StateHeld, HeldFacts DEF ReadersInv
      <3>2. ~(c.since.rot <= k)
        BY <1>1, <2>2
      <3> QED BY <1>1, <3>1, <3>2
    <2>4. \A l \in DOMAIN cs : cs[l] = c.client.contract => l = k
      BY <1>1, <1>2, <2>2 DEF ContractsInv
    <2>5. ASSUME ~Shared(c.kind), Endpoint(c.kind) = None PROVE FALSE
      <3>1. e = None
        BY <2>5 DEF Conf, Endpoint
      <3>2. c.client.rot \in DOMAIN cs /\ c.client.contract = cs[c.client.rot]
        BY <1>1, <1>4, <3>1 DEF CallOK, ClientOK
      <3>3. c.client.rot = k
        BY <2>4, <3>2
      <3>4. c.since.rot <= c.client.rot
        BY <1>1, <2>3, <2>5, <3>3 DEF CallOK
      <3> QED BY <1>1, <2>3, <3>3, <3>4
    <2> QED BY <2>3, <2>4, <2>5
  <1>7. SolventIsBacked
    <2> SUFFICES ASSUME NEW s \in Slot, Ended(s), call[s].out = "solvent"
                 PROVE  /\ call[s].proof # None /\ call[s].reported \in ProofsOf(call[s].org)
                        /\ rotations(call[s].org) = 1 /\ ~Misdirected(s)
                             => call[s].proof.no >= call[s].reported.no
      BY DEF SolventIsBacked
    <2>1. /\ call[s].proof # None /\ call[s].reported # None
          /\ Len(contracts[call[s].org]) = 1 /\ call[s].proof.org = call[s].org
               => call[s].reported.no <= call[s].proof.no
          /\ call[s].reported.org = call[s].org /\ OnChain(chain, call[s].reported)
      BY <1>1 DEF CallOK
    <2>2. call[s].reported \in ProofsOf(call[s].org)
      BY <2>1 DEF OnChain, ProofsOf, Range
    <2>3. ~Misdirected(s) => call[s].proof.org = call[s].org
      BY <1>3, <1>4, <2>1
    <2>4. rotations(call[s].org) = 1 /\ ~Misdirected(s) => call[s].proof.no >= call[s].reported.no
      BY <1>1, <2>1, <2>3 DEF rotations
    <2> QED BY <2>1, <2>2, <2>4
  <1>8. DeniedOnlyIfRotated
    <2> SUFFICES ASSUME NEW s \in Slot, Ended(s)
                 PROVE  /\ call[s].out = "excluded" => rotations(call[s].org) > 1 \/ Misdirected(s)
                        /\ call[s].out = "included" => call[s].client.contract \in Range(contracts[call[s].org])
      BY DEF DeniedOnlyIfRotated
    <2>1. /\ call[s].out = "excluded" => \/ Len(contracts[call[s].org]) > 1
                                         \/ \E u \in Org \ {call[s].org} : Owns(contracts, u, call[s].client.contract)
          /\ call[s].out = "included" => Owns(contracts, call[s].org, call[s].client.contract)
      BY <1>1 DEF CallOK
    <2>2. \A u \in Org : Owns(contracts, u, call[s].client.contract) => call[s].client.contract \in Contract
      BY StateHeld, HeldFacts DEF Owns, ReadersInv
    <2>3. call[s].out = "excluded" => rotations(call[s].org) > 1 \/ Misdirected(s)
      BY <1>3, <2>1, <2>2 DEF rotations
    <2> QED BY <2>1, <2>3 DEF Owns, Range
  <1> QED BY <1>5, <1>6, <1>7, <1>8 DEF AnswersAreOfTheRecord

\* However the readers' awaits interleave with cycles and rotations, an answer is of the
\* institution's own record or of the one contract the reader's settings name, recent up
\* to a rotation, and "solvent" is backed by a proof of the institution.
THEOREM AnswersAreOfTheRecordAlways == ReadersSpec => []AnswersAreOfTheRecord
  BY ReadersInvariant, InvAnswers, PTL
-----------------------------------------------------------------------------
(* The public pages.                                                       *)

Verify == [query: Pasted \cup {None}, state: {"idle", "loading", "found", "notfound"},
           proof: RecordId \cup {None}, missed: Pasted \cup {None}, check: {"idle", "unavailable"}]
Inclusion == [field: Reference \cup {None}, state: {"idle", "checking", "done"},
              result: BOOLEAN \cup {None}, checked: Reference \cup {None}]
Started(A) == [n: Nat, last: A \cup {None}]

\* The youngest of a page's lookups in flight is the last that was started.
Youngest(pending, last) == pending # << >> => Last(pending) = last

LookupInv ==
  /\ LookupTypeOK /\ verify \in Verify /\ inclusion \in Inclusion
  /\ started \in [verify: Started(Pasted), inclusion: Started(Reference)]
  /\ Youngest(lookups, started.verify.last) /\ Youngest(checks, started.inclusion.last)
  /\ inclusion.checked = started.inclusion.last
  /\ SettledIsAsked

\* What is young stays so when a lookup is started, and when the oldest returns; it is
\* the oldest when it is the only one.
LEMMA QueueGrows ==
  ASSUME NEW S, NEW s \in Seq(S), NEW e \in S
  PROVE  Append(s, e) \in Seq(S) /\ Append(s, e) # << >> /\ Youngest(Append(s, e), e)
  <1>1. Append(s, e) \in Seq(S) /\ Len(Append(s, e)) = Len(s) + 1 /\ Append(s, e)[Len(s) + 1] = e /\ Len(s) \in Nat
    OBVIOUS
  <1>2. Append(s, e) # << >>
    BY <1>1, EmptySeq
  <1> QED BY <1>1, <1>2 DEF Youngest, Last

LEMMA QueueShrinks ==
  ASSUME NEW S, NEW s \in Seq(S), s # << >>, NEW last, Youngest(s, last)
  PROVE  /\ Head(s) \in S /\ Tail(s) \in Seq(S) /\ Youngest(Tail(s), last)
         /\ Tail(s) = << >> => Head(s) = last
  <1>1. Len(s) \in Nat /\ Len(s) # 0 /\ s[Len(s)] = last /\ Head(s) = s[1] /\ Head(s) \in S
    BY EmptySeq DEF Youngest, Last
  <1>2. /\ Tail(s) \in Seq(S) /\ Len(Tail(s)) = Len(s) - 1
        /\ \A i \in 1..(Len(s) - 1) : Tail(s)[i] = s[i + 1]
    OBVIOUS
  <1>3. Tail(s) = << >> => Head(s) = last
    BY <1>1, <1>2
  <1>4. ASSUME Tail(s) # << >> PROVE Tail(s)[Len(Tail(s))] = last
    <2>1. Len(Tail(s)) # 0
      BY <1>2, <1>4, EmptySeq
    <2>2. Len(s) - 1 \in 1..(Len(s) - 1) /\ (Len(s) - 1) + 1 = Len(s)
      BY <1>1, <1>2, <2>1
    <2> QED BY <1>1, <1>2, <2>2
  <1> QED BY <1>1, <1>2, <1>3, <1>4 DEF Youngest, Last
-----------------------------------------------------------------------------
LEMMA LookUpStep ==
  ASSUME LookupInv, NEW q \in Pasted, lookUp(q)
  PROVE  LookupInv'
  <1>1. /\ verify' = [verify EXCEPT !.query = q, !.state = "loading", !.proof = None, !.check = "idle"]
        /\ lookups' = Append(lookups, q)
        /\ started' = [started EXCEPT !.verify = [n |-> started.verify.n + 1, last |-> q]]
        /\ inclusion' = inclusion /\ checks' = checks
    BY DEF lookUp
  <1>2. verify' \in Verify /\ verify'.state = "loading"
    <2> HIDE DEF Pasted
    <2> QED BY <1>1 DEF LookupInv, Verify
  <1>3. lookups' \in Seq(Pasted) /\ lookups' # << >> /\ Youngest(lookups', q)
    BY <1>1, QueueGrows DEF LookupInv, LookupTypeOK
  <1>4. /\ started' \in [verify: Started(Pasted), inclusion: Started(Reference)]
        /\ started'.verify.last = q /\ started'.inclusion = started.inclusion
    BY <1>1 DEF LookupInv, Started
  <1>5. LookupTypeOK'
    BY <1>1, <1>2, <1>3 DEF LookupInv, LookupTypeOK, Verify
  <1>6. SettledIsAsked'
    BY <1>1, <1>3, <1>4 DEF LookupInv, SettledIsAsked, SettledProofIsAsked, SettledAnswerIsAsked
  <1> QED BY <1>1, <1>2, <1>3, <1>4, <1>5, <1>6 DEF LookupInv

LEMMA CheckStep ==
  ASSUME LookupInv, NEW r \in Reference, check(r)
  PROVE  LookupInv'
  <1>1. /\ inclusion' = [field |-> r, state |-> "checking", result |-> None, checked |-> r]
        /\ checks' = Append(checks, r)
        /\ started' = [started EXCEPT !.inclusion = [n |-> started.inclusion.n + 1, last |-> r]]
        /\ verify' = verify /\ lookups' = lookups
    BY DEF check
  <1>2. inclusion' \in Inclusion /\ inclusion'.checked = r /\ inclusion'.state = "checking"
    BY <1>1 DEF Inclusion
  <1>3. checks' \in Seq(Reference) /\ checks' # << >> /\ Youngest(checks', r)
    BY <1>1, QueueGrows DEF LookupInv, LookupTypeOK
  <1>4. /\ started' \in [verify: Started(Pasted), inclusion: Started(Reference)]
        /\ started'.inclusion.last = r /\ started'.verify = started.verify
    BY <1>1 DEF LookupInv, Started
  <1>5. LookupTypeOK'
    BY <1>1, <1>2, <1>3 DEF LookupInv, LookupTypeOK, Inclusion
  <1>6. SettledIsAsked'
    BY <1>1, <1>3, <1>4 DEF LookupInv, SettledIsAsked, SettledProofIsAsked, SettledAnswerIsAsked
  <1> QED BY <1>1, <1>2, <1>3, <1>4, <1>5, <1>6 DEF LookupInv

LEMMA LookupReturnsStep ==
  ASSUME LookupInv, LookupReturns
  PROVE  LookupInv'
  <1> DEFINE q == Head(lookups)
             found == lookupProof(q)
             last == started.verify.last
  <1>1. /\ verify' = [verify EXCEPT !.state = IF found = None THEN "notfound" ELSE "found",
                                    !.proof = IF found = None THEN verify.proof ELSE found,
                                    !.missed = IF found = None THEN q ELSE verify.missed]
        /\ lookups # << >> /\ lookups' = Tail(lookups)
        /\ inclusion' = inclusion /\ checks' = checks /\ started' = started
    BY DEF LookupReturns, Due
  <1>2. /\ q \in Pasted /\ lookups' \in Seq(Pasted) /\ Youngest(lookups', last)
        /\ lookups' = << >> => q = last
    BY <1>1, QueueShrinks DEF LookupInv, LookupTypeOK
  <1>3. /\ found \in RecordId \cup {None} /\ None \notin RecordId
        /\ q.id \in RecordId => found = q.id
        /\ q.id \notin RecordId => found = None
    BY LookupAssumption DEF lookupProof
  <1> HIDE DEF q, found
  <1>4. /\ verify' \in Verify
        /\ found # None => verify'.state = "found" /\ verify'.proof = found
        /\ found = None => verify'.state = "notfound" /\ verify'.missed = q
    <2> HIDE DEF Pasted
    <2> QED BY <1>1, <1>2, <1>3 DEF LookupInv, Verify
  <1>5. LookupTypeOK'
    BY <1>1, <1>2, <1>3, <1>4 DEF LookupInv, LookupTypeOK, Verify
  <1>6. SettledProofIsAsked'
    BY <1>1, <1>2, <1>3, <1>4 DEF SettledProofIsAsked
  <1>7. SettledAnswerIsAsked'
    BY <1>1 DEF LookupInv, SettledIsAsked, SettledAnswerIsAsked
  <1> QED BY <1>1, <1>2, <1>4, <1>5, <1>6, <1>7 DEF LookupInv, SettledIsAsked

LEMMA CheckReturnsStep ==
  ASSUME LookupInv, CheckReturns
  PROVE  LookupInv'
  <1> DEFINE r == Head(checks)
             last == started.inclusion.last
             answer == r \in Included
  <1>1. /\ inclusion' = [inclusion EXCEPT !.state = "done", !.result = answer]
        /\ checks # << >> /\ checks' = Tail(checks)
        /\ verify' = verify /\ lookups' = lookups /\ started' = started
    BY DEF CheckReturns, Due, Replaces, checkInclusion
  <1>2. /\ r \in Reference /\ checks' \in Seq(Reference) /\ Youngest(checks', last)
        /\ checks' = << >> => r = last
    BY <1>1, QueueShrinks DEF LookupInv, LookupTypeOK
  <1>3. answer \in BOOLEAN
    OBVIOUS
  <1> HIDE DEF r, answer
  <1>4. /\ inclusion' \in Inclusion /\ inclusion'.state = "done" /\ inclusion'.result = answer
        /\ inclusion'.checked = inclusion.checked
    <2> HIDE DEF Reference
    <2> QED BY <1>1, <1>3 DEF LookupInv, Inclusion
  <1>5. LookupTypeOK'
    <2>1. inclusion'.result \in BOOLEAN \cup {None}
      BY <1>3, <1>4
    <2>2. inclusion'.result # None
      BY <1>3, <1>4, LookupAssumption
    <2> QED BY <1>1, <1>2, <1>4, <2>1, <2>2 DEF LookupInv, LookupTypeOK
  <1>6. SettledAnswerIsAsked'
    BY <1>1, <1>2, <1>4 DEF LookupInv, SettledAnswerIsAsked, answer
  <1>7. SettledProofIsAsked'
    BY <1>1 DEF LookupInv, SettledIsAsked, SettledProofIsAsked
  <1> QED BY <1>1, <1>2, <1>4, <1>5, <1>6, <1>7 DEF LookupInv, SettledIsAsked

\* What is typed and what the check of a proof shows is in no other part of the state.
LEMMA TypingStep ==
  ASSUME LookupInv,
         \/ \E q \in Pasted : typeQuery(q)
         \/ \E r \in Reference : typeReference(r)
         \/ runClientCheck
         \/ UNCHANGED lookupVars
  PROVE  LookupInv'
  <1>1. /\ lookups' = lookups /\ checks' = checks /\ started' = started
    BY DEF typeQuery, typeReference, runClientCheck, lookupVars
  <1>2. /\ verify' \in Verify /\ verify'.state = verify.state /\ verify'.proof = verify.proof
        /\ verify'.missed = verify.missed /\ verify'.query \in Pasted \cup {None}
    <2> HIDE DEF Pasted
    <2> QED BY DEF LookupInv, Verify, typeQuery, typeReference, runClientCheck, lookupVars
  <1>3. /\ inclusion' \in Inclusion /\ inclusion'.state = inclusion.state /\ inclusion'.result = inclusion.result
        /\ inclusion'.checked = inclusion.checked
    <2> HIDE DEF Reference
    <2> QED BY DEF LookupInv, Inclusion, typeQuery, typeReference, runClientCheck, lookupVars
  <1>4. LookupTypeOK'
    BY <1>1, <1>2, <1>3 DEF LookupInv, LookupTypeOK
  <1>5. SettledIsAsked'
    BY <1>1, <1>2, <1>3 DEF LookupInv, SettledIsAsked, SettledProofIsAsked, SettledAnswerIsAsked
  <1> QED BY <1>1, <1>2, <1>3, <1>4, <1>5 DEF LookupInv

\* Both pages start with nothing asked.
LEMMA LookupStart == LookupInit => LookupInv
  <1> SUFFICES ASSUME LookupInit PROVE LookupInv
    OBVIOUS
  <1>1. verify \in Verify /\ inclusion \in Inclusion
    BY DEF LookupInit, Verify, Inclusion
  <1>2. started \in [verify: Started(Pasted), inclusion: Started(Reference)]
    BY DEF LookupInit, Started
  <1>3. LookupTypeOK /\ SettledIsAsked
    BY DEF LookupInit, LookupTypeOK, SettledIsAsked, SettledProofIsAsked, SettledAnswerIsAsked
  <1> QED BY <1>1, <1>2, <1>3 DEF LookupInit, LookupInv, Youngest

\* No question, answer or keystroke breaks the invariant.
LEMMA LookupInvStep == LookupInv /\ [LookupNext]_lookupVars => LookupInv'
  <1> SUFFICES ASSUME LookupInv, [LookupNext]_lookupVars PROVE LookupInv'
    OBVIOUS
  <1>1. CASE \E id \in RecordId : sampleProof(id)
    <2>1. \A id \in RecordId : Plain(id) \in Pasted
      BY DEF Plain, Pasted
    <2> QED BY <1>1, <2>1, LookUpStep DEF sampleProof
  <1>2. CASE \E q \in Pasted : openLink(q)
    BY <1>2, LookUpStep DEF openLink
  <1>3. CASE submitQuery
    <2>1. verify.query \in Pasted
      BY <1>3 DEF submitQuery, LookupInv, LookupTypeOK
    <2> QED BY <1>3, <2>1, LookUpStep DEF submitQuery
  <1>4. CASE submitReference
    <2>1. inclusion.field \in Reference
      BY <1>4 DEF submitReference, LookupInv, Inclusion
    <2> QED BY <1>4, <2>1, CheckStep DEF submitReference
  <1>5. CASE sampleReference
    BY <1>5, CheckStep, LookupAssumption DEF sampleReference, Reference
  <1> QED BY <1>1, <1>2, <1>3, <1>4, <1>5, LookupReturnsStep, CheckReturnsStep, TypingStep DEF LookupNext

\* With overlapping lookups, both pages settle on the answer to what was asked last.
THEOREM SettledIsAskedAlways == LookupSpec => []SettledIsAsked
  <1>1. LookupInv => SettledIsAsked
    BY DEF LookupInv
  <1> QED BY <1>1, LookupStart, LookupInvStep, PTL DEF LookupSpec
-----------------------------------------------------------------------------
(* The forms.                                                              *)

FormState == [status: {"idle", "invalid", "failed", "sent"}, email: Address \cup {None}, bot: BOOLEAN]

\* Actions x: form f is at a call for address a.
IsAt(x, f, at, a) == x[f] # None /\ x[f].at = at /\ x[f].input.email = a

\* An action is about a person's address, and its calls are those of its form.
ActionOK(x, f) ==
  x[f] # None =>
    /\ x[f].input.email \in Address /\ ~x[f].input.bot /\ Configured(f)
    /\ x[f].at = "send" <=> f \in Message

Awaiting(x) == {f \in Form : x[f] # None}

ContactTypes ==
  /\ form \in [Form -> FormState] /\ action \in [Form -> Submitted \cup {None}]
  /\ \A f \in Form : ActionOK(action, f)
  /\ listed \subseteq Address /\ delivered \subseteq Message
  /\ confirmed \in [Address -> Nat] /\ submits \in 0 .. MaxSubmits

\* A confirmation was submitted for, once.
ConfirmedAsSubmitted ==
  /\ IsFiniteSet(Awaiting(action))
  /\ \A a \in Address : confirmed[a] + Cardinality(Awaiting(action)) <= submits

\* What is so of an address as long as no two actions were adding it at once: the one
\* that adds it finds it not listed, and the one that confirms it is the first to.
NotRaced(x, a) ==
  /\ \A f, g \in Form : IsAt(x, f, "create", a) /\ IsAt(x, g, "create", a) => f = g
  /\ \A f, g \in Form : IsAt(x, f, "confirm", a) /\ IsAt(x, g, "confirm", a) => f = g

NotStored(x, l, c, a) ==
  /\ a \notin l => c[a] = 0 /\ \A f \in Form : ~IsAt(x, f, "confirm", a)

RaceOK(x, l, c, r, a) ==
  a \notin r =>
    /\ NotRaced(x, a) /\ c[a] <= 1
    /\ \A f \in Form : IsAt(x, f, "create", a) => a \notin l
    /\ \A f \in Form : IsAt(x, f, "confirm", a) => c[a] = 0

RacesInv ==
  \A a \in Address : NotStored(action, listed, confirmed, a)
                     /\ RaceOK(action, listed, confirmed, raced, a)

ContactInv ==
  /\ ContactTypes /\ ConfirmedAsSubmitted /\ RacesInv
  /\ SentIsStored /\ UnconfirmedOnlyIfFault

\* The forms start with nothing asked, stored or mailed.
LEMMA ContactStart == ContactInit => ContactInv
  <1> SUFFICES ASSUME ContactInit PROVE ContactInv
    OBVIOUS
  <1> USE ContactAssumption
  <1>1. ContactTypes
    BY DEF ContactInit, ContactTypes, FormState, Idle, ActionOK
  <1>2. ConfirmedAsSubmitted
    <2>1. Awaiting(action) = {}
      BY DEF ContactInit, Awaiting
    <2> QED BY <2>1, FS_EmptySet DEF ContactInit, ConfirmedAsSubmitted
  <1>3. RacesInv
    BY DEF ContactInit, RacesInv, NotStored, RaceOK, NotRaced, IsAt
  <1>4. SentIsStored /\ UnconfirmedOnlyIfFault
    BY DEF ContactInit, SentIsStored, Idle, UnconfirmedOnlyIfFault
  <1> QED BY <1>1, <1>2, <1>3, <1>4 DEF ContactInv

\* A form whose action ends shows what it returned, and awaits nothing.
LEMMA ReturnedIs ==
  ASSUME ContactTypes, NEW f \in Form, NEW status \in {"invalid", "failed", "sent"},
         NEW input \in Input, Returned(f, status, input)
  PROVE  /\ form' \in [Form -> FormState] /\ action' \in [Form -> Submitted \cup {None}]
         /\ form'[f] = [status |-> status, email |-> input.email, bot |-> input.bot]
         /\ action'[f] = None
         /\ \A g \in Form : g # f => form'[g] = form[g] /\ action'[g] = action[g]
  <1> DEFINE s == State(status, input)
  <1>1. s \in FormState /\ s = [status |-> status, email |-> input.email, bot |-> input.bot]
    BY DEF State, FormState, Input
  <1>2. form' = [form EXCEPT ![f] = s] /\ action' = [action EXCEPT ![f] = None]
    BY DEF Returned
  <1> HIDE DEF s
  <1> QED BY <1>1, <1>2 DEF ContactTypes

\* An action that goes on is at its next call, with the same input.
LEMMA GoesOnTo ==
  ASSUME ContactTypes, NEW f \in Form, action[f] # None, NEW at \in {"create", "confirm"},
         action' = [action EXCEPT ![f].at = at]
  PROVE  /\ action' \in [Form -> Submitted \cup {None}]
         /\ action'[f] # None /\ action'[f].at = at /\ action'[f].input = action[f].input
         /\ \A g \in Form : g # f => action'[g] = action[g]
  <1> USE ContactAssumption
  <1>1. action[f] \in Submitted
    BY DEF ContactTypes
  <1> DEFINE b == [action[f] EXCEPT !.at = at]
  <1>2. b \in Submitted /\ b.at = at /\ b.input = action[f].input
    BY <1>1 DEF Submitted
  <1>3. action' = [action EXCEPT ![f] = b]
    BY DEF ContactTypes
  <1> HIDE DEF b
  <1> QED BY <1>2, <1>3 DEF ContactTypes

\* What awaits after a return, or after one more call of an action.
LEMMA AwaitingLess ==
  ASSUME NEW x, NEW y, NEW f \in Form, IsFiniteSet(Awaiting(x)), y[f] = None, x[f] # None,
         \A g \in Form : g # f => y[g] = x[g]
  PROVE  /\ IsFiniteSet(Awaiting(y)) /\ Cardinality(Awaiting(y)) + 1 = Cardinality(Awaiting(x))
         /\ Cardinality(Awaiting(y)) \in Nat
  <1>1. Awaiting(y) = Awaiting(x) \ {f} /\ f \in Awaiting(x)
    BY DEF Awaiting
  <1> HIDE DEF Awaiting
  <1>2. Cardinality(Awaiting(x) \ {f}) = Cardinality(Awaiting(x)) - 1 /\ IsFiniteSet(Awaiting(x) \ {f})
    BY <1>1, FS_RemoveElement
  <1> QED BY <1>1, <1>2, FS_CardinalityType

\* A form that was idle awaits an answer now: one more does.
LEMMA AwaitingMore ==
  ASSUME NEW x, NEW y, NEW f \in Form, IsFiniteSet(Awaiting(x)), y[f] # None, x[f] = None,
         \A g \in Form : g # f => y[g] = x[g]
  PROVE  /\ IsFiniteSet(Awaiting(y)) /\ Cardinality(Awaiting(y)) = Cardinality(Awaiting(x)) + 1
         /\ Cardinality(Awaiting(x)) \in Nat
  <1>1. Awaiting(y) = Awaiting(x) \cup {f} /\ f \notin Awaiting(x)
    BY DEF Awaiting
  <1> HIDE DEF Awaiting
  <1>2. /\ Cardinality(Awaiting(x) \cup {f}) = Cardinality(Awaiting(x)) + 1
        /\ IsFiniteSet(Awaiting(x) \cup {f})
    BY <1>1, FS_AddElement
  <1> QED BY <1>1, <1>2, FS_CardinalityType

\* Those that await an answer are the same as long as no action starts or ends.
LEMMA AwaitingSame ==
  ASSUME NEW x, NEW y, \A g \in Form : (y[g] # None) <=> (x[g] # None)
  PROVE  Awaiting(y) = Awaiting(x)
  BY DEF Awaiting

\* Fewer actions at a creation or a confirmation race no more than before.
LEMMA RacesKept ==
  ASSUME RacesInv, listed' = listed, confirmed' = confirmed, raced \subseteq raced',
         \A g \in Form, a \in Address :
           /\ IsAt(action', g, "create", a) => IsAt(action, g, "create", a)
           /\ IsAt(action', g, "confirm", a) => IsAt(action, g, "confirm", a)
  PROVE  RacesInv'
  <1> SUFFICES ASSUME NEW a \in Address
               PROVE  (NotStored(action, listed, confirmed, a) /\ RaceOK(action, listed, confirmed, raced, a))'
    BY DEF RacesInv
  <1>1. NotStored(action, listed, confirmed, a) /\ RaceOK(action, listed, confirmed, raced, a)
    BY DEF RacesInv
  <1> HIDE DEF RacesInv
  <1> QED BY <1>1 DEF NotStored, RaceOK, NotRaced

\* A person submits a form: the guards refuse it, or its first call goes out.
LEMMA submitStep ==
  ASSUME ContactInv, NEW f \in Form, NEW input \in Input, submit(f, input)
  PROVE  ContactInv'
  <1> USE ContactAssumption
  <1>0. /\ ContactTypes /\ ConfirmedAsSubmitted /\ RacesInv /\ SentIsStored /\ UnconfirmedOnlyIfFault
        /\ action[f] = None
        /\ submits < MaxSubmits /\ submits' = submits + 1 /\ submits \in Nat
        /\ mailEnv' = mailEnv /\ listed' = listed /\ confirmed' = confirmed
        /\ delivered' = delivered /\ faulty' = faulty /\ raced' = raced
    BY DEF ContactInv, submit, Pending, Service, ContactTypes
  <1>1. CASE \E status \in {"invalid", "failed", "sent"} :
                Returned(f, status, input) /\ (status = "sent" => input.bot)
    <2>1. PICK status \in {"invalid", "failed", "sent"} :
                Returned(f, status, input) /\ (status = "sent" => input.bot)
      BY <1>1
    <2>2. /\ form' \in [Form -> FormState] /\ action' \in [Form -> Submitted \cup {None}]
          /\ form'[f] = [status |-> status, email |-> input.email, bot |-> input.bot]
          /\ action'[f] = None
          /\ \A g \in Form : g # f => form'[g] = form[g] /\ action'[g] = action[g]
      BY <1>0, <2>1, ReturnedIs
    <2>3. \A g \in Form : action'[g] = action[g]
      BY <1>0, <2>2
    <2>4. ContactTypes'
      BY <1>0, <2>2, <2>3 DEF ContactTypes, ActionOK, Configured
    <2>5. Awaiting(action') = Awaiting(action)
      BY <2>3, AwaitingSame
    <2>6. ConfirmedAsSubmitted'
      <3> SUFFICES ASSUME NEW a \in Address
                   PROVE  confirmed[a] + Cardinality(Awaiting(action)) <= submits + 1
        BY <1>0, <2>5 DEF ConfirmedAsSubmitted
      <3>1. confirmed[a] \in Nat /\ Cardinality(Awaiting(action)) \in Nat
        BY <1>0, FS_CardinalityType DEF ConfirmedAsSubmitted, ContactTypes
      <3> QED BY <1>0, <3>1 DEF ConfirmedAsSubmitted
    <2>7. RacesInv'
      BY <1>0, <2>3, RacesKept DEF IsAt
    <2>8. SentIsStored'
      BY <1>0, <2>1, <2>2 DEF SentIsStored
    <2>9. UnconfirmedOnlyIfFault'
      BY <1>0, <2>3 DEF UnconfirmedOnlyIfFault, Calling, Email, Form
    <2> QED BY <2>4, <2>6, <2>7, <2>8, <2>9 DEF ContactInv
  <1>2. CASE /\ validate(input) /\ ~isBot(input) /\ Configured(f)
             /\ action' = [action EXCEPT ![f] = [at |-> FirstCall(f), input |-> input]]
             /\ form' = form
    <2> DEFINE b == [at |-> FirstCall(f), input |-> input]
    <2>1. b \in Submitted /\ b.at = FirstCall(f) /\ b.input = input /\ b # None
      BY DEF Submitted, FirstCall
    <2>2. action' = [action EXCEPT ![f] = b]
      BY <1>2
    <2> HIDE DEF b
    <2>3. /\ action' \in [Form -> Submitted \cup {None}] /\ action'[f] = b
          /\ \A g \in Form : g # f => action'[g] = action[g]
      BY <1>0, <2>1, <2>2 DEF ContactTypes
    <2>4. ContactTypes'
      <3>1. \A g \in Form : ActionOK(action, g)'
        <4> SUFFICES ASSUME NEW g \in Form PROVE ActionOK(action, g)'
          OBVIOUS
        <4>1. CASE g # f
          BY <4>1, <1>0, <2>3 DEF ContactTypes, ActionOK, Configured
        <4>2. CASE g = f
          <5>1. input.email \in Address /\ ~input.bot
            BY <1>2 DEF validate, isBot, Input
          <5>2. b.at = "send" <=> f \in Message
            BY <2>1 DEF FirstCall, Form
          <5> QED BY <4>2, <1>0, <1>2, <2>1, <2>3, <5>1, <5>2 DEF ActionOK, Configured
        <4> QED BY <4>1, <4>2
      <3>2. submits' \in 0 .. MaxSubmits
        BY <1>0
      <3>3. /\ form \in [Form -> FormState] /\ listed \subseteq Address /\ delivered \subseteq Message
            /\ confirmed \in [Address -> Nat]
        BY <1>0 DEF ContactTypes
      <3> QED BY <1>0, <1>2, <2>3, <3>1, <3>2, <3>3 DEF ContactTypes
    <2>5. ConfirmedAsSubmitted'
      <3>1. /\ IsFiniteSet(Awaiting(action')) /\ Cardinality(Awaiting(action')) = Cardinality(Awaiting(action)) + 1
            /\ Cardinality(Awaiting(action)) \in Nat
        BY <1>0, <2>1, <2>3, AwaitingMore DEF ConfirmedAsSubmitted
      <3> SUFFICES ASSUME NEW a \in Address
                   PROVE  confirmed[a] + Cardinality(Awaiting(action')) <= submits + 1
        BY <1>0, <3>1 DEF ConfirmedAsSubmitted
      <3>2. confirmed[a] \in Nat
        BY <1>0 DEF ContactTypes
      <3> QED BY <1>0, <3>1, <3>2 DEF ConfirmedAsSubmitted
    <2>6. RacesInv'
      BY <1>0, <2>1, <2>3, RacesKept DEF IsAt, FirstCall
    <2>7. SentIsStored'
      BY <1>0, <1>2 DEF SentIsStored
    <2>8. UnconfirmedOnlyIfFault'
      BY <1>0, <2>3 DEF UnconfirmedOnlyIfFault, Calling, Email, Form
    <2> QED BY <2>4, <2>5, <2>6, <2>7, <2>8 DEF ContactInv
  <1> QED BY <1>1, <1>2 DEF submit, isBot

\* An action for an address a at one of its calls.
LEMMA CallingIs ==
  ASSUME ContactTypes, NEW f \in Form, NEW at, Calling(f, at)
  PROVE  /\ action[f] # None /\ action[f].at = at /\ Email(f) \in Address
         /\ Email(f) = action[f].input.email /\ ~action[f].input.bot /\ action[f].input \in Input
         /\ at = "send" <=> f \in Message
  BY DEF ContactTypes, Calling, Email, ActionOK, Submitted

\* An action that returns after a call shows its own input.
LEMMA EndedIs ==
  ASSUME ContactTypes, NEW f \in Form, NEW at, Calling(f, at),
         NEW status \in {"invalid", "failed", "sent"}, Returned(f, status, action[f].input)
  PROVE  /\ form' \in [Form -> FormState] /\ action' \in [Form -> Submitted \cup {None}]
         /\ form'[f].status = status /\ form'[f].email = Email(f) /\ ~form'[f].bot
         /\ action'[f] = None
         /\ \A g \in Form : g # f => form'[g] = form[g] /\ action'[g] = action[g]
  <1> DEFINE input == action[f].input
  <1>1. input \in Input /\ Returned(f, status, input) /\ input.email = Email(f) /\ ~input.bot
    BY CallingIs
  <1> HIDE DEF input
  <1>2. /\ form' \in [Form -> FormState] /\ action' \in [Form -> Submitted \cup {None}]
        /\ form'[f] = [status |-> status, email |-> input.email, bot |-> input.bot]
        /\ action'[f] = None
        /\ \A g \in Form : g # f => form'[g] = form[g] /\ action'[g] = action[g]
    BY <1>1, ReturnedIs
  <1> QED BY <1>1, <1>2

\* What is left once an action of a form ended, the confirmations apart.
LEMMA EndedTypes ==
  ASSUME ContactTypes, ConfirmedAsSubmitted, NEW f \in Form, action[f] # None,
         form' \in [Form -> FormState], action' \in [Form -> Submitted \cup {None}], action'[f] = None,
         \A g \in Form : g # f => form'[g] = form[g] /\ action'[g] = action[g],
         mailEnv' = mailEnv, submits' = submits, listed' \subseteq Address, delivered' \subseteq Message,
         confirmed' \in [Address -> Nat], \A a \in Address : confirmed'[a] <= confirmed[a] + 1
  PROVE  ContactTypes' /\ ConfirmedAsSubmitted'
  <1>1. ContactTypes'
    BY DEF ContactTypes, ActionOK, Configured
  <1>2. /\ IsFiniteSet(Awaiting(action')) /\ Cardinality(Awaiting(action')) + 1 = Cardinality(Awaiting(action))
        /\ Cardinality(Awaiting(action')) \in Nat
    BY AwaitingLess DEF ConfirmedAsSubmitted
  <1>3. ConfirmedAsSubmitted'
    <2> SUFFICES ASSUME NEW a \in Address
                 PROVE  confirmed'[a] + Cardinality(Awaiting(action')) <= submits'
      BY <1>2 DEF ConfirmedAsSubmitted
    <2>1. confirmed[a] \in Nat /\ confirmed'[a] \in Nat /\ submits \in Nat
      BY DEF ContactTypes
    <2>2. confirmed[a] + Cardinality(Awaiting(action)) <= submits /\ confirmed'[a] <= confirmed[a] + 1
      BY DEF ConfirmedAsSubmitted
    <2> QED BY <1>2, <2>1, <2>2
  <1> QED BY <1>1, <1>3

\* The address is found on the list: the action ends as one already listed.
LEMMA getListedStep ==
  ASSUME ContactInv, NEW f \in Form, getListed(f)
  PROVE  ContactInv'
  <1>0. /\ ContactTypes /\ ConfirmedAsSubmitted /\ RacesInv /\ SentIsStored /\ UnconfirmedOnlyIfFault
        /\ mailEnv' = mailEnv /\ submits' = submits /\ listed' = listed /\ confirmed' = confirmed
        /\ delivered' = delivered /\ faulty' = faulty /\ raced' = raced
        /\ Calling(f, "get") /\ Returned(f, "invalid", action[f].input)
    BY DEF ContactInv, getListed, Service
  <1>1. /\ action[f] # None /\ action[f].at = "get" /\ action[f].input \in Input
    BY <1>0, CallingIs
  <1>2. /\ form' \in [Form -> FormState] /\ action' \in [Form -> Submitted \cup {None}]
        /\ form'[f].status = "invalid" /\ action'[f] = None
        /\ \A g \in Form : g # f => form'[g] = form[g] /\ action'[g] = action[g]
    BY <1>0, EndedIs
  <1>3. ContactTypes' /\ ConfirmedAsSubmitted'
    <2>1. /\ listed' \subseteq Address /\ delivered' \subseteq Message /\ confirmed' \in [Address -> Nat]
          /\ \A a \in Address : confirmed'[a] <= confirmed[a] + 1
      BY <1>0 DEF ContactTypes
    <2> QED BY <1>0, <1>1, <1>2, <2>1, EndedTypes
  <1>4. RacesInv'
    BY <1>0, <1>1, <1>2, RacesKept DEF IsAt
  <1>5. SentIsStored'
    BY <1>0, <1>2 DEF SentIsStored
  <1>6. UnconfirmedOnlyIfFault'
    BY <1>0, <1>1, <1>2 DEF UnconfirmedOnlyIfFault, Calling, Email, Form
  <1> QED BY <1>3, <1>4, <1>5, <1>6 DEF ContactInv

\* An action that goes on to its next call.
LEMMA GoesOnTypes ==
  ASSUME ContactTypes, ConfirmedAsSubmitted, NEW f \in Waitlist, action[f] # None,
         NEW at \in {"create", "confirm"}, action[f].at # "send",
         action' = [action EXCEPT ![f].at = at], form' = form, listed' \subseteq Address,
         mailEnv' = mailEnv, submits' = submits, delivered' = delivered, confirmed' = confirmed
  PROVE  ContactTypes' /\ ConfirmedAsSubmitted'
  <1>0. f \in Form
    BY DEF Form
  <1>1. /\ action' \in [Form -> Submitted \cup {None}]
        /\ action'[f] # None /\ action'[f].at = at /\ action'[f].input = action[f].input
        /\ \A g \in Form : g # f => action'[g] = action[g]
    BY <1>0, GoesOnTo
  <1>2. ContactTypes'
    BY <1>0, <1>1 DEF ContactTypes, ActionOK, Configured
  <1>3. Awaiting(action') = Awaiting(action)
    BY ZenonT(40), <1>1, AwaitingSame
  <1>4. ConfirmedAsSubmitted'
    BY <1>3 DEF ConfirmedAsSubmitted
  <1> QED BY <1>2, <1>4

\* Only the waitlist's action looks up, creates and confirms.
LEMMA OnlyWaitlist ==
  ASSUME ContactTypes, NEW f \in Form, action[f] # None, action[f].at # "send"
  PROVE  f \in Waitlist
  BY DEF ContactTypes, ActionOK, Form

\* An action that looked its address up, and did not find it, is about to add it.
LEMMA getNotFoundStep ==
  ASSUME ContactInv, NEW f \in Form, getNotFound(f)
  PROVE  ContactInv'
  <1>0. /\ ContactTypes /\ ConfirmedAsSubmitted /\ RacesInv /\ SentIsStored /\ UnconfirmedOnlyIfFault
        /\ mailEnv' = mailEnv /\ submits' = submits /\ listed' = listed /\ confirmed' = confirmed
        /\ delivered' = delivered /\ faulty' = faulty /\ form' = form
        /\ raced' = IF Adding(Email(f)) # {} THEN raced \cup {Email(f)} ELSE raced
        /\ action' = [action EXCEPT ![f].at = "create"]
        /\ Calling(f, "get") /\ Email(f) \notin listed
    BY DEF ContactInv, getNotFound, CreateNext
  <1> DEFINE e == Email(f)
  <1>1. /\ action[f] # None /\ action[f].at = "get" /\ e \in Address /\ action[f].input.email = e
    BY <1>0, CallingIs DEF Email
  <1>2. /\ action' \in [Form -> Submitted \cup {None}]
        /\ action'[f] # None /\ action'[f].at = "create" /\ action'[f].input = action[f].input
        /\ \A g \in Form : g # f => action'[g] = action[g]
    BY <1>0, <1>1, GoesOnTo
  <1>3. ContactTypes' /\ ConfirmedAsSubmitted'
    <2>1. f \in Waitlist /\ listed' \subseteq Address
      BY <1>0, <1>1, OnlyWaitlist DEF ContactTypes
    <2> QED BY <1>0, <1>1, <2>1, GoesOnTypes
  <1>4. /\ raced \subseteq raced' /\ e \notin listed
        /\ e \notin raced' => \A g \in Form : ~IsAt(action, g, "create", e)
    BY <1>0 DEF Adding, IsAt, Email
  <1> HIDE DEF e
  <1>5. /\ \A g \in Form, a \in Address :
             IsAt(action', g, "create", a) => IsAt(action, g, "create", a) \/ (g = f /\ a = e)
        /\ \A g \in Form, a \in Address : IsAt(action', g, "confirm", a) => IsAt(action, g, "confirm", a)
    BY <1>1, <1>2 DEF IsAt
  <1>6. RacesInv'
    <2> SUFFICES ASSUME NEW a \in Address
                 PROVE  (NotStored(action, listed, confirmed, a) /\ RaceOK(action, listed, confirmed, raced, a))'
      BY DEF RacesInv
    <2>1. NotStored(action, listed, confirmed, a) /\ RaceOK(action, listed, confirmed, raced, a)
      BY <1>0 DEF RacesInv
    <2>2. NotStored(action, listed, confirmed, a)'
      BY <1>0, <1>5, <2>1 DEF NotStored
    <2>3. RaceOK(action, listed, confirmed, raced, a)'
      <3> SUFFICES ASSUME a \notin raced'
                   PROVE  /\ NotRaced(action', a) /\ confirmed'[a] <= 1
                          /\ \A g \in Form : IsAt(action', g, "create", a) => a \notin listed'
                          /\ \A g \in Form : IsAt(action', g, "confirm", a) => confirmed'[a] = 0
        BY DEF RaceOK
      <3>1. a \notin raced
        BY <1>4
      <3>2. NotRaced(action', a)
        BY <1>4, <1>5, <2>1, <3>1 DEF RaceOK, NotRaced
      <3> QED BY <1>0, <1>4, <1>5, <2>1, <3>1, <3>2 DEF RaceOK
    <2> QED BY <2>2, <2>3
  <1>7. SentIsStored'
    BY <1>0 DEF SentIsStored
  <1>8. UnconfirmedOnlyIfFault'
    BY <1>0, <1>1, <1>2 DEF UnconfirmedOnlyIfFault, Calling, Email, Form
  <1> QED BY <1>3, <1>6, <1>7, <1>8 DEF ContactInv

\* A call that was refused or lost ends the action with a failure.
LEMMA getFailsStep ==
  ASSUME ContactInv, NEW f \in Form, getFails(f)
  PROVE  ContactInv'
  <1>0. /\ ContactTypes /\ ConfirmedAsSubmitted /\ RacesInv /\ SentIsStored /\ UnconfirmedOnlyIfFault
        /\ mailEnv' = mailEnv /\ submits' = submits /\ listed' = listed /\ confirmed' = confirmed
        /\ delivered' = delivered /\ faulty \subseteq faulty' /\ raced' = raced
        /\ Calling(f, "get") /\ Returned(f, "failed", action[f].input)
    BY DEF ContactInv, getFails, Fault, AfterLookupError
  <1>1. /\ action[f] # None /\ action[f].at = "get" /\ action[f].input \in Input
    BY <1>0, CallingIs
  <1>2. /\ form' \in [Form -> FormState] /\ action' \in [Form -> Submitted \cup {None}]
        /\ form'[f].status = "failed" /\ action'[f] = None
        /\ \A g \in Form : g # f => form'[g] = form[g] /\ action'[g] = action[g]
    BY <1>0, EndedIs
  <1>3. ContactTypes' /\ ConfirmedAsSubmitted'
    <2>1. /\ listed' \subseteq Address /\ delivered' \subseteq Message /\ confirmed' \in [Address -> Nat]
          /\ \A a \in Address : confirmed'[a] <= confirmed[a] + 1
      BY <1>0 DEF ContactTypes
    <2> QED BY <1>0, <1>1, <1>2, <2>1, EndedTypes
  <1>4. RacesInv'
    BY <1>0, <1>1, <1>2, RacesKept DEF IsAt
  <1>5. SentIsStored'
    BY <1>0, <1>2 DEF SentIsStored
  <1>6. UnconfirmedOnlyIfFault'
    BY <1>0, <1>1, <1>2 DEF UnconfirmedOnlyIfFault, Calling, Email, Form
  <1> QED BY <1>3, <1>4, <1>5, <1>6 DEF ContactInv

\* The contact is created: its address was not on the list, or it races another.
LEMMA createAddedStep ==
  ASSUME ContactInv, NEW f \in Form, createAdded(f)
  PROVE  ContactInv'
  <1>0. /\ ContactTypes /\ ConfirmedAsSubmitted /\ RacesInv /\ SentIsStored /\ UnconfirmedOnlyIfFault
        /\ mailEnv' = mailEnv /\ submits' = submits /\ confirmed' = confirmed
        /\ delivered' = delivered /\ faulty' = faulty /\ raced' = raced /\ form' = form
        /\ listed' = listed \cup {Email(f)}
        /\ action' = [action EXCEPT ![f].at = "confirm"]
        /\ Calling(f, "create")
    BY DEF ContactInv, createAdded, AfterCreate
  <1> DEFINE e == Email(f)
  <1>1. /\ action[f] # None /\ action[f].at = "create" /\ e \in Address /\ action[f].input.email = e
        /\ listed' = listed \cup {e}
    BY <1>0, CallingIs DEF Email
  <1>2. /\ action' \in [Form -> Submitted \cup {None}]
        /\ action'[f] # None /\ action'[f].at = "confirm" /\ action'[f].input = action[f].input
        /\ \A g \in Form : g # f => action'[g] = action[g]
    BY <1>0, <1>1, GoesOnTo
  <1> HIDE DEF e
  <1>3. f \in Waitlist /\ listed' \subseteq Address
    BY <1>0, <1>1, OnlyWaitlist DEF ContactTypes
  <1>4. ContactTypes' /\ ConfirmedAsSubmitted'
    BY <1>0, <1>1, <1>3, GoesOnTypes
  <1>5. /\ \A g \in Form, a \in Address :
             IsAt(action', g, "confirm", a) => IsAt(action, g, "confirm", a) \/ (g = f /\ a = e)
        /\ \A g \in Form, a \in Address :
             IsAt(action', g, "create", a) => IsAt(action, g, "create", a) /\ g # f
        /\ IsAt(action, f, "create", e)
    BY <1>1, <1>2 DEF IsAt
  <1>6. RacesInv'
    <2> SUFFICES ASSUME NEW a \in Address
                 PROVE  (NotStored(action, listed, confirmed, a) /\ RaceOK(action, listed, confirmed, raced, a))'
      BY DEF RacesInv
    <2>1. NotStored(action, listed, confirmed, a) /\ RaceOK(action, listed, confirmed, raced, a)
      BY <1>0 DEF RacesInv
    <2>2. NotStored(action, listed, confirmed, a)'
      BY <1>0, <1>1, <1>5, <2>1 DEF NotStored
    <2>3. RaceOK(action, listed, confirmed, raced, a)'
      <3> SUFFICES ASSUME a \notin raced
                   PROVE  /\ NotRaced(action', a) /\ confirmed[a] <= 1
                          /\ \A g \in Form : IsAt(action', g, "create", a) => a \notin listed'
                          /\ \A g \in Form : IsAt(action', g, "confirm", a) => confirmed[a] = 0
        BY <1>0 DEF RaceOK
      <3>1. /\ NotRaced(action, a) /\ confirmed[a] <= 1
            /\ \A g \in Form : IsAt(action, g, "create", a) => a \notin listed
            /\ \A g \in Form : IsAt(action, g, "confirm", a) => confirmed[a] = 0
        BY <2>1 DEF RaceOK
      <3>2. CASE a # e
        BY <1>1, <1>5, <3>1, <3>2 DEF NotRaced
      <3>3. CASE a = e
        <4>1. /\ a \notin listed /\ \A g \in Form : IsAt(action, g, "create", a) => g = f
          BY <1>5, <3>1, <3>3 DEF NotRaced
        <4>2. confirmed[a] = 0 /\ \A g \in Form : ~IsAt(action, g, "confirm", a)
          BY <2>1, <4>1 DEF NotStored
        <4> QED BY <1>1, <1>5, <3>1, <3>3, <4>1, <4>2 DEF NotRaced
      <3> QED BY <3>2, <3>3
    <2> QED BY <2>2, <2>3
  <1>7. SentIsStored'
    BY <1>0 DEF SentIsStored
  <1>8. UnconfirmedOnlyIfFault'
    <2> SUFFICES ASSUME NEW a \in listed', confirmed[a] = 0, a \notin faulty
                 PROVE  \E g \in Waitlist : (Calling(g, "confirm") /\ Email(g) = a)'
      BY <1>0 DEF UnconfirmedOnlyIfFault
    <2>1. CASE a = e
      BY <1>1, <1>2, <1>3, <2>1 DEF Calling, Email
    <2>2. CASE a # e
      <3>1. PICK g \in Waitlist : Calling(g, "confirm") /\ Email(g) = a
        BY <1>0, <1>1, <2>2 DEF UnconfirmedOnlyIfFault
      <3> QED BY <1>1, <1>2, <3>1 DEF Calling, Email, Form
    <2> QED BY <2>1, <2>2
  <1> QED BY <1>4, <1>6, <1>7, <1>8 DEF ContactInv

\* The creation fails, or its answer is lost: the address may be on the list.
LEMMA createFailsStep ==
  ASSUME ContactInv, NEW f \in Form, createFails(f)
  PROVE  ContactInv'
  <1> DEFINE e == Email(f)
  <1>0. /\ ContactTypes /\ ConfirmedAsSubmitted /\ RacesInv /\ SentIsStored /\ UnconfirmedOnlyIfFault
        /\ mailEnv' = mailEnv /\ submits' = submits /\ confirmed' = confirmed
        /\ delivered' = delivered /\ faulty' = faulty \cup {e} /\ raced' = raced
        /\ Calling(f, "create") /\ Returned(f, "failed", action[f].input)
        /\ listed \subseteq listed' /\ listed' \subseteq listed \cup {e}
    BY DEF ContactInv, createFails, Fault, AfterCreateError
  <1>1. /\ action[f] # None /\ action[f].at = "create" /\ e \in Address /\ action[f].input.email = e
    BY <1>0, CallingIs DEF Email
  <1>2. /\ form' \in [Form -> FormState] /\ action' \in [Form -> Submitted \cup {None}]
        /\ form'[f].status = "failed" /\ action'[f] = None
        /\ \A g \in Form : g # f => form'[g] = form[g] /\ action'[g] = action[g]
    BY <1>0, EndedIs
  <1> HIDE DEF e
  <1>3. ContactTypes' /\ ConfirmedAsSubmitted'
    <2>1. /\ listed' \subseteq Address /\ delivered' \subseteq Message /\ confirmed' \in [Address -> Nat]
          /\ \A a \in Address : confirmed'[a] <= confirmed[a] + 1
      BY <1>0, <1>1 DEF ContactTypes
    <2> QED BY <1>0, <1>1, <1>2, <2>1, EndedTypes
  <1>4. /\ \A g \in Form, at \in {"create", "confirm"}, a \in Address :
             IsAt(action', g, at, a) => IsAt(action, g, at, a) /\ g # f
        /\ IsAt(action, f, "create", e)
    BY <1>1, <1>2 DEF IsAt
  <1>5. RacesInv'
    <2> SUFFICES ASSUME NEW a \in Address
                 PROVE  (NotStored(action, listed, confirmed, a) /\ RaceOK(action, listed, confirmed, raced, a))'
      BY DEF RacesInv
    <2>1. NotStored(action, listed, confirmed, a) /\ RaceOK(action, listed, confirmed, raced, a)
      BY <1>0 DEF RacesInv
    <2>2. NotStored(action, listed, confirmed, a)'
      BY <1>0, <1>4, <2>1 DEF NotStored
    <2>3. RaceOK(action, listed, confirmed, raced, a)'
      <3> SUFFICES ASSUME a \notin raced
                   PROVE  /\ NotRaced(action', a) /\ confirmed[a] <= 1
                          /\ \A g \in Form : IsAt(action', g, "create", a) => a \notin listed'
                          /\ \A g \in Form : IsAt(action', g, "confirm", a) => confirmed[a] = 0
        BY <1>0 DEF RaceOK
      <3>1. /\ NotRaced(action, a) /\ confirmed[a] <= 1
            /\ \A g \in Form : IsAt(action, g, "create", a) => a \notin listed
            /\ \A g \in Form : IsAt(action, g, "confirm", a) => confirmed[a] = 0
        BY <2>1 DEF RaceOK
      <3>2. NotRaced(action', a)
        BY <1>4, <3>1 DEF NotRaced
      <3>3. CASE a = e
        BY <1>4, <3>1, <3>2, <3>3 DEF NotRaced
      <3>4. CASE a # e
        BY <1>0, <1>4, <3>1, <3>2, <3>4
      <3> QED BY <3>3, <3>4
    <2> QED BY <2>2, <2>3
  <1>6. SentIsStored'
    BY <1>0, <1>2 DEF SentIsStored
  <1>7. UnconfirmedOnlyIfFault'
    <2> SUFFICES ASSUME NEW a \in listed', confirmed[a] = 0, a \notin faulty'
                 PROVE  \E g \in Waitlist : (Calling(g, "confirm") /\ Email(g) = a)'
      BY <1>0 DEF UnconfirmedOnlyIfFault
    <2>1. PICK g \in Waitlist : Calling(g, "confirm") /\ Email(g) = a
      BY <1>0 DEF UnconfirmedOnlyIfFault
    <2> QED BY <1>1, <1>2, <2>1 DEF Calling, Email, Form
  <1> QED BY <1>3, <1>5, <1>6, <1>7 DEF ContactInv

\* The confirmation: accepted, refused, or accepted with its answer lost.
LEMMA confirmStep ==
  ASSUME ContactInv, NEW f \in Form, confirm(f)
  PROVE  ContactInv'
  <1> DEFINE e == Email(f)
  <1>0. /\ ContactTypes /\ ConfirmedAsSubmitted /\ RacesInv /\ SentIsStored /\ UnconfirmedOnlyIfFault
        /\ mailEnv' = mailEnv /\ submits' = submits /\ listed' = listed
        /\ delivered' = delivered /\ raced' = raced /\ faulty \subseteq faulty'
        /\ confirmed' = [confirmed EXCEPT ![e] = @ + 1] \/ (confirmed' = confirmed /\ e \in faulty')
        /\ Calling(f, "confirm") /\ Returned(f, "sent", action[f].input)
    BY DEF ContactInv, confirm, Fault
  <1>1. /\ action[f] # None /\ action[f].at = "confirm" /\ e \in Address /\ action[f].input.email = e
    BY <1>0, CallingIs DEF Email
  <1>2. /\ form' \in [Form -> FormState] /\ action' \in [Form -> Submitted \cup {None}]
        /\ form'[f].status = "sent" /\ form'[f].email = e /\ action'[f] = None
        /\ \A g \in Form : g # f => form'[g] = form[g] /\ action'[g] = action[g]
    BY <1>0, EndedIs
  <1>3. f \in Waitlist
    BY <1>0, <1>1, OnlyWaitlist
  <1> HIDE DEF e
  <1>4. /\ confirmed \in [Address -> Nat] /\ confirmed' \in [Address -> Nat]
        /\ \A a \in Address : a # e => confirmed'[a] = confirmed[a]
        /\ confirmed'[e] \in {confirmed[e], confirmed[e] + 1}
        /\ e \in faulty' \/ confirmed'[e] > 0
    <2>1. confirmed \in [Address -> Nat]
      BY <1>0 DEF ContactTypes
    <2> QED BY <1>0, <1>1, <2>1
  <1>5. ContactTypes' /\ ConfirmedAsSubmitted'
    <2>1. /\ listed' \subseteq Address /\ delivered' \subseteq Message
      BY <1>0 DEF ContactTypes
    <2>2. \A a \in Address : confirmed'[a] <= confirmed[a] + 1
      BY <1>4
    <2> QED BY <1>0, <1>1, <1>2, <1>4, <2>1, <2>2, EndedTypes
  <1>6. /\ \A g \in Form, at \in {"create", "confirm"}, a \in Address :
             IsAt(action', g, at, a) => IsAt(action, g, at, a) /\ g # f
        /\ IsAt(action, f, "confirm", e)
    BY <1>1, <1>2 DEF IsAt
  <1>7. RacesInv'
    <2> SUFFICES ASSUME NEW a \in Address
                 PROVE  (NotStored(action, listed, confirmed, a) /\ RaceOK(action, listed, confirmed, raced, a))'
      BY DEF RacesInv
    <2>1. NotStored(action, listed, confirmed, a) /\ RaceOK(action, listed, confirmed, raced, a)
      BY <1>0 DEF RacesInv
    <2>2. NotStored(action, listed, confirmed, a)'
      BY <1>0, <1>4, <1>6, <2>1 DEF NotStored
    <2>3. RaceOK(action, listed, confirmed, raced, a)'
      <3> SUFFICES ASSUME a \notin raced
                   PROVE  /\ NotRaced(action', a) /\ confirmed'[a] <= 1
                          /\ \A g \in Form : IsAt(action', g, "create", a) => a \notin listed
                          /\ \A g \in Form : IsAt(action', g, "confirm", a) => confirmed'[a] = 0
        BY <1>0 DEF RaceOK
      <3>1. /\ NotRaced(action, a) /\ confirmed[a] <= 1
            /\ \A g \in Form : IsAt(action, g, "create", a) => a \notin listed
            /\ \A g \in Form : IsAt(action, g, "confirm", a) => confirmed[a] = 0
        BY <2>1 DEF RaceOK
      <3>2. NotRaced(action', a) /\ \A g \in Form : IsAt(action', g, "create", a) => a \notin listed
        BY <1>6, <3>1 DEF NotRaced
      <3>3. CASE a = e
        <4>1. confirmed[a] = 0 /\ \A g \in Form : IsAt(action, g, "confirm", a) => g = f
          BY <1>6, <3>1, <3>3 DEF NotRaced
        <4> QED BY <1>4, <1>6, <3>2, <3>3, <4>1
      <3>4. CASE a # e
        BY <1>4, <1>6, <3>1, <3>2, <3>4
      <3> QED BY <3>3, <3>4
    <2> QED BY <2>2, <2>3
  <1>8. SentIsStored'
    <2>1. e \in listed
      BY <1>0, <1>1, <1>6 DEF RacesInv, NotStored
    <2> QED BY <1>0, <1>2, <1>3, <2>1 DEF SentIsStored
  <1>9. UnconfirmedOnlyIfFault'
    <2> SUFFICES ASSUME NEW a \in listed, confirmed'[a] = 0, a \notin faulty'
                 PROVE  \E g \in Waitlist : (Calling(g, "confirm") /\ Email(g) = a)'
      BY <1>0 DEF UnconfirmedOnlyIfFault
    <2>0. a \in Address
      BY <1>0 DEF ContactTypes
    <2>1. a # e /\ confirmed[a] = 0 /\ a \notin faulty
      BY <1>0, <1>4, <2>0
    <2>2. PICK g \in Waitlist : Calling(g, "confirm") /\ Email(g) = a
      BY <1>0, <2>1 DEF UnconfirmedOnlyIfFault
    <2>3. g # f
      BY <1>1, <2>1, <2>2 DEF Email
    <2> QED BY <1>2, <2>2, <2>3 DEF Calling, Email, Form
  <1> QED BY <1>5, <1>7, <1>8, <1>9 DEF ContactInv

\* The message to the team: accepted, refused, or accepted with its answer lost.
LEMMA deliverStep ==
  ASSUME ContactInv, NEW f \in Form, deliver(f)
  PROVE  ContactInv'
  <1> DEFINE e == Email(f)
  <1>0. /\ ContactTypes /\ ConfirmedAsSubmitted /\ RacesInv /\ SentIsStored /\ UnconfirmedOnlyIfFault
        /\ mailEnv' = mailEnv /\ submits' = submits /\ listed' = listed /\ confirmed' = confirmed
        /\ raced' = raced /\ faulty \subseteq faulty' /\ Calling(f, "send")
        /\ delivered \subseteq delivered' /\ delivered' \subseteq delivered \cup {f}
        /\ \/ Returned(f, "sent", action[f].input) /\ f \in delivered'
           \/ Returned(f, "failed", action[f].input)
    BY DEF ContactInv, deliver, Fault
  <1>1. action[f] # None /\ action[f].at = "send" /\ f \in Message
    BY <1>0, CallingIs
  <1>2. /\ form' \in [Form -> FormState] /\ action' \in [Form -> Submitted \cup {None}]
        /\ form'[f].status = "failed" \/ f \in delivered'
        /\ action'[f] = None
        /\ \A g \in Form : g # f => form'[g] = form[g] /\ action'[g] = action[g]
    <2>1. CASE Returned(f, "sent", action[f].input) /\ f \in delivered'
      BY <1>0, <2>1, EndedIs
    <2>2. CASE Returned(f, "failed", action[f].input)
      BY <1>0, <2>2, EndedIs
    <2> QED BY <1>0, <2>1, <2>2
  <1>3. ContactTypes' /\ ConfirmedAsSubmitted'
    <2>1. /\ listed' \subseteq Address /\ delivered' \subseteq Message /\ confirmed' \in [Address -> Nat]
          /\ \A a \in Address : confirmed'[a] <= confirmed[a] + 1
      BY <1>0, <1>1 DEF ContactTypes
    <2> QED BY <1>0, <1>1, <1>2, <2>1, EndedTypes
  <1>4. RacesInv'
    BY <1>0, <1>1, <1>2, RacesKept DEF IsAt
  <1>5. SentIsStored'
    <2>1. f \notin Waitlist
      BY <1>1, ContactAssumption
    <2> QED BY <1>0, <1>2, <2>1 DEF SentIsStored
  <1>6. UnconfirmedOnlyIfFault'
    BY <1>0, <1>1, <1>2 DEF UnconfirmedOnlyIfFault, Calling, Email, Form
  <1> QED BY <1>3, <1>4, <1>5, <1>6 DEF ContactInv

\* No step of the forms or of the mail service breaks the invariant.
LEMMA ContactInvStep == ContactInv /\ [ContactNext]_contactVars => ContactInv'
  <1> SUFFICES ASSUME ContactInv, [ContactNext]_contactVars PROVE ContactInv'
    OBVIOUS
  <1>1. ASSUME NEW f \in Form, NEW input \in Input, submit(f, input) PROVE ContactInv'
    BY <1>1, submitStep
  <1>2. ASSUME NEW f \in Form, getListed(f) PROVE ContactInv'
    BY <1>2, getListedStep
  <1>3. ASSUME NEW f \in Form, getNotFound(f) PROVE ContactInv'
    BY <1>3, getNotFoundStep
  <1>4. ASSUME NEW f \in Form, getFails(f) PROVE ContactInv'
    BY <1>4, getFailsStep
  <1>5. ASSUME NEW f \in Form, createAdded(f) PROVE ContactInv'
    BY <1>5, createAddedStep
  <1>6. ASSUME NEW f \in Form, createFails(f) PROVE ContactInv'
    BY <1>6, createFailsStep
  <1>7. ASSUME NEW f \in Form, confirm(f) PROVE ContactInv'
    BY <1>7, confirmStep
  <1>8. ASSUME NEW f \in Form, deliver(f) PROVE ContactInv'
    BY <1>8, deliverStep
  <1>9. CASE UNCHANGED contactVars
    <2>1. /\ form' = form /\ action' = action /\ mailEnv' = mailEnv /\ listed' = listed
          /\ confirmed' = confirmed /\ delivered' = delivered /\ faulty' = faulty /\ raced' = raced
          /\ submits' = submits
      BY <1>9 DEF contactVars
    <2>2. ContactTypes' /\ ConfirmedAsSubmitted'
      BY <2>1 DEF ContactInv, ContactTypes, ActionOK, Configured, ConfirmedAsSubmitted
    <2>3. RacesInv' /\ SentIsStored' /\ UnconfirmedOnlyIfFault'
      BY <2>1 DEF ContactInv, RacesInv, SentIsStored, UnconfirmedOnlyIfFault, Calling, Email
    <2> QED BY <2>2, <2>3 DEF ContactInv
  <1> QED BY <1>1, <1>2, <1>3, <1>4, <1>5, <1>6, <1>7, <1>8, <1>9 DEF ContactNext

\* What the runs check of the forms follows from the invariant.
LEMMA ContactGives == ContactInv => ContactTypeOK /\ ConfirmedTwiceOnlyIfRaced
  <1> SUFFICES ASSUME ContactInv PROVE ContactTypeOK /\ ConfirmedTwiceOnlyIfRaced
    OBVIOUS
  <1>1. ContactTypes /\ ConfirmedAsSubmitted /\ RacesInv
    BY DEF ContactInv
  <1>2. confirmed \in [Address -> 0 .. MaxSubmits]
    <2>1. ASSUME NEW a \in Address PROVE confirmed[a] \in 0 .. MaxSubmits
      <3>1. Cardinality(Awaiting(action)) \in Nat /\ confirmed[a] + Cardinality(Awaiting(action)) <= submits
        BY <1>1, FS_CardinalityType DEF ConfirmedAsSubmitted
      <3>2. confirmed[a] \in Nat /\ submits \in 0 .. MaxSubmits /\ MaxSubmits \in Nat
        BY <1>1, ContactAssumption DEF ContactTypes
      <3> QED BY <3>1, <3>2
    <2> QED BY <1>1, <2>1 DEF ContactTypes
  <1>3. ContactTypeOK
    BY <1>1, <1>2 DEF ContactTypes, ContactTypeOK, ActionOK, FormState
  <1>4. ConfirmedTwiceOnlyIfRaced
    <2> SUFFICES ASSUME NEW a \in Address, a \notin raced PROVE ~(confirmed[a] > 1)
      BY DEF ConfirmedTwiceOnlyIfRaced
    <2>1. confirmed[a] <= 1 /\ confirmed[a] \in Nat
      BY <1>1 DEF RacesInv, RaceOK, ContactTypes
    <2> QED BY <2>1
  <1> QED BY <1>3, <1>4
-----------------------------------------------------------------------------
(* The review route.                                                       *)

\* Requests rs: those of the times lo .. hi that were neither refused as another
\* origin's nor throttled.
Between(rs, lo, hi) ==
  {i \in DOMAIN rs : rs[i].time \in lo .. hi /\ rs[i].status \notin {403, 429}}

RequestType ==
  [time: Nat, at: {"applicant", "team", "done"}, status: Status \cup {None},
   applicant: BOOLEAN, team: BOOLEAN]

\* A request is awaited or was answered; the team hears of it after the applicant.
RequestOK(r, now) ==
  /\ r.time <= now
  /\ r.at = "done" <=> r.status \in Status
  /\ r.at = "team" => r.applicant
  /\ r.status = 200 \/ r.team => r.applicant

RequestsInv ==
  /\ clock \in 0 .. MaxClock
  /\ requests \in Seq(RequestType) /\ Len(requests) <= MaxPosts
  /\ \A i \in DOMAIN requests : RequestOK(requests[i], clock)

\* In a window that was opened at s, no more than the limit is admitted, the request
\* that opened it counted; and in what came within a window's length before it, the
\* request that opened the last window does not count.
WindowFrom(rs, hit, s, now) ==
  /\ hit.count \in 1 .. Len(rs) /\ s \in 0 .. now
  /\ \A i \in Between(rs, 0, now) : rs[i].time <= hit.resetAt
  /\ Cardinality(Between(rs, s, now)) <= hit.count
  /\ Cardinality(Between(rs, s, now)) <= MaxPerWindow
  /\ Cardinality(Between(rs, s + 1, now)) <= hit.count - 1
  /\ Cardinality(Between(rs, s + 1, now)) <= MaxPerWindow - 1
  /\ Cardinality(Between(rs, s - Window + 1, s - 1)) <= MaxPerWindow - 1

WindowOK(rs, hit, now) == WindowFrom(rs, hit, hit.resetAt - Window, now)

ThrottleInv ==
  /\ hits = None => Between(requests, 0, clock) = {}
  /\ hits # None => hits \in [count: Nat, resetAt: Nat] /\ WindowOK(requests, hits, clock)

KybInv == RequestsInv /\ ThrottleInv /\ BurstIsBounded

\* Sets of requests are finite.
LEMMA BetweenFinite ==
  ASSUME NEW rs, NEW n \in Nat, DOMAIN rs = 1 .. n, NEW lo, NEW hi
  PROVE  IsFiniteSet(Between(rs, lo, hi)) /\ Cardinality(Between(rs, lo, hi)) \in Nat
  <1>1. Between(rs, lo, hi) \subseteq 1 .. n
    BY DEF Between
  <1>2. IsFiniteSet(1 .. n)
    BY FS_Interval
  <1>3. IsFiniteSet(Between(rs, lo, hi))
    BY <1>1, <1>2, FS_Subset
  <1> QED BY <1>3, FS_CardinalityType

\* A set of requests is no larger than one that holds it.
LEMMA BetweenWithin ==
  ASSUME NEW rs, NEW n \in Nat, DOMAIN rs = 1 .. n, NEW lo, NEW hi, NEW lo2, NEW hi2,
         Between(rs, lo, hi) \subseteq Between(rs, lo2, hi2)
  PROVE  Cardinality(Between(rs, lo, hi)) <= Cardinality(Between(rs, lo2, hi2))
  BY BetweenFinite, FS_Subset

\* Nor than two that cover it.
LEMMA BetweenCovered ==
  ASSUME NEW rs, NEW n \in Nat, DOMAIN rs = 1 .. n, NEW lo, NEW hi, NEW lo2, NEW hi2, NEW lo3, NEW hi3,
         Between(rs, lo, hi) \subseteq Between(rs, lo2, hi2) \cup Between(rs, lo3, hi3)
  PROVE  Cardinality(Between(rs, lo, hi))
           <= Cardinality(Between(rs, lo2, hi2)) + Cardinality(Between(rs, lo3, hi3))
  <1> DEFINE A == Between(rs, lo, hi)
  <1> DEFINE B == Between(rs, lo2, hi2)
  <1> DEFINE C == Between(rs, lo3, hi3)
  <1>1. /\ IsFiniteSet(A) /\ IsFiniteSet(B) /\ IsFiniteSet(C) /\ A \subseteq B \cup C
        /\ Cardinality(A) \in Nat /\ Cardinality(B) \in Nat /\ Cardinality(C) \in Nat
    BY BetweenFinite
  <1> HIDE DEF A, B, C
  <1>2. /\ IsFiniteSet(B \cup C)
        /\ Cardinality(B \cup C) = Cardinality(B) + Cardinality(C) - Cardinality(B \cap C)
    BY <1>1, FS_Union
  <1>3. Cardinality(B \cap C) \in Nat
    BY <1>1, FS_Intersection, FS_CardinalityType
  <1>4. Cardinality(A) <= Cardinality(B \cup C) /\ Cardinality(B \cup C) \in Nat
    BY <1>1, <1>2, FS_Subset, FS_CardinalityType
  <1>5. Cardinality(A) <= Cardinality(B) + Cardinality(C)
    BY <1>1, <1>2, <1>3, <1>4
  <1> QED BY <1>5 DEF A, B, C

\* Requests ss are rs and one more.
OneMore(rs, ss, n) ==
  DOMAIN rs = 1 .. n /\ DOMAIN ss = 1 .. n + 1 /\ \A i \in 1 .. n : ss[i] = rs[i]

\* A request more adds itself at most, and only to the times it came in.
LEMMA BetweenGrows ==
  ASSUME NEW rs, NEW ss, NEW n \in Nat, OneMore(rs, ss, n), NEW lo, NEW hi
  PROVE  /\ Cardinality(Between(ss, lo, hi)) <= Cardinality(Between(rs, lo, hi)) + 1
         /\ ss[n + 1].time \notin lo .. hi \/ ss[n + 1].status \in {403, 429} =>
              Between(ss, lo, hi) = Between(rs, lo, hi)
  <1>1. /\ Between(ss, lo, hi) \subseteq Between(rs, lo, hi) \cup {n + 1}
        /\ ss[n + 1].time \notin lo .. hi \/ ss[n + 1].status \in {403, 429} =>
             Between(ss, lo, hi) = Between(rs, lo, hi)
    BY DEF Between, OneMore
  <1> DEFINE A == Between(rs, lo, hi)
  <1>2. IsFiniteSet(A) /\ Cardinality(A) \in Nat /\ n + 1 \notin A
    <2>1. n + 1 \notin Between(rs, lo, hi)
      BY DEF Between, OneMore
    <2> QED BY <2>1, BetweenFinite DEF OneMore
  <1> HIDE DEF A
  <1>3. IsFiniteSet(A \cup {n + 1}) /\ Cardinality(A \cup {n + 1}) = Cardinality(A) + 1
    BY <1>2, FS_AddElement
  <1>4. Cardinality(Between(ss, lo, hi)) <= Cardinality(A \cup {n + 1})
    BY <1>1, <1>3, FS_Subset DEF A
  <1> QED BY <1>1, <1>3, <1>4 DEF A

\* What is known of a request of a time does not change that it was admitted.
LEMMA BetweenKept ==
  ASSUME NEW rs, NEW ss, DOMAIN ss = DOMAIN rs,
         \A i \in DOMAIN rs : /\ ss[i].time = rs[i].time
                              /\ (ss[i].status \in {403, 429}) <=> (rs[i].status \in {403, 429})
  PROVE  \A lo, hi : Between(ss, lo, hi) = Between(rs, lo, hi)
  BY DEF Between

\* The route starts with no request and no window.
LEMMA KybStart == KybInit => KybInv
  <1> SUFFICES ASSUME KybInit PROVE KybInv
    OBVIOUS
  <1> USE KybAssumption
  <1>1. RequestsInv
    BY DEF KybInit, RequestsInv
  <1>2. ThrottleInv
    BY DEF KybInit, ThrottleInv, Between
  <1>3. BurstIsBounded
    <2> SUFFICES ASSUME NEW x \in 0 .. MaxClock PROVE Cardinality(Admitted(x)) < 2 * MaxPerWindow
      BY DEF BurstIsBounded
    <2>1. Admitted(x) = {}
      BY DEF KybInit, Admitted
    <2> QED BY <2>1, FS_EmptySet
  <1> QED BY <1>1, <1>2, <1>3 DEF KybInv

\* Time goes on; no request is of a later time.
LEMMA BetweenLater ==
  ASSUME NEW rs, NEW now \in Nat, \A i \in DOMAIN rs : rs[i].time \in Nat /\ rs[i].time <= now,
         NEW lo \in Int
  PROVE  Between(rs, lo, now + 1) = Between(rs, lo, now)
  <1> SUFFICES ASSUME NEW i \in DOMAIN rs
               PROVE  rs[i].time \in lo .. (now + 1) <=> rs[i].time \in lo .. now
    BY DEF Between
  <1> QED OBVIOUS

\* Every request is one, and was received by now.
LEMMA RequestsAre ==
  ASSUME RequestsInv
  PROVE  /\ Len(requests) \in Nat /\ DOMAIN requests = 1 .. Len(requests) /\ clock \in Nat
         /\ \A i \in DOMAIN requests : /\ requests[i] \in RequestType /\ requests[i].time \in Nat
                                        /\ requests[i].time <= clock
  <1>1. requests \in Seq(RequestType) /\ clock \in Nat
    BY KybAssumption DEF RequestsInv
  <1>2. \A i \in DOMAIN requests : requests[i] \in RequestType
    BY <1>1
  <1> QED BY <1>1, <1>2 DEF RequestsInv, RequestOK, RequestType

\* Time passes: a window may have ended, the requests are as they were.
LEMMA TickStep ==
  ASSUME KybInv, Tick
  PROVE  KybInv'
  <1> USE KybAssumption
  <1>0. /\ RequestsInv /\ ThrottleInv /\ BurstIsBounded
        /\ clock' = clock + 1 /\ clock < MaxClock /\ hits' = hits /\ requests' = requests
    BY DEF KybInv, Tick
  <1>1. /\ Len(requests) \in Nat /\ DOMAIN requests = 1 .. Len(requests) /\ clock \in Nat
        /\ \A i \in DOMAIN requests : requests[i].time \in Nat /\ requests[i].time <= clock
    BY <1>0, RequestsAre
  <1>2. \A lo \in Int : Between(requests, lo, clock + 1) = Between(requests, lo, clock)
    BY <1>1, BetweenLater
  <1>3. RequestsInv'
    <2>1. \A i \in DOMAIN requests : RequestOK(requests[i], clock + 1)
      <3> SUFFICES ASSUME NEW i \in DOMAIN requests PROVE RequestOK(requests[i], clock + 1)
        OBVIOUS
      <3>1. RequestOK(requests[i], clock)
        BY <1>0 DEF RequestsInv
      <3>2. requests[i].time <= clock + 1
        BY <1>1
      <3> QED BY <3>1, <3>2 DEF RequestOK
    <2>2. clock' \in 0 .. MaxClock
      BY <1>0, <1>1
    <2> QED BY <1>0, <2>1, <2>2 DEF RequestsInv
  <1>4. ThrottleInv'
    <2>1. CASE hits = None
      <3>1. Between(requests, 0, clock + 1) = Between(requests, 0, clock)
        BY <1>2
      <3> QED BY <1>0, <2>1, <3>1 DEF ThrottleInv
    <2>2. CASE hits # None
      <3>1. hits \in [count: Nat, resetAt: Nat] /\ WindowOK(requests, hits, clock)
        BY <1>0, <2>2 DEF ThrottleInv
      <3> DEFINE s == hits.resetAt - Window
      <3>2. s \in Int /\ s + 1 \in Int
        BY <3>1
      <3>3. /\ Between(requests, s, clock + 1) = Between(requests, s, clock)
            /\ Between(requests, s + 1, clock + 1) = Between(requests, s + 1, clock)
            /\ Between(requests, 0, clock + 1) = Between(requests, 0, clock)
        BY <1>2, <3>2
      <3>4. WindowFrom(requests, hits, s, clock)
        BY <3>1 DEF WindowOK
      <3> HIDE DEF s
      <3>5. WindowFrom(requests, hits, s, clock + 1)
        BY <1>1, <3>2, <3>3, <3>4 DEF WindowFrom
      <3>6. WindowOK(requests, hits, clock + 1)
        BY <3>5 DEF WindowOK, s
      <3> QED BY <1>0, <2>2, <3>1, <3>6 DEF ThrottleInv
    <2> QED BY <2>1, <2>2
  <1>5. BurstIsBounded'
    BY <1>0 DEF BurstIsBounded, Admitted
  <1> QED BY <1>3, <1>4, <1>5 DEF KybInv

\* A request that was received, with the entry hit of the caller after it.
LEMMA ReceivedStep ==
  ASSUME KybInv, NEW at \in {"applicant", "done"}, NEW status \in Status \cup {None},
         at = "done" <=> status \in Status, status # 200,
         Received(at, status), clock' = clock, Len(requests) < MaxPosts
  PROVE  /\ RequestsInv'
         /\ DOMAIN requests' = 1 .. Len(requests) + 1 /\ Len(requests') = Len(requests) + 1
         /\ requests'[Len(requests) + 1].time = clock /\ requests'[Len(requests) + 1].status = status
         /\ \A i \in 1 .. Len(requests) : requests'[i] = requests[i]
  <1> USE KybAssumption
  <1> DEFINE r == [time |-> clock, at |-> at, status |-> status, applicant |-> FALSE, team |-> FALSE]
  <1>0. RequestsInv
    BY DEF KybInv
  <1>1. /\ Len(requests) \in Nat /\ clock \in Nat /\ requests \in Seq(RequestType)
        /\ DOMAIN requests = 1 .. Len(requests)
    BY <1>0, RequestsAre DEF RequestsInv
  <1>2. r \in RequestType /\ r.time = clock /\ r.status = status /\ RequestOK(r, clock)
    BY <1>1 DEF RequestType, RequestOK
  <1>3. requests' = Append(requests, r)
    BY DEF Received
  <1> HIDE DEF r
  <1>4. /\ requests' \in Seq(RequestType) /\ Len(requests') = Len(requests) + 1
        /\ \A i \in 1 .. Len(requests) : requests'[i] = requests[i]
        /\ requests'[Len(requests) + 1] = r
    BY <1>1, <1>2, <1>3, AppendProperties
  <1>5. DOMAIN requests' = 1 .. Len(requests) + 1
    BY <1>1, <1>4
  <1>6. RequestsInv'
    BY <1>0, <1>1, <1>2, <1>4, <1>5 DEF RequestsInv
  <1> QED BY <1>1, <1>2, <1>4, <1>5, <1>6

\* An admitted request makes a burst no larger than what the window it counts in, and
\* the end of the one before, may hold.
LEMMA BurstOfWindow ==
  ASSUME NEW rs, NEW n \in Nat, DOMAIN rs = 1 .. n, NEW hit, NEW s \in Int, NEW now \in Nat,
         WindowFrom(rs, hit, s, now), NEW x \in Nat, now \in x .. (x + Window - 1),
         \A i \in 1 .. n : rs[i].time \in 0 .. now
  PROVE  Cardinality(Between(rs, x, x + Window - 1)) < 2 * MaxPerWindow
  <1> USE KybAssumption
  <1>1. Between(rs, x, x + Window - 1) \subseteq Between(rs, s, now) \cup Between(rs, s - Window + 1, s - 1)
    <2> SUFFICES ASSUME NEW i \in Between(rs, x, x + Window - 1)
                 PROVE  i \in Between(rs, s, now) \cup Between(rs, s - Window + 1, s - 1)
      OBVIOUS
    <2>1. i \in 1 .. n /\ rs[i].time \in x .. (x + Window - 1) /\ rs[i].status \notin {403, 429}
      BY DEF Between
    <2>2. rs[i].time \in s .. now \/ rs[i].time \in (s - Window + 1) .. (s - 1)
      <3> DEFINE u == rs[i].time
      <3>1. u \in x .. (x + Window - 1) /\ u \in 0 .. now /\ s <= now
        BY <2>1 DEF WindowFrom
      <3> HIDE DEF u
      <3>2. u \in s .. now \/ u \in (s - Window + 1) .. (s - 1)
        BY <3>1
      <3> QED BY <3>2 DEF u
    <2> QED BY <2>1, <2>2 DEF Between
  <1> DEFINE a == Cardinality(Between(rs, x, x + Window - 1))
  <1> DEFINE b == Cardinality(Between(rs, s, now))
  <1> DEFINE c == Cardinality(Between(rs, s - Window + 1, s - 1))
  <1>2. a <= b + c
    BY <1>1, BetweenCovered
  <1>3. a \in Nat /\ b \in Nat /\ c \in Nat
    BY BetweenFinite
  <1>4. b <= MaxPerWindow /\ c <= MaxPerWindow - 1
    BY DEF WindowFrom
  <1> HIDE DEF a, b, c
  <1>5. a < 2 * MaxPerWindow
    BY <1>2, <1>3, <1>4
  <1> QED BY <1>5 DEF a

\* A request counts in the window that is open, or opens one.
LEMMA HitStep ==
  ASSUME RequestsInv, ThrottleInv, hits' = Hit, clock' = clock,
         NEW status \in Status \cup {None}, (status = 429) <=> rateLimited(Hit), status # 403,
         DOMAIN requests' = 1 .. Len(requests) + 1, Len(requests') = Len(requests) + 1,
         requests'[Len(requests) + 1].time = clock, requests'[Len(requests) + 1].status = status,
         \A i \in 1 .. Len(requests) : requests'[i] = requests[i]
  PROVE  /\ hits' \in [count: Nat, resetAt: Nat]
         /\ WindowOK(requests', hits', clock)
  <1> USE KybAssumption
  <1> DEFINE n == Len(requests)
  <1> DEFINE rs == requests
  <1> DEFINE ss == requests'
  <1> DEFINE now == clock
  <1>1. /\ n \in Nat /\ DOMAIN rs = 1 .. n /\ now \in Nat
        /\ \A i \in 1 .. n : rs[i].time \in Nat /\ rs[i].time <= now
    BY RequestsAre
  <1>2. /\ DOMAIN ss = 1 .. n + 1 /\ ss[n + 1].time = now /\ ss[n + 1].status = status
        /\ \A i \in 1 .. n : ss[i] = rs[i]
    OBVIOUS
  <1> HIDE DEF n, rs, ss, now
  <1>3. \A lo, hi : /\ Cardinality(Between(ss, lo, hi)) \in Nat /\ Cardinality(Between(rs, lo, hi)) \in Nat
                    /\ Cardinality(Between(ss, lo, hi)) <= Cardinality(Between(rs, lo, hi)) + 1
                    /\ now \notin lo .. hi \/ status = 429 => Between(ss, lo, hi) = Between(rs, lo, hi)
    <2> SUFFICES ASSUME NEW lo, NEW hi
                 PROVE  /\ Cardinality(Between(ss, lo, hi)) \in Nat /\ Cardinality(Between(rs, lo, hi)) \in Nat
                        /\ Cardinality(Between(ss, lo, hi)) <= Cardinality(Between(rs, lo, hi)) + 1
                        /\ now \notin lo .. hi \/ status = 429 => Between(ss, lo, hi) = Between(rs, lo, hi)
      OBVIOUS
    <2>1. Cardinality(Between(rs, lo, hi)) \in Nat
      BY <1>1, BetweenFinite
    <2>2. n + 1 \in Nat
      BY <1>1
    <2>3. Cardinality(Between(ss, lo, hi)) \in Nat
      BY <1>2, <2>2, BetweenFinite
    <2>4. /\ Cardinality(Between(ss, lo, hi)) <= Cardinality(Between(rs, lo, hi)) + 1
          /\ ss[n + 1].time \notin lo .. hi \/ ss[n + 1].status \in {403, 429} =>
               Between(ss, lo, hi) = Between(rs, lo, hi)
      <3>1. n \in Nat /\ OneMore(rs, ss, n)
        BY <1>1, <1>2 DEF OneMore
      <3> QED BY <3>1, BetweenGrows
    <2> QED BY <1>2, <2>1, <2>3, <2>4
  <1>0. Cardinality({}) = 0 /\ 0 <= MaxPerWindow - 1
    BY FS_EmptySet
  <1>4. CASE WindowOver
    <2> DEFINE hit == [count |-> 1, resetAt |-> now + Window]
    <2>1. hits' = hit /\ hit.count = 1 /\ hit.resetAt - Window = now /\ hit \in [count: Nat, resetAt: Nat]
          /\ hit.resetAt = now + Window
      BY <1>1, <1>4 DEF Hit, now
    <2> HIDE DEF hit
    <2>2. /\ Between(rs, now, now) = {}
          /\ Cardinality(Between(rs, now - Window + 1, now - 1)) <= MaxPerWindow - 1
      <3>1. CASE hits = None
        <4>1. Between(rs, 0, now) = {}
          BY <3>1 DEF ThrottleInv, rs, now
        <4>2. Between(rs, now, now) = {} /\ Between(rs, now - Window + 1, now - 1) = {}
          BY <1>1, <4>1 DEF Between
        <4> QED BY <4>2, <1>0
      <3>2. CASE hits # None /\ clock > hits.resetAt
        <4> DEFINE s == hits.resetAt - Window
        <4>1. hits \in [count: Nat, resetAt: Nat] /\ WindowFrom(rs, hits, s, now) /\ now > s + Window
              /\ s \in Int /\ now > hits.resetAt
          BY <1>1, <3>2 DEF ThrottleInv, WindowOK, rs, now
        <4>2. hits.resetAt \in Nat
          BY <4>1
        <4> HIDE DEF s
        <4>3. Between(rs, now, now) = {}
          <5> SUFFICES ASSUME NEW i \in Between(rs, now, now) PROVE FALSE
            OBVIOUS
          <5>1. i \in Between(rs, 0, now) /\ rs[i].time = now
            BY <1>1 DEF Between
          <5> QED BY SMTT(30), <1>1, <4>1, <4>2, <5>1 DEF WindowFrom
        <4>4. Between(rs, now - Window + 1, now - 1) \subseteq Between(rs, s + 1, now)
          <5> SUFFICES ASSUME NEW i \in DOMAIN rs, rs[i].time \in (now - Window + 1) .. (now - 1)
                       PROVE  rs[i].time \in s + 1 .. now
            BY DEF Between
          <5> QED BY <1>1, <4>1
        <4>5. Cardinality(Between(rs, now - Window + 1, now - 1)) <= Cardinality(Between(rs, s + 1, now))
          BY <1>1, <4>4, BetweenWithin
        <4>6. Cardinality(Between(rs, s + 1, now)) <= MaxPerWindow - 1
          BY <4>1 DEF WindowFrom
        <4> QED BY <1>3, <4>3, <4>5, <4>6
      <3> QED BY <1>4, <3>1, <3>2 DEF WindowOver
    <2>3. Cardinality(Between(ss, now, now)) <= 1
      <3>1. Cardinality(Between(ss, now, now)) <= Cardinality(Between(rs, now, now)) + 1
        BY <1>3
      <3> QED BY <1>0, <2>2, <3>1
    <2>4. Between(ss, now + 1, now) = {}
      BY <1>1 DEF Between
    <2>5. Cardinality(Between(ss, now - Window + 1, now - 1)) <= MaxPerWindow - 1
      <3>1. now \notin (now - Window + 1) .. (now - 1)
        BY <1>1
      <3>2. Between(ss, now - Window + 1, now - 1) = Between(rs, now - Window + 1, now - 1)
        BY <1>3, <3>1
      <3> QED BY <2>2, <3>2
    <2>6. \A i \in Between(ss, 0, now) : ss[i].time <= now + Window
      BY <1>1, <1>2 DEF Between
    <2>7. WindowFrom(ss, hit, now, now)
      <3>1. Len(ss) = n + 1
        BY DEF ss, n
      <3>2. hit.count \in 1 .. Len(ss) /\ now \in 0 .. now /\ hit.count - 1 = 0
        BY <1>1, <2>1, <3>1
      <3>3. Cardinality(Between(ss, now, now)) \in Nat /\ Cardinality(Between(ss, now + 1, now)) = 0
        <4>1. Cardinality(Between(ss, now + 1, now)) = Cardinality({})
          BY <2>4
        <4> QED BY <1>0, <1>3, <4>1
      <3>4. Cardinality(Between(ss, now, now)) <= MaxPerWindow
        BY <1>0, <2>3, <3>3
      <3>5. /\ Cardinality(Between(ss, now, now)) <= hit.count
            /\ Cardinality(Between(ss, now + 1, now)) <= hit.count - 1
            /\ Cardinality(Between(ss, now + 1, now)) <= MaxPerWindow - 1
        BY <1>0, <2>1, <2>3, <3>2, <3>3
      <3>6. \A i \in Between(ss, 0, now) : ss[i].time <= hit.resetAt
        BY <2>1, <2>6
      <3> QED BY <2>5, <3>2, <3>4, <3>5, <3>6 DEF WindowFrom
    <2> QED BY <2>1, <2>7 DEF WindowOK, ss, now
  <1>5. CASE ~WindowOver
    <2> DEFINE hit == [hits EXCEPT !.count = @ + 1]
    <2>1. /\ hits # None /\ hits \in [count: Nat, resetAt: Nat] /\ WindowOK(rs, hits, now)
          /\ ~(clock > hits.resetAt)
      BY <1>5 DEF ThrottleInv, rs, now, WindowOver
    <2>2. /\ hits' = hit /\ hit.count = hits.count + 1 /\ hit.resetAt = hits.resetAt
          /\ hit \in [count: Nat, resetAt: Nat] /\ hits.count \in Nat /\ hits.resetAt \in Nat
          /\ now <= hits.resetAt
      BY SMTT(30), <1>1, <1>5, <2>1 DEF Hit, now
    <2> DEFINE s == hits.resetAt - Window
    <2>3. WindowFrom(rs, hits, s, now) /\ s \in Int /\ hit.resetAt - Window = s
      BY <2>1, <2>2 DEF WindowOK
    <2>4. status = 429 \/ hits.count + 1 <= MaxPerWindow
      <3>1. status = 429 \/ ~(hit.count > MaxPerWindow)
        BY <1>5 DEF rateLimited, Hit
      <3> HIDE DEF hit
      <3> QED BY <2>2, <3>1
    <2> HIDE DEF hit, s
    <2>5. /\ Cardinality(Between(ss, s, now)) <= hits.count + 1
          /\ Cardinality(Between(ss, s, now)) <= MaxPerWindow
          /\ Cardinality(Between(ss, s + 1, now)) <= hits.count
          /\ Cardinality(Between(ss, s + 1, now)) <= MaxPerWindow - 1
      <3> DEFINE b == Cardinality(Between(rs, s, now))
      <3> DEFINE c == Cardinality(Between(rs, s + 1, now))
      <3> DEFINE b2 == Cardinality(Between(ss, s, now))
      <3> DEFINE c2 == Cardinality(Between(ss, s + 1, now))
      <3> DEFINE k == hits.count
      <3>1. b <= k /\ b <= MaxPerWindow /\ c <= k - 1 /\ c <= MaxPerWindow - 1 /\ k \in Nat
        BY <2>2, <2>3 DEF WindowFrom
      <3>2. b \in Nat /\ c \in Nat /\ b2 \in Nat /\ c2 \in Nat /\ b2 <= b + 1 /\ c2 <= c + 1
        BY <1>3
      <3>3. status = 429 => b2 = b /\ c2 = c
        BY <1>3
      <3>4. status = 429 \/ k + 1 <= MaxPerWindow
        BY <2>4
      <3> HIDE DEF b, c, b2, c2, k
      <3>5. b2 <= k + 1 /\ b2 <= MaxPerWindow /\ c2 <= k /\ c2 <= MaxPerWindow - 1
        BY <3>1, <3>2, <3>3, <3>4
      <3> QED BY <3>5 DEF b2, c2, k
    <2>6. Cardinality(Between(ss, s - Window + 1, s - 1)) <= MaxPerWindow - 1
      <3>1. now \notin (s - Window + 1) .. (s - 1)
        BY <1>1, <2>3 DEF WindowFrom
      <3>2. Between(ss, s - Window + 1, s - 1) = Between(rs, s - Window + 1, s - 1)
        BY <1>3, <3>1
      <3> QED BY <2>3, <3>2 DEF WindowFrom
    <2>7. \A i \in Between(ss, 0, now) : ss[i].time <= hits.resetAt
      <3> SUFFICES ASSUME NEW i \in Between(ss, 0, now) PROVE ss[i].time <= hits.resetAt
        OBVIOUS
      <3>1. CASE i = n + 1
        BY <1>2, <2>2, <3>1
      <3>2. CASE i # n + 1
        <4>1. i \in Between(rs, 0, now) /\ ss[i] = rs[i]
          BY <1>1, <1>2, <3>2 DEF Between
        <4> QED BY <2>3, <4>1 DEF WindowFrom
      <3> QED BY <3>1, <3>2
    <2>8. hit.count \in 1 .. Len(ss) /\ s \in 0 .. now
      <3>1. Len(ss) = n + 1 /\ hits.count \in 1 .. n /\ s \in 0 .. now
        BY <2>3 DEF WindowFrom, ss, n, rs
      <3> QED BY <1>1, <2>2, <3>1
    <2>9. WindowFrom(ss, hit, s, now)
      BY SMTT(30), <2>2, <2>5, <2>6, <2>7, <2>8 DEF WindowFrom
    <2> QED BY <2>2, <2>3, <2>9 DEF WindowOK, ss, now
  <1> QED BY <1>4, <1>5

\* A request is received: refused as another origin's, throttled, or admitted and counted.
LEMMA POSTStep ==
  ASSUME KybInv, NEW origin, NEW valid \in BOOLEAN, POST(origin, valid)
  PROVE  KybInv'
  <1> USE KybAssumption
  <1> DEFINE n == Len(requests)
  <1>0. /\ RequestsInv /\ ThrottleInv /\ BurstIsBounded /\ n < MaxPosts /\ clock' = clock
        /\ n \in Nat /\ clock \in Nat /\ DOMAIN requests = 1 .. n
        /\ \A i \in 1 .. n : requests[i].time \in Nat /\ requests[i].time <= clock
    BY RequestsAre DEF KybInv, POST
  <1>1. PICK at \in {"applicant", "done"}, status \in Status \cup {None} :
          /\ (at = "done" <=> status \in Status) /\ status # 200 /\ Received(at, status)
          /\ \/ status = 403 /\ hits' = hits
             \/ status # 403 /\ hits' = Hit /\ ((status = 429) <=> rateLimited(Hit))
    <2>1. CASE Received("done", 403) /\ hits' = hits
      BY <2>1 DEF Status
    <2>2. CASE rateLimited(Hit) /\ Received("done", 429) /\ hits' = Hit
      BY <2>2 DEF Status
    <2>3. CASE ~rateLimited(Hit) /\ Received("done", 400) /\ hits' = Hit
      BY <2>3 DEF Status
    <2>4. CASE ~rateLimited(Hit) /\ Received("applicant", None) /\ hits' = Hit
      BY <2>4 DEF Status
    <2> QED BY <2>1, <2>2, <2>3, <2>4 DEF POST
  <1>2. /\ RequestsInv' /\ DOMAIN requests' = 1 .. n + 1 /\ Len(requests') = n + 1
        /\ requests'[n + 1].time = clock /\ requests'[n + 1].status = status
        /\ \A i \in 1 .. n : requests'[i] = requests[i]
    BY <1>0, <1>1, ReceivedStep
  <1>3. OneMore(requests, requests', n)
    BY <1>0, <1>2 DEF OneMore
  <1>4. CASE status = 403 /\ hits' = hits
    <2>1. \A lo, hi : Between(requests', lo, hi) = Between(requests, lo, hi)
      BY <1>0, <1>2, <1>3, <1>4, BetweenGrows
    <2>2. ThrottleInv'
      <3>1. CASE hits = None
        BY <1>0, <1>4, <2>1, <3>1 DEF ThrottleInv
      <3>2. CASE hits # None
        <4> DEFINE s == hits.resetAt - Window
        <4>1. hits \in [count: Nat, resetAt: Nat] /\ WindowFrom(requests, hits, s, clock)
          BY <1>0, <3>2 DEF ThrottleInv, WindowOK
        <4> HIDE DEF s
        <4>2. hits.count \in 1 .. Len(requests')
          BY <1>0, <1>2, <4>1 DEF WindowFrom
        <4>3. \A i \in Between(requests, 0, clock) : requests'[i] = requests[i]
          BY <1>0, <1>2 DEF Between
        <4>4. WindowFrom(requests', hits, s, clock)
          BY <2>1, <4>1, <4>2, <4>3 DEF WindowFrom
        <4> QED BY <1>0, <1>4, <3>2, <4>1, <4>4 DEF ThrottleInv, WindowOK, s
      <3> QED BY <3>1, <3>2
    <2>3. BurstIsBounded'
      <3>1. \A x : Admitted(x) = Between(requests, x, x + Window - 1) /\ Admitted(x)' = Between(requests', x, x + Window - 1)
        BY DEF Admitted, Between
      <3> QED BY <1>0, <2>1, <3>1 DEF BurstIsBounded
    <2> QED BY <1>2, <2>2, <2>3 DEF KybInv
  <1>5. CASE status # 403 /\ hits' = Hit /\ ((status = 429) <=> rateLimited(Hit))
    <2>1. hits' \in [count: Nat, resetAt: Nat] /\ WindowOK(requests', hits', clock)
      BY <1>0, <1>1, <1>2, <1>5, HitStep
    <2>2. ThrottleInv'
      BY <1>0, <2>1 DEF ThrottleInv
    <2>3. BurstIsBounded'
      <3> SUFFICES ASSUME NEW x \in 0 .. MaxClock
                   PROVE  Cardinality(Between(requests', x, x + Window - 1)) < 2 * MaxPerWindow
        BY DEF BurstIsBounded, Admitted, Between
      <3>1. CASE clock \in x .. (x + Window - 1)
        <4> DEFINE s == hits'.resetAt - Window
        <4>1. WindowFrom(requests', hits', s, clock) /\ s \in Int
          BY <2>1 DEF WindowOK
        <4> HIDE DEF s
        <4>2. \A i \in 1 .. n + 1 : requests'[i].time \in 0 .. clock
          BY <1>0, <1>2
        <4>3. n + 1 \in Nat /\ x \in Nat
          BY <1>0
        <4> QED BY <1>0, <1>2, <3>1, <4>1, <4>2, <4>3, BurstOfWindow
      <3>2. CASE clock \notin x .. (x + Window - 1)
        <4>1. Between(requests', x, x + Window - 1) = Between(requests, x, x + Window - 1)
          BY <1>0, <1>2, <1>3, <3>2, BetweenGrows
        <4>2. Cardinality(Between(requests, x, x + Window - 1)) < 2 * MaxPerWindow
          BY <1>0 DEF BurstIsBounded, Admitted, Between
        <4> QED BY <4>1, <4>2
      <3> QED BY <3>1, <3>2
    <2> QED BY <1>2, <2>2, <2>3 DEF KybInv
  <1> QED BY <1>1, <1>4, <1>5

\* A mail was accepted or not: request i is now r, which came when it did.
LEMMA MailStep ==
  ASSUME KybInv, NEW i \in DOMAIN requests, NEW r \in RequestType, Request(i, r),
         r.time = requests[i].time, RequestOK(r, clock), r.status \notin {403, 429},
         requests[i].status \notin {403, 429}, hits' = hits, clock' = clock
  PROVE  KybInv'
  <1> USE KybAssumption
  <1>r. requests' = [requests EXCEPT ![i] = r]
    BY DEF Request
  <1>0. /\ RequestsInv /\ ThrottleInv /\ BurstIsBounded
        /\ Len(requests) \in Nat /\ DOMAIN requests = 1 .. Len(requests)
        /\ requests \in Seq(RequestType)
    BY RequestsAre DEF KybInv, RequestsInv
  <1>1. /\ requests' \in Seq(RequestType) /\ Len(requests') = Len(requests)
        /\ DOMAIN requests' = DOMAIN requests /\ requests'[i] = r
        /\ \A j \in DOMAIN requests : j # i => requests'[j] = requests[j]
    BY <1>0, <1>r, ExceptSeq
  <1>2. RequestsInv'
    BY <1>0, <1>1 DEF RequestsInv
  <1>3. \A j \in DOMAIN requests :
          /\ requests'[j].time = requests[j].time
          /\ (requests'[j].status \in {403, 429}) <=> (requests[j].status \in {403, 429})
    BY <1>1
  <1>4. \A lo, hi : Between(requests', lo, hi) = Between(requests, lo, hi)
    BY <1>1, <1>3, BetweenKept
  <1>5. ThrottleInv'
    <2>1. CASE hits = None
      BY <1>0, <1>4, <2>1 DEF ThrottleInv
    <2>2. CASE hits # None
      <3> DEFINE s == hits.resetAt - Window
      <3>1. hits \in [count: Nat, resetAt: Nat] /\ WindowFrom(requests, hits, s, clock)
        BY <1>0, <2>2 DEF ThrottleInv, WindowOK
      <3> HIDE DEF s
      <3>2. \A j \in Between(requests, 0, clock) : requests'[j].time = requests[j].time
        BY <1>3 DEF Between
      <3>3. WindowFrom(requests', hits, s, clock)
        BY SMTT(30), <1>1, <1>4, <3>1, <3>2 DEF WindowFrom
      <3> QED BY <2>2, <3>1, <3>3 DEF ThrottleInv, WindowOK, s
    <2> QED BY <2>1, <2>2
  <1>6. BurstIsBounded'
    <2>1. \A x : Admitted(x) = Between(requests, x, x + Window - 1) /\ Admitted(x)' = Between(requests', x, x + Window - 1)
      BY DEF Admitted, Between
    <2> QED BY <1>0, <1>4, <2>1 DEF BurstIsBounded
  <1> QED BY <1>2, <1>5, <1>6 DEF KybInv

\* What the mails make of a request.
LEMMA StepsTo ==
  ASSUME NEW r \in RequestType, NEW at \in {"team", "done"}
  PROVE  LET e == [r EXCEPT !.at = at] IN
         /\ e \in RequestType /\ e.time = r.time /\ e.at = at /\ e.status = r.status
         /\ e.applicant = r.applicant /\ e.team = r.team
  BY DEF RequestType

\* A request that is answered keeps its time and its mails.
LEMMA AnsweredIs ==
  ASSUME NEW r \in RequestType, NEW status \in Status
  PROVE  LET e == Answered(r, status) IN
         /\ e \in RequestType /\ e.time = r.time /\ e.at = "done" /\ e.status = status
         /\ e.applicant = r.applicant /\ e.team = r.team
  <1> DEFINE d == [r EXCEPT !.at = "done"]
  <1> DEFINE e == [d EXCEPT !.status = status]
  <1>1. /\ d \in RequestType /\ d.time = r.time /\ d.at = "done" /\ d.applicant = r.applicant
        /\ d.team = r.team
    BY StepsTo
  <1>2. Answered(r, status) = e
    BY DEF Answered
  <1> HIDE DEF d
  <1>3. /\ e \in RequestType /\ e.time = d.time /\ e.at = d.at /\ e.status = status
        /\ e.applicant = d.applicant /\ e.team = d.team
    BY <1>1 DEF RequestType
  <1> HIDE DEF e
  <1> QED BY <1>1, <1>2, <1>3

\* The mail to the applicant is sent, or refused, and the route answers 500.
LEMMA mailApplicantStep ==
  ASSUME KybInv, NEW i \in DOMAIN requests, mailApplicant(i)
  PROVE  KybInv'
  <1> DEFINE q == requests[i]
  <1>0. /\ q \in RequestType /\ RequestOK(q, clock) /\ q.at = "applicant"
        /\ hits' = hits /\ clock' = clock
        /\ Request(i, [kybReceived(q) EXCEPT !.at = "team"]) \/ Request(i, Answered(q, 500))
    BY RequestsAre DEF KybInv, RequestsInv, mailApplicant, AfterRefusal
  <1> HIDE DEF q
  <1>1. q.status = None /\ q.time \in Nat /\ q.team \in BOOLEAN /\ q.time <= clock
    BY <1>0, KybAssumption DEF RequestOK, RequestType
  <1>2. q.status \notin {403, 429} /\ 500 \in Status /\ None \notin Status
    BY <1>1, KybAssumption DEF Status
  <1>3. CASE Request(i, [kybReceived(q) EXCEPT !.at = "team"])
    <2> DEFINE m == kybReceived(q)
    <2> DEFINE r == [m EXCEPT !.at = "team"]
    <2>1. m \in RequestType /\ m.time = q.time /\ m.status = q.status /\ m.applicant
      BY <1>0 DEF kybReceived, RequestType
    <2> HIDE DEF m
    <2>2. r \in RequestType /\ r.time = m.time /\ r.at = "team" /\ r.status = m.status /\ r.applicant
      BY ZenonT(40), <2>1, StepsTo
    <2>3. Request(i, r)
      BY <1>3 DEF m
    <2> HIDE DEF r
    <2>4. RequestOK(r, clock)
      BY <1>1, <1>2, <2>1, <2>2 DEF RequestOK
    <2> QED BY <1>0, <1>2, <2>1, <2>2, <2>3, <2>4, MailStep DEF q
  <1>4. CASE Request(i, Answered(q, 500))
    <2> DEFINE r == Answered(q, 500)
    <2>1. /\ r \in RequestType /\ r.time = q.time /\ r.at = "done" /\ r.status = 500
          /\ r.applicant = q.applicant /\ r.team = q.team
      BY <1>0, <1>2, AnsweredIs
    <2>2. Request(i, r)
      BY <1>4
    <2> HIDE DEF r
    <2>3. RequestOK(r, clock) /\ r.status \notin {403, 429}
      BY <1>0, <1>1, <1>2, <2>1 DEF RequestOK
    <2> QED BY <1>0, <1>2, <2>1, <2>2, <2>3, MailStep DEF q
  <1> QED BY <1>0, <1>3, <1>4

\* The mail to the team is sent or lost, and the route answers 200 all the same.
LEMMA notifyTeamStep ==
  ASSUME KybInv, NEW i \in DOMAIN requests, notifyTeam(i)
  PROVE  KybInv'
  <1> DEFINE q == requests[i]
  <1>0. /\ q \in RequestType /\ RequestOK(q, clock) /\ q.at = "team"
        /\ hits' = hits /\ clock' = clock
        /\ \E ok \in BOOLEAN : Request(i, Answered(kybNotification(q, ok), 200))
    BY RequestsAre DEF KybInv, RequestsInv, notifyTeam
  <1> HIDE DEF q
  <1>1. q.status = None /\ q.time \in Nat /\ q.applicant /\ q.time <= clock
    BY <1>0, KybAssumption DEF RequestOK, RequestType
  <1>2. q.status \notin {403, 429} /\ 200 \in Status
    BY <1>1, KybAssumption DEF Status
  <1>3. PICK ok \in BOOLEAN : Request(i, Answered(kybNotification(q, ok), 200))
    BY <1>0
  <1> DEFINE m == kybNotification(q, ok)
  <1> DEFINE r == Answered(m, 200)
  <1>4. m \in RequestType /\ m.time = q.time /\ m.applicant = q.applicant
    BY <1>0 DEF kybNotification, RequestType
  <1> HIDE DEF m
  <1>5. r \in RequestType /\ r.time = m.time /\ r.at = "done" /\ r.status = 200 /\ r.applicant = m.applicant
    BY <1>2, <1>4, AnsweredIs
  <1>6. Request(i, r)
    BY <1>3 DEF m
  <1> HIDE DEF r
  <1>7. RequestOK(r, clock) /\ r.status \notin {403, 429}
    BY <1>0, <1>1, <1>2, <1>4, <1>5 DEF RequestOK
  <1> QED BY <1>0, <1>2, <1>4, <1>5, <1>6, <1>7, MailStep DEF q

\* No step of the review route breaks the invariant.
LEMMA KybInvStep == KybInv /\ [KybNext]_kybVars => KybInv'
  <1> SUFFICES ASSUME KybInv, [KybNext]_kybVars PROVE KybInv'
    OBVIOUS
  <1>1. CASE UNCHANGED kybVars
    <2>1. clock' = clock /\ hits' = hits /\ requests' = requests
      BY <1>1 DEF kybVars
    <2> QED BY <2>1 DEF KybInv, RequestsInv, ThrottleInv, BurstIsBounded, Admitted
  <1> QED BY <1>1, TickStep, POSTStep, mailApplicantStep, notifyTeamStep DEF KybNext

\* What the runs check of the review route follows from the invariant.
LEMMA KybGives == KybInv => KybTypeOK /\ BurstIsBounded /\ OkIsConfirmed
  <1> SUFFICES ASSUME KybInv PROVE KybTypeOK /\ OkIsConfirmed
    BY DEF KybInv
  <1>0. /\ RequestsInv /\ ThrottleInv /\ \A i \in DOMAIN requests : RequestOK(requests[i], clock)
    BY DEF KybInv, RequestsInv
  <1>1. hits \in [count: 1..MaxPosts, resetAt: Nat] \cup {None}
    <2>1. CASE hits # None
      <3>1. /\ hits \in [count: Nat, resetAt: Nat] /\ hits.count \in 1 .. Len(requests)
            /\ Len(requests) <= MaxPosts /\ Len(requests) \in Nat
        BY <1>0, <2>1, RequestsAre DEF ThrottleInv, WindowOK, WindowFrom, RequestsInv
      <3>2. hits.count \in 1 .. MaxPosts
        BY <3>1, KybAssumption
      <3> QED BY <3>1, <3>2
    <2> QED BY <2>1
  <1> QED BY <1>0, <1>1 DEF KybTypeOK, RequestsInv, RequestOK, OkIsConfirmed
-----------------------------------------------------------------------------
(* The cached supplies.                                                    *)

Answered_by == UNION {[D -> Answer \cup {None}] : D \in SUBSET Fetch}
SupplyRead == [since: Nat \cup {None}, answers: Answered_by]

\* What a read was answered was so while it was under way, which it is for no longer than
\* Horizon is awaited.
ReadIsRecent(read, now) ==
  read.since # None =>
    /\ read.since <= now /\ now <= read.since + Timeout
    /\ \A r \in DOMAIN read.answers :
         read.answers[r] # None => read.since <= read.answers[r] /\ read.answers[r] <= now

\* A snapshot of a ledger and at least one row, of less than `age` before a moment.
SnapshotWithin(s, at, age) ==
  /\ s.ledger \in Answer /\ s.ledger <= at /\ at < s.ledger + age
  /\ DOMAIN s.rows \subseteq Asset /\ DOMAIN s.rows # {}
  /\ \A a \in DOMAIN s.rows : s.rows[a] \in Answer /\ s.rows[a] <= at /\ at < s.rows[a] + age

CachedInv(c, now) ==
  c # None => c.at \in Nat /\ c.at <= now /\ SnapshotWithin(c.snapshot, c.at, Timeout + 1)

ShownInv(s) ==
  s.snapshot # None => s.at \in Nat /\ SnapshotWithin(s.snapshot, s.at, Ttl + Timeout)

SupplyInv ==
  /\ time \in 0 .. MaxSupplyClock
  /\ reads \in Seq(SupplyRead)
  /\ \A i \in DOMAIN reads : ReadIsRecent(reads[i], time)
  /\ CachedInv(cached, time)
  /\ ShownInv(shown)

\* The constants of the reader are numbers, and none of its answers is None.
LEMMA SupplyNumbers ==
  /\ Ttl \in Nat /\ Ttl > 0 /\ Timeout \in Nat /\ Timeout > 0 /\ MaxSupplyClock \in Nat
  /\ None \notin Nat /\ None \notin Answer /\ Answer \subseteq Nat
  <1>1. /\ Ttl \in Nat /\ Ttl > 0 /\ Timeout \in Nat /\ Timeout > 0 /\ MaxSupplyClock \in Nat
        /\ None \notin Nat
    BY SupplyAssumption
  <1>2. Answer \subseteq Nat
    BY <1>1 DEF Answer
  <1> QED BY <1>1, <1>2

\* A read that has no answer yet.
LEMMA NoAnswers ==
  /\ << >> \in Answered_by /\ DOMAIN << >> = {}
  /\ \A since \in Nat \cup {None} : [since |-> since, answers |-> << >>] \in SupplyRead
  <1>1. DOMAIN << >> = {} /\ << >> \in [{} -> Answer \cup {None}]
    OBVIOUS
  <1>2. << >> \in Answered_by
    BY <1>1 DEF Answered_by
  <1> QED BY <1>1, <1>2 DEF SupplyRead

\* A read keeps its answers and gets one more.
LEMMA OneAnswerMore ==
  ASSUME NEW read \in SupplyRead, NEW r \in Fetch, NEW a \in Answer \cup {None}, NEW answers,
         answers = [q \in DOMAIN read.answers \cup {r} |-> IF q = r THEN a ELSE read.answers[q]]
  PROVE  /\ answers \in Answered_by
         /\ \A q \in DOMAIN answers : (q \in DOMAIN read.answers /\ answers[q] = read.answers[q]) \/ answers[q] = a
  <1>1. PICK D \in SUBSET Fetch : read.answers \in [D -> Answer \cup {None}]
    BY DEF SupplyRead, Answered_by
  <1>2. DOMAIN read.answers = D
    BY <1>1
  <1>3. answers \in [D \cup {r} -> Answer \cup {None}]
    BY <1>1, <1>2
  <1>4. answers \in Answered_by
    BY <1>3 DEF Answered_by
  <1> QED BY <1>4

\* The snapshot of a read that is over.
LEMMA SnapshotIs ==
  ASSUME NEW read \in SupplyRead, NEW now \in Nat, ReadIsRecent(read, now), read.since # None,
         DOMAIN read.answers = Fetch, Readable(read)
  PROVE  /\ SnapshotWithin(Snapshot(read), now, Timeout + 1)
         /\ read.since <= Snapshot(read).ledger
  <1> USE SupplyNumbers
  <1> DEFINE table == [a \in {a \in Asset : read.answers[a] # None} |-> read.answers[a]]
             ledger == read.answers["ledger"]
  <1>0. read.since \in Nat /\ now <= read.since + Timeout
    BY DEF SupplyRead, ReadIsRecent
  <1>1. PICK D \in SUBSET Fetch : read.answers \in [D -> Answer \cup {None}]
    BY DEF SupplyRead, Answered_by
  <1>2. \A q \in Fetch : read.answers[q] # None =>
          /\ read.answers[q] \in Answer /\ read.answers[q] \in Nat /\ read.answers[q] <= now
          /\ now < read.answers[q] + (Timeout + 1) /\ read.since <= read.answers[q]
    <2> SUFFICES ASSUME NEW q \in Fetch, read.answers[q] # None
                 PROVE  /\ read.answers[q] \in Answer /\ read.answers[q] \in Nat /\ read.answers[q] <= now
                        /\ now < read.answers[q] + (Timeout + 1) /\ read.since <= read.answers[q]
      OBVIOUS
    <2>1. read.answers[q] \in Answer /\ read.answers[q] \in Nat
      BY <1>1
    <2>2. read.since <= read.answers[q] /\ read.answers[q] <= now
      BY DEF ReadIsRecent
    <2> QED BY <1>0, <2>1, <2>2
  <1>3. ledger # None /\ \E a \in Asset : read.answers[a] # None
    BY DEF Readable
  <1>4. "ledger" \in Fetch /\ Asset \subseteq Fetch
    BY DEF Fetch
  <1>5. /\ ledger \in Answer /\ ledger <= now /\ now < ledger + (Timeout + 1) /\ read.since <= ledger
    BY <1>2, <1>3, <1>4
  <1>6. /\ DOMAIN table = {a \in Asset : read.answers[a] # None}
        /\ \A a \in DOMAIN table : table[a] = read.answers[a] /\ read.answers[a] # None /\ a \in Fetch
    BY <1>4
  <1>7. DOMAIN table \subseteq Asset /\ DOMAIN table # {}
    BY <1>3, <1>6
  <1>8. \A a \in DOMAIN table : table[a] \in Answer /\ table[a] <= now /\ now < table[a] + (Timeout + 1)
    BY <1>2, <1>6
  <1>9. Snapshot(read) = [ledger |-> ledger, rows |-> table]
    BY DEF Snapshot
  <1> HIDE DEF table, ledger
  <1>10. Snapshot(read).ledger = ledger /\ Snapshot(read).rows = table
    BY <1>9
  <1> QED BY <1>5, <1>7, <1>8, <1>10 DEF SnapshotWithin

\* A younger snapshot is within a longer time.
LEMMA WithinLonger ==
  ASSUME NEW s, NEW at \in Nat, NEW now \in Nat, NEW age \in Nat, NEW longer \in Nat,
         SnapshotWithin(s, at, age), at <= now, now + age <= at + longer
  PROVE  SnapshotWithin(s, now, longer)
  <1> USE SupplyNumbers
  <1>1. \A t \in Answer : t <= at /\ at < t + age => t <= now /\ now < t + longer
    OBVIOUS
  <1> QED BY <1>1 DEF SnapshotWithin

\* Nothing was read.
LEMMA SupplyStart == SupplyInit => SupplyInv
  <1> SUFFICES ASSUME SupplyInit PROVE SupplyInv
    OBVIOUS
  <1> USE SupplyNumbers
  <1>1. time \in 0 .. MaxSupplyClock /\ reads = << >>
    BY DEF SupplyInit
  <1>2. reads \in Seq(SupplyRead) /\ \A i \in DOMAIN reads : ReadIsRecent(reads[i], time)
    BY <1>1
  <1>3. CachedInv(cached, time) /\ ShownInv(shown)
    BY DEF SupplyInit, CachedInv, ShownInv
  <1> QED BY <1>1, <1>2, <1>3 DEF SupplyInv

\* A page shows what is kept and fresh.
LEMMA OpenFromCacheStep ==
  ASSUME SupplyInv, OpenFromCache
  PROVE  SupplyInv'
  <1> USE SupplyNumbers
  <1>0. /\ time' = time /\ cached' = cached /\ reads' = reads
        /\ shown' = [at |-> time, snapshot |-> cached.snapshot]
        /\ cached # None /\ time - cached.at < Ttl
    BY DEF OpenFromCache, ShowFigures, Fresh
  <1>1. /\ time \in Nat /\ cached.at \in Nat /\ cached.at <= time
        /\ SnapshotWithin(cached.snapshot, cached.at, Timeout + 1)
    BY <1>0 DEF SupplyInv, CachedInv
  <1>2. time + (Timeout + 1) <= cached.at + (Ttl + Timeout)
    BY <1>0, <1>1
  <1> DEFINE s == cached.snapshot
             at == cached.at
             age == Timeout + 1
             longer == Ttl + Timeout
  <1>3. /\ at \in Nat /\ age \in Nat /\ longer \in Nat /\ SnapshotWithin(s, at, age)
        /\ at <= time /\ time + age <= at + longer
    BY <1>1, <1>2
  <1>4. shown'.at = time /\ shown'.snapshot = s
    BY <1>0
  <1> HIDE DEF s, at, age, longer
  <1>5. SnapshotWithin(s, time, longer)
    BY <1>1, <1>3, WithinLonger
  <1>6. ShownInv(shown')
    BY <1>1, <1>4, <1>5 DEF ShownInv, longer
  <1> QED BY <1>0, <1>6 DEF SupplyInv

\* A page reads Horizon.
LEMMA OpenStep ==
  ASSUME SupplyInv, Open
  PROVE  SupplyInv'
  <1> USE SupplyNumbers
  <1> DEFINE read == [since |-> time, answers |-> << >>]
  <1>0. /\ time' = time /\ cached' = cached /\ shown' = shown /\ reads' = Append(reads, read)
        /\ reads \in Seq(SupplyRead) /\ time \in Nat
    BY DEF Open, SupplyInv
  <1>1. read \in SupplyRead
    BY <1>0, NoAnswers
  <1>2. read.since = time /\ DOMAIN read.answers = {}
    BY NoAnswers
  <1> HIDE DEF read
  <1>3. ReadIsRecent(read, time)
    BY <1>0, <1>2 DEF ReadIsRecent
  <1>4. /\ reads' \in Seq(SupplyRead)
        /\ \A i \in DOMAIN reads' : reads'[i] = read \/ (i \in DOMAIN reads /\ reads'[i] = reads[i])
    BY <1>0, <1>1, AppendProperties
  <1>5. \A i \in DOMAIN reads' : ReadIsRecent(reads'[i], time)
    BY <1>3, <1>4 DEF SupplyInv
  <1> QED BY <1>0, <1>4, <1>5 DEF SupplyInv

\* Horizon answers with the ledger of the moment, unless it was awaited too long.
LEMMA HorizonStep ==
  ASSUME SupplyInv, NEW i \in DOMAIN reads, NEW r \in Fetch, HorizonAnswers(i, r)
  PROVE  SupplyInv'
  <1> USE SupplyNumbers
  <1>0. /\ time' = time /\ cached' = cached /\ shown' = shown
        /\ reads \in Seq(SupplyRead) /\ time \in 0 .. MaxSupplyClock /\ time \in Nat /\ time \in Answer
        /\ reads[i].since # None
    BY DEF HorizonAnswers, SupplyInv, Answer
  <1>1. PICK a \in (IF Expired(reads[i]) THEN {} ELSE {time}) \cup {None} :
          reads' = [reads EXCEPT ![i].answers =
                      [q \in DOMAIN @ \cup {r} |-> IF q = r THEN a ELSE @[q]]]
    BY DEF HorizonAnswers
  <1> DEFINE read == reads[i]
             answers == [q \in DOMAIN read.answers \cup {r} |-> IF q = r THEN a ELSE read.answers[q]]
             next == [read EXCEPT !.answers = answers]
  <1>2. reads' = [reads EXCEPT ![i] = next]
    BY <1>1
  <1>3. read \in SupplyRead /\ ReadIsRecent(read, time) /\ read.since # None
    BY <1>0 DEF SupplyInv
  <1>4. a \in Answer \cup {None} /\ (a # None => a = time)
    BY <1>0
  <1>5. /\ answers \in Answered_by
        /\ \A q \in DOMAIN answers :
             (q \in DOMAIN read.answers /\ answers[q] = read.answers[q]) \/ answers[q] = a
    <2> DEFINE as == answers
    <2>1. as = [q \in DOMAIN read.answers \cup {r} |-> IF q = r THEN a ELSE read.answers[q]]
      OBVIOUS
    <2> HIDE DEF as, read
    <2>2. /\ as \in Answered_by
          /\ \A q \in DOMAIN as :
               (q \in DOMAIN read.answers /\ as[q] = read.answers[q]) \/ as[q] = a
      BY <1>3, <1>4, <2>1, OneAnswerMore
    <2> QED BY <2>2 DEF as
  <1> HIDE DEF read, answers
  <1>6. next \in SupplyRead /\ next.since = read.since /\ next.answers = answers
    BY <1>3, <1>5 DEF SupplyRead
  <1> HIDE DEF next
  <1>7. read.since \in Nat
    BY <1>3 DEF SupplyRead
  <1>8. ReadIsRecent(next, time)
    BY <1>0, <1>3, <1>4, <1>5, <1>6, <1>7 DEF ReadIsRecent
  <1>9. /\ reads' \in Seq(SupplyRead) /\ DOMAIN reads' = DOMAIN reads /\ reads'[i] = next
        /\ \A j \in DOMAIN reads : j # i => reads'[j] = reads[j]
    BY <1>0, <1>2, <1>6, ExceptSeq
  <1>10. \A j \in DOMAIN reads' : ReadIsRecent(reads'[j], time)
    BY <1>8, <1>9 DEF SupplyInv
  <1> QED BY <1>0, <1>9, <1>10 DEF SupplyInv

\* What a read leaves in the cache is as old as the read took, and no older than what was
\* kept before the read began.
LEMMA FinishStep ==
  ASSUME SupplyInv, NEW i \in DOMAIN reads, Finish(i)
  PROVE  /\ SupplyInv'
         /\ reads[i].since # None /\ reads'[i].since = None
         /\ \/ cached' = cached
            \/ /\ reads[i].since \in Nat /\ cached'.snapshot.ledger \in Nat
               /\ reads[i].since <= cached'.snapshot.ledger
  <1> USE SupplyNumbers
  <1> DEFINE read == reads[i]
             next == [since |-> None, answers |-> << >>]
  <1>0. /\ time' = time /\ time \in Nat /\ reads \in Seq(SupplyRead)
        /\ read.since # None /\ DOMAIN read.answers = Fetch
        /\ reads' = [reads EXCEPT ![i] = next]
    BY DEF Finish, SupplyInv
  <1>1. next \in SupplyRead /\ next.since = None
    BY NoAnswers
  <1> HIDE DEF next
  <1>2. /\ reads' \in Seq(SupplyRead) /\ DOMAIN reads' = DOMAIN reads /\ reads'[i] = next
        /\ \A j \in DOMAIN reads : j # i => reads'[j] = reads[j]
    BY <1>0, <1>1, ExceptSeq
  <1>3. \A j \in DOMAIN reads' : ReadIsRecent(reads'[j], time)
    BY <1>1, <1>2 DEF SupplyInv, ReadIsRecent
  <1>4. read \in SupplyRead /\ ReadIsRecent(read, time) /\ read.since \in Nat
    <2>1. read \in SupplyRead /\ ReadIsRecent(read, time)
      BY <1>0 DEF SupplyInv
    <2> HIDE DEF read
    <2> QED BY <1>0, <2>1 DEF SupplyRead
  <1>5. CASE Readable(read)
    <2> DEFINE s == Snapshot(read)
    <2>1. SnapshotWithin(s, time, Timeout + 1) /\ read.since <= s.ledger
      <3> HIDE DEF read
      <3> QED BY <1>0, <1>4, <1>5, SnapshotIs
    <2>2. cached' = [at |-> time, snapshot |-> s] /\ shown' = [at |-> time, snapshot |-> s]
      BY <1>5 DEF Finish, Kept, ShowFigures
    <2> HIDE DEF s
    <2>3. cached'.at = time /\ cached'.snapshot = s /\ shown'.at = time /\ shown'.snapshot = s
      BY <2>2
    <2>4. CachedInv(cached', time)
      BY <1>0, <2>1, <2>3 DEF CachedInv
    <2>5. SnapshotWithin(s, time, Ttl + Timeout)
      <3>1. /\ s.ledger \in Answer /\ s.ledger <= time /\ time < s.ledger + (Timeout + 1)
            /\ DOMAIN s.rows \subseteq Asset /\ DOMAIN s.rows # {}
        BY <2>1 DEF SnapshotWithin
      <3>2. ASSUME NEW a \in DOMAIN s.rows
            PROVE  s.rows[a] \in Answer /\ s.rows[a] <= time /\ time < s.rows[a] + (Ttl + Timeout)
        <4>1. s.rows[a] \in Answer /\ s.rows[a] <= time /\ time < s.rows[a] + (Timeout + 1)
          BY <2>1 DEF SnapshotWithin
        <4> DEFINE x == s.rows[a]
        <4>2. x \in Answer /\ x <= time /\ time < x + (Timeout + 1)
          BY <4>1
        <4> HIDE DEF x
        <4>3. time < x + (Ttl + Timeout)
          BY <1>0, <4>2
        <4> QED BY <4>2, <4>3 DEF x
      <3>3. time < s.ledger + (Ttl + Timeout)
        BY <1>0, <3>1
      <3> QED BY <3>1, <3>2, <3>3 DEF SnapshotWithin
    <2>6. ShownInv(shown')
      BY <1>0, <2>3, <2>5 DEF ShownInv
    <2>7. s.ledger \in Nat
      BY <2>1 DEF SnapshotWithin
    <2> QED BY <1>0, <1>1, <1>2, <1>3, <1>4, <2>1, <2>3, <2>4, <2>6, <2>7 DEF SupplyInv
  <1>6. CASE ~Readable(read)
    <2>1. cached' = cached /\ shown' = [at |-> time, snapshot |-> None]
      BY <1>6 DEF Finish, ShowFigures
    <2>2. ShownInv(shown')
      BY <2>1 DEF ShownInv
    <2> QED BY <1>0, <1>1, <1>2, <1>3, <2>1, <2>2 DEF SupplyInv
  <1> QED BY <1>5, <1>6

\* Time goes on while no read is awaited too long.
LEMMA SupplyTickStep ==
  ASSUME SupplyInv, SupplyTick
  PROVE  SupplyInv'
  <1> USE SupplyNumbers
  <1>0. /\ time \in 0 .. MaxSupplyClock /\ time < MaxSupplyClock /\ time' = time + 1
        /\ cached' = cached /\ reads' = reads /\ shown' = shown /\ reads \in Seq(SupplyRead)
        /\ \A i \in DOMAIN reads : reads[i].since # None => ~Expired(reads[i])
    BY DEF SupplyTick, SupplyInv
  <1>1. time' \in 0 .. MaxSupplyClock /\ time \in Nat
    BY <1>0
  <1>2. ASSUME NEW i \in DOMAIN reads PROVE ReadIsRecent(reads[i], time')
    <2> SUFFICES ASSUME reads[i].since # None PROVE ReadIsRecent(reads[i], time')
      BY DEF ReadIsRecent
    <2>1. reads[i] \in SupplyRead /\ ReadIsRecent(reads[i], time) /\ ~Expired(reads[i])
      BY <1>0 DEF SupplyInv
    <2>2. reads[i].since \in Nat
      BY <2>1 DEF SupplyRead
    <2>3. reads[i].since <= time' /\ time' <= reads[i].since + Timeout
      BY <1>0, <1>1, <2>1, <2>2 DEF ReadIsRecent, Expired
    <2>4. ASSUME NEW r \in DOMAIN reads[i].answers, reads[i].answers[r] # None
          PROVE  reads[i].since <= reads[i].answers[r] /\ reads[i].answers[r] <= time'
      <3>1. PICK D \in SUBSET Fetch : reads[i].answers \in [D -> Answer \cup {None}]
        BY <2>1 DEF SupplyRead, Answered_by
      <3>2. reads[i].answers[r] \in Nat
        BY <2>4, <3>1
      <3>3. reads[i].since <= reads[i].answers[r] /\ reads[i].answers[r] <= time
        BY <2>1, <2>4 DEF ReadIsRecent
      <3> QED BY <1>0, <1>1, <3>2, <3>3
    <2> QED BY <2>3, <2>4 DEF ReadIsRecent
  <1>3. CachedInv(cached, time')
    BY <1>0, <1>1 DEF SupplyInv, CachedInv
  <1> QED BY <1>0, <1>1, <1>2, <1>3 DEF SupplyInv

\* Every step of the supplies preserves the invariant, and the cache goes back only to a
\* read that had begun when what it held was kept.
LEMMA SupplyInvStep ==
  SupplyInv /\ [SupplyNext]_supplyVars =>
    /\ SupplyInv'
    /\ cached # None /\ cached'.snapshot.ledger < cached.snapshot.ledger =>
         \E i \in DOMAIN reads :
           reads[i].since # None /\ reads'[i].since = None /\ reads[i].since <= cached.at
  <1> SUFFICES ASSUME SupplyInv, [SupplyNext]_supplyVars
               PROVE  /\ SupplyInv'
                      /\ cached # None /\ cached'.snapshot.ledger < cached.snapshot.ledger =>
                           \E i \in DOMAIN reads :
                             reads[i].since # None /\ reads'[i].since = None /\ reads[i].since <= cached.at
    OBVIOUS
  <1> USE SupplyNumbers
  <1>0. cached # None => /\ cached.snapshot.ledger \in Nat /\ cached.at \in Nat
                         /\ cached.snapshot.ledger <= cached.at
    BY DEF SupplyInv, CachedInv, SnapshotWithin
  <1>1. CASE UNCHANGED supplyVars
    <2>1. SupplyInv' /\ cached' = cached
      BY <1>1 DEF supplyVars, SupplyInv
    <2> QED BY <1>0, <2>1
  <1>2. CASE OpenFromCache \/ Open \/ SupplyTick
    <2>1. SupplyInv' /\ cached' = cached
      BY <1>2, OpenFromCacheStep, OpenStep, SupplyTickStep DEF OpenFromCache, Open, SupplyTick
    <2> QED BY <1>0, <2>1
  <1>3. ASSUME NEW i \in DOMAIN reads, NEW r \in Fetch, HorizonAnswers(i, r)
        PROVE  SupplyInv' /\ cached' = cached
    BY <1>3, HorizonStep DEF HorizonAnswers
  <1>4. ASSUME NEW i \in DOMAIN reads, Finish(i),
               cached # None, cached'.snapshot.ledger < cached.snapshot.ledger
        PROVE  reads[i].since # None /\ reads'[i].since = None /\ reads[i].since <= cached.at
    <2>1. /\ reads[i].since # None /\ reads'[i].since = None
          /\ \/ cached' = cached
             \/ /\ reads[i].since \in Nat /\ cached'.snapshot.ledger \in Nat
                /\ reads[i].since <= cached'.snapshot.ledger
      BY <1>4, FinishStep
    <2>2. cached' # cached
      BY <1>0, <1>4
    <2>3. /\ reads[i].since \in Nat /\ cached'.snapshot.ledger \in Nat
          /\ reads[i].since <= cached'.snapshot.ledger
      BY <2>1, <2>2
    <2>4. reads[i].since <= cached.at
      BY <1>0, <1>4, <2>3
    <2> QED BY <2>1, <2>4
  <1>5. ASSUME NEW i \in DOMAIN reads, Finish(i) PROVE SupplyInv'
    BY <1>5, FinishStep
  <1> QED BY <1>0, <1>1, <1>2, <1>3, <1>4, <1>5 DEF SupplyNext

\* What the invariant says of the supplies.
LEMMA SupplyGives == SupplyInv => SupplyTypeOK /\ ShownIsRecent
  <1> SUFFICES ASSUME SupplyInv PROVE SupplyTypeOK /\ ShownIsRecent
    OBVIOUS
  <1> USE SupplyNumbers
  <1>1. ASSUME cached # None
        PROVE  /\ cached.snapshot.ledger \in Answer
               /\ DOMAIN cached.snapshot.rows \subseteq Asset /\ DOMAIN cached.snapshot.rows # {}
               /\ \A a \in DOMAIN cached.snapshot.rows : cached.snapshot.rows[a] \in Answer
    BY <1>1 DEF SupplyInv, CachedInv, SnapshotWithin
  <1>2. ASSUME shown.snapshot # None
        PROVE  /\ shown.snapshot.ledger \in Answer
               /\ DOMAIN shown.snapshot.rows \subseteq Asset /\ DOMAIN shown.snapshot.rows # {}
               /\ \A a \in DOMAIN shown.snapshot.rows : shown.snapshot.rows[a] \in Answer
    BY <1>2 DEF SupplyInv, ShownInv, SnapshotWithin
  <1>3. SupplyTypeOK
    BY <1>1, <1>2 DEF SupplyTypeOK, SupplyInv
  <1>4. ShownIsRecent
    <2> SUFFICES ASSUME shown.snapshot # None,
                        NEW t \in {shown.snapshot.ledger}
                                    \cup {shown.snapshot.rows[a] : a \in DOMAIN shown.snapshot.rows}
                 PROVE  shown.at - t < Ttl + Timeout
      BY DEF ShownIsRecent
    <2>1. shown.at \in Nat /\ SnapshotWithin(shown.snapshot, shown.at, Ttl + Timeout)
      BY DEF SupplyInv, ShownInv
    <2>2. t \in Answer /\ shown.at < t + (Ttl + Timeout)
      BY <2>1 DEF SnapshotWithin
    <2>3. t \in Nat
      BY <2>2
    <2> QED BY <2>1, <2>2, <2>3
  <1> QED BY <1>3, <1>4
=============================================================================
