------------------------------ MODULE Readers ------------------------------
(***************************************************************************)
(* Who reads an institution's proofs, and how: the TypeScript SDK (a       *)
(* client that is kept), the console's latest-proof route and the oracle's *)
(* get_solvency (a client per call).  A read resolves the institution to   *)
(* its contract through the orchestrator, unless the client's settings     *)
(* name one, and then reads that contract; in between, cycles publish and  *)
(* save, and the contract may be rotated.                                  *)
(*                                                                         *)
(* A proof that is on a contract covers its liabilities (Registry and      *)
(* Solvency are about that), so a proof here is its institution and its    *)
(* number, and reservesCoverLiabilities is true of what was read.          *)
(***************************************************************************)
EXTENDS Naturals, FiniteSets, Sequences, SequencesExt, Absent

CONSTANTS
  Org,           \* the institutions
  MaxContracts,  \* bound: contracts deployed
  MaxProofs,     \* bound: proofs published
  MaxSlots,      \* bound: calls in flight at once
  MaxCalls       \* bound: calls of all readers

Contract == 1..MaxContracts
Slot == 1..MaxSlots
OrgProof == [org: Org, no: Nat]
Row == [proof: OrgProof, id: Nat, of: Contract]
Unsaved == [proof: OrgProof, id: {None}, of: Contract]
Client == [contract: Contract \cup {None}, rot: Nat]

Kind == {"onchain", "inclusion", "route", "oracle"}
Outcome == {"none", "error", "failed", "unknown", "null", "breach", "proof", "solvent",
            "included", "excluded"}
Call == [kind: Kind \cup {"none"}, org: Org \cup {None}, deps: {"chain", "embedder"}, row: Nat,
         at: {"latest", "ref", "resolve", "resolved", "read", "done"}, client: Client,
         out: Outcome, proof: OrgProof \cup {None}, reported: OrgProof \cup {None},
         since: [no: Nat, rot: Nat]]

ASSUME ReadersAssumption ==
  /\ None \notin Org \cup Nat \cup OrgProof \cup Row \cup Unsaved
  /\ MaxContracts \in Nat /\ MaxProofs \in Nat /\ MaxSlots \in Nat /\ MaxCalls \in Nat

VARIABLES
  contracts,  \* what tenants.contract_id was set to, the last one being its value
  chain,      \* the proofs on each contract, in the order of their ids
  rows,       \* the proofs table, oldest first
  cycle,      \* the running cycle, from the contract it resolved
  sdk,        \* Solva.chain of the client that is kept, with history: the rotation it
              \* saw, 0 if its contract is the one of its settings
  call,       \* the calls, in flight or done
  asked,      \* how many calls were made
  endpoint    \* endpoints.contractId of the SDK's clients and SOLVA_CONTRACT_ID of the
              \* oracle; a call reads only the one of its reader, so one stands for both

readersVars == <<contracts, chain, rows, cycle, sdk, call, asked, endpoint>>

Unresolved == [contract |-> None, rot |-> 0]
NotAsked == [kind |-> "none", org |-> None, deps |-> "chain", row |-> 0, at |-> "done",
             client |-> Unresolved, out |-> "none", proof |-> None, reported |-> None,
             since |-> [no |-> 0, rot |-> 0]]

ReadersInit ==
  /\ contracts = [t \in Org |-> << >>]
  /\ chain = [c \in Contract |-> << >>]
  /\ rows = [t \in Org |-> << >>]
  /\ cycle = [t \in Org |-> None]
  /\ sdk = [t \in Org |-> Unresolved]
  /\ call = [s \in Slot |-> NotAsked] /\ asked = 0
  /\ endpoint \in Contract \cup {None}
-----------------------------------------------------------------------------
(* The orchestrator.                                                       *)

bound(t) == IF contracts[t] = << >> THEN None ELSE Last(contracts[t])
rotations(t) == Len(contracts[t])

\* A new contract is deployed for the institution and recorded for it.
Deployed == UNION {Range(contracts[u]) : u \in Org}

SetTenantContract(t) ==
  /\ Cardinality(Deployed) < MaxContracts
  /\ contracts' = [contracts EXCEPT ![t] = Append(@, Cardinality(Deployed) + 1)]
  /\ UNCHANGED <<chain, rows, cycle, sdk, call, asked, endpoint>>

ProofsOf(t) == {p \in UNION {Range(chain[c]) : c \in Contract} : p.org = t}
Published == Cardinality(UNION {Range(chain[c]) : c \in Contract})
NextNo(t) == Cardinality(ProofsOf(t)) + 1

\* Run: the tail of a cycle.  It resolves the contract, publishes to it and saves the row.
CycleResolves(t) ==
  /\ cycle[t] = None /\ bound(t) # None
  /\ Published + Cardinality({u \in Org : cycle[u] # None /\ cycle[u].id = None}) < MaxProofs
  /\ cycle' = [cycle EXCEPT ![t] = [proof |-> [org |-> t, no |-> NextNo(t)], of |-> bound(t),
                                    id |-> None]]
  /\ UNCHANGED <<contracts, chain, rows, sdk, call, asked, endpoint>>

CyclePublishes(t) ==
  /\ cycle[t] # None /\ cycle[t].id = None
  /\ chain' = [chain EXCEPT ![cycle[t].of] = Append(@, cycle[t].proof)]
  /\ cycle' = [cycle EXCEPT ![t].id = Len(chain[cycle[t].of]) + 1]
  /\ UNCHANGED <<contracts, rows, sdk, call, asked, endpoint>>

\* SaveProof runs once PublishProof has returned the id.
Savable_unpublished(t) == cycle[t] # None
Savable(t) == cycle[t] # None /\ cycle[t].id # None

CycleSaves(t) ==
  /\ Savable(t)
  /\ rows' = [rows EXCEPT ![t] = Append(@, cycle[t])] /\ cycle' = [cycle EXCEPT ![t] = None]
  /\ UNCHANGED <<contracts, chain, sdk, call, asked, endpoint>>

\* The process stops or the save fails; a cycle that fails before it publishes leaves
\* nothing a reader could see.
CycleFails(t) ==
  /\ cycle[t] # None /\ cycle[t].id # None
  /\ cycle' = [cycle EXCEPT ![t] = None]
  /\ UNCHANGED <<contracts, chain, rows, sdk, call, asked, endpoint>>

\* GetLatestProof: the query selects by tenant.  The tenant is the tenant_id parameter.
LatestRow_any(t) ==
  LET of == {u \in Org : rows[u] # << >>} IN
  IF of = {} THEN None ELSE Last(rows[CHOOSE u \in of : TRUE])
LatestRow(t) == IF t = None \/ rows[t] = << >> THEN None ELSE Last(rows[t])

\* GetInclusion: the path of a customer of the row, and the id the row has on its contract.
InclusionId_row(t, i) == i
InclusionId(t, i) == rows[t][i].id
-----------------------------------------------------------------------------
(* The calls.                                                              *)

Shared(kind) == kind \in {"onchain", "inclusion"}
FirstStep(kind) == CASE kind = "oracle" -> "latest" [] kind = "inclusion" -> "ref"
                     [] OTHER -> "resolve"

Saved(t) == Len(rows[t])
SavedNo(t) == IF rows[t] = << >> THEN 0 ELSE Last(rows[t]).proof.no

\* A method of the SDK, a GET of the route or a get_solvency.  deps says whose
\* getLatestProof the oracle has: its own chainSolvencyDeps, or an embedder's that passes
\* the tenant_id the orchestrator asks for.  i is the row a customer's reference names.
\* Calls with a client of their own share nothing, so only those of one client overlap.
ask(s, kind, t, deps, i) ==
  /\ call[s].at = "done" /\ asked < MaxCalls
  /\ \A r \in 1..(s - 1) : call[r].at # "done"
  /\ \A r \in Slot : call[r].at # "done" =>
       Shared(kind) /\ Shared(call[r].kind) /\ call[r].org = t
  /\ kind # "oracle" => deps = "chain"
  /\ IF kind = "inclusion" THEN i \in 1..Saved(t) ELSE i = 0
  /\ call' = [r \in Slot |-> IF r # s THEN IF call[r].at = "done" THEN NotAsked ELSE call[r] ELSE
       [kind |-> kind, org |-> t, deps |-> deps, row |-> i, at |-> FirstStep(kind),
        client |-> Unresolved, out |-> "none", proof |-> None, reported |-> None,
        since |-> [no |-> SavedNo(t), rot |-> rotations(t)]]]
  /\ asked' = asked + 1
  /\ UNCHANGED <<contracts, chain, rows, cycle, sdk, endpoint>>

At(s, step) == call[s].at = step
Untouched == UNCHANGED <<contracts, chain, rows, cycle, asked, endpoint>>

\* How a failed read ends: the oracle's verifyOnChain catches it, the route answers that
\* there is no proof, the SDK throws.
Caught_true(kind, error) == CASE kind = "oracle" -> "solvent" [] kind = "route" -> "null"
                              [] OTHER -> error
Caught(kind, error) == CASE kind = "oracle" -> "breach" [] kind = "route" -> "null"
                         [] OTHER -> error

Done(s, out) == call' = [call EXCEPT ![s].at = "done", ![s].out = out]

\* OrchestratorClient.getLatestProof sends the tenant as a header, and no tenant_id.
TenantParam(c) == IF c.deps = "chain" THEN None ELSE c.org

getLatestProof(s) ==
  /\ At(s, "latest")
  /\ LET row == LatestRow(TenantParam(call[s])) IN
     IF row = None THEN Done(s, "error")
     ELSE call' = [call EXCEPT ![s].at = "resolve", ![s].reported = row.proof]
  /\ Untouched /\ UNCHANGED sdk

getInclusionRef(s) ==
  /\ At(s, "ref") /\ call' = [call EXCEPT ![s].at = "resolve"]
  /\ Untouched /\ UNCHANGED sdk

\* resolveChain: a client that has its contract keeps it, and a contract in its settings
\* wins.  The route sets none.
Cached_shared(c) == sdk[c.org]
Cached(c) == IF Shared(c.kind) THEN sdk[c.org] ELSE Unresolved

Endpoint_everywhere(kind) == endpoint
Endpoint(kind) == IF kind = "route" THEN None ELSE endpoint

Known(c) ==
  IF Cached(c) # Unresolved THEN Cached(c) ELSE [contract |-> Endpoint(c.kind), rot |-> 0]

\* A new ChainClient, which the kept client keeps.
Keeps(c, client) == sdk' = IF Shared(c.kind) THEN [sdk EXCEPT ![c.org] = client] ELSE sdk

resolveKnown(s) ==
  /\ At(s, "resolve") /\ Known(call[s]) # Unresolved
  /\ call' = [call EXCEPT ![s].at = "read", ![s].client = Known(call[s])]
  /\ Keeps(call[s], Known(call[s]))
  /\ Untouched

\* GetTenantContract; an institution without a contract is a 404.
getTenantContract(s) ==
  /\ At(s, "resolve") /\ Known(call[s]) = Unresolved
  /\ LET t == call[s].org IN
     IF bound(t) = None
     THEN Done(s, IF call[s].kind = "route" THEN "unknown" ELSE Caught(call[s].kind, "error"))
     ELSE call' = [call EXCEPT ![s].at = "resolved",
                     ![s].client = [contract |-> bound(t), rot |-> rotations(t)]]
  /\ Untouched /\ UNCHANGED sdk

\* The answer arrives.  Two calls of one client may both have asked; the later arrival stays.
resolved(s) ==
  /\ At(s, "resolved") /\ call' = [call EXCEPT ![s].at = "read"]
  /\ Keeps(call[s], call[s].client)
  /\ Untouched

\* The reads of the contract, each a simulated transaction.
get_latest_proof(c) == IF chain[c] = << >> THEN None ELSE Last(chain[c])

\* The path leads to the root of its own proof and of no other.
verify_inclusion(c, id, proof) ==
  IF id \notin DOMAIN chain[c] THEN "error"
  ELSE IF chain[c][id] = proof THEN "included" ELSE "excluded"

readLatest(s) ==
  /\ At(s, "read") /\ call[s].kind # "inclusion"
  /\ LET proof == get_latest_proof(call[s].client.contract) IN
     IF proof = None THEN Done(s, Caught(call[s].kind, "error"))
     ELSE call' = [call EXCEPT ![s].at = "done", ![s].proof = proof,
                     ![s].out = IF call[s].kind = "oracle" THEN "solvent" ELSE "proof"]
  /\ Untouched /\ UNCHANGED sdk

readInclusion(s) ==
  /\ At(s, "read") /\ call[s].kind = "inclusion"
  /\ LET t == call[s].org
         i == call[s].row
     IN Done(s, verify_inclusion(call[s].client.contract, InclusionId(t, i), rows[t][i].proof))
  /\ Untouched /\ UNCHANGED sdk

\* A request of the call fails.  Before the oracle's chain read, it throws.
requestFails(s) ==
  /\ call[s].at \in {"latest", "ref", "resolve", "read"}
  /\ At(s, "resolve") => Known(call[s]) = Unresolved
  /\ Done(s, IF At(s, "latest") THEN "failed" ELSE Caught(call[s].kind, "failed"))
  /\ Untouched /\ UNCHANGED sdk
-----------------------------------------------------------------------------
\* Bound: the orchestrator goes on while a reader may still ask or is waiting.
Observed == asked < MaxCalls \/ \E s \in Slot : call[s].at # "done"

OrchestratorStep(t) ==
  \/ SetTenantContract(t) \/ CycleResolves(t) \/ CyclePublishes(t) \/ CycleSaves(t) \/ CycleFails(t)

CallStep(s) ==
  \/ getLatestProof(s) \/ getInclusionRef(s) \/ resolveKnown(s) \/ getTenantContract(s)
  \/ resolved(s) \/ readLatest(s) \/ readInclusion(s) \/ requestFails(s)

ReadersNext ==
  \/ \E t \in Org : Observed /\ OrchestratorStep(t)
  \/ \E s \in Slot, kind \in Kind, t \in Org, deps \in {"chain", "embedder"}, i \in 0..MaxProofs :
       ask(s, kind, t, deps, i)
  \/ \E s \in Slot : CallStep(s)

ReadersSpec == ReadersInit /\ [][ReadersNext]_readersVars
-----------------------------------------------------------------------------
ReadersTypeOK ==
  /\ contracts \in [Org -> Seq(Contract)]
  /\ chain \in [Contract -> Seq(OrgProof)]
  /\ rows \in [Org -> Seq(Row)]
  /\ cycle \in [Org -> Row \cup Unsaved \cup {None}]
  /\ sdk \in [Org -> Client]
  /\ call \in [Slot -> Call]
  /\ asked \in Nat
  /\ endpoint \in Contract \cup {None}

Ended(s) == call[s].kind # "none" /\ call[s].at = "done"

\* The settings of the call's reader name a contract that its institution never had.
Misdirected(s) == Endpoint(call[s].kind) \notin Range(contracts[call[s].org]) \cup {None}

\* A reader is told another institution's proof only if its settings name a contract that
\* is not its institution's: neither rotations nor a client that is kept lead it there,
\* and the route, which has no such setting, is never told one.
AnswersOwnInstitution ==
  \A s \in Slot : Ended(s) =>
    /\ call[s].reported # None => call[s].reported.org = call[s].org
    /\ call[s].proof # None =>
         call[s].proof.org = call[s].org \/ (Misdirected(s) /\ call[s].kind # "route")

\* An on-chain answer is at least as recent as the proofs saved when the call was made,
\* unless the contract it was read from had been replaced by then, and only a client that
\* is kept and one whose settings name the contract read such a one.
StaleOnlyIfRotated ==
  \A s \in Slot :
    Ended(s) /\ call[s].proof # None /\ ~Misdirected(s) /\ call[s].proof.no < call[s].since.no =>
      /\ Shared(call[s].kind) \/ Endpoint(call[s].kind) # None
      /\ \A k \in DOMAIN contracts[call[s].org] :
           contracts[call[s].org][k] = call[s].client.contract => k < call[s].since.rot

\* "Solvent" is backed: the proof the oracle reports was published for the institution,
\* and unless its contract was rotated or its settings misdirect it, the proof the chain
\* confirmed is that one or a later one, though a cycle may have run between the reads.
SolventIsBacked ==
  \A s \in Slot :
    Ended(s) /\ call[s].out = "solvent" =>
      /\ call[s].proof # None /\ call[s].reported \in ProofsOf(call[s].org)
      /\ rotations(call[s].org) = 1 /\ ~Misdirected(s) => call[s].proof.no >= call[s].reported.no

\* A customer's valid reference is denied only after its institution's contract was
\* rotated (the id of the reference then names another proof, or none) or where the
\* settings misdirect the client, and is confirmed only by a contract of the institution.
DeniedOnlyIfRotated ==
  \A s \in Slot : Ended(s) =>
    /\ call[s].out = "excluded" => rotations(call[s].org) > 1 \/ Misdirected(s)
    /\ call[s].out = "included" => call[s].client.contract \in Range(contracts[call[s].org])

\* The SDK, the website's route and the oracle, each reading the database and the chain
\* in several awaits, answer from a record their institution really has, or from the one
\* contract their settings name in its place.
AnswersAreOfTheRecord ==
  AnswersOwnInstitution /\ StaleOnlyIfRotated /\ SolventIsBacked /\ DeniedOnlyIfRotated

\* "Return whether an institution is solvent": when the requests go through, get_solvency
\* answers for an institution that had a proof saved.
OracleAnswersIfSaved ==
  \A s \in Slot :
    Ended(s) /\ call[s].kind = "oracle" /\ call[s].since.no > 0 => call[s].out # "error"
=============================================================================
