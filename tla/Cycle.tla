------------------------------- MODULE Cycle -------------------------------
(***************************************************************************)
(* The proof cycle of the orchestrator                                     *)
(* (services/orchestrator/internal/usecase/cycle.go, Cycle.Run), with the  *)
(* stores it works on: the Redis lock and cache (internal/repo/redis.go),  *)
(* the Postgres tables (internal/repo/postgres.go) and, through module     *)
(* Publisher, the tenants' registries on Stellar.                          *)
(*                                                                         *)
(* Every member of Call is one invocation of Run for a tenant under a      *)
(* request key; invocations come from HTTP handlers and from schedulers,   *)
(* in one process or several, and interleave at every store access.  A     *)
(* store access either is answered, or fails having taken effect or not.   *)
(***************************************************************************)
EXTENDS Publisher

CONSTANTS
  Tenant,
  Key,            \* request keys
  OwnerOf,        \* the tenant each contract was deployed for
  NoRun,          \* the value of a lock nobody holds
  StoreFaults,    \* whether Redis, Postgres, source or prover calls may fail
  Crashes,        \* whether the process of a run may die
  OutlivesLock,   \* whether a run may take longer than cycleLockTTL
  Rotations       \* whether an operator may move a tenant to a new contract

ASSUME CycleAssumption ==
  /\ OwnerOf \in [Contract -> Tenant]
  /\ NoRun \notin Call
  /\ \A b \in {StoreFaults, Crashes, OutlivesLock, Rotations} : b \in BOOLEAN

VARIABLES
  pc,             \* where each run is
  tenant, key,    \* its arguments
  reserves,       \* the total of the snapshot it fetched
  liabilities,    \* the total of the liabilities it loaded
  prev,           \* the previous total it declares
  outcome,        \* what it returned
  lock,           \* Redis: solva:cyclelock:<tenant>.  The stored value is "1";
                  \* the run that set it is kept as history
  latest,         \* Redis: solva:latest:<tenant>, 0 when unset
  claims,         \* Postgres: cycle_runs
  rows,           \* Postgres: proofs (and merkle_trees) in insertion order
  contractOf,     \* Postgres: tenants.contract_id
  audit           \* Postgres: audit_log

runVars   == <<pc, tenant, key, reserves, liabilities, prev, outcome>>
storeVars == <<lock, latest, claims, rows, contractOf, audit>>
args      == <<tenant, key>>
vars      == <<pubVars, runVars, storeVars>>

Row   == [id: Nat, r: Nat, l: Nat, contract: Contract, call: Call]
Audit == [event: {"reserve_snapshot", "proof_cycle"}, call: Call]

\* The steps of Run between taking the lock and having released it.
InCycle == {"claim", "fetch", "snapshot", "liabilities", "previous", "prove",
            "resolve", "publish", "save", "cache", "audit", "release"}

RunTypeOK ==
  /\ pc \in [Call -> {"idle", "acquire", "done"} \cup InCycle]
  /\ tenant \in [Call -> Tenant] /\ key \in [Call -> Key]
  /\ reserves \in [Call -> Nat] /\ liabilities \in [Call -> Nat]
  /\ prev \in [Call -> Nat]
  /\ outcome \in [Call -> {"none", "ok", "in_progress", "duplicate",
                           "insolvent", "failed", "crashed"}]
  /\ lock \in [Tenant -> Call \cup {NoRun}]
  /\ latest \in [Tenant -> Nat]
  /\ claims \subseteq Tenant \X Key
  /\ rows \in [Tenant -> Seq(Row)]
  /\ contractOf \in [Tenant -> Contract \cup {NoContract}]
  /\ audit \subseteq Audit

TypeOK == PubTypeOK /\ RunTypeOK

\* Every run's arguments are fixed from the start; no tenant is provisioned yet.
Init ==
  /\ PubInit
  /\ pc = [c \in Call |-> "idle"]
  /\ tenant \in [Call -> Tenant] /\ key \in [Call -> Key]
  /\ reserves = [c \in Call |-> 0] /\ liabilities = [c \in Call |-> 0]
  /\ prev = [c \in Call |-> 0]
  /\ outcome = [c \in Call |-> "none"]
  /\ lock = [t \in Tenant |-> NoRun]
  /\ latest = [t \in Tenant |-> 0]
  /\ claims = {}
  /\ rows = [t \in Tenant |-> << >>]
  /\ contractOf = [t \in Tenant |-> NoContract]
  /\ audit = {}
-----------------------------------------------------------------------------
(* Control flow of Run.                                                    *)

Goto(c, label) == pc' = [pc EXCEPT ![c] = label] /\ outcome' = outcome

\* return err once the deferred ReleaseCycleLock is registered.
Return(c, e) ==
  /\ pc' = [pc EXCEPT ![c] = "release"]
  /\ outcome' = [outcome EXCEPT ![c] = e]

\* return err before it is registered.
ReturnUnlocked(c, e) ==
  /\ pc' = [pc EXCEPT ![c] = "done"]
  /\ outcome' = [outcome EXCEPT ![c] = e]

At(c, label) == pc[c] = label
Answered(c)  == ~cancelled[c]
Failing(c)   == StoreFaults \/ cancelled[c]

LatestReserves_liabilities(t) == IF rows[t] = << >> THEN 0 ELSE rows[t][Len(rows[t])].l
LatestReserves_sentinel(t) == IF rows[t] = << >> THEN -1 ELSE rows[t][Len(rows[t])].r

\* isGenesisReserves over LatestReserves: the r of the newest row, "0" if none.
LatestReserves(t) == IF rows[t] = << >> THEN 0 ELSE rows[t][Len(rows[t])].r
isGenesisReserves(p) == p = 0

Trigger(c) ==
  /\ At(c, "idle")
  /\ Goto(c, "acquire")
  /\ UNCHANGED <<pubVars, args, reserves, liabilities, prev, storeVars>>

LockFree_ignored(t) == TRUE

\* SET NX sets the lock, or finds it taken.
LockFree(t) == lock[t] = NoRun

\* AcquireCycleLock.
Acquire(c) ==
  /\ At(c, "acquire") /\ Answered(c)
  /\ IF LockFree(tenant[c])
     THEN lock' = [lock EXCEPT ![tenant[c]] = c] /\ Goto(c, "claim")
     ELSE lock' = lock /\ ReturnUnlocked(c, "in_progress")
  /\ UNCHANGED <<pubVars, args, reserves, liabilities, prev,
                 latest, claims, rows, contractOf, audit>>

AcquireError(c) ==
  /\ At(c, "acquire") /\ Failing(c)
  /\ \/ lock' = lock
     \/ LockFree(tenant[c]) /\ lock' = [lock EXCEPT ![tenant[c]] = c]
  /\ ReturnUnlocked(c, "failed")
  /\ UNCHANGED <<pubVars, args, reserves, liabilities, prev,
                 latest, claims, rows, contractOf, audit>>

FirstClaim_overwrites(c) == TRUE

\* INSERT ... ON CONFLICT DO NOTHING RETURNING returns a row to the first claim.
FirstClaim(c) == <<tenant[c], key[c]>> \notin claims

\* ClaimCycle.
Claim(c) ==
  /\ At(c, "claim") /\ Answered(c)
  /\ IF FirstClaim(c)
     THEN Goto(c, "fetch") ELSE Return(c, "duplicate")
  /\ claims' = claims \cup {<<tenant[c], key[c]>>}
  /\ UNCHANGED <<pubVars, args, reserves, liabilities, prev,
                 lock, latest, rows, contractOf, audit>>

ClaimError(c) ==
  /\ At(c, "claim") /\ Failing(c)
  /\ claims' \in {claims, claims \cup {<<tenant[c], key[c]>>}}
  /\ Return(c, "failed")
  /\ UNCHANGED <<pubVars, args, reserves, liabilities, prev,
                 lock, latest, rows, contractOf, audit>>

\* sources.FetchSigned: whatever total the institution's accounts hold now.
Fetch(c) ==
  /\ At(c, "fetch") /\ Answered(c)
  /\ \E total \in Amount : reserves' = [reserves EXCEPT ![c] = total]
  /\ Goto(c, "snapshot")
  /\ UNCHANGED <<pubVars, args, liabilities, prev, storeVars>>

\* SaveSnapshot.
SaveSnapshot(c) ==
  /\ At(c, "snapshot") /\ Answered(c)
  /\ audit' = audit \cup {[event |-> "reserve_snapshot", call |-> c]}
  /\ Goto(c, "liabilities")
  /\ UNCHANGED <<pubVars, args, reserves, liabilities, prev,
                 lock, latest, claims, rows, contractOf>>

\* LoadLiabilities: whatever the liabilities table holds now.
LoadLiabilities(c) ==
  /\ At(c, "liabilities") /\ Answered(c)
  /\ \E total \in Amount : liabilities' = [liabilities EXCEPT ![c] = total]
  /\ Goto(c, "previous")
  /\ UNCHANGED <<pubVars, args, reserves, prev, storeVars>>

\* LatestReserves, and R_prev = R on a genesis cycle (sumReserves of the snapshot).
LoadPrevious(c) ==
  /\ At(c, "previous") /\ Answered(c)
  /\ LET p == LatestReserves(tenant[c]) IN
       prev' = [prev EXCEPT ![c] = IF isGenesisReserves(p) THEN reserves[c] ELSE p]
  /\ Goto(c, "prove")
  /\ UNCHANGED <<pubVars, args, reserves, liabilities, storeVars>>

\* The public inputs of the run's proof, for the contract k.
Inputs(c, k) ==
  [contract |-> k, reserves_total |-> reserves[c],
   liabilities_total |-> liabilities[c], prev_reserves |-> prev[c]]

\* prover.Prove: insolvent totals are refused before proving, and the circuit has
\* no witness for totals that break its other bounds.
Prove(c) ==
  /\ At(c, "prove") /\ Answered(c)
  /\ IF reserves[c] < liabilities[c] THEN Return(c, "insolvent")
     ELSE IF Circuit(Inputs(c, NoContract)) THEN Goto(c, "resolve")
     ELSE Return(c, "failed")
  /\ UNCHANGED <<pubVars, args, reserves, liabilities, prev, storeVars>>

\* ResolveTenantContract, then into PublishProof.
Resolve(c) ==
  /\ At(c, "resolve") /\ Answered(c)
  /\ LET k == contractOf[tenant[c]] IN
       IF k = NoContract
       THEN Return(c, "failed") /\ UNCHANGED pubVars
       ELSE Goto(c, "publish") /\ PublishProof(c, Inputs(c, k))
  /\ UNCHANGED <<args, reserves, liabilities, prev, storeVars>>

Publish(c) ==
  /\ At(c, "publish")
  /\ PublisherStep(c)
  /\ UNCHANGED <<runVars, storeVars>>

PublishReturns(c) ==
  /\ At(c, "publish")
  /\ stage[c] \in Terminal
  /\ IF stage[c] = "ok" THEN Goto(c, "save") ELSE Return(c, "failed")
  /\ UNCHANGED <<pubVars, args, reserves, liabilities, prev, storeVars>>

\* The row SaveProof inserts.  The table keeps neither the contract nor the run:
\* they are history.
RowOf_previous(c) == [id |-> returned[c], r |-> prev[c], l |-> liabilities[c],
                      contract |-> request[c].contract, call |-> c]
RowOf(c) == [id |-> returned[c], r |-> reserves[c], l |-> liabilities[c],
             contract |-> request[c].contract, call |-> c]
Inserted_first(c) == [rows EXCEPT ![tenant[c]] = <<RowOf(c)>> \o @]
Inserted(c) == [rows EXCEPT ![tenant[c]] = Append(@, RowOf(c))]

\* SaveProof: the proofs and merkle_trees rows, in one transaction.
SaveProof(c) ==
  /\ At(c, "save") /\ Answered(c)
  /\ rows' = Inserted(c)
  /\ Goto(c, "cache")
  /\ UNCHANGED <<pubVars, args, reserves, liabilities, prev,
                 lock, latest, claims, contractOf, audit>>

SaveError_ignored(c) ==
  /\ At(c, "save") /\ Failing(c)
  /\ rows' \in {rows, Inserted(c)}
  /\ Goto(c, "cache")
  /\ UNCHANGED <<pubVars, args, reserves, liabilities, prev,
                 lock, latest, claims, contractOf, audit>>

SaveError(c) ==
  /\ At(c, "save") /\ Failing(c)
  /\ rows' \in {rows, Inserted(c)}
  /\ Return(c, "failed")
  /\ UNCHANGED <<pubVars, args, reserves, liabilities, prev,
                 lock, latest, claims, contractOf, audit>>

\* SetLatest.
SetLatest(c) ==
  /\ At(c, "cache") /\ Answered(c)
  /\ latest' = [latest EXCEPT ![tenant[c]] = returned[c]]
  /\ Goto(c, "audit")
  /\ UNCHANGED <<pubVars, args, reserves, liabilities, prev,
                 lock, claims, rows, contractOf, audit>>

SetLatestError(c) ==
  /\ At(c, "cache") /\ Failing(c)
  /\ latest' \in {latest, [latest EXCEPT ![tenant[c]] = returned[c]]}
  /\ Return(c, "failed")
  /\ UNCHANGED <<pubVars, args, reserves, liabilities, prev,
                 lock, claims, rows, contractOf, audit>>

\* AppendAudit, then return nil.
AppendAudit(c) ==
  /\ At(c, "audit") /\ Answered(c)
  /\ audit' = audit \cup {[event |-> "proof_cycle", call |-> c]}
  /\ Return(c, "ok")
  /\ UNCHANGED <<pubVars, args, reserves, liabilities, prev,
                 lock, latest, claims, rows, contractOf>>

AuditError(c) ==
  /\ \/ At(c, "audit") /\ audit' \in {audit, audit \cup {[event |-> "proof_cycle", call |-> c]}}
     \/ At(c, "snapshot") /\ audit' \in {audit, audit \cup {[event |-> "reserve_snapshot", call |-> c]}}
  /\ Failing(c)
  /\ Return(c, "failed")
  /\ UNCHANGED <<pubVars, args, reserves, liabilities, prev,
                 lock, latest, claims, rows, contractOf>>

\* A read, the reserve source or the prover fails: nothing was written.
ReadError(c) ==
  /\ pc[c] \in {"fetch", "liabilities", "previous", "prove", "resolve"}
  /\ Failing(c)
  /\ Return(c, "failed")
  /\ UNCHANGED <<pubVars, args, reserves, liabilities, prev, storeVars>>

\* The deferred ReleaseCycleLock: a plain DEL on the run's own context, whoever
\* holds the lock by now.
Release(c) ==
  /\ At(c, "release") /\ Answered(c)
  /\ lock' = [lock EXCEPT ![tenant[c]] = NoRun]
  /\ Goto(c, "done")
  /\ UNCHANGED <<pubVars, args, reserves, liabilities, prev,
                 latest, claims, rows, contractOf, audit>>

\* The release fails and is only logged.
ReleaseError(c) ==
  /\ At(c, "release") /\ Failing(c)
  /\ lock' \in {lock, [lock EXCEPT ![tenant[c]] = NoRun]}
  /\ Goto(c, "done")
  /\ UNCHANGED <<pubVars, args, reserves, liabilities, prev,
                 latest, claims, rows, contractOf, audit>>

Step(c) ==
  \/ Acquire(c) \/ AcquireError(c) \/ Claim(c) \/ ClaimError(c)
  \/ Fetch(c) \/ SaveSnapshot(c) \/ LoadLiabilities(c) \/ LoadPrevious(c)
  \/ Prove(c) \/ Resolve(c) \/ ReadError(c)
  \/ Publish(c) \/ PublishReturns(c)
  \/ SaveProof(c) \/ SaveError(c) \/ SetLatest(c) \/ SetLatestError(c)
  \/ AppendAudit(c) \/ AuditError(c) \/ Release(c) \/ ReleaseError(c)
-----------------------------------------------------------------------------
(* Around Run.                                                             *)

\* The request's client goes away, or the process is told to stop.
ContextDone(c) ==
  /\ Cancels
  /\ pc[c] \in {"acquire"} \cup InCycle
  /\ ~cancelled[c]
  /\ cancelled' = [cancelled EXCEPT ![c] = TRUE]
  /\ UNCHANGED <<ledgerVars, stage, request, attempt, loaded, polled, returned,
                 runVars, storeVars>>

\* The process dies; nothing deferred runs.
Crash(c) ==
  /\ Crashes
  /\ pc[c] \in {"acquire"} \cup InCycle
  /\ ReturnUnlocked(c, "crashed")
  /\ UNCHANGED <<pubVars, args, reserves, liabilities, prev, storeVars>>

\* Redis drops the lock cycleLockTTL after it was set.
LockExpires(t) ==
  /\ lock[t] # NoRun
  /\ OutlivesLock \/ pc[lock[t]] = "done"
  /\ lock' = [lock EXCEPT ![t] = NoRun]
  /\ UNCHANGED <<pubVars, runVars, latest, claims, rows, contractOf, audit>>

\* PUT /v1/tenants/{id}/contract.
SetTenantContract(t, k) ==
  /\ OwnerOf[k] = t
  /\ contractOf[t] # k
  /\ Rotations \/ contractOf[t] = NoContract
  /\ contractOf' = [contractOf EXCEPT ![t] = k]
  /\ UNCHANGED <<pubVars, runVars, lock, latest, claims, rows, audit>>

NetworkStep == Network /\ UNCHANGED <<runVars, storeVars>>

Next ==
  \/ \E c \in Call : Trigger(c) \/ Step(c) \/ ContextDone(c) \/ Crash(c)
  \/ \E t \in Tenant : LockExpires(t) \/ \E k \in Contract : SetTenantContract(t, k)
  \/ NetworkStep

Spec == Init /\ [][Next]_vars

\* A run whose process lives goes on: every store, source, prover and RPC client
\* answers or fails in the end, and ledgers go on closing.
FairSpec ==
  /\ Spec
  /\ \A c \in Call : WF_vars(Step(c))
  /\ WF_vars(NetworkStep)
-----------------------------------------------------------------------------
(* Properties.                                                             *)

\* Layer 1 of Run: the lock stops two cycles of a tenant running at once.
OneCycleAtATime ==
  \A c, d \in Call :
    pc[c] \in InCycle /\ pc[d] \in InCycle /\ tenant[c] = tenant[d] => c = d

\* Layer 2: two runs under one request key never both publish, even when the
\* first lost its lock, was cancelled or died half way.
KeyPublishesForOneRun ==
  \A c, d \in Call :
    /\ tenant[c] = tenant[d] /\ key[c] = key[d]
    /\ Published(c) # {} /\ Published(d) # {}
    => c = d

\* Every row of the proofs table is a proof that stands on the contract the run
\* published to, with the same id and totals.
RowsAreOnChain ==
  \A t \in Tenant : \A i \in DOMAIN rows[t] :
    LET row == rows[t][i] IN
      /\ row.id \in DOMAIN chain[row.contract]
      /\ chain[row.contract][row.id] = [r |-> row.r, l |-> row.l, call |-> row.call]

\* Rows are inserted in the order of the chain, so the newest row by timestamp,
\* which GetLatestProof and LatestReserves take, is the highest proof id saved.
RowsInChainOrder ==
  \A t \in Tenant : \A i, j \in DOMAIN rows[t] :
    i < j /\ rows[t][i].contract = rows[t][j].contract
      => rows[t][i].id < rows[t][j].id

\* What the cache points at and what the audit log reports as completed has been
\* saved: a failure half way never leaves them ahead of the proofs table.
EvidenceIsSaved ==
  /\ \A t \in Tenant : latest[t] # 0 =>
       \E i \in DOMAIN rows[t] : rows[t][i].id = latest[t]
  /\ \A a \in audit : a.event = "proof_cycle" =>
       \E i \in DOMAIN rows[tenant[a.call]] : rows[tenant[a.call]][i].call = a.call

\* The previous total a run is about to publish with is the one its tenant's
\* contract expects: "every later cycle bounds against the real previous total".
BaselineMatches(c) ==
  LET k == contractOf[tenant[c]] IN
    k # NoContract =>
      enforce_growth_baseline(Len(chain[k]), ChainReserves(k), prev[c], reserves[c])

BaselineMatchesContract == \A c \in Call : At(c, "resolve") => BaselineMatches(c)

\* The proofs on a tenant's contract that no row of its records.
Unsaved(t) ==
  {id \in DOMAIN chain[contractOf[t]] :
     \A i \in DOMAIN rows[t] :
       ~(rows[t][i].contract = contractOf[t] /\ rows[t][i].id = id)}

\* As long as the lock holds, three things and no others make a run declare a
\* previous total that its contract refuses: a proof that was published and not
\* saved, a row of a contract the tenant has left, and a total of zero.
BaselineFailsOnlyIf ==
  \A c \in Call : At(c, "resolve") /\ ~BaselineMatches(c) =>
    \/ Unsaved(tenant[c]) # {}
    \/ \E i \in DOMAIN rows[tenant[c]] :
         \/ rows[tenant[c]][i].contract # contractOf[tenant[c]]
         \/ rows[tenant[c]][i].r = 0

\* Every triggered cycle returns.
EveryCycleReturns ==
  \A c \in Call : At(c, "acquire") ~> At(c, "done")
-----------------------------------------------------------------------------
(* The inductive invariants of module CycleProofs.                         *)

\* A run in its cycle holds its tenant's lock.
HoldsLock == \A c \in Call : pc[c] \in InCycle => lock[tenant[c]] = c

\* A run that got past its claim has its key in cycle_runs, and is alone with it.
PastClaim(c) ==
  \/ stage[c] # "idle"
  \/ pc[c] \in {"fetch", "snapshot", "liabilities", "previous", "prove", "resolve"}

ClaimsHeld ==
  /\ \A c \in Call : PastClaim(c) => <<tenant[c], key[c]>> \in claims
  /\ \A c, d \in Call : /\ PastClaim(c) /\ PastClaim(d)
                        /\ tenant[c] = tenant[d] /\ key[c] = key[d]
                        => c = d

\* What a run is about to save is what it published.
SavesOwn(c) ==
  /\ pc[c] \in {"publish", "save", "cache", "audit"} =>
       /\ request[c].reserves_total = reserves[c]
       /\ request[c].liabilities_total = liabilities[c]
  /\ pc[c] \in {"save", "cache", "audit"} => stage[c] = "ok"
  /\ pc[c] \in {"cache", "audit"} =>
       \E i \in DOMAIN rows[tenant[c]] : rows[tenant[c]][i] = RowOf(c)

SavesWhatItPublished == \A c \in Call : SavesOwn(c)

\* The proofs a run publishes come after every proof its tenant has saved.
PublishesAfterRows ==
  \A c \in Call : pc[c] \in {"publish", "save"} =>
    \A i \in DOMAIN rows[tenant[c]], n \in Published(c) :
      rows[tenant[c]][i].contract = request[c].contract
        => rows[tenant[c]][i].id < n
=============================================================================
