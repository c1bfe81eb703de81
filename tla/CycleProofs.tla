---------------------------- MODULE CycleProofs ----------------------------
(***************************************************************************)
(* Theorems about the proof cycle, for every number of tenants, runs,      *)
(* request keys and contracts, and for every fault the model admits.       *)
(***************************************************************************)
EXTENDS Cycle, PublisherProofs

\* Run never changes its arguments.
LEMMA ArgsFixed == [Next]_vars => UNCHANGED <<tenant, key>>
  <1> USE DEF vars, runVars, storeVars, args
  <1> QED
    BY DEF Next, Trigger, Step, Acquire, AcquireError, Claim, ClaimError, Fetch,
      SaveSnapshot, LoadLiabilities, LoadPrevious, Prove, Resolve, ReadError,
      Publish, PublishReturns, SaveProof, SaveError, SetLatest, SetLatestError,
      AppendAudit, AuditError, Release, ReleaseError, ContextDone, Crash,
      LockExpires, SetTenantContract, NetworkStep
-----------------------------------------------------------------------------
(* Layer 1: the lock.                                                      *)

LockTypeOK ==
  /\ pc \in [Call -> {"idle", "acquire", "done"} \cup InCycle]
  /\ tenant \in [Call -> Tenant]
  /\ lock \in [Tenant -> Call \cup {NoRun}]

\* Inside the cycle a run only moves on or to its release, and nobody else's step
\* moves it.
LEMMA InnerSteps ==
  ASSUME LockTypeOK, NEW c \in Call, Step(c),
         ~Acquire(c), ~AcquireError(c), ~Release(c), ~ReleaseError(c)
  PROVE  /\ UNCHANGED <<lock, tenant>>
         /\ pc[c] \in InCycle
         /\ \E x \in InCycle : pc' = [pc EXCEPT ![c] = x]
  <1> USE DEF LockTypeOK, InCycle, At, Goto, Return, runVars, storeVars, args
  <1>1. CASE Claim(c) \/ ClaimError(c)
    BY <1>1 DEF Claim, ClaimError
  <1>2. CASE Fetch(c) \/ SaveSnapshot(c) \/ LoadLiabilities(c) \/ LoadPrevious(c)
    BY <1>2 DEF Fetch, SaveSnapshot, LoadLiabilities, LoadPrevious
  <1>3. CASE Prove(c)
    BY <1>3 DEF Prove
  <1>4. CASE Resolve(c)
    BY <1>4 DEF Resolve
  <1>5. CASE ReadError(c)
    BY <1>5 DEF ReadError
  <1>6. CASE Publish(c)
    <2>1. pc' = pc /\ pc = [pc EXCEPT ![c] = pc[c]]
      BY <1>6 DEF Publish
    <2> QED
      BY <1>6, <2>1 DEF Publish
  <1>7. CASE PublishReturns(c)
    BY <1>7 DEF PublishReturns
  <1>8. CASE SaveProof(c) \/ SaveError(c)
    BY <1>8 DEF SaveProof, SaveError
  <1>9. CASE SetLatest(c) \/ SetLatestError(c)
    BY <1>9 DEF SetLatest, SetLatestError
  <1>10. CASE AppendAudit(c) \/ AuditError(c)
    BY <1>10 DEF AppendAudit, AuditError
  <1> QED
    BY <1>1, <1>2, <1>3, <1>4, <1>5, <1>6, <1>7, <1>8, <1>9, <1>10 DEF Step

\* While no run outlives the lock's expiry, holding the lock is inductive.
LEMMA LockStep ==
  ASSUME ~OutlivesLock, LockTypeOK, HoldsLock, [Next]_vars
  PROVE  LockTypeOK' /\ HoldsLock'
  <1> USE CycleAssumption DEF InCycle, At, Goto, Return, ReturnUnlocked
  <1>1. ASSUME NEW c \in Call, Trigger(c) PROVE LockTypeOK' /\ HoldsLock'
    BY <1>1 DEF Trigger, LockTypeOK, HoldsLock, storeVars, args
  <1>2. ASSUME NEW c \in Call, Acquire(c) \/ AcquireError(c)
        PROVE  LockTypeOK' /\ HoldsLock'
    BY <1>2 DEF Acquire, AcquireError, LockFree, LockTypeOK, HoldsLock, args
  <1>3. ASSUME NEW c \in Call, Release(c) \/ ReleaseError(c)
        PROVE  LockTypeOK' /\ HoldsLock'
    BY <1>3 DEF Release, ReleaseError, LockTypeOK, HoldsLock, args
  <1>4. ASSUME NEW c \in Call, Step(c),
               ~Acquire(c), ~AcquireError(c), ~Release(c), ~ReleaseError(c)
        PROVE  LockTypeOK' /\ HoldsLock'
    <2>1. UNCHANGED <<lock, tenant>> /\ pc[c] \in InCycle
      BY <1>4, InnerSteps
    <2>2. PICK x \in InCycle : pc' = [pc EXCEPT ![c] = x]
      BY <1>4, InnerSteps
    <2> QED
      BY <2>1, <2>2 DEF LockTypeOK, HoldsLock
  <1>5. ASSUME NEW c \in Call, ContextDone(c) PROVE LockTypeOK' /\ HoldsLock'
    BY <1>5 DEF ContextDone, LockTypeOK, HoldsLock, runVars, storeVars
  <1>6. ASSUME NEW c \in Call, Crash(c) PROVE LockTypeOK' /\ HoldsLock'
    BY <1>6 DEF Crash, LockTypeOK, HoldsLock, storeVars, args
  <1>7. ASSUME NEW t \in Tenant, LockExpires(t) PROVE LockTypeOK' /\ HoldsLock'
    BY <1>7 DEF LockExpires, LockTypeOK, HoldsLock, runVars
  <1>8. ASSUME NEW t \in Tenant, NEW k \in Contract, SetTenantContract(t, k)
        PROVE  LockTypeOK' /\ HoldsLock'
    BY <1>8 DEF SetTenantContract, LockTypeOK, HoldsLock, runVars
  <1>9. CASE NetworkStep
    BY <1>9 DEF NetworkStep, LockTypeOK, HoldsLock, runVars, storeVars
  <1>10. CASE UNCHANGED vars
    BY <1>10 DEF vars, LockTypeOK, HoldsLock, runVars, storeVars
  <1> QED
    BY <1>1, <1>2, <1>3, <1>4, <1>5, <1>6, <1>7, <1>8, <1>9, <1>10 DEF Next

LEMMA LockInitial == Init => LockTypeOK /\ HoldsLock
  BY DEF Init, LockTypeOK, HoldsLock, InCycle

LEMMA LockInductive == ASSUME ~OutlivesLock PROVE Spec => [](LockTypeOK /\ HoldsLock)
  <1>1. (LockTypeOK /\ HoldsLock) /\ [Next]_vars => (LockTypeOK /\ HoldsLock)'
    BY LockStep
  <1> QED
    BY <1>1, LockInitial, PTL DEF Spec

\* If no run takes longer than cycleLockTTL, the per-tenant lock of Run keeps two
\* cycles of a tenant from running at once, whatever fails, dies or is cancelled.
THEOREM LockExcludes == ASSUME ~OutlivesLock PROVE Spec => []OneCycleAtATime
  <1>1. LockTypeOK /\ HoldsLock => OneCycleAtATime
    BY DEF HoldsLock, OneCycleAtATime
  <1> QED
    BY <1>1, LockInductive, PTL
-----------------------------------------------------------------------------
(* The publisher inside the cycle.                                         *)

\* The Go types of Run's variables and of the tables, with the publisher's.
DataOK == LedgerInv /\ RunTypeOK

\* Every step of the composed system is one of the steps the publisher's
\* invariants were proved for.
LEMMA CycleSteps == DataOK /\ [Next]_vars => AnyStep
  <1> SUFFICES ASSUME DataOK, [Next]_vars PROVE AnyStep
    OBVIOUS
  <1>1. ASSUME NEW c \in Call, Resolve(c) PROVE AnyStep
    <2> DEFINE k == contractOf[tenant[c]]
    <2>1. CASE k = NoContract
      BY <1>1, <2>1 DEF Resolve, AnyStep
    <2>2. CASE k # NoContract
      <3>1. PublishProof(c, Inputs(c, k))
        BY <1>1, <2>2 DEF Resolve
      <3>2. k \in Contract
        BY <2>2 DEF DataOK, RunTypeOK
      <3>3. Inputs(c, k) \in Request /\ Inputs(c, k).contract \in Contract
        BY <3>2 DEF Inputs, Request, DataOK, RunTypeOK
      <3> QED
        BY <3>1, <3>3 DEF AnyStep
    <2> QED
      BY <2>1, <2>2
  <1>2. ASSUME NEW c \in Call, Publish(c) PROVE AnyStep
    BY <1>2 DEF Publish, AnyStep
  <1>3. ASSUME NEW c \in Call, ContextDone(c) PROVE AnyStep
    BY <1>3 DEF ContextDone, AnyStep, OnlyCancels
  <1>4. CASE NetworkStep
    BY <1>4 DEF NetworkStep, AnyStep
  <1>5. CASE UNCHANGED vars
    BY <1>5 DEF vars, AnyStep
  <1>6. CASE \E c \in Call : \/ Trigger(c) \/ Crash(c)
                             \/ Step(c) /\ ~Resolve(c) /\ ~Publish(c)
    <2>1. UNCHANGED pubVars
      BY <1>6 DEF Trigger, Crash, Step, Acquire, AcquireError, Claim, ClaimError,
        Fetch, SaveSnapshot, LoadLiabilities, LoadPrevious, Prove, ReadError,
        PublishReturns, SaveProof, SaveError, SetLatest, SetLatestError,
        AppendAudit, AuditError, Release, ReleaseError
    <2> QED
      BY <2>1 DEF AnyStep
  <1>7. CASE \E t \in Tenant : LockExpires(t) \/ \E k \in Contract : SetTenantContract(t, k)
    BY <1>7 DEF LockExpires, SetTenantContract, AnyStep
  <1> QED
    BY <1>1, <1>2, <1>3, <1>4, <1>5, <1>6, <1>7 DEF Next

\* A call leaves "idle" only from Run's resolve step and never returns to it; its
\* request is fixed from then on, and so is what it returned once it succeeded.
LEMMA CallHistory ==
  ASSUME DataOK, [Next]_vars, NEW d \in Call
  PROVE  /\ stage[d] # "idle" => stage'[d] # "idle"
         /\ stage[d] # "idle" \/ pc[d] # "resolve" => request'[d] = request[d]
         /\ stage[d] = "idle" /\ stage'[d] # "idle" => pc[d] = "resolve"
         /\ stage[d] = "ok" => stage'[d] = "ok" /\ returned'[d] = returned[d]
  <1> DEFINE Goal == /\ stage[d] # "idle" => stage'[d] # "idle"
                     /\ stage[d] # "idle" \/ pc[d] # "resolve" => request'[d] = request[d]
                     /\ stage[d] = "idle" /\ stage'[d] # "idle" => pc[d] = "resolve"
                     /\ stage[d] = "ok" => stage'[d] = "ok" /\ returned'[d] = returned[d]
  <1> SUFFICES Goal
    OBVIOUS
  <1>0. PubTypeOK
    BY DEF DataOK, LedgerInv
  <1>1. ASSUME UNCHANGED <<stage, request, returned>> PROVE Goal
    BY <1>1
  <1>2. ASSUME NEW c \in Call, Resolve(c) PROVE Goal
    <2>1. CASE UNCHANGED pubVars
      BY <1>1, <2>1 DEF pubVars
    <2>2. CASE PublishProof(c, Inputs(c, contractOf[tenant[c]]))
      BY <1>0, <1>2, <2>2 DEF PublishProof, PubTypeOK, Resolve, At
    <2> QED
      BY <1>2, <2>1, <2>2 DEF Resolve
  <1>3. ASSUME NEW c \in Call, Publish(c) PROVE Goal
    <2>1. CASE PollResult(c)
      BY <1>0, <2>1 DEF PollResult, PubTypeOK
    <2>2. CASE ~PollResult(c)
      <3>1. PublisherStep(c)
        BY <1>3 DEF Publish
      <3>2. PICK x \in (Active \cup Terminal) \ {"ok"} : stage' = [stage EXCEPT ![c] = x]
        BY <1>0, <2>2, <3>1, QuietStep
      <3>3. UNCHANGED <<request, returned>> /\ stage[c] \in Active /\ x # "idle"
        BY <1>0, <2>2, <3>1, QuietStep DEF Active, Terminal
      <3> QED
        BY <1>0, <3>2, <3>3 DEF PubTypeOK, Active
    <2> QED
      BY <2>1, <2>2
  <1>4. ASSUME NEW c \in Call, ContextDone(c) PROVE Goal
    BY <1>1, <1>4 DEF ContextDone
  <1>5. CASE NetworkStep
    BY <1>1, <1>5 DEF NetworkStep, Network, Apply, Expire, callVars
  <1>6. CASE UNCHANGED vars
    BY <1>1, <1>6 DEF vars, pubVars
  <1>7. CASE \E c \in Call : \/ Trigger(c) \/ Crash(c)
                             \/ Step(c) /\ ~Resolve(c) /\ ~Publish(c)
    <2>1. UNCHANGED pubVars
      BY <1>7 DEF Trigger, Crash, Step, Acquire, AcquireError, Claim, ClaimError,
        Fetch, SaveSnapshot, LoadLiabilities, LoadPrevious, Prove, ReadError,
        PublishReturns, SaveProof, SaveError, SetLatest, SetLatestError,
        AppendAudit, AuditError, Release, ReleaseError
    <2> QED
      BY <1>1, <2>1 DEF pubVars
  <1>8. CASE \E t \in Tenant : LockExpires(t) \/ \E k \in Contract : SetTenantContract(t, k)
    BY <1>1, <1>8 DEF LockExpires, SetTenantContract, pubVars
  <1> QED
    BY <1>2, <1>3, <1>4, <1>5, <1>6, <1>7, <1>8 DEF Next
-----------------------------------------------------------------------------
(* What a run saves.                                                       *)

\* The types of Run's variables and of the tables are kept.
LEMMA TypeStep ==
  ASSUME DataOK, SavesWhatItPublished, [Next]_vars
  PROVE  RunTypeOK'
  <1> USE CycleAssumption, PublisherAssumption
      DEF InCycle, At, Goto, Return, ReturnUnlocked, runVars, storeVars, args
  <1>0. RunTypeOK /\ PubTypeOK
    BY DEF DataOK, LedgerInv
  <1>1. ASSUME NEW c \in Call, Trigger(c) \/ Crash(c) \/ ReadError(c) PROVE RunTypeOK'
    BY <1>0, <1>1 DEF Trigger, Crash, ReadError, RunTypeOK
  <1>2. ASSUME NEW c \in Call, Acquire(c) \/ AcquireError(c) PROVE RunTypeOK'
    <2>1. /\ pc' \in [Call -> {"idle", "acquire", "done"} \cup InCycle]
          /\ outcome' \in [Call -> {"none", "ok", "in_progress", "duplicate",
                                   "insolvent", "failed", "crashed"}]
      BY <1>0, <1>2 DEF Acquire, AcquireError, RunTypeOK
    <2>2. lock' \in [Tenant -> Call \cup {NoRun}]
      <3>1. lock' = lock \/ lock' = [lock EXCEPT ![tenant[c]] = c]
        BY <1>2 DEF Acquire, AcquireError
      <3> QED
        BY <1>0, <3>1 DEF RunTypeOK
    <2>3. UNCHANGED <<tenant, key, reserves, liabilities, prev, latest, claims, rows, contractOf, audit>>
      BY <1>2 DEF Acquire, AcquireError
    <2> QED
      BY <1>0, <2>1, <2>2, <2>3 DEF RunTypeOK
  <1>3. ASSUME NEW c \in Call, Claim(c) \/ ClaimError(c) PROVE RunTypeOK'
    <2>1. /\ pc' \in [Call -> {"idle", "acquire", "done"} \cup InCycle]
          /\ outcome' \in [Call -> {"none", "ok", "in_progress", "duplicate",
                                   "insolvent", "failed", "crashed"}]
      BY <1>0, <1>3 DEF Claim, ClaimError, RunTypeOK
    <2>2. claims' \subseteq Tenant \X Key
      BY <1>0, <1>3 DEF Claim, ClaimError, RunTypeOK
    <2>3. UNCHANGED <<tenant, key, reserves, liabilities, prev, lock, latest, rows, contractOf, audit>>
      BY <1>3 DEF Claim, ClaimError
    <2> QED
      BY <1>0, <2>1, <2>2, <2>3 DEF RunTypeOK
  <1>4. ASSUME NEW c \in Call, Fetch(c) \/ LoadLiabilities(c) PROVE RunTypeOK'
    <2>1. CASE Fetch(c)
      <3>1. reserves' \in [Call -> Nat]
        BY <1>0, <2>1 DEF Fetch, RunTypeOK
      <3> QED
        BY <1>0, <2>1, <3>1 DEF Fetch, RunTypeOK
    <2>2. CASE LoadLiabilities(c)
      <3>1. liabilities' \in [Call -> Nat]
        BY <1>0, <2>2 DEF LoadLiabilities, RunTypeOK
      <3> QED
        BY <1>0, <2>2, <3>1 DEF LoadLiabilities, RunTypeOK
    <2> QED
      BY <1>4, <2>1, <2>2
  <1>5. ASSUME NEW c \in Call, SaveSnapshot(c) \/ AppendAudit(c) \/ AuditError(c)
        PROVE  RunTypeOK'
    <2>1. /\ pc' \in [Call -> {"idle", "acquire", "done"} \cup InCycle]
          /\ outcome' \in [Call -> {"none", "ok", "in_progress", "duplicate",
                                   "insolvent", "failed", "crashed"}]
      BY <1>0, <1>5 DEF SaveSnapshot, AppendAudit, AuditError, RunTypeOK
    <2>2. audit' \subseteq Audit
      BY <1>0, <1>5 DEF SaveSnapshot, AppendAudit, AuditError, RunTypeOK, Audit
    <2>3. UNCHANGED <<tenant, key, reserves, liabilities, prev, lock, latest, claims, rows, contractOf>>
      BY <1>5 DEF SaveSnapshot, AppendAudit, AuditError
    <2> QED
      BY <1>0, <2>1, <2>2, <2>3 DEF RunTypeOK
  <1>6. ASSUME NEW c \in Call, LoadPrevious(c) PROVE RunTypeOK'
    <2> DEFINE t == tenant[c]
    <2>1. t \in Tenant /\ rows[t] \in Seq(Row)
      BY <1>0 DEF RunTypeOK
    <2>2. rows[t] # << >> => Len(rows[t]) \in DOMAIN rows[t] /\ rows[t][Len(rows[t])] \in Row
      BY <2>1
    <2>3. LatestReserves(t) \in Nat
      BY <2>2 DEF LatestReserves, Row
    <2>4. \E p \in Nat : prev' = [prev EXCEPT ![c] = p]
      BY <1>0, <1>6, <2>3 DEF LoadPrevious, RunTypeOK
    <2> QED
      BY <1>0, <1>6, <2>4 DEF LoadPrevious, RunTypeOK
  <1>7. ASSUME NEW c \in Call, Prove(c) PROVE RunTypeOK'
    BY <1>0, <1>7 DEF Prove, RunTypeOK
  <1>8. ASSUME NEW c \in Call, Resolve(c) PROVE RunTypeOK'
    BY <1>0, <1>8 DEF Resolve, RunTypeOK
  <1>9. ASSUME NEW c \in Call, Publish(c) PROVE RunTypeOK'
    BY <1>0, <1>9 DEF Publish, RunTypeOK
  <1>10. ASSUME NEW c \in Call, PublishReturns(c) PROVE RunTypeOK'
    BY <1>0, <1>10 DEF PublishReturns, RunTypeOK
  <1>11. ASSUME NEW c \in Call, SaveProof(c) \/ SaveError(c) PROVE RunTypeOK'
    <2> DEFINE t == tenant[c]
    <2>1. request[c].contract \in Contract
      BY <1>11 DEF SaveProof, SaveError, SavesWhatItPublished, SavesOwn, DataOK, LedgerInv, Traced
    <2>2. RowOf(c) \in Row
      BY <1>0, <2>1 DEF RowOf, Row, RunTypeOK, PubTypeOK
    <2>3. rows' \in {rows, [rows EXCEPT ![t] = Append(@, RowOf(c))]}
      BY <1>11 DEF SaveProof, SaveError, Inserted
    <2> HIDE DEF t
    <2>4. t \in Tenant /\ rows[t] \in Seq(Row)
      BY <1>0 DEF RunTypeOK, t
    <2>5. Append(rows[t], RowOf(c)) \in Seq(Row)
      BY <2>2, <2>4
    <2>6. rows' \in [Tenant -> Seq(Row)]
      BY <1>0, <2>3, <2>5 DEF RunTypeOK
    <2> QED
      BY <1>0, <1>11, <2>6 DEF SaveProof, SaveError, RunTypeOK
  <1>12. ASSUME NEW c \in Call, SetLatest(c) \/ SetLatestError(c) PROVE RunTypeOK'
    <2>1. /\ pc' \in [Call -> {"idle", "acquire", "done"} \cup InCycle]
          /\ outcome' \in [Call -> {"none", "ok", "in_progress", "duplicate",
                                   "insolvent", "failed", "crashed"}]
      BY <1>0, <1>12 DEF SetLatest, SetLatestError, RunTypeOK
    <2>2. latest' \in [Tenant -> Nat]
      BY ZenonT(40), <1>0, <1>12 DEF SetLatest, SetLatestError, RunTypeOK, PubTypeOK
    <2>3. UNCHANGED <<tenant, key, reserves, liabilities, prev, lock, claims, rows, contractOf, audit>>
      BY <1>12 DEF SetLatest, SetLatestError
    <2> QED
      BY <1>0, <2>1, <2>2, <2>3 DEF RunTypeOK
  <1>13. ASSUME NEW c \in Call, Release(c) \/ ReleaseError(c) PROVE RunTypeOK'
    BY <1>0, <1>13 DEF Release, ReleaseError, RunTypeOK
  <1>14. ASSUME NEW c \in Call, ContextDone(c) PROVE RunTypeOK'
    BY <1>0, <1>14 DEF ContextDone, RunTypeOK
  <1>15. ASSUME NEW t \in Tenant, LockExpires(t) PROVE RunTypeOK'
    BY <1>0, <1>15 DEF LockExpires, RunTypeOK
  <1>16. ASSUME NEW t \in Tenant, NEW k \in Contract, SetTenantContract(t, k)
         PROVE  RunTypeOK'
    BY <1>0, <1>16 DEF SetTenantContract, RunTypeOK
  <1>17. CASE NetworkStep \/ UNCHANGED vars
    BY <1>0, <1>17 DEF NetworkStep, vars, RunTypeOK
  <1> QED
    BY <1>1, <1>2, <1>3, <1>4, <1>5, <1>6, <1>7, <1>8, <1>9, <1>10, <1>11, <1>12,
       <1>13, <1>14, <1>15, <1>16, <1>17 DEF Next, Step

\* Rows stay, and only a run's save adds one: the run's own.
LEMMA RowsGrow ==
  ASSUME DataOK, [Next]_vars
  PROVE  /\ \A t \in Tenant : \A i \in DOMAIN rows[t] :
              i \in DOMAIN rows'[t] /\ rows'[t][i] = rows[t][i]
         /\ \/ UNCHANGED rows
            \/ \E c \in Call :
                 /\ SaveProof(c) \/ SaveError(c)
                 /\ \A t \in Tenant : t # tenant[c] => rows'[t] = rows[t]
                 /\ rows'[tenant[c]] = Append(rows[tenant[c]], RowOf(c))
  <1>1. CASE UNCHANGED rows
    BY <1>1
  <1>2. ASSUME NEW c \in Call, SaveProof(c) \/ SaveError(c), rows' = Inserted(c)
        PROVE  /\ \A t \in Tenant : \A i \in DOMAIN rows[t] :
                    i \in DOMAIN rows'[t] /\ rows'[t][i] = rows[t][i]
               /\ \A t \in Tenant : t # tenant[c] => rows'[t] = rows[t]
               /\ rows'[tenant[c]] = Append(rows[tenant[c]], RowOf(c))
    <2> DEFINE u == tenant[c]
               row == RowOf(c)
    <2>1. u \in Tenant /\ rows \in [Tenant -> Seq(Row)]
      BY DEF DataOK, RunTypeOK
    <2>2. rows' = [rows EXCEPT ![u] = Append(rows[u], row)]
      BY <1>2 DEF Inserted
    <2> HIDE DEF u, row
    <2>3. rows[u] \in Seq(Row) /\ rows'[u] = Append(rows[u], row)
      BY <2>1, <2>2
    <2>4. \A t \in Tenant : t # u => rows'[t] = rows[t]
      BY <2>1, <2>2
    <2>5. \A i \in DOMAIN rows[u] : i \in DOMAIN rows'[u] /\ rows'[u][i] = rows[u][i]
      <3> DEFINE old == rows[u]
      <3> HIDE DEF old
      <3>1. old \in Seq(Row) /\ \A i \in DOMAIN old : i \in DOMAIN Append(old, row) /\ Append(old, row)[i] = old[i]
        BY <2>3 DEF old
      <3> QED BY <2>3, <3>1 DEF old
    <2> QED
      BY <2>3, <2>4, <2>5 DEF u, row
  <1>3. \/ UNCHANGED rows
        \/ \E c \in Call : (SaveProof(c) \/ SaveError(c)) /\ rows' = Inserted(c)
    BY DEF Next, Trigger, Step, Acquire, AcquireError, Claim, ClaimError, Fetch,
      SaveSnapshot, LoadLiabilities, LoadPrevious, Prove, Resolve, ReadError,
      Publish, PublishReturns, SaveProof, SaveError, SetLatest, SetLatestError,
      AppendAudit, AuditError, Release, ReleaseError, ContextDone, Crash,
      LockExpires, SetTenantContract, NetworkStep, storeVars, vars
  <1> QED
    BY <1>1, <1>2, <1>3

\* A run saves what it published, whatever the other runs do meanwhile.
LEMMA SavesStep ==
  ASSUME DataOK, SavesWhatItPublished, [Next]_vars
  PROVE  SavesWhatItPublished'
  <1> DEFINE Saving == {"publish", "save", "cache", "audit"}
  <1>0. /\ RunTypeOK /\ PubTypeOK /\ tenant' = tenant
        /\ \A d \in Call : SavesOwn(d) /\ tenant[d] \in Tenant
    BY ArgsFixed DEF DataOK, LedgerInv, SavesWhatItPublished, RunTypeOK
  <1>1. ASSUME NEW d \in Call, pc'[d] \notin Saving PROVE SavesOwn(d)'
    BY <1>1 DEF SavesOwn
  <1>2. ASSUME NEW d \in Call, pc'[d] = pc[d],
               reserves'[d] = reserves[d], liabilities'[d] = liabilities[d]
        PROVE  SavesOwn(d)'
    <2>1. CASE pc[d] \in Saving
      <3>1. request'[d] = request[d]
        BY <2>1, CallHistory
      <3>2. stage[d] = "ok" => stage'[d] = "ok" /\ RowOf(d)' = RowOf(d)
        BY <1>2, <3>1, CallHistory DEF RowOf
      <3>3. \A i \in DOMAIN rows[tenant[d]] :
              i \in DOMAIN rows'[tenant[d]] /\ rows'[tenant[d]][i] = rows[tenant[d]][i]
        BY <1>0, RowsGrow
      <3> QED
        BY <1>0, <1>2, <3>1, <3>2, <3>3 DEF SavesOwn
    <2>2. CASE pc[d] \notin Saving
      BY <1>1, <1>2, <2>2
    <2> QED
      BY <2>1, <2>2
  <1>3. ASSUME NEW c \in Call, pc'[c] \notin Saving,
               \A d \in Call \ {c} : /\ pc'[d] = pc[d]
                                     /\ reserves'[d] = reserves[d]
                                     /\ liabilities'[d] = liabilities[d]
        PROVE  SavesWhatItPublished'
    BY <1>1, <1>2, <1>3 DEF SavesWhatItPublished
  <1>4. ASSUME UNCHANGED <<pc, reserves, liabilities>> PROVE SavesWhatItPublished'
    BY <1>2, <1>4 DEF SavesWhatItPublished
  <1>5. ASSUME NEW c \in Call, UNCHANGED <<reserves, liabilities>>,
               \A d \in Call \ {c} : pc'[d] = pc[d],
               SavesOwn(c)'
        PROVE  SavesWhatItPublished'
    BY <1>2, <1>5 DEF SavesWhatItPublished
  <1>6. ASSUME NEW c \in Call,
               \/ Trigger(c) \/ Crash(c) \/ Acquire(c) \/ AcquireError(c)
               \/ Claim(c) \/ ClaimError(c)
        PROVE  SavesWhatItPublished'
    BY <1>0, <1>3, <1>6 DEF Trigger, Crash, Acquire, AcquireError, Claim, ClaimError,
      Goto, Return, ReturnUnlocked, RunTypeOK
  <1>7. ASSUME NEW c \in Call,
               \/ Fetch(c) \/ SaveSnapshot(c) \/ LoadLiabilities(c)
               \/ LoadPrevious(c) \/ Prove(c) \/ ReadError(c)
        PROVE  SavesWhatItPublished'
    BY <1>0, <1>3, <1>7 DEF Fetch, SaveSnapshot, LoadLiabilities, LoadPrevious, Prove,
      ReadError, Goto, Return, RunTypeOK
  <1>8. ASSUME NEW c \in Call,
               \/ SaveError(c) \/ SetLatestError(c) \/ AppendAudit(c)
               \/ AuditError(c) \/ Release(c) \/ ReleaseError(c)
        PROVE  SavesWhatItPublished'
    BY <1>0, <1>3, <1>8 DEF SaveError, SetLatestError, AppendAudit, AuditError, Release,
      ReleaseError, Goto, Return, RunTypeOK
  <1>9. ASSUME NEW c \in Call, Resolve(c) PROVE SavesWhatItPublished'
    <2>1. /\ UNCHANGED <<reserves, liabilities>>
          /\ \A d \in Call \ {c} : pc'[d] = pc[d]
      BY <1>0, <1>9 DEF Resolve, Goto, Return, RunTypeOK
    <2>2. SavesOwn(c)'
      <3>1. CASE contractOf[tenant[c]] = NoContract
        BY ZenonT(40), <1>0, <1>1, <1>9, <3>1 DEF Resolve, Return, RunTypeOK
      <3>2. CASE contractOf[tenant[c]] # NoContract
        <4>1. pc'[c] = "publish" /\ request'[c] = Inputs(c, contractOf[tenant[c]])
          BY <1>0, <1>9, <3>2 DEF Resolve, Goto, PublishProof, RunTypeOK, PubTypeOK
        <4> QED
          BY <2>1, <4>1 DEF SavesOwn, Inputs
      <3> QED
        BY <3>1, <3>2
    <2> QED
      BY <1>5, <2>1, <2>2
  <1>10. ASSUME NEW c \in Call, Publish(c) PROVE SavesWhatItPublished'
    BY <1>4, <1>10 DEF Publish, runVars
  <1>11. ASSUME NEW c \in Call, PublishReturns(c) PROVE SavesWhatItPublished'
    <2>1. /\ UNCHANGED <<reserves, liabilities, stage, request>> /\ pc[c] = "publish"
          /\ \A d \in Call \ {c} : pc'[d] = pc[d]
          /\ \/ stage[c] = "ok" /\ pc'[c] = "save"
             \/ pc'[c] = "release"
      BY <1>0, <1>11 DEF PublishReturns, Goto, Return, At, RunTypeOK, pubVars
    <2>2. SavesOwn(c)'
      BY <1>0, <2>1 DEF SavesOwn
    <2> QED
      BY <1>5, <2>1, <2>2
  <1>12. ASSUME NEW c \in Call, SaveProof(c) PROVE SavesWhatItPublished'
    <2>1. /\ UNCHANGED <<reserves, liabilities, stage, request, returned>> /\ pc[c] = "save"
          /\ \A d \in Call \ {c} : pc'[d] = pc[d]
          /\ pc'[c] = "cache"
          /\ rows' = [rows EXCEPT ![tenant[c]] = Append(rows[tenant[c]], RowOf(c))]
      BY <1>0, <1>12 DEF SaveProof, Goto, At, RunTypeOK, pubVars, Inserted
    <2> DEFINE u == tenant[c]
               row == RowOf(c)
    <2>2. u \in Tenant /\ rows[u] \in Seq(Row) /\ rows'[u] = Append(rows[u], row)
      BY <1>0, <2>1 DEF RunTypeOK
    <2>3. \E i \in DOMAIN rows'[u] : rows'[u][i] = row
      <3> DEFINE old == rows[u]
      <3> HIDE DEF old, row
      <3>1. Len(old) + 1 \in DOMAIN Append(old, row) /\ Append(old, row)[Len(old) + 1] = row
        BY <2>2 DEF old
      <3> QED BY <2>2, <3>1 DEF old
    <2>4. RowOf(c)' = RowOf(c)
      BY <2>1 DEF RowOf
    <2>5. SavesOwn(c)'
      BY <1>0, <2>1, <2>3, <2>4 DEF SavesOwn
    <2> QED
      BY <1>5, <2>1, <2>5
  <1>13. ASSUME NEW c \in Call, SetLatest(c) PROVE SavesWhatItPublished'
    <2>1. /\ UNCHANGED <<reserves, liabilities, stage, request, returned, rows>>
          /\ pc[c] = "cache" /\ pc'[c] = "audit"
          /\ \A d \in Call \ {c} : pc'[d] = pc[d]
      BY <1>0, <1>13 DEF SetLatest, Goto, At, RunTypeOK, pubVars
    <2>2. RowOf(c)' = RowOf(c)
      BY <2>1 DEF RowOf
    <2>3. SavesOwn(c)'
      BY <1>0, <2>1, <2>2 DEF SavesOwn
    <2> QED
      BY <1>5, <2>1, <2>3
  <1>14. CASE \/ \E c \in Call : ContextDone(c)
              \/ \E t \in Tenant : LockExpires(t) \/ \E k \in Contract : SetTenantContract(t, k)
              \/ NetworkStep
              \/ UNCHANGED vars
    BY <1>4, <1>14 DEF ContextDone, LockExpires, SetTenantContract, NetworkStep, vars, runVars
  <1> QED
    BY <1>6, <1>7, <1>8, <1>9, <1>10, <1>11, <1>12, <1>13, <1>14 DEF Next, Step

\* What may be saved stands on chain.
LEMMA RowsOnChainStep ==
  ASSUME DataOK, SavesWhatItPublished, RowsAreOnChain, [Next]_vars
  PROVE  RowsAreOnChain'
  <1> SUFFICES ASSUME NEW t \in Tenant, NEW i \in DOMAIN rows'[t]
               PROVE  LET row == rows'[t][i] IN
                        /\ row.id \in DOMAIN chain'[row.contract]
                        /\ chain'[row.contract][row.id] =
                             [r |-> row.r, l |-> row.l, call |-> row.call]
    BY DEF RowsAreOnChain
  <1>0. \A k \in Contract : \A j \in DOMAIN chain[k] :
          j \in DOMAIN chain'[k] /\ chain'[k][j] = chain[k][j]
    BY CycleSteps, ChainGrows DEF DataOK
  <1>1. CASE i \in DOMAIN rows[t]
    <2>1. rows'[t][i] = rows[t][i]
      BY <1>1, RowsGrow
    <2>2. rows[t] \in Seq(Row)
      BY DEF DataOK, RunTypeOK
    <2>3. rows[t][i] \in Row
      BY <1>1, <2>2
    <2>4. rows[t][i].contract \in Contract
      BY <2>3 DEF Row
    <2> QED
      BY <1>0, <1>1, <2>1, <2>4 DEF RowsAreOnChain
  <1>2. CASE i \notin DOMAIN rows[t]
    <2>1. PICK c \in Call :
            /\ SaveProof(c) \/ SaveError(c)
            /\ \A v \in Tenant : v # tenant[c] => rows'[v] = rows[v]
            /\ rows'[tenant[c]] = Append(rows[tenant[c]], RowOf(c))
      BY <1>2, RowsGrow
    <2>2. t = tenant[c] /\ rows[t] \in Seq(Row)
      BY <1>2, <2>1 DEF DataOK, RunTypeOK
    <2>3. rows'[t][i] = RowOf(c)
      <3> DEFINE old == rows[t]
                 row == RowOf(c)
      <3>1. old \in Seq(Row) /\ rows'[t] = Append(old, row) /\ i \notin DOMAIN old
        BY <1>2, <2>1, <2>2
      <3> HIDE DEF old, row
      <3>2. i \in DOMAIN Append(old, row)
        BY <3>1
      <3> QED
        BY <3>1, <3>2 DEF row
    <2>4. /\ stage[c] = "ok"
          /\ request[c].reserves_total = reserves[c]
          /\ request[c].liabilities_total = liabilities[c]
      BY <2>1 DEF SaveProof, SaveError, At, SavesWhatItPublished, SavesOwn
    <2>5. OnChain(c, returned[c]) /\ request[c].contract \in Contract
      BY <2>4 DEF DataOK, LedgerInv, OkNamesOwnProof, Traced
    <2> QED
      BY <1>0, <2>3, <2>4, <2>5 DEF OnChain, RowOf
  <1> QED
    BY <1>1, <1>2

\* The cache and the audit log stay behind the table of proofs.
LEMMA EvidenceStep ==
  ASSUME DataOK, SavesWhatItPublished, EvidenceIsSaved, [Next]_vars
  PROVE  EvidenceIsSaved'
  <1>0. /\ tenant' = tenant
        /\ \A t \in Tenant : \A i \in DOMAIN rows[t] :
             i \in DOMAIN rows'[t] /\ rows'[t][i] = rows[t][i]
        /\ \A d \in Call : tenant[d] \in Tenant
        /\ latest \in [Tenant -> Nat] /\ \A a \in audit : a.call \in Call
    BY ArgsFixed, RowsGrow DEF DataOK, RunTypeOK, Audit
  <1>1. \A t \in Tenant : \/ latest'[t] = latest[t]
                          \/ \E c \in Call : /\ SetLatest(c) \/ SetLatestError(c)
                                             /\ t = tenant[c] /\ latest'[t] = returned[c]
    <2>1. CASE UNCHANGED latest
      BY <2>1
    <2>2. CASE \E c \in Call : /\ SetLatest(c) \/ SetLatestError(c)
                               /\ latest' = [latest EXCEPT ![tenant[c]] = returned[c]]
      BY <1>0, <2>2
    <2>3. \/ UNCHANGED latest
          \/ \E c \in Call : /\ SetLatest(c) \/ SetLatestError(c)
                             /\ latest' = [latest EXCEPT ![tenant[c]] = returned[c]]
      BY DEF Next, Trigger, Step, Acquire, AcquireError, Claim, ClaimError, Fetch,
        SaveSnapshot, LoadLiabilities, LoadPrevious, Prove, Resolve, ReadError,
        Publish, PublishReturns, SaveProof, SaveError, SetLatest, SetLatestError,
        AppendAudit, AuditError, Release, ReleaseError, ContextDone, Crash,
        LockExpires, SetTenantContract, NetworkStep, storeVars, vars
    <2> QED
      BY <2>1, <2>2, <2>3
  <1>2. \A a \in audit' : \/ a \in audit
                          \/ a.event # "proof_cycle"
                          \/ pc[a.call] = "audit" /\ a.call \in Call
    <2>1. \/ UNCHANGED audit
          \/ \E c \in Call, e \in {"reserve_snapshot", "proof_cycle"} :
               /\ e = "proof_cycle" => pc[c] = "audit"
               /\ audit' \subseteq audit \cup {[event |-> e, call |-> c]}
      BY DEF Next, Trigger, Step, Acquire, AcquireError, Claim, ClaimError, Fetch,
        SaveSnapshot, LoadLiabilities, LoadPrevious, Prove, Resolve, ReadError,
        Publish, PublishReturns, SaveProof, SaveError, SetLatest, SetLatestError,
        AppendAudit, AuditError, Release, ReleaseError, ContextDone, Crash,
        LockExpires, SetTenantContract, NetworkStep, storeVars, vars, At
    <2> QED
      BY <2>1
  <1>3. ASSUME NEW t \in Tenant, latest'[t] # 0
        PROVE  \E i \in DOMAIN rows'[t] : rows'[t][i].id = latest'[t]
    <2>1. CASE latest'[t] = latest[t]
      BY <1>0, <1>3, <2>1 DEF EvidenceIsSaved
    <2>2. CASE latest'[t] # latest[t]
      <3>1. PICK c \in Call : /\ SetLatest(c) \/ SetLatestError(c)
                              /\ t = tenant[c] /\ latest'[t] = returned[c]
        BY <1>1, <2>2
      <3>2. PICK i \in DOMAIN rows[t] : rows[t][i] = RowOf(c)
        BY <3>1 DEF SetLatest, SetLatestError, At, SavesWhatItPublished, SavesOwn
      <3> QED
        BY <1>0, <3>1, <3>2 DEF RowOf
    <2> QED
      BY <2>1, <2>2
  <1>4. ASSUME NEW a \in audit', a.event = "proof_cycle"
        PROVE  \E i \in DOMAIN rows'[tenant[a.call]] : rows'[tenant[a.call]][i].call = a.call
    <2>1. CASE a \in audit
      BY <1>0, <1>4, <2>1 DEF EvidenceIsSaved
    <2>2. CASE a \notin audit
      <3>1. pc[a.call] = "audit" /\ a.call \in Call
        BY <1>2, <1>4, <2>2
      <3>2. PICK i \in DOMAIN rows[tenant[a.call]] : rows[tenant[a.call]][i] = RowOf(a.call)
        BY <3>1 DEF SavesWhatItPublished, SavesOwn
      <3> QED
        BY <1>0, <3>1, <3>2 DEF RowOf
    <2> QED
      BY <2>1, <2>2
  <1> QED
    BY <1>0, <1>3, <1>4 DEF EvidenceIsSaved

\* Types, the publisher's trace and what follows from them, together.
SavedInv == DataOK /\ SavesWhatItPublished /\ RowsAreOnChain /\ EvidenceIsSaved

LEMMA SavedInitial == Init => SavedInv
  <1> SUFFICES ASSUME Init PROVE SavedInv
    OBVIOUS
  <1>1. LedgerInv
    BY PubInitial DEF Init
  <1>2. RunTypeOK
    BY DEF Init, RunTypeOK
  <1> QED
    BY <1>1, <1>2 DEF Init, SavedInv, DataOK, SavesWhatItPublished, SavesOwn,
      RowsAreOnChain, EvidenceIsSaved

LEMMA SavedInductive == Spec => []SavedInv
  <1>1. SavedInv /\ [Next]_vars => SavedInv'
    BY CycleSteps, LedgerStep, TypeStep, SavesStep, RowsOnChainStep, EvidenceStep
    DEF SavedInv, DataOK
  <1> QED
    BY <1>1, SavedInitial, PTL DEF Spec

\* Run's variables, the tables, the lock, the ledger and the publisher's state keep
\* their types.
THEOREM CycleTypeCorrect == Spec => []TypeOK
  <1>1. SavedInv => TypeOK
    BY DEF SavedInv, DataOK, LedgerInv, TypeOK
  <1> QED
    BY <1>1, SavedInductive, PTL

\* Every row of the proofs table is on chain with the id and totals it records,
\* whatever fails, dies, is cancelled, outlives its lock or is rotated.
THEOREM SavedRowsAreOnChain == Spec => []RowsAreOnChain
  <1>1. SavedInv => RowsAreOnChain
    BY DEF SavedInv
  <1> QED
    BY <1>1, SavedInductive, PTL

\* The cached latest id and the proof_cycle entries of the audit log never run
\* ahead of the proofs table.
THEOREM EvidenceIsAlwaysSaved == Spec => []EvidenceIsSaved
  <1>1. SavedInv => EvidenceIsSaved
    BY DEF SavedInv
  <1> QED
    BY <1>1, SavedInductive, PTL
-----------------------------------------------------------------------------
(* Layer 2: the claim.                                                     *)

\* Only the first claim of a key lets a run through.
LEMMA ClaimStep ==
  ASSUME DataOK, ClaimsHeld, [Next]_vars
  PROVE  ClaimsHeld'
  <1>0. UNCHANGED <<tenant, key>> /\ RunTypeOK
    BY ArgsFixed DEF DataOK
  <1>1. claims \subseteq claims'
    BY DEF Next, Trigger, Step, Acquire, AcquireError, Claim, ClaimError, Fetch,
      SaveSnapshot, LoadLiabilities, LoadPrevious, Prove, Resolve, ReadError,
      Publish, PublishReturns, SaveProof, SaveError, SetLatest, SetLatestError,
      AppendAudit, AuditError, Release, ReleaseError, ContextDone, Crash,
      LockExpires, SetTenantContract, NetworkStep, storeVars, vars
  <1>2. ASSUME NEW d \in Call, PastClaim(d)', ~PastClaim(d)
        PROVE  Claim(d) /\ FirstClaim(d)
    <2> DEFINE Past == {"fetch", "snapshot", "liabilities", "previous", "prove", "resolve"}
    <2>1. stage'[d] = "idle" /\ pc'[d] \in Past /\ pc[d] \notin Past
      BY <1>2, CallHistory DEF PastClaim
    <2>2. ASSUME NEW c \in Call, \/ Trigger(c) \/ Crash(c)
                                 \/ Acquire(c) \/ AcquireError(c) \/ ClaimError(c)
          PROVE  FALSE
      BY <1>0, <2>1, <2>2 DEF Trigger, Crash, Acquire, AcquireError, ClaimError,
        Goto, Return, ReturnUnlocked, RunTypeOK
    <2>3. ASSUME NEW c \in Call, Claim(c) PROVE Claim(d) /\ FirstClaim(d)
      <3>1. c = d
        BY <1>0, <2>1, <2>3 DEF Claim, Goto, Return, RunTypeOK
      <3> QED
        BY <1>0, <2>1, <2>3, <3>1 DEF Claim, Return, RunTypeOK
    <2>4. ASSUME NEW c \in Call,
                 \/ Fetch(c) \/ SaveSnapshot(c) \/ LoadLiabilities(c)
                 \/ LoadPrevious(c) \/ Prove(c) \/ ReadError(c)
          PROVE  FALSE
      BY <1>0, <2>1, <2>4 DEF Fetch, SaveSnapshot, LoadLiabilities, LoadPrevious,
        Prove, ReadError, Goto, Return, RunTypeOK, At
    <2>5. ASSUME NEW c \in Call, Resolve(c) \/ PublishReturns(c) \/ Publish(c) PROVE FALSE
      BY <1>0, <2>1, <2>5 DEF Resolve, PublishReturns, Publish, Goto, Return, RunTypeOK, runVars
    <2>6. ASSUME NEW c \in Call,
                 \/ SaveProof(c) \/ SaveError(c) \/ SetLatest(c) \/ SetLatestError(c)
                 \/ AppendAudit(c) \/ AuditError(c) \/ Release(c) \/ ReleaseError(c)
          PROVE  FALSE
      BY <1>0, <2>1, <2>6 DEF SaveProof, SaveError, SetLatest, SetLatestError,
        AppendAudit, AuditError, Release, ReleaseError, Goto, Return, RunTypeOK
    <2>7. CASE \/ \E c \in Call : ContextDone(c)
               \/ \E t \in Tenant : LockExpires(t) \/ \E k \in Contract : SetTenantContract(t, k)
               \/ NetworkStep
               \/ UNCHANGED vars
      BY <2>1, <2>7 DEF ContextDone, LockExpires, SetTenantContract, NetworkStep, vars, runVars
    <2> QED
      BY <2>2, <2>3, <2>4, <2>5, <2>6, <2>7 DEF Next, Step
  <1>3. ASSUME NEW d \in Call, Claim(d) PROVE <<tenant[d], key[d]>> \in claims'
    BY <1>3 DEF Claim
  <1>4. ASSUME NEW c \in Call, NEW d \in Call, Claim(c), Claim(d), FirstClaim(c),
               ~PastClaim(d), PastClaim(d)', ~PastClaim(c), PastClaim(c)'
        PROVE  c = d
    <2>1. stage' = stage /\ \A x \in Call \ {c} : pc'[x] = pc[x]
      BY <1>0, <1>4 DEF Claim, Goto, Return, RunTypeOK, pubVars
    <2> QED
      BY <1>4, <2>1 DEF PastClaim
  <1>5. \A c \in Call : PastClaim(c)' => <<tenant[c], key[c]>> \in claims'
    BY <1>1, <1>2, <1>3 DEF ClaimsHeld
  <1>6. ASSUME NEW c \in Call, NEW d \in Call, PastClaim(c)', PastClaim(d)',
               tenant[c] = tenant[d], key[c] = key[d]
        PROVE  c = d
    BY <1>2, <1>4, <1>6 DEF ClaimsHeld, FirstClaim
  <1> QED
    BY <1>0, <1>5, <1>6 DEF ClaimsHeld

LEMMA ClaimInductive == Spec => []ClaimsHeld
  <1>1. Init => ClaimsHeld
    BY DEF Init, PubInit, ClaimsHeld, PastClaim
  <1>2. SavedInv /\ ClaimsHeld /\ [Next]_vars => ClaimsHeld'
    BY ClaimStep DEF SavedInv
  <1> QED
    BY <1>1, <1>2, SavedInductive, PTL DEF Spec

\* Two runs under one tenant and request key never both publish, with or without
\* the lock and whatever happens to either of them: the claim alone suffices.
THEOREM ClaimExcludes == Spec => []KeyPublishesForOneRun
  <1>1. ClaimsHeld => KeyPublishesForOneRun
    BY DEF ClaimsHeld, PastClaim, KeyPublishesForOneRun, Published
  <1> QED
    BY <1>1, ClaimInductive, PTL
-----------------------------------------------------------------------------
(* The order of the rows.                                                  *)

\* A run enters its publish step only by calling PublishProof for the first time.
LEMMA EntersPublish ==
  ASSUME DataOK, [Next]_vars, NEW d \in Call,
         pc'[d] \in {"publish", "save"}, pc[d] \notin {"publish", "save"}
  PROVE  stage[d] = "idle" /\ UNCHANGED <<chain, rows>>
  <1>0. RunTypeOK
    BY DEF DataOK
  <1>1. ASSUME NEW c \in Call,
               \/ Trigger(c) \/ Crash(c) \/ Acquire(c) \/ AcquireError(c)
               \/ Claim(c) \/ ClaimError(c)
        PROVE  FALSE
    BY <1>0, <1>1 DEF Trigger, Crash, Acquire, AcquireError, Claim, ClaimError,
      Goto, Return, ReturnUnlocked, RunTypeOK
  <1>2. ASSUME NEW c \in Call,
               \/ Fetch(c) \/ SaveSnapshot(c) \/ LoadLiabilities(c)
               \/ LoadPrevious(c) \/ Prove(c) \/ ReadError(c)
        PROVE  FALSE
    BY <1>0, <1>2 DEF Fetch, SaveSnapshot, LoadLiabilities, LoadPrevious, Prove,
      ReadError, Goto, Return, RunTypeOK
  <1>3. ASSUME NEW c \in Call, PublishReturns(c) \/ Publish(c) PROVE FALSE
    BY <1>0, <1>3 DEF PublishReturns, Publish, Goto, Return, At, RunTypeOK, runVars
  <1>4. ASSUME NEW c \in Call,
               \/ SaveProof(c) \/ SaveError(c) \/ SetLatest(c) \/ SetLatestError(c)
               \/ AppendAudit(c) \/ AuditError(c) \/ Release(c) \/ ReleaseError(c)
        PROVE  FALSE
    BY <1>0, <1>4 DEF SaveProof, SaveError, SetLatest, SetLatestError,
      AppendAudit, AuditError, Release, ReleaseError, Goto, Return, RunTypeOK
  <1>5. ASSUME NEW c \in Call, Resolve(c) PROVE stage[d] = "idle" /\ UNCHANGED <<chain, rows>>
    <2>1. c = d /\ contractOf[tenant[c]] # NoContract
      BY <1>0, <1>5 DEF Resolve, Goto, Return, RunTypeOK
    <2> QED
      BY <1>5, <2>1 DEF Resolve, PublishProof, ledgerVars, storeVars
  <1>6. CASE \/ \E c \in Call : ContextDone(c)
             \/ \E t \in Tenant : LockExpires(t) \/ \E k \in Contract : SetTenantContract(t, k)
             \/ NetworkStep
             \/ UNCHANGED vars
    BY <1>6 DEF ContextDone, LockExpires, SetTenantContract, NetworkStep, vars, runVars
  <1> QED
    BY <1>1, <1>2, <1>3, <1>4, <1>5, <1>6 DEF Next, Step

\* With the lock held, no row is added to a tenant's table between a run's first
\* transaction and its own row, so what the run publishes is newer than the table.
LEMMA OrderStep ==
  ASSUME SavedInv, LockTypeOK, HoldsLock, PublishesAfterRows, RowsInChainOrder, [Next]_vars
  PROVE  PublishesAfterRows' /\ RowsInChainOrder'
  <1>0. /\ DataOK /\ SavesWhatItPublished /\ RowsAreOnChain /\ LedgerInv /\ PubTypeOK
        /\ RunTypeOK /\ tenant' = tenant /\ \A d \in Call : tenant[d] \in Tenant
    BY ArgsFixed DEF SavedInv, DataOK, LedgerInv, RunTypeOK
  <1>1. ASSUME NEW c \in Call, SaveProof(c) \/ SaveError(c)
        PROVE  /\ pc[c] = "save" /\ pc'[c] \notin {"publish", "save"}
               /\ UNCHANGED <<chain, request>>
               /\ stage[c] = "ok" /\ request[c].contract \in Contract
               /\ returned[c] \in Published(c)
    <2>1. /\ pc[c] = "save" /\ pc'[c] \notin {"publish", "save"}
          /\ UNCHANGED <<chain, request>>
      BY <1>0, <1>1 DEF SaveProof, SaveError, At, Goto, Return, RunTypeOK, pubVars
    <2>2. stage[c] = "ok"
      BY <1>0, <2>1 DEF SavesWhatItPublished, SavesOwn
    <2>3. OnChain(c, returned[c]) /\ request[c].contract \in Contract
      BY <1>0, <2>2 DEF LedgerInv, OkNamesOwnProof, Traced
    <2> QED
      BY <2>1, <2>2, <2>3 DEF OnChain, Published
  <1>2. ASSUME NEW d \in Call, pc'[d] \in {"publish", "save"},
               NEW i \in DOMAIN rows'[tenant[d]], NEW n \in Published(d)',
               rows'[tenant[d]][i].contract = request'[d].contract
        PROVE  rows'[tenant[d]][i].id < n
    <2> DEFINE t == tenant[d]
    <2>1. CASE pc[d] \notin {"publish", "save"}
      <3>1. stage[d] = "idle" /\ UNCHANGED <<chain, rows>>
        BY <1>0, <1>2, <2>1, EntersPublish
      <3>2. stage'[d] # "idle" /\ n \in DOMAIN chain[request'[d].contract]
            /\ chain[request'[d].contract][n].call = d
        BY <1>2, <3>1 DEF Published
      <3>3. LedgerInv'
        BY <1>0, CycleSteps, LedgerStep
      <3>4. request'[d].contract \in Contract
        BY <3>2, <3>3 DEF LedgerInv, Traced
      <3> QED
        BY <1>0, <3>1, <3>2, <3>4 DEF LedgerInv, Traced
    <2>2. CASE pc[d] \in {"publish", "save"}
      <3>1. rows'[t] = rows[t]
        <4>1. ASSUME NEW c \in Call, SaveProof(c) \/ SaveError(c), t = tenant[c] PROVE FALSE
          BY <1>1, <1>2, <2>2, <4>1 DEF HoldsLock, InCycle
        <4> QED
          BY <1>0, <4>1, RowsGrow
      <3>2. request'[d] = request[d]
        BY <1>0, <2>2, CallHistory
      <3> DEFINE k == request[d].contract
                 row == rows[t][i]
      <3>3. row \in Row /\ row.contract = k
        <4>1. rows[t] \in Seq(Row)
          BY <1>0 DEF RunTypeOK
        <4>2. row \in Row
          BY <1>2, <3>1, <4>1
        <4> QED
          BY <1>2, <3>1, <3>2, <4>2
      <3>4. k \in Contract /\ row.id \in DOMAIN chain[k] /\ row.id \in Nat
        <4>1. row.id \in DOMAIN chain[row.contract]
          BY <1>0, <1>2, <3>1 DEF RowsAreOnChain
        <4>2. row.contract \in Contract /\ row.id \in Nat
          <5> HIDE DEF row
          <5> QED BY <3>3 DEF Row
        <4> QED
          BY <3>3, <4>1, <4>2
      <3>5. CASE n \in DOMAIN chain[k]
        <4>1. chain'[k][n] = chain[k][n]
          BY <1>0, <3>4, <3>5, CycleSteps, ChainGrows
        <4>2. stage[d] # "idle"
          <5>1. chain[k][n].call = d
            BY <1>2, <3>2, <4>1 DEF Published
          <5> QED
            BY <1>0, <3>4, <3>5, <5>1 DEF LedgerInv, Traced
        <4>3. n \in Published(d)
          BY <1>2, <3>2, <3>5, <4>1, <4>2 DEF Published
        <4> QED
          BY <1>2, <2>2, <3>1, <3>2, <4>3 DEF PublishesAfterRows
      <3>6. CASE n \notin DOMAIN chain[k]
        <4>1. n \in DOMAIN chain'[k]
          BY <1>2, <3>2 DEF Published
        <4>2. chain[k] \in Seq(Entry) /\ chain'[k] \in Seq(Entry)
          <5>1. LedgerInv'
            BY <1>0, CycleSteps, LedgerStep
          <5> QED
            BY <1>0, <3>4, <5>1 DEF LedgerInv, PubTypeOK
        <4>3. DOMAIN chain[k] = 1..Len(chain[k]) /\ DOMAIN chain'[k] = 1..Len(chain'[k])
              /\ Len(chain[k]) \in Nat /\ Len(chain'[k]) \in Nat
          BY <4>2
        <4> QED
          BY <3>1, <3>4, <3>6, <4>1, <4>3
      <3> QED
        BY <3>5, <3>6
    <2> QED
      BY <2>1, <2>2
  <1>3. PublishesAfterRows'
    BY <1>0, <1>2 DEF PublishesAfterRows
  <1>4. RowsInChainOrder'
    <2> SUFFICES ASSUME NEW t \in Tenant, NEW i \in DOMAIN rows'[t], NEW j \in DOMAIN rows'[t],
                        i < j, rows'[t][i].contract = rows'[t][j].contract
                 PROVE  rows'[t][i].id < rows'[t][j].id
      BY DEF RowsInChainOrder
    <2>0. \A x \in DOMAIN rows[t] : rows'[t][x] = rows[t][x]
      BY <1>0, RowsGrow
    <2>1. CASE i \in DOMAIN rows[t] /\ j \in DOMAIN rows[t]
      BY <2>0, <2>1 DEF RowsInChainOrder
    <2>2. CASE ~(i \in DOMAIN rows[t] /\ j \in DOMAIN rows[t])
      <3>1. rows'[t] # rows[t]
        BY <2>2
      <3>2. PICK c \in Call :
              /\ SaveProof(c) \/ SaveError(c)
              /\ t = tenant[c]
              /\ rows'[t] = Append(rows[t], RowOf(c))
        BY <1>0, <3>1, RowsGrow
      <3> DEFINE old == rows[t]
                 row == RowOf(c)
      <3>3. old \in Seq(Row) /\ rows'[t] = Append(old, row)
        BY <1>0, <3>2 DEF RunTypeOK
      <3>4. i \in DOMAIN old /\ rows'[t][j] = row /\ rows'[t][i] = rows[t][i]
        <4> HIDE DEF old, row
        <4>1. DOMAIN old = 1..Len(old) /\ Len(old) \in Nat /\ DOMAIN rows'[t] = 1..(Len(old) + 1)
          BY <3>3
        <4>2. i \in 1..Len(old) /\ j = Len(old) + 1
          BY <2>2, <4>1 DEF old
        <4>3. rows'[t][j] = row
          BY <3>3, <4>2
        <4> QED
          BY <2>0, <4>1, <4>2, <4>3 DEF old
      <3>5. returned[c] \in Published(c) /\ pc[c] = "save"
        BY <1>1, <3>2
      <3>6. rows[t][i].contract = request[c].contract /\ rows'[t][j].id = returned[c]
        BY <3>4 DEF RowOf
      <3> QED
        BY <3>2, <3>4, <3>5, <3>6 DEF PublishesAfterRows
    <2> QED
      BY <2>1, <2>2
  <1> QED
    BY <1>3, <1>4

\* If no run takes longer than cycleLockTTL, a tenant's rows are in chain order, so
\* the newest row by timestamp is the newest proof that was saved.
THEOREM RowsFollowChain == ASSUME ~OutlivesLock PROVE Spec => []RowsInChainOrder
  <1> DEFINE Inv == PublishesAfterRows /\ RowsInChainOrder
  <1>1. Init => Inv
    BY DEF Init, PublishesAfterRows, RowsInChainOrder
  <1>2. SavedInv /\ (LockTypeOK /\ HoldsLock) /\ Inv /\ [Next]_vars => Inv'
    BY OrderStep
  <1>3. Spec => []Inv
    BY <1>1, <1>2, SavedInductive, LockInductive, PTL DEF Spec
  <1>4. Inv => RowsInChainOrder
    OBVIOUS
  <1> QED
    BY <1>3, <1>4, PTL
-----------------------------------------------------------------------------
(* The declared previous total.                                            *)

\* What Run declares for a latest total p: p, or its own total on a genesis cycle.
Declares(c, p) == IF isGenesisReserves(p) THEN reserves[c] ELSE p

\* From LatestReserves to the publication, the total a run declares is still the one
\* its tenant's table implies.
DeclaresLatest ==
  \A c \in Call : pc[c] \in {"prove", "resolve"} => prev[c] = Declares(c, LatestReserves(tenant[c]))

\* A run is about to prove or publish because it has just read the previous total, or
\* was so before, with the figures it has.
LEMMA EntersProve ==
  ASSUME DataOK, [Next]_vars, NEW d \in Call, pc'[d] \in {"prove", "resolve"}, ~LoadPrevious(d)
  PROVE  /\ pc[d] \in {"prove", "resolve"}
         /\ prev'[d] = prev[d] /\ reserves'[d] = reserves[d]
  <1> DEFINE Goal == /\ pc[d] \in {"prove", "resolve"}
                     /\ prev'[d] = prev[d] /\ reserves'[d] = reserves[d]
  <1>0. RunTypeOK
    BY DEF DataOK
  <1>1. ASSUME NEW c \in Call,
               \/ Trigger(c) \/ Crash(c) \/ Acquire(c) \/ AcquireError(c)
               \/ Claim(c) \/ ClaimError(c)
        PROVE  Goal
    BY <1>0, <1>1 DEF Trigger, Crash, Acquire, AcquireError, Claim, ClaimError,
      Goto, Return, ReturnUnlocked, RunTypeOK
  <1>2. ASSUME NEW c \in Call, Fetch(c) PROVE Goal
    BY <1>0, <1>2 DEF Fetch, Goto, RunTypeOK
  <1>3. ASSUME NEW c \in Call, SaveSnapshot(c) \/ LoadLiabilities(c) PROVE Goal
    BY <1>0, <1>3 DEF SaveSnapshot, LoadLiabilities, Goto, RunTypeOK
  <1>4. ASSUME NEW c \in Call, LoadPrevious(c) PROVE Goal
    <2>1. c # d
      BY <1>4
    <2> QED BY <1>0, <1>4, <2>1 DEF LoadPrevious, Goto, RunTypeOK
  <1>5. ASSUME NEW c \in Call, Prove(c) \/ ReadError(c) PROVE Goal
    BY <1>0, <1>5 DEF Prove, ReadError, At, Goto, Return, RunTypeOK
  <1>6. ASSUME NEW c \in Call, Resolve(c) PROVE Goal
    BY <1>0, <1>6 DEF Resolve, At, Goto, Return, RunTypeOK
  <1>7. ASSUME NEW c \in Call, PublishReturns(c) \/ Publish(c) PROVE Goal
    BY <1>0, <1>7 DEF PublishReturns, Publish, Goto, Return, RunTypeOK, runVars
  <1>8. ASSUME NEW c \in Call,
               \/ SaveProof(c) \/ SaveError(c) \/ SetLatest(c) \/ SetLatestError(c)
               \/ AppendAudit(c) \/ AuditError(c) \/ Release(c) \/ ReleaseError(c)
        PROVE  Goal
    BY <1>0, <1>8 DEF SaveProof, SaveError, SetLatest, SetLatestError,
      AppendAudit, AuditError, Release, ReleaseError, Goto, Return, RunTypeOK
  <1>9. CASE \/ \E c \in Call : ContextDone(c)
             \/ \E t \in Tenant : LockExpires(t) \/ \E k \in Contract : SetTenantContract(t, k)
             \/ NetworkStep
             \/ UNCHANGED vars
    BY <1>9 DEF ContextDone, LockExpires, SetTenantContract, NetworkStep, vars, runVars
  <1> QED
    BY <1>1, <1>2, <1>3, <1>4, <1>5, <1>6, <1>7, <1>8, <1>9 DEF Next, Step

\* With the lock held, no row is added between the read and the publication.
LEMMA DeclaresStep ==
  ASSUME SavedInv, LockTypeOK, HoldsLock, DeclaresLatest, [Next]_vars
  PROVE  DeclaresLatest'
  <1>0. DataOK /\ RunTypeOK /\ tenant' = tenant
    BY ArgsFixed DEF SavedInv, DataOK
  <1> SUFFICES ASSUME NEW d \in Call, pc'[d] \in {"prove", "resolve"}
               PROVE  prev'[d] = Declares(d, LatestReserves(tenant[d]))'
    BY <1>0 DEF DeclaresLatest
  <1>1. CASE LoadPrevious(d)
    <2>1. UNCHANGED <<reserves, rows, tenant>> /\ prev'[d] = Declares(d, LatestReserves(tenant[d]))
      BY <1>0, <1>1 DEF LoadPrevious, Declares, RunTypeOK, storeVars, args
    <2> QED BY <2>1 DEF Declares, LatestReserves
  <1>2. CASE ~LoadPrevious(d)
    <2>1. /\ pc[d] \in {"prove", "resolve"}
          /\ prev'[d] = prev[d] /\ reserves'[d] = reserves[d]
      BY <1>0, <1>2, EntersProve
    <2>2. rows'[tenant[d]] = rows[tenant[d]]
      <3>1. ASSUME NEW c \in Call, SaveProof(c) \/ SaveError(c), tenant[d] = tenant[c] PROVE FALSE
        <4>1. pc[c] = "save"
          BY <3>1 DEF SaveProof, SaveError, At
        <4> QED BY <2>1, <3>1, <4>1 DEF HoldsLock, InCycle
      <3>2. tenant[d] \in Tenant
        BY <1>0 DEF RunTypeOK
      <3> QED BY <1>0, <3>1, <3>2, RowsGrow
    <2> QED BY <1>0, <2>1, <2>2 DEF DeclaresLatest, Declares, LatestReserves
  <1> QED BY <1>1, <1>2

\* With the lock held, every later cycle bounds against the real previous total,
\* unless a proof was published and not saved, a row is of a contract the tenant has
\* left, or a saved total is zero.
THEOREM BaselineFailsOnlyIfAlways == ASSUME ~OutlivesLock PROVE Spec => []BaselineFailsOnlyIf
  <1>1. Init => DeclaresLatest
    BY DEF Init, DeclaresLatest
  <1>2. SavedInv /\ (LockTypeOK /\ HoldsLock) /\ DeclaresLatest /\ [Next]_vars => DeclaresLatest'
    BY DeclaresStep
  <1>3. Spec => []DeclaresLatest
    BY <1>1, <1>2, SavedInductive, LockInductive, PTL DEF Spec
  <1>4. SavedInv /\ RowsInChainOrder /\ DeclaresLatest => BaselineFailsOnlyIf
    <2> SUFFICES ASSUME SavedInv, RowsInChainOrder, DeclaresLatest, NEW c \in Call, At(c, "resolve"),
                        Unsaved(tenant[c]) = {},
                        \A i \in DOMAIN rows[tenant[c]] :
                          /\ rows[tenant[c]][i].contract = contractOf[tenant[c]]
                          /\ rows[tenant[c]][i].r # 0
                 PROVE  BaselineMatches(c)
      BY DEF BaselineFailsOnlyIf
    <2> DEFINE t == tenant[c]
               k == contractOf[t]
    <2> SUFFICES ASSUME k # NoContract
                 PROVE  enforce_growth_baseline(Len(chain[k]), ChainReserves(k), prev[c], reserves[c])
      BY DEF BaselineMatches
    <2>1. /\ t \in Tenant /\ k \in Contract /\ rows[t] \in Seq(Row) /\ chain[k] \in Seq(Entry)
          /\ prev[c] = Declares(c, LatestReserves(t))
      BY DEF SavedInv, DataOK, LedgerInv, RunTypeOK, PubTypeOK, DeclaresLatest, At
    <2>2. \A i \in DOMAIN rows[t] :
            /\ rows[t][i].contract = k /\ rows[t][i].r # 0
            /\ rows[t][i].id \in DOMAIN chain[k]
            /\ chain[k][rows[t][i].id].r = rows[t][i].r
      <3> SUFFICES ASSUME NEW i \in DOMAIN rows[t]
                   PROVE  /\ rows[t][i].contract = k /\ rows[t][i].r # 0
                          /\ rows[t][i].id \in DOMAIN chain[k]
                          /\ chain[k][rows[t][i].id].r = rows[t][i].r
        OBVIOUS
      <3> DEFINE row == rows[t][i]
      <3>1. row.contract = k /\ row.r # 0
        OBVIOUS
      <3>2. /\ row.id \in DOMAIN chain[row.contract]
            /\ chain[row.contract][row.id] = [r |-> row.r, l |-> row.l, call |-> row.call]
        BY <2>1 DEF SavedInv, RowsAreOnChain
      <3> HIDE DEF row, k, t
      <3>3. chain[k][row.id].r = row.r
        BY <3>1, <3>2
      <3> QED BY <3>1, <3>2, <3>3 DEF row
    <2>3. \A id \in DOMAIN chain[k] : \E i \in DOMAIN rows[t] : rows[t][i].id = id
      BY DEF Unsaved
    <2>4. \A i, j \in DOMAIN rows[t] : i < j => rows[t][i].id < rows[t][j].id
      BY <2>1, <2>2 DEF RowsInChainOrder
    <2> HIDE DEF t, k
    <2>5. /\ Len(chain[k]) \in Nat /\ DOMAIN chain[k] = 1..Len(chain[k])
          /\ Len(rows[t]) \in Nat /\ DOMAIN rows[t] = 1..Len(rows[t])
          /\ (rows[t] = << >>) = (Len(rows[t]) = 0) /\ (chain[k] = << >>) = (Len(chain[k]) = 0)
      BY <2>1
    <2>6. CASE Len(chain[k]) = 0
      <3>1. rows[t] = << >>
        BY SMTT(30), <2>2, <2>5, <2>6
      <3> QED BY <2>1, <2>6, <3>1 DEF Declares, LatestReserves, isGenesisReserves, enforce_growth_baseline
    <2>7. CASE Len(chain[k]) # 0
      <3> DEFINE n == Len(chain[k])
                 m == Len(rows[t])
      <3>1. n \in DOMAIN chain[k]
        BY <2>5, <2>7
      <3>2. PICK i \in DOMAIN rows[t] : rows[t][i].id = n
        BY <2>3, <3>1
      <3>3. m \in DOMAIN rows[t] /\ i <= m /\ m # 0
        BY <2>5, <3>2
      <3>4. rows[t][m].id \in 1..n
        BY <2>2, <2>5, <3>3
      <3>5. i = m
        BY <2>4, <2>5, <3>2, <3>3, <3>4
      <3>6. ChainReserves(k) = rows[t][m].r
        <4>1. rows[t][m].id = n /\ ChainReserves(k) = chain[k][n].r
          BY <2>5, <2>7, <3>2, <3>5 DEF ChainReserves
        <4>2. chain[k][rows[t][m].id].r = rows[t][m].r
          BY <2>2, <3>3
        <4> QED BY <4>1, <4>2
      <3>7. LatestReserves(t) = rows[t][m].r /\ rows[t][m].r # 0
        BY <2>2, <2>5, <3>3 DEF LatestReserves
      <3> QED BY <2>1, <2>7, <3>6, <3>7 DEF Declares, isGenesisReserves, enforce_growth_baseline
    <2> QED BY <2>6, <2>7
  <1> QED BY <1>3, <1>4, SavedInductive, RowsFollowChain, PTL
-----------------------------------------------------------------------------
\* Under every fault of the cycle, and with runs of all tenants publishing at once,
\* each contract's chain is the append-only record its readers are promised.
THEOREM CycleChainsImplementRecord ==
  ASSUME NEW k \in Contract
  PROVE  Spec => Record(k)!Spec
  <1>1. Init => Record(k)!Init
    BY DEF Init, PubInit, Record!Init, RecordOf
  <1>2. SavedInv /\ [Next]_vars => [Record(k)!Next]_(RecordOf(k))
    BY CycleSteps, RecordStep DEF SavedInv, DataOK
  <1> QED BY <1>1, <1>2, SavedInductive, PTL DEF Spec, Record!Spec
=============================================================================
