--------------------------- MODULE SchedulerProofs ---------------------------
(***************************************************************************)
(* Theorems about the cron scheduler, for every number of instances, every *)
(* list of tenants and plans, every number of retries and hours, whatever  *)
(* fails, stops or restarts.                                               *)
(***************************************************************************)
EXTENDS Scheduler, TLAPS

Serving == {"calling", "running", "backoff"}

\* A run holds the claim on its key, no other run has it, and a cycle under the key
\* is this run's own.
ClaimsInv ==
  /\ \A p \in cycles : <<p.tenant, p.window, p.attempt>> \in claims
  /\ \A s \in Sched : pc[s] = "running" =>
       /\ RequestKey(s) \in claims
       /\ \A p \in cycles : <<p.tenant, p.window, p.attempt>> = RequestKey(s) => p.by = s
       /\ \A r \in Sched \ {s} : pc[r] = "running" => RequestKey(r) # RequestKey(s)

\* Of an instance that has listed the tenants, every due one is behind the loop and
\* has had its turn, or still lies ahead of it.
TurnsInv ==
  \A s \in listed :
    /\ pc[s] # "listing"
    /\ \A j \in DOMAIN Tenants : isDue(Plan[Tenants[j]], window[s]) =>
         \/ entered[s][Tenants[j]] = window[s]
         \/ pc[s] \in Serving /\ at[s] < j

SchedInv == OneRunPerAttempt /\ ClaimsInv /\ TurnsInv
-----------------------------------------------------------------------------
\* What the tenants' list and a request key are.
LEMMA TenantsList ==
  /\ Len(Tenants) \in Nat /\ DOMAIN Tenants = 1..Len(Tenants)
  /\ \A i \in 1..Len(Tenants) : Tenants[i] \in Tenant
  <1>1. Tenants \in Seq(Tenant)
    BY SchedulerAssumption
  <1> QED BY <1>1

\* The instance of a tenant's run and its key, when it serves one.
LEMMA KeyType ==
  ASSUME SchedTypeOK, NEW s \in Sched, pc[s] \in Serving
  PROVE  /\ at[s] \in 1..Len(Tenants) /\ current(s) \in Tenant
         /\ RequestKey(s) \in Tenant \X Nat \X Nat
  <1>1. at[s] \in 1..Len(Tenants)
    BY TenantsList DEF SchedTypeOK, Serving
  <1>2. window[s] \in Nat /\ attempt[s] \in Nat
    BY SchedulerAssumption DEF SchedTypeOK
  <1> QED BY <1>1, <1>2, TenantsList DEF current, RequestKey

\* The loop of tick goes on: it calls the next due tenant, which is the first after
\* its last round, or ends because there is none; the other instances keep theirs.
LEMMA ContinueEffect ==
  ASSUME SchedTypeOK, NEW s \in Sched, NEW i \in 0..Len(Tenants), Continue(s, i)
  PROVE  /\ at' \in [Sched -> 0..Len(Tenants)]
         /\ pc' \in [Sched -> {"waiting", "stopped"} \cup Working]
         /\ attempt' \in [Sched -> 0..(MaxRetries - 1)]
         /\ entered' \in [Sched -> [Tenant -> Nat]]
         /\ pc'[s] \in {"waiting", "calling"}
         /\ pc'[s] = "calling" => at'[s] # 0
         /\ \A r \in Sched \ {s} : /\ pc'[r] = pc[r] /\ at'[r] = at[r]
                                   /\ attempt'[r] = attempt[r] /\ entered'[r] = entered[r]
         /\ \A t \in Tenant : entered[s][t] = window[s] => entered'[s][t] = window[s]
         /\ \A j \in DOMAIN Tenants : i < j /\ isDue(Plan[Tenants[j]], window[s]) =>
              \/ entered'[s][Tenants[j]] = window[s]
              \/ pc'[s] = "calling" /\ at'[s] < j
  <1> USE DEF SchedTypeOK
  <1>0. 0 \in 0..(MaxRetries - 1) /\ window[s] \in Nat
    BY SchedulerAssumption
  <1>1. CASE DueAfter(i, window[s]) = {} /\ pc' = [pc EXCEPT ![s] = "waiting"]
             /\ at' = [at EXCEPT ![s] = 0] /\ attempt' = [attempt EXCEPT ![s] = 0] /\ UNCHANGED entered
    <2>1. \A j \in DOMAIN Tenants : ~(i < j /\ isDue(Plan[Tenants[j]], window[s]))
      BY <1>1 DEF DueAfter
    <2> QED BY <1>0, <1>1, <2>1, TenantsList
  <1>2. ASSUME NEW j \in DueAfter(i, window[s]),
               \A k \in DueAfter(i, window[s]) : j <= k,
               at' = [at EXCEPT ![s] = j], pc' = [pc EXCEPT ![s] = "calling"],
               attempt' = [attempt EXCEPT ![s] = 0],
               entered' = [entered EXCEPT ![s][Tenants[j]] = window[s]]
        PROVE  /\ at' \in [Sched -> 0..Len(Tenants)]
               /\ pc' \in [Sched -> {"waiting", "stopped"} \cup Working]
               /\ attempt' \in [Sched -> 0..(MaxRetries - 1)]
               /\ entered' \in [Sched -> [Tenant -> Nat]]
               /\ pc'[s] = "calling" /\ at'[s] = j /\ j # 0
               /\ entered'[s] = [entered[s] EXCEPT ![Tenants[j]] = window[s]]
               /\ \A r \in Sched \ {s} : /\ pc'[r] = pc[r] /\ at'[r] = at[r]
                                         /\ attempt'[r] = attempt[r] /\ entered'[r] = entered[r]
               /\ \A t \in Tenant : entered[s][t] = window[s] => entered'[s][t] = window[s]
               /\ \A k \in DOMAIN Tenants : i < k /\ isDue(Plan[Tenants[k]], window[s]) =>
                    \/ entered'[s][Tenants[k]] = window[s]
                    \/ at'[s] < k
    <2>1. j \in 1..Len(Tenants) /\ Tenants[j] \in Tenant
      BY TenantsList DEF DueAfter
    <2>2. entered[s] \in [Tenant -> Nat]
      OBVIOUS
    <2>3. /\ at' \in [Sched -> 0..Len(Tenants)]
          /\ pc' \in [Sched -> {"waiting", "stopped"} \cup Working]
          /\ attempt' \in [Sched -> 0..(MaxRetries - 1)]
          /\ pc'[s] = "calling" /\ at'[s] = j /\ j # 0
      BY <1>0, <1>2, <2>1, TenantsList DEF Working
    <2>4. /\ entered' \in [Sched -> [Tenant -> Nat]]
          /\ entered'[s] = [entered[s] EXCEPT ![Tenants[j]] = window[s]]
      BY <1>0, <1>2, <2>1, <2>2
    <2>5. \A r \in Sched \ {s} : /\ pc'[r] = pc[r] /\ at'[r] = at[r]
                                 /\ attempt'[r] = attempt[r] /\ entered'[r] = entered[r]
      BY <1>2
    <2>6. \A k \in DOMAIN Tenants : i < k /\ isDue(Plan[Tenants[k]], window[s]) => j <= k
      BY <1>2 DEF DueAfter
    <2>7. \A k \in DOMAIN Tenants : Tenants[k] \in Tenant /\ k \in Nat
      BY TenantsList
    <2>8. \A t \in Tenant : entered[s][t] = window[s] => entered'[s][t] = window[s]
      BY <2>1, <2>2, <2>4
    <2>9. \A k \in DOMAIN Tenants : i < k /\ isDue(Plan[Tenants[k]], window[s]) =>
            \/ entered'[s][Tenants[k]] = window[s]
            \/ at'[s] < k
      BY <2>1, <2>2, <2>3, <2>4, <2>6, <2>7
    <2> QED BY <2>3, <2>4, <2>5, <2>8, <2>9
  <1>3. CASE \E j \in DueAfter(i, window[s]) :
               /\ \A k \in DueAfter(i, window[s]) : j <= k
               /\ at' = [at EXCEPT ![s] = j]
               /\ pc' = [pc EXCEPT ![s] = "calling"]
               /\ attempt' = [attempt EXCEPT ![s] = 0]
               /\ entered' = [entered EXCEPT ![s][Tenants[j]] = window[s]]
    BY <1>2, <1>3
  <1> QED BY <1>1, <1>3 DEF Continue
-----------------------------------------------------------------------------
\* A step that starts no run and publishes nothing: every run still going went
\* before, under the same key.
KeepsRuns ==
  /\ UNCHANGED <<claims, cycles>>
  /\ \A r \in Sched : pc'[r] = "running" => pc[r] = "running" /\ RequestKey(r)' = RequestKey(r)

\* A step that takes no turn: who has listed the tenants is where it was, or further
\* on with the same tenant.
KeepsTurns ==
  /\ listed' \subseteq listed
  /\ \A r \in listed' :
       /\ pc'[r] # "listing" /\ window'[r] = window[r] /\ entered'[r] = entered[r]
       /\ pc[r] \in Serving => pc'[r] \in Serving /\ at'[r] = at[r]

\* Every cycle there was, or one more under the key of the run of s; s runs no more.
EndsRun(s) ==
  /\ UNCHANGED claims
  /\ cycles' \in {cycles, Published(s)}
  /\ pc[s] = "running" /\ pc'[s] # "running"
  /\ \A r \in Sched \ {s} : pc'[r] = "running" => pc[r] = "running" /\ RequestKey(r)' = RequestKey(r)

LEMMA RunsKept ==
  ASSUME SchedTypeOK, SchedInv, KeepsRuns
  PROVE  ClaimsInv' /\ \A p, q \in cycles' :
           p.tenant = q.tenant /\ p.window = q.window /\ p.attempt = q.attempt => p.by = q.by
  BY DEF SchedInv, OneRunPerAttempt, ClaimsInv, KeepsRuns

LEMMA TurnsKept ==
  ASSUME SchedInv, KeepsTurns
  PROVE  TurnsInv'
  BY DEF SchedInv, TurnsInv, KeepsTurns

LEMMA RunEnded ==
  ASSUME SchedInv, NEW s \in Sched, EndsRun(s)
  PROVE  /\ cycles' \subseteq [tenant: Tenant, window: Nat, attempt: Nat, by: Sched]
         /\ ClaimsInv' /\ \A p, q \in cycles' :
           p.tenant = q.tenant /\ p.window = q.window /\ p.attempt = q.attempt => p.by = q.by
  <1> DEFINE new == [tenant |-> current(s), window |-> window[s], attempt |-> attempt[s], by |-> s]
             Key(p) == <<p.tenant, p.window, p.attempt>>
  <1>1. SchedTypeOK /\ pc[s] \in Serving
    BY DEF SchedInv, OneRunPerAttempt, EndsRun, Serving
  <1>2. new \in [tenant: Tenant, window: Nat, attempt: Nat, by: Sched]
    <2>1. window[s] \in Nat /\ attempt[s] \in Nat
      BY <1>1, SchedulerAssumption DEF SchedTypeOK
    <2> QED BY <1>1, <2>1, KeyType
  <1>3. Key(new) = RequestKey(s) /\ new.by = s
    BY DEF RequestKey
  <1>4. cycles \subseteq [tenant: Tenant, window: Nat, attempt: Nat, by: Sched]
    BY <1>1 DEF SchedTypeOK
  <1>5. cycles' \subseteq cycles \cup {new}
    BY DEF EndsRun, Published
  <1> HIDE DEF new
  <1>6. /\ RequestKey(s) \in claims
        /\ \A p \in cycles : Key(p) = RequestKey(s) => p.by = s
        /\ \A r \in Sched \ {s} : pc[r] = "running" => RequestKey(r) # RequestKey(s)
    BY DEF SchedInv, ClaimsInv, EndsRun
  <1>7. \A p, q \in cycles : Key(p) = Key(q) => p.by = q.by
    BY DEF SchedInv, OneRunPerAttempt
  <1>8. \A p, q \in cycles' : Key(p) = Key(q) => p.by = q.by
    <2> SUFFICES ASSUME NEW p \in cycles', NEW q \in cycles', Key(p) = Key(q) PROVE p.by = q.by
      OBVIOUS
    <2>1. CASE p \in cycles /\ q \in cycles
      BY <2>1, <1>7
    <2>2. CASE p = new /\ q \in cycles
      BY <2>2, <1>3, <1>6
    <2>3. CASE p \in cycles /\ q = new
      BY <2>3, <1>3, <1>6
    <2>4. CASE p = new /\ q = new
      BY <2>4
    <2> QED BY <1>5, <2>1, <2>2, <2>3, <2>4
  <1>9. ClaimsInv'
    <2>1. \A p \in cycles' : Key(p) \in claims
      BY <1>3, <1>5, <1>6 DEF SchedInv, ClaimsInv
    <2>2. ASSUME NEW r \in Sched, pc'[r] = "running"
          PROVE  /\ RequestKey(r)' \in claims
                 /\ \A p \in cycles' : Key(p) = RequestKey(r)' => p.by = r
                 /\ \A o \in Sched \ {r} : pc'[o] = "running" => RequestKey(o)' # RequestKey(r)'
      <3>1. r # s /\ pc[r] = "running" /\ RequestKey(r)' = RequestKey(r)
        BY <2>2 DEF EndsRun
      <3>2. RequestKey(r) \in claims
        BY <3>1 DEF SchedInv, ClaimsInv
      <3>3. \A p \in cycles : Key(p) = RequestKey(r) => p.by = r
        BY <3>1 DEF SchedInv, ClaimsInv
      <3>4. Key(new) # RequestKey(r)
        BY <1>3, <1>6, <3>1
      <3>5. \A o \in Sched \ {r} : pc'[o] = "running" => RequestKey(o)' # RequestKey(r)'
        <4>1. \A o \in Sched : pc'[o] = "running" => pc[o] = "running" /\ RequestKey(o)' = RequestKey(o)
          BY DEF EndsRun
        <4>2. \A o \in Sched \ {r} : pc[o] = "running" => RequestKey(o) # RequestKey(r)
          BY <3>1 DEF SchedInv, ClaimsInv
        <4> QED BY <3>1, <4>1, <4>2
      <3> QED BY <1>5, <3>1, <3>2, <3>3, <3>4, <3>5
    <2>3. claims' = claims
      BY DEF EndsRun
    <2> QED BY <2>1, <2>2, <2>3 DEF ClaimsInv
  <1>10. cycles' \subseteq [tenant: Tenant, window: Nat, attempt: Nat, by: Sched]
    BY <1>2, <1>4, <1>5
  <1> QED BY <1>8, <1>9, <1>10

\* A run that starts has a key no run had before it, and leaves no cycle under it yet.
LEMMA RunStarted ==
  ASSUME SchedInv, NEW s \in Sched, RunStarts(s)
  PROVE  SchedTypeOK' /\ ClaimsInv'
  <1>1. SchedTypeOK /\ pc[s] \in Serving
    BY DEF SchedInv, OneRunPerAttempt, RunStarts, Serving
  <1>2. RequestKey(s) \in Tenant \X Nat \X Nat /\ current(s) \in Tenant /\ at[s] # 0
    BY <1>1, KeyType
  <1>3. /\ pc' = [pc EXCEPT ![s] = "running"] /\ claims' = claims \cup {RequestKey(s)}
        /\ RequestKey(s) \notin claims /\ lock' = [lock EXCEPT ![current(s)] = s]
        /\ UNCHANGED <<hour, fired, slot, window, at, attempt, done, cycles, listed, entered>>
    BY DEF RunStarts, clockVars
  <1>4. SchedTypeOK'
    BY <1>1, <1>2, <1>3 DEF SchedTypeOK, Working
  <1>5. \A r \in Sched : /\ RequestKey(r)' = RequestKey(r)
                         /\ r # s => pc'[r] = pc[r]
    BY <1>1, <1>3 DEF RequestKey, current, SchedTypeOK
  <1>6. ClaimsInv'
    BY <1>3, <1>5 DEF SchedInv, ClaimsInv
  <1> QED BY <1>4, <1>6
-----------------------------------------------------------------------------
\* One run of the current tenant is over, or none was made: the loop goes on.
LEMMA Left ==
  ASSUME SchedInv, NEW s \in Sched, pc[s] \in Serving, Leave(s),
         UNCHANGED <<clockVars, window, done, listed>>
  PROVE  /\ pc' \in [Sched -> {"waiting", "stopped"} \cup Working]
         /\ at' \in [Sched -> 0..Len(Tenants)]
         /\ attempt' \in [Sched -> 0..(MaxRetries - 1)]
         /\ entered' \in [Sched -> [Tenant -> Nat]]
         /\ \A r \in Sched : pc'[r] \in Serving => at'[r] # 0
         /\ pc'[s] # "running"
         /\ \A r \in Sched \ {s} : pc'[r] = pc[r] /\ RequestKey(r)' = RequestKey(r)
         /\ TurnsInv'
  <1>0. SchedTypeOK
    BY DEF SchedInv, OneRunPerAttempt
  <1>1. at[s] \in 0..Len(Tenants) /\ Continue(s, at[s])
    BY <1>0 DEF Leave, SchedTypeOK
  <1>2. /\ pc' \in [Sched -> {"waiting", "stopped"} \cup Working]
        /\ at' \in [Sched -> 0..Len(Tenants)]
        /\ attempt' \in [Sched -> 0..(MaxRetries - 1)]
        /\ entered' \in [Sched -> [Tenant -> Nat]]
        /\ pc'[s] \in {"waiting", "calling"}
        /\ pc'[s] = "calling" => at'[s] # 0
        /\ \A r \in Sched \ {s} : /\ pc'[r] = pc[r] /\ at'[r] = at[r]
                                  /\ attempt'[r] = attempt[r] /\ entered'[r] = entered[r]
        /\ \A t \in Tenant : entered[s][t] = window[s] => entered'[s][t] = window[s]
        /\ \A j \in DOMAIN Tenants : at[s] < j /\ isDue(Plan[Tenants[j]], window[s]) =>
             \/ entered'[s][Tenants[j]] = window[s]
             \/ pc'[s] = "calling" /\ at'[s] < j
    BY <1>0, <1>1, ContinueEffect
  <1>3. \A r \in Sched : pc'[r] \in Serving => at'[r] # 0
    BY <1>0, <1>2 DEF SchedTypeOK, Serving
  <1>4. \A r \in Sched \ {s} : RequestKey(r)' = RequestKey(r)
    BY <1>2 DEF RequestKey, current
  <1>5. ASSUME NEW r \in listed
        PROVE  /\ pc'[r] # "listing"
               /\ \A j \in DOMAIN Tenants : isDue(Plan[Tenants[j]], window[r]) =>
                    \/ entered'[r][Tenants[j]] = window[r]
                    \/ pc'[r] \in Serving /\ at'[r] < j
    <2>1. r \in Sched
      BY <1>0 DEF SchedTypeOK
    <2>2. /\ pc[r] # "listing"
          /\ \A j \in DOMAIN Tenants : isDue(Plan[Tenants[j]], window[r]) =>
               \/ entered[r][Tenants[j]] = window[r]
               \/ pc[r] \in Serving /\ at[r] < j
      BY DEF SchedInv, TurnsInv
    <2>3. CASE r # s
      BY <1>2, <2>1, <2>2, <2>3
    <2>4. CASE r = s
      <3>1. \A j \in DOMAIN Tenants : Tenants[j] \in Tenant
        BY TenantsList
      <3> QED BY <1>2, <2>2, <2>4, <3>1 DEF Serving
    <2> QED BY <2>3, <2>4
  <1>6. TurnsInv'
    BY <1>5 DEF TurnsInv
  <1> QED BY <1>2, <1>3, <1>4, <1>6

\* A run fails, or cannot be made: it is given up, or backed off from.
LEMMA FailedEffect ==
  ASSUME SchedInv, NEW s \in Sched, pc[s] \in Serving, Failed(s),
         UNCHANGED <<clockVars, window, done, listed>>
  PROVE  /\ pc' \in [Sched -> {"waiting", "stopped"} \cup Working]
         /\ at' \in [Sched -> 0..Len(Tenants)]
         /\ attempt' \in [Sched -> 0..(MaxRetries - 1)]
         /\ entered' \in [Sched -> [Tenant -> Nat]]
         /\ \A r \in Sched : pc'[r] \in Serving => at'[r] # 0
         /\ pc'[s] # "running"
         /\ \A r \in Sched \ {s} : pc'[r] = pc[r] /\ RequestKey(r)' = RequestKey(r)
         /\ TurnsInv'
  <1>0. SchedTypeOK
    BY DEF SchedInv, OneRunPerAttempt
  <1>1. CASE done[s]
    BY <1>1, Left DEF Failed
  <1>2. CASE ~done[s]
    <2>1. pc' = [pc EXCEPT ![s] = "backoff"] /\ UNCHANGED <<at, attempt, entered>>
      BY <1>2 DEF Failed
    <2>2. \A r \in Sched \ {s} : pc'[r] = pc[r] /\ RequestKey(r)' = RequestKey(r)
      BY <2>1, <1>0 DEF SchedTypeOK, RequestKey, current
    <2>3. TurnsInv'
      <3>1. KeepsTurns
        BY <1>0, <2>1 DEF KeepsTurns, SchedTypeOK, Serving, SchedInv, TurnsInv
      <3> QED BY <3>1, TurnsKept
    <2> QED BY <1>0, <2>1, <2>2, <2>3 DEF SchedTypeOK, Working, Serving
  <1> QED BY <1>1, <1>2
-----------------------------------------------------------------------------
LEMMA SchedInitInv ==
  SchedInit => SchedInv
  <1> SUFFICES ASSUME SchedInit PROVE SchedInv
    OBVIOUS
  <1>1. SchedTypeOK
    BY SchedulerAssumption, TenantsList DEF SchedInit, SchedTypeOK
  <1> QED BY <1>1 DEF SchedInit, SchedInv, OneRunPerAttempt, ClaimsInv, TurnsInv

\* Outside tick, and when the tenants cannot be listed.
LEMMA TickerStep ==
  ASSUME SchedInv, NEW s \in Sched,
         \/ TickerFires(s) \/ Receive(s) \/ Stopped(s) \/ ListError(s)
         \/ ContextDone(s) \/ Restart(s)
  PROVE  SchedInv'
  <1> USE DEF clockVars, runVars
  <1>0. SchedTypeOK
    BY DEF SchedInv, OneRunPerAttempt
  <1>1. SchedTypeOK' /\ KeepsRuns /\ KeepsTurns
    <2> USE <1>0 DEF SchedTypeOK, KeepsRuns, KeepsTurns, RequestKey, current, Working, Serving
    <2>0. \A r \in listed : r \in Sched /\ pc[r] # "listing"
      BY DEF SchedInv, TurnsInv
    <2>1. CASE TickerFires(s)
      BY <2>0, <2>1 DEF TickerFires
    <2>2. CASE Receive(s)
      <3>1. slot[s] \in Nat
        BY <2>2 DEF Receive
      <3>2. SchedTypeOK'
        BY <2>2, <3>1 DEF Receive
      <3>3. KeepsRuns /\ KeepsTurns
        BY <2>0, <2>2 DEF Receive
      <3> QED BY <3>2, <3>3
    <2>3. CASE Stopped(s)
      BY <2>0, <2>3 DEF Stopped
    <2>4. CASE ListError(s)
      BY <2>0, <2>4 DEF ListError
    <2>5. CASE ContextDone(s)
      BY <2>0, <2>5 DEF ContextDone
    <2>6. CASE Restart(s)
      <3>0. 0 \in 0..(MaxRetries - 1) /\ 0 \in 0..Len(Tenants)
        BY SchedulerAssumption, TenantsList
      <3>1. SchedTypeOK'
        BY <2>6, <3>0 DEF Restart
      <3>2. /\ \A r \in Sched \ {s} : /\ pc'[r] = pc[r] /\ at'[r] = at[r]
                                      /\ window'[r] = window[r] /\ attempt'[r] = attempt[r]
            /\ pc'[s] = "waiting" /\ entered' = entered /\ listed' = listed \ {s}
            /\ UNCHANGED <<claims, cycles>>
        BY <2>6 DEF Restart
      <3>3. KeepsRuns
        BY <3>2
      <3>4. KeepsTurns
        <4> SUFFICES ASSUME NEW r \in listed'
                     PROVE  /\ pc'[r] # "listing" /\ window'[r] = window[r] /\ entered'[r] = entered[r]
                            /\ pc[r] \in Serving => pc'[r] \in Serving /\ at'[r] = at[r]
          BY <3>2
        <4>1. r \in Sched \ {s} /\ pc[r] # "listing"
          BY <2>0, <3>2
        <4> QED BY <3>2, <4>1
      <3> QED BY <3>1, <3>3, <3>4
    <2> QED BY <2>1, <2>2, <2>3, <2>4, <2>5, <2>6
  <1> QED BY <1>0, <1>1, RunsKept, TurnsKept DEF SchedInv, OneRunPerAttempt

\* The tenants are listed: the loop starts before the first.
LEMMA ListStep ==
  ASSUME SchedInv, NEW s \in Sched, ListTenants(s)
  PROVE  SchedInv'
  <1> USE DEF clockVars, runVars
  <1>0. SchedTypeOK
    BY DEF SchedInv, OneRunPerAttempt
  <1>1. 0 \in 0..Len(Tenants)
    BY TenantsList
  <1>2. /\ pc[s] = "listing" /\ listed' = listed \cup {s} /\ Continue(s, 0)
        /\ UNCHANGED <<hour, fired, slot, window, done, lock, claims, cycles>>
    BY DEF ListTenants
  <1>3. /\ pc' \in [Sched -> {"waiting", "stopped"} \cup Working]
        /\ at' \in [Sched -> 0..Len(Tenants)]
        /\ attempt' \in [Sched -> 0..(MaxRetries - 1)]
        /\ entered' \in [Sched -> [Tenant -> Nat]]
        /\ pc'[s] \in {"waiting", "calling"}
        /\ pc'[s] = "calling" => at'[s] # 0
        /\ \A r \in Sched \ {s} : /\ pc'[r] = pc[r] /\ at'[r] = at[r]
                                  /\ attempt'[r] = attempt[r] /\ entered'[r] = entered[r]
        /\ \A j \in DOMAIN Tenants : 0 < j /\ isDue(Plan[Tenants[j]], window[s]) =>
             \/ entered'[s][Tenants[j]] = window[s]
             \/ pc'[s] = "calling" /\ at'[s] < j
    BY <1>0, <1>1, <1>2, ContinueEffect
  <1>4. SchedTypeOK'
    BY <1>0, <1>2, <1>3 DEF SchedTypeOK
  <1>5. KeepsRuns
    BY <1>2, <1>3 DEF KeepsRuns, RequestKey, current
  <1>6. ASSUME NEW r \in listed'
        PROVE  /\ pc'[r] # "listing"
               /\ \A j \in DOMAIN Tenants : isDue(Plan[Tenants[j]], window[r]) =>
                    \/ entered'[r][Tenants[j]] = window[r]
                    \/ pc'[r] \in Serving /\ at'[r] < j
    <2>1. CASE r = s
      BY <1>3, <2>1, TenantsList DEF Serving
    <2>2. CASE r # s
      <3>1. r \in listed /\ r \in Sched
        BY <1>0, <1>2, <2>2 DEF SchedTypeOK
      <3> QED BY <1>3, <2>2, <3>1 DEF SchedInv, TurnsInv
    <2> QED BY <2>1, <2>2
  <1>7. TurnsInv'
    BY <1>2, <1>6 DEF TurnsInv
  <1> QED BY <1>0, <1>4, <1>5, <1>7, RunsKept DEF SchedInv, OneRunPerAttempt

\* A tenant's turn goes on without a run, or ends without one.
LEMMA TurnStep ==
  ASSUME SchedInv, NEW s \in Sched,
         InProgress(s) \/ DuplicateCycle(s) \/ RunRefused(s) \/ BackoffEnds(s)
  PROVE  SchedInv'
  <1> USE DEF clockVars, runVars
  <1>0. SchedTypeOK /\ pc[s] \in Serving
    BY DEF SchedInv, OneRunPerAttempt, Serving, InProgress, DuplicateCycle, RunRefused, BackoffEnds
  <1>1. UNCHANGED <<hour, fired, slot, window, done, lock, claims, cycles, listed>>
    BY DEF InProgress, DuplicateCycle, RunRefused, BackoffEnds
  <1>2. /\ pc' \in [Sched -> {"waiting", "stopped"} \cup Working]
        /\ at' \in [Sched -> 0..Len(Tenants)]
        /\ attempt' \in [Sched -> 0..(MaxRetries - 1)]
        /\ entered' \in [Sched -> [Tenant -> Nat]]
        /\ \A r \in Sched : pc'[r] \in Serving => at'[r] # 0
        /\ pc'[s] # "running"
        /\ \A r \in Sched \ {s} : pc'[r] = pc[r] /\ RequestKey(r)' = RequestKey(r)
        /\ TurnsInv'
    <2>1. CASE Leave(s)
      BY <1>0, <1>1, <2>1, Left
    <2>2. CASE Failed(s)
      BY <1>0, <1>1, <2>2, FailedEffect
    <2>3. CASE /\ attempt[s] + 1 < MaxRetries
               /\ attempt' = [attempt EXCEPT ![s] = @ + 1]
               /\ pc' = [pc EXCEPT ![s] = "calling"] /\ UNCHANGED <<at, entered>>
      <3>1. attempt[s] + 1 \in 0..(MaxRetries - 1)
        BY <1>0, <2>3, SchedulerAssumption DEF SchedTypeOK
      <3>2. \A r \in Sched \ {s} : pc'[r] = pc[r] /\ RequestKey(r)' = RequestKey(r)
        BY <1>1, <2>3 DEF RequestKey, current
      <3>3. TurnsInv'
        <4>1. KeepsTurns
          BY <1>0, <1>1, <2>3 DEF KeepsTurns, SchedTypeOK, Serving, SchedInv, TurnsInv
        <4> QED BY <4>1, TurnsKept
      <3> QED BY <1>0, <2>3, <3>1, <3>2, <3>3 DEF SchedTypeOK, Working, Serving
    <2> QED BY <2>1, <2>2, <2>3 DEF InProgress, DuplicateCycle, RunRefused, BackoffEnds
  <1>3. SchedTypeOK'
    BY <1>0, <1>1, <1>2 DEF SchedTypeOK, Serving
  <1>4. KeepsRuns
    BY <1>1, <1>2 DEF KeepsRuns
  <1> QED BY <1>0, <1>2, <1>3, <1>4, RunsKept DEF SchedInv, OneRunPerAttempt

\* A run ends, with a cycle published or without one.
LEMMA RunEndStep ==
  ASSUME SchedInv, NEW s \in Sched, RunSucceeds(s) \/ RunFails(s)
  PROVE  SchedInv'
  <1> USE DEF clockVars, runVars
  <1>0. SchedTypeOK /\ pc[s] \in Serving /\ pc[s] = "running"
    BY DEF SchedInv, OneRunPerAttempt, Serving, RunSucceeds, RunFails
  <1>1. /\ UNCHANGED <<hour, fired, slot, window, done, claims, listed>>
        /\ cycles' \in {cycles, Published(s)}
        /\ lock' \in {lock, [lock EXCEPT ![current(s)] = NoRun]}
    BY DEF RunSucceeds, RunFails
  <1>2. /\ pc' \in [Sched -> {"waiting", "stopped"} \cup Working]
        /\ at' \in [Sched -> 0..Len(Tenants)]
        /\ attempt' \in [Sched -> 0..(MaxRetries - 1)]
        /\ entered' \in [Sched -> [Tenant -> Nat]]
        /\ \A r \in Sched : pc'[r] \in Serving => at'[r] # 0
        /\ pc'[s] # "running"
        /\ \A r \in Sched \ {s} : pc'[r] = pc[r] /\ RequestKey(r)' = RequestKey(r)
        /\ TurnsInv'
    <2>1. CASE Leave(s)
      BY <1>0, <1>1, <2>1, Left
    <2>2. CASE Failed(s)
      BY <1>0, <1>1, <2>2, FailedEffect
    <2> QED BY <2>1, <2>2 DEF RunSucceeds, RunFails
  <1>3. EndsRun(s)
    BY <1>0, <1>1, <1>2 DEF EndsRun
  <1>4. /\ cycles' \subseteq [tenant: Tenant, window: Nat, attempt: Nat, by: Sched]
        /\ ClaimsInv' /\ \A p, q \in cycles' :
          p.tenant = q.tenant /\ p.window = q.window /\ p.attempt = q.attempt => p.by = q.by
    BY <1>3, RunEnded
  <1>5. lock' \in [Tenant -> Sched \cup {NoRun}]
    BY <1>0, <1>1 DEF SchedTypeOK
  <1>6. SchedTypeOK'
    BY <1>0, <1>1, <1>2, <1>4, <1>5 DEF SchedTypeOK, Serving
  <1> QED BY <1>2, <1>4, <1>6 DEF SchedInv, OneRunPerAttempt

\* Steps of no instance, and none at all.
LEMMA WorldStep ==
  ASSUME SchedInv, HourPasses \/ (\E t \in Tenant : LockExpires(t)) \/ UNCHANGED schedVars
  PROVE  SchedInv'
  <1> USE DEF clockVars, runVars, schedVars
  <1>0. SchedTypeOK /\ \A r \in listed : r \in Sched /\ pc[r] # "listing"
    BY DEF SchedInv, OneRunPerAttempt, TurnsInv, SchedTypeOK
  <1>1. /\ UNCHANGED <<fired, slot, pc, window, at, attempt, done, claims, cycles, listed, entered>>
        /\ hour' \in Nat /\ lock' \in [Tenant -> Sched \cup {NoRun}]
    <2> USE <1>0 DEF SchedTypeOK
    <2>1. CASE HourPasses
      BY <2>1 DEF HourPasses
    <2>2. CASE \E t \in Tenant : LockExpires(t)
      BY <2>2 DEF LockExpires
    <2> QED BY <2>1, <2>2
  <1>2. SchedTypeOK'
    BY <1>0, <1>1 DEF SchedTypeOK
  <1>3. KeepsRuns
    BY <1>1 DEF KeepsRuns, RequestKey, current
  <1>4. KeepsTurns
    BY <1>0, <1>1 DEF KeepsTurns
  <1> QED BY <1>0, <1>2, <1>3, <1>4, RunsKept, TurnsKept DEF SchedInv, OneRunPerAttempt

LEMMA SchedStepInv ==
  SchedInv /\ [SchedNext]_schedVars => SchedInv'
  <1> SUFFICES ASSUME SchedInv, [SchedNext]_schedVars PROVE SchedInv'
    OBVIOUS
  <1>1. CASE \E s \in Sched : TickerFires(s) \/ SchedStep(s) \/ ContextDone(s) \/ Restart(s)
    <2>1. PICK s \in Sched : TickerFires(s) \/ SchedStep(s) \/ ContextDone(s) \/ Restart(s)
      BY <1>1
    <2>2. CASE \/ TickerFires(s) \/ Receive(s) \/ Stopped(s) \/ ListError(s)
               \/ ContextDone(s) \/ Restart(s)
      BY <2>2, TickerStep
    <2>3. CASE ListTenants(s)
      BY <2>3, ListStep
    <2>4. CASE InProgress(s) \/ DuplicateCycle(s) \/ RunRefused(s) \/ BackoffEnds(s)
      BY <2>4, TurnStep
    <2>5. CASE RunSucceeds(s) \/ RunFails(s)
      BY <2>5, RunEndStep
    <2>6. CASE RunStarts(s)
      <3>1. SchedTypeOK' /\ ClaimsInv'
        BY <2>6, RunStarted
      <3>2. UNCHANGED <<window, at, attempt, cycles, listed, entered>> /\ pc[s] = "calling"
            /\ pc' = [pc EXCEPT ![s] = "running"]
        BY <2>6 DEF RunStarts
      <3>3. KeepsTurns
        BY <3>2 DEF KeepsTurns, SchedInv, OneRunPerAttempt, TurnsInv, SchedTypeOK, Serving
      <3> QED BY <3>1, <3>2, <3>3, TurnsKept DEF SchedInv, OneRunPerAttempt
    <2> QED BY <2>1, <2>2, <2>3, <2>4, <2>5, <2>6 DEF SchedStep
  <1> QED BY <1>1, WorldStep DEF SchedNext

\* The invariant in full: claims, turns and types, with the claim of the package
\* comment that one (tenant, window, attempt) is run once.
THEOREM SchedInvariant ==
  SchedSpec => []SchedInv
  <1> QED BY SchedInitInv, SchedStepInv, PTL DEF SchedSpec

\* Request keys (runWithRetry): one attempt of one window publishes for one instance
\* only, however many instances race, fail, are stopped or die.
THEOREM OneRunPerAttemptAlways ==
  SchedSpec => []OneRunPerAttempt
  <1>1. SchedInv => OneRunPerAttempt
    BY DEF SchedInv
  <1> QED BY <1>1, SchedInvariant, PTL

\* The loop of tick: no tenant that is busy, failing or insolvent costs a tenant
\* after it its turn, whatever the list and the plans.
THEOREM SkipsNoDueTenantAlways ==
  SchedSpec => []SkipsNoDueTenant
  <1>1. SchedInv => SkipsNoDueTenant
    <2> SUFFICES ASSUME SchedInv, NEW s \in listed, NEW t \in Tenant,
                        pc[s] = "waiting", isDue(Plan[t], window[s])
                 PROVE  entered[s][t] = window[s]
      BY DEF SkipsNoDueTenant
    <2>1. PICK j \in DOMAIN Tenants : t = Tenants[j]
      BY DEF Tenant
    <2> QED BY <2>1 DEF SchedInv, TurnsInv, Serving
  <1> QED BY <1>1, SchedInvariant, PTL
=============================================================================
