------------------------------ MODULE Scheduler ------------------------------
(***************************************************************************)
(* The cron scheduler of the orchestrator                                  *)
(* (services/orchestrator/internal/infrastructure/scheduler/scheduler.go), *)
(* one or several instances of it, each the goroutine of a process.        *)
(*                                                                         *)
(* An instance handles one tick at a time: it lists the tenants, and runs  *)
(* those that are due one after the other, each with retries.  Cycle.Run   *)
(* appears as its caller sees it: refused by the tenant's lock or by the   *)
(* claim on the request key, or run to success or failure, where a failed  *)
(* run may have published (module Cycle has the details).                  *)
(***************************************************************************)
EXTENDS Integers, Sequences

CONSTANTS
  Sched,        \* scheduler instances
  Tenants,      \* the tenants, in the order of created_at
  Plan,         \* the plan of each
  Day,          \* hours in a day: 24, less in a model
  MaxRetries,   \* scheduler.go maxRetries
  NoRun,        \* the value of a lock nobody holds
  NoTick,       \* the value of an empty ticker channel
  Fails,        \* whether a listing or a run may fail
  Stops,        \* whether a process may be told to stop
  Restarts,     \* whether a process may die and start again
  MaxHour       \* bound: hours that pass

Tenant == {Tenants[i] : i \in DOMAIN Tenants}

ASSUME SchedulerAssumption ==
  /\ Tenants \in Seq(Tenant)
  /\ Plan \in [Tenant -> STRING]
  /\ Day \in Nat \ {0} /\ MaxRetries \in Nat \ {0} /\ MaxHour \in Nat
  /\ NoRun \notin Sched /\ NoTick \notin Nat
  /\ \A b \in {Fails, Stops, Restarts} : b \in BOOLEAN

VARIABLES
  hour,         \* the clock, in hours since the start of some day
  fired,        \* per instance, the hour its ticker last fired in
  slot,         \* per instance, the tick in ticker.C, which holds one
  pc,           \* per instance, where it is
  window,       \* the tick it handles or handled last
  at,           \* where the tenant it runs is in the list of tenants, or 0
  attempt,      \* the attempt it makes for the current tenant, from 0
  done,         \* instances whose context is done
  lock,         \* per tenant, the instance whose run holds the lock
  claims,       \* the request keys in cycle_runs
  cycles,       \* history: the published cycles
  listed,       \* history: instances that listed the tenants in this tick and did not restart since
  entered       \* history: per instance and tenant, the last window it entered runWithRetry in

clockVars == <<hour, fired, slot>>
runVars   == <<lock, claims, cycles>>
schedVars == <<hour, fired, slot, pc, window, at, attempt, done,
               lock, claims, cycles, listed, entered>>

Working == {"listing", "calling", "running", "backoff"}

SchedTypeOK ==
  /\ hour \in Nat /\ fired \in [Sched -> Nat]
  /\ slot \in [Sched -> Nat \cup {NoTick}]
  /\ pc \in [Sched -> {"waiting", "stopped"} \cup Working]
  /\ window \in [Sched -> Nat]
  /\ at \in [Sched -> 0..Len(Tenants)]
  /\ \A s \in Sched : pc[s] \in {"calling", "running", "backoff"} => at[s] # 0
  /\ attempt \in [Sched -> 0..(MaxRetries - 1)]
  /\ done \in [Sched -> BOOLEAN]
  /\ lock \in [Tenant -> Sched \cup {NoRun}]
  /\ claims \subseteq Tenant \X Nat \X Nat
  /\ cycles \subseteq [tenant: Tenant, window: Nat, attempt: Nat, by: Sched]
  /\ listed \subseteq Sched
  /\ entered \in [Sched -> [Tenant -> Nat]]

\* The processes start in the first hour; a ticker fires an interval later.
SchedInit ==
  /\ hour = 0 /\ fired = [s \in Sched |-> 0]
  /\ slot = [s \in Sched |-> NoTick]
  /\ pc = [s \in Sched |-> "waiting"]
  /\ window = [s \in Sched |-> 0]
  /\ at = [s \in Sched |-> 0]
  /\ attempt = [s \in Sched |-> 0]
  /\ done = [s \in Sched |-> FALSE]
  /\ lock = [t \in Tenant |-> NoRun]
  /\ claims = {} /\ cycles = {}
  /\ listed = {} /\ entered = [s \in Sched |-> [t \in Tenant |-> 0]]
-----------------------------------------------------------------------------
(* Time.                                                                   *)

\* time.Ticker: a tick that finds the channel full is dropped.
TickerFires(s) ==
  /\ pc[s] # "stopped"
  /\ fired[s] < hour
  /\ fired' = [fired EXCEPT ![s] = hour]
  /\ slot' = [slot EXCEPT ![s] = IF @ = NoTick THEN hour ELSE @]
  /\ UNCHANGED <<hour, pc, window, at, attempt, done, runVars, listed, entered>>

\* Every ticker fires once in every hour.
HourPasses ==
  /\ hour < MaxHour
  /\ \A s \in Sched : fired[s] = hour \/ pc[s] = "stopped"
  /\ hour' = hour + 1
  /\ UNCHANGED <<fired, slot, pc, window, at, attempt, done, runVars, listed, entered>>
-----------------------------------------------------------------------------
(* Run and tick.                                                           *)

\* CadenceForPlan, and hour 0 for a daily plan.
isDue(plan, w) == plan = "free" => w % Day = 0

\* Where the loop of tick finds a due tenant after its i-th round.
DueAfter(i, w) == {j \in DOMAIN Tenants : i < j /\ isDue(Plan[Tenants[j]], w)}

\* Run: case tick := <-ticker.C.
Receive(s) ==
  /\ pc[s] = "waiting"
  /\ slot[s] # NoTick
  /\ window' = [window EXCEPT ![s] = slot[s]]
  /\ slot' = [slot EXCEPT ![s] = NoTick]
  /\ pc' = [pc EXCEPT ![s] = "listing"]
  /\ listed' = listed \ {s}
  /\ UNCHANGED <<hour, fired, at, attempt, done, runVars, entered>>

\* Run: case <-ctx.Done().
Stopped(s) ==
  /\ pc[s] = "waiting"
  /\ done[s]
  /\ pc' = [pc EXCEPT ![s] = "stopped"]
  /\ UNCHANGED <<clockVars, window, at, attempt, done, runVars, listed, entered>>

\* The loop of tick goes on after its i-th round, to runWithRetry of the next due
\* tenant or to its end.
Continue(s, i) ==
  \/ /\ DueAfter(i, window[s]) = {}
     /\ at' = [at EXCEPT ![s] = 0]
     /\ pc' = [pc EXCEPT ![s] = "waiting"]
     /\ attempt' = [attempt EXCEPT ![s] = 0]
     /\ UNCHANGED entered
  \/ \E j \in DueAfter(i, window[s]) :
       /\ \A k \in DueAfter(i, window[s]) : j <= k
       /\ at' = [at EXCEPT ![s] = j]
       /\ pc' = [pc EXCEPT ![s] = "calling"]
       /\ attempt' = [attempt EXCEPT ![s] = 0]
       /\ entered' = [entered EXCEPT ![s][Tenants[j]] = window[s]]

\* runWithRetry returns.
Leave_breaks(s) == Continue(s, Len(Tenants))
Leave(s) == Continue(s, at[s])

ListTenants(s) ==
  /\ pc[s] = "listing"
  /\ ~done[s]
  /\ listed' = listed \cup {s}
  /\ Continue(s, 0)
  /\ UNCHANGED <<clockVars, window, done, runVars>>

ListError(s) ==
  /\ pc[s] = "listing"
  /\ Fails \/ done[s]
  /\ pc' = [pc EXCEPT ![s] = "waiting"]
  /\ UNCHANGED <<clockVars, window, at, attempt, done, runVars, listed, entered>>
-----------------------------------------------------------------------------
(* runWithRetry, and Cycle.Run as it sees it.                              *)

current(s) == Tenants[at[s]]

\* The request key: tenant, window and attempt.
RequestKey_perInstance(s) ==
  <<current(s), window[s],
    IF s = CHOOSE x \in Sched : TRUE THEN attempt[s] ELSE attempt[s] + MaxRetries>>
RequestKey(s) == <<current(s), window[s], attempt[s]>>

\* ErrCycleInProgress: not retried.
InProgress(s) ==
  /\ pc[s] = "calling" /\ ~done[s]
  /\ lock[current(s)] # NoRun
  /\ Leave(s)
  /\ UNCHANGED <<clockVars, window, done, runVars, listed>>

\* ErrDuplicateCycle: not retried.
DuplicateCycle(s) ==
  /\ pc[s] = "calling" /\ ~done[s]
  /\ lock[current(s)] = NoRun
  /\ RequestKey(s) \in claims
  /\ Leave(s)
  /\ UNCHANGED <<clockVars, window, done, runVars, listed>>

\* The run takes the lock and claims the key.
RunStarts(s) ==
  /\ pc[s] = "calling" /\ ~done[s]
  /\ lock[current(s)] = NoRun
  /\ RequestKey(s) \notin claims
  /\ lock' = [lock EXCEPT ![current(s)] = s]
  /\ claims' = claims \cup {RequestKey(s)}
  /\ pc' = [pc EXCEPT ![s] = "running"]
  /\ UNCHANGED <<clockVars, window, at, attempt, done, cycles, listed, entered>>

Published(s) ==
  cycles \cup {[tenant |-> current(s), window |-> window[s],
                attempt |-> attempt[s], by |-> s]}

\* err == nil.
RunSucceeds(s) ==
  /\ pc[s] = "running" /\ ~done[s]
  /\ cycles' = Published(s)
  /\ lock' = [lock EXCEPT ![current(s)] = NoRun]
  /\ Leave(s)
  /\ UNCHANGED <<clockVars, window, done, claims, listed>>

\* Any other error, ErrInsolvent included: back off, unless the context is done.
Failed(s) ==
  IF done[s] THEN Leave(s)
  ELSE /\ pc' = [pc EXCEPT ![s] = "backoff"]
       /\ UNCHANGED <<at, attempt, entered>>

\* The run fails before its claim: the lock or the claim could not be reached.
RunRefused(s) ==
  /\ pc[s] = "calling"
  /\ Fails \/ done[s]
  /\ Failed(s)
  /\ UNCHANGED <<clockVars, window, done, runVars, listed>>

\* The run fails after its claim, before or after it published, and its release
\* of the lock works or not.
RunFails(s) ==
  /\ pc[s] = "running"
  /\ Fails \/ done[s]
  /\ cycles' \in {cycles, Published(s)}
  /\ lock' \in {lock, [lock EXCEPT ![current(s)] = NoRun]}
  /\ Failed(s)
  /\ UNCHANGED <<clockVars, window, done, claims, listed>>

\* time.Sleep returns, and the loop goes on or is exhausted.
BackoffEnds_once_more(s) ==
  /\ pc[s] = "backoff"
  /\ IF attempt[s] + 1 <= MaxRetries
     THEN /\ attempt' = [attempt EXCEPT ![s] = @ + 1]
          /\ pc' = [pc EXCEPT ![s] = "calling"]
          /\ UNCHANGED <<at, entered>>
     ELSE Leave(s)
  /\ UNCHANGED <<clockVars, window, done, runVars, listed>>
BackoffEnds_forever(s) ==
  /\ pc[s] = "backoff"
  /\ pc' = [pc EXCEPT ![s] = "calling"]
  /\ UNCHANGED <<clockVars, window, at, attempt, done, runVars, listed, entered>>
BackoffEnds(s) ==
  /\ pc[s] = "backoff"
  /\ IF attempt[s] + 1 < MaxRetries
     THEN /\ attempt' = [attempt EXCEPT ![s] = @ + 1]
          /\ pc' = [pc EXCEPT ![s] = "calling"]
          /\ UNCHANGED <<at, entered>>
     ELSE Leave(s)
  /\ UNCHANGED <<clockVars, window, done, runVars, listed>>
-----------------------------------------------------------------------------
(* Around the scheduler.                                                   *)

\* The process is told to stop.
ContextDone(s) ==
  /\ Stops
  /\ ~done[s]
  /\ done' = [done EXCEPT ![s] = TRUE]
  /\ UNCHANGED <<clockVars, pc, window, at, attempt, runVars, listed, entered>>

\* The process dies, leaving its lock, and starts again with a fresh ticker.
Restart(s) ==
  /\ Restarts
  /\ pc[s] # "stopped"
  /\ fired' = [fired EXCEPT ![s] = hour]
  /\ slot' = [slot EXCEPT ![s] = NoTick]
  /\ pc' = [pc EXCEPT ![s] = "waiting"]
  /\ at' = [at EXCEPT ![s] = 0]
  /\ attempt' = [attempt EXCEPT ![s] = 0]
  /\ done' = [done EXCEPT ![s] = FALSE]
  /\ listed' = listed \ {s}
  /\ UNCHANGED <<hour, window, runVars, entered>>

\* Redis drops the lock of a run that has ended (module Cycle has runs that outlive it).
LockExpires(t) ==
  /\ lock[t] # NoRun
  /\ ~(pc[lock[t]] = "running" /\ current(lock[t]) = t)
  /\ lock' = [lock EXCEPT ![t] = NoRun]
  /\ UNCHANGED <<clockVars, pc, window, at, attempt, done, claims, cycles, listed, entered>>

SchedStep(s) ==
  \/ Receive(s) \/ Stopped(s) \/ ListTenants(s) \/ ListError(s)
  \/ InProgress(s) \/ DuplicateCycle(s) \/ RunStarts(s) \/ RunSucceeds(s)
  \/ RunRefused(s) \/ RunFails(s) \/ BackoffEnds(s)

SchedNext ==
  \/ \E s \in Sched : TickerFires(s) \/ SchedStep(s) \/ ContextDone(s) \/ Restart(s)
  \/ \E t \in Tenant : LockExpires(t)
  \/ HourPasses

SchedSpec == SchedInit /\ [][SchedNext]_schedVars

\* A run returns (module Cycle: EveryCycleReturns), a query is answered or fails, a
\* sleep ends.
SchedFairSpec == SchedSpec /\ \A s \in Sched : WF_schedVars(SchedStep(s))
-----------------------------------------------------------------------------
(* Properties.                                                             *)

\* However many instances there are, and however often they restart: one attempt
\* number of one window publishes for one instance only, and by their type there are
\* MaxRetries of them, so a window has at most MaxRetries cycles.
OneRunPerAttempt ==
  /\ SchedTypeOK
  /\ \A p, q \in cycles :
       p.tenant = q.tenant /\ p.window = q.window /\ p.attempt = q.attempt
         => p.by = q.by

\* A tenant that is busy, insolvent or failing never keeps the tenants after it
\* from being run: at the end of a tick, every due tenant has had its turn.
SkipsNoDueTenant ==
  \A s \in listed, t \in Tenant :
    pc[s] = "waiting" /\ isDue(Plan[t], window[s]) => entered[s][t] = window[s]

\* Every tick comes to an end, whatever its runs do.
EveryTickEnds ==
  \A s \in Sched : pc[s] \in Working ~> pc[s] \in {"waiting", "stopped"}
=============================================================================
