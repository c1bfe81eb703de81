-------------------------------- MODULE Demo --------------------------------
(***************************************************************************)
(* The website's live demo: the page of each visitor                       *)
(* (apps/website/src/features/product: hooks/use-sandbox.ts,               *)
(* lib/sandbox.ts, components/demo/sandbox.tsx), the API routes behind it  *)
(* (app/api/sandbox), and what they share: the sandbox bank                *)
(* (services/sandbox), the orchestrator's cycle with its attested source,  *)
(* and the registries.                                                     *)
(*                                                                         *)
(* A page runs one step at a time.  Each request of a route is a step of   *)
(* the model, so visitors interleave at every one of them.                 *)
(***************************************************************************)
EXTENDS Integers, Sequences, FiniteSets, FiniteSetsExt, SequencesExt

CONSTANTS
  Visitor,
  Institution,
  Kind,          \* per institution: "attested" or "onchain"
  Owed,          \* per institution: the total committed
  Account,       \* the custodian's accounts, in the order of RESERVE_ACCOUNTS
  Scenario,
  Balance,       \* per scenario and account
  First,         \* the institution and the scenario a page opens with
  Holding,       \* what an account on Stellar may hold
  None,
  Fails,         \* whether a request may fail
  MaxRuns,       \* bound: loads of all pages
  MaxSeeds       \* bound: seedings of the bank

Accounts == Range(Account)

ASSUME DemoAssumption ==
  /\ Kind \in [Institution -> {"attested", "onchain"}]
  /\ Owed \in [Institution -> Nat]
  /\ Account \in Seq(Accounts) /\ Len(Account) > 0
  /\ Balance \in [Scenario -> [Accounts -> Nat]]
  /\ First \in Institution \X Scenario
  /\ Holding \subseteq Nat
  /\ None \notin Nat /\ None \notin Institution /\ None \notin Scenario /\ None \notin Visitor
  /\ Fails \in BOOLEAN /\ MaxRuns \in Nat /\ MaxSeeds \in Nat

\* demo-institutions.ts: where an institution's reserves are.
Attested(inst) == Kind[inst] = "attested"

\* STEPS and NEXT_STEP.
Steps == <<"registry", "connect", "reserves", "prove", "verify", "inclusion">>
StepId == Range(Steps)
Index(step) == CHOOSE i \in DOMAIN Steps : Steps[i] = step
Later_all(step) == {Steps[i] : i \in (Index(step) + 1)..Len(Steps)}
Later(step) == IF Index(step) < Len(Steps) THEN {Steps[Index(step) + 1]} ELSE {}

StepStatus == {"locked", "ready", "running", "done", "failed"}

\* The state of a page, and of the request of the step that it runs.
Page == [inst: Institution, scen: Scenario, run: Nat, status: [StepId -> StepStatus],
         busy: BOOLEAN, contract: Institution \cup {None}, proof: Nat \cup {None}]

Stop == {"registry", "connect", "reading", "holding", "seeding", "posting", "cycle", "saving",
         "proof", "verify", "inclusion"}
Job == [step: StepId, inst: Institution, scen: Scenario, run: Nat, at: Stop,
        read: [Accounts -> Nat \cup {None}], total: Nat, since: Nat, own: Nat]

Unread == [a \in Accounts |-> None]

\* FetchSigned: the balances are added in the order of the accounts.
Total(balances) ==
  LET sum[n \in 0..Len(Account)] == IF n = 0 THEN 0 ELSE sum[n - 1] + balances[Account[n]]
  IN sum[Len(Account)]

VARIABLES
  page,      \* per visitor: the state of useSandbox
  shown,     \* per visitor and step: the institution and load the log lines are about
  loads,     \* per visitor: the requests of the registry effect in flight
  job,       \* per visitor: the step it runs, and where its request is
  bank,      \* the sandbox's balance per account
  lock,      \* per institution: the visitor whose cycle runs
  chain,     \* per institution: the totals its registry holds
  rows,      \* per institution: the ids of the proofs the orchestrator has saved
  seeds      \* history: how often the bank was seeded

shared == <<bank, lock, chain, rows, seeds>>
demoVars == <<page, shown, loads, job, shared>>

DemoTypeOK ==
  /\ page \in [Visitor -> Page]
  /\ shown \in [Visitor -> [StepId -> (Institution \X Nat) \cup {None}]]
  /\ loads \in [Visitor -> SUBSET (Institution \X Nat)]
  /\ job \in [Visitor -> Job \cup {None}]
  /\ \A v \in Visitor : job[v] # None => job[v].own <= Len(chain[job[v].inst])
  /\ bank \in [Accounts -> Nat]
  /\ lock \in [Institution -> Visitor \cup {None}]
  /\ chain \in [Institution -> Seq(Nat)]
  /\ rows \in [Institution -> Seq(Nat)]
  /\ seeds \in Nat

\* startingStatus.
Starting == [s \in StepId |-> IF s = "registry" THEN "running" ELSE "locked"]

\* What the log lines of a step are about: the institution and the run they came from.
Lines(inst, run) == <<inst, run>>

EmptyLogs == [s \in StepId |-> None]

DemoInit ==
  /\ page = [v \in Visitor |->
               [inst |-> First[1], scen |-> First[2], run |-> 1, status |-> Starting,
                busy |-> FALSE, contract |-> None, proof |-> None]]
  /\ loads = [v \in Visitor |-> {<<First[1], 1>>}]
  /\ shown = [v \in Visitor |-> EmptyLogs]
  /\ job = [v \in Visitor |-> None]
  /\ bank = Balance[First[2]]
  /\ lock = [i \in Institution |-> None]
  /\ chain = [i \in Institution |-> << >>]
  /\ rows = [i \in Institution |-> << >>]
  /\ seeds = 0
-----------------------------------------------------------------------------
(* The page: institution, scenario, restart, and the registry effect.      *)

\* clear, and the effect that depends on the institution and the run.
Cleared(v, inst) ==
  /\ MapThenSumSet(LAMBDA w : page[w].run, Visitor) < MaxRuns
  /\ page' = [page EXCEPT ![v].inst = inst, ![v].run = @ + 1,
                          ![v].status = Starting, ![v].proof = None]
  /\ shown' = [shown EXCEPT ![v] = EmptyLogs]
  /\ loads' = [loads EXCEPT ![v] = @ \cup {<<inst, page[v].run + 1>>}]
  /\ UNCHANGED <<job, shared>>

\* The controls are disabled while a step runs.
Enabled_always(v) == TRUE
Enabled(v) == ~page[v].busy

setInstitution(v, inst) ==
  /\ Enabled(v) /\ inst # page[v].inst
  /\ Cleared(v, inst)

reset(v) == Enabled(v) /\ Cleared(v, page[v].inst)

setScenario(v, scen) ==
  /\ Enabled(v) /\ scen # page[v].scen /\ Attested(page[v].inst)
  /\ page' = [page EXCEPT ![v].scen = scen]
  /\ UNCHANGED <<shown, loads, job, shared>>

\* The effect's clean-up: an answer to an earlier effect is dropped.
Cancelled(v, load) == load[2] # page[v].run

\* The newest proof the orchestrator has of an institution.
LatestRow_oldest(inst) == IF rows[inst] = << >> THEN None ELSE Head(rows[inst])
LatestRow(inst) == IF rows[inst] = << >> THEN None ELSE Last(rows[inst])

\* The status route: the contract, which every demo institution has, and the proof.
Registry(inst) == [contract |-> inst, proof |-> LatestRow(inst)]

\* The then of the registry effect.
LoadAnswered(v, load) ==
  /\ load \in loads[v]
  /\ loads' = [loads EXCEPT ![v] = @ \ {load}]
  /\ IF Cancelled(v, load) THEN UNCHANGED <<page, shown>>
     ELSE /\ page' = [page EXCEPT ![v].contract = Registry(load[1]).contract,
                                  ![v].proof = Registry(load[1]).proof,
                                  ![v].status["registry"] = "done",
                                  ![v].status["connect"] = "ready"]
          /\ shown' = [shown EXCEPT ![v]["registry"] = load]
  /\ UNCHANGED <<job, shared>>

LoadFailed(v, load) ==
  /\ Fails
  /\ load \in loads[v]
  /\ loads' = [loads EXCEPT ![v] = @ \ {load}]
  /\ IF Cancelled(v, load) THEN UNCHANGED <<page, shown>>
     ELSE /\ page' = [page EXCEPT ![v].contract = None, ![v].proof = None,
                                  ![v].status["registry"] = "failed"]
          /\ shown' = [shown EXCEPT ![v]["registry"] = load]
  /\ UNCHANGED <<job, shared>>
-----------------------------------------------------------------------------
(* run: a step is started from its button and ends in the page as it is    *)
(* then.                                                                   *)

At(v, stop) == job[v] # None /\ job[v].at = stop

Goto(v, stop) == job' = [job EXCEPT ![v].at = stop]

\* Where a step's request starts.
FirstStop(step, inst) ==
  CASE step = "reserves" -> IF Attested(inst) THEN "reading" ELSE "holding"
    [] step = "prove"    -> IF Attested(inst) THEN "seeding" ELSE "posting"
    [] OTHER             -> step

run(v, step) ==
  /\ ~page[v].busy
  /\ page[v].status[step] = "ready"
  /\ step = "prove" => seeds + Cardinality({w \in Visitor : At(w, "seeding")}) < MaxSeeds
  /\ page' = [page EXCEPT ![v].busy = TRUE, ![v].status[step] = "running"]
  /\ job' = [job EXCEPT ![v] =
       [step |-> step, inst |-> page[v].inst, scen |-> page[v].scen, run |-> page[v].run,
        at |-> FirstStop(step, page[v].inst), read |-> Unread, total |-> 0,
        since |-> seeds, own |-> 0]]
  /\ UNCHANGED <<shown, loads, shared>>

\* The finally of run.
BusyAfter_kept(outcome) == outcome = "failed"
BusyAfter(outcome) == FALSE

\* The end of run: setStep twice at most, and the finally.
Ended(v, outcome, proof) ==
  LET j == job[v]
      opened == IF outcome = "done" THEN Later(j.step) ELSE {}
  IN /\ page' = [page EXCEPT ![v].status =
                   [s \in StepId |-> IF s = j.step THEN outcome
                                     ELSE IF s \in opened THEN "ready" ELSE @[s]],
                   ![v].busy = BusyAfter(outcome), ![v].proof = proof]
     /\ shown' = [shown EXCEPT ![v][j.step] = Lines(j.inst, j.run)]
     /\ job' = [job EXCEPT ![v] = None]

End(v, outcome) == Ended(v, outcome, page[v].proof)

\* A request that fails, at any stop but a cycle's: the step fails.
RequestFails(v) ==
  /\ Fails
  /\ \E stop \in {"connect", "reading", "holding", "seeding", "posting", "proof",
                  "verify", "inclusion"} : At(v, stop)
  /\ End(v, "failed")
  /\ UNCHANGED <<loads, shared>>

\* connect: authorize and token; nothing to do for an account on Stellar.
Connect(v) ==
  /\ At(v, "connect")
  /\ End(v, "done")
  /\ UNCHANGED <<loads, shared>>

\* reserves: the accounts one after the other.
Read(v) == {a \in Accounts : job[v].read[a] # None}

ReadBalance(v) ==
  LET next == Account[Cardinality(Read(v)) + 1] IN
  /\ At(v, "reading")
  /\ Read(v) # Accounts
  /\ job' = [job EXCEPT ![v].read[next] = bank[next]]
  /\ UNCHANGED <<page, shown, loads, shared>>

BalancesRead(v) ==
  /\ At(v, "reading")
  /\ Read(v) = Accounts
  /\ End(v, "done")
  /\ UNCHANGED <<loads, shared>>

ReadHolding(v) ==
  /\ At(v, "holding")
  /\ End(v, "done")
  /\ UNCHANGED <<loads, shared>>
-----------------------------------------------------------------------------
(* prove: the run route, and the cycle it triggers.                        *)

\* POST /admin/scenarios: Seed replaces every balance under the bank's lock.
SeedScenario(v) ==
  /\ At(v, "seeding")
  /\ bank' = Balance[job[v].scen]
  /\ seeds' = seeds + 1
  /\ Goto(v, "posting")
  /\ UNCHANGED <<page, shown, loads, lock, chain, rows>>

\* POST /v1/cycles answered 409: the step can be run again.
CycleBusy(v) ==
  /\ At(v, "posting")
  /\ lock[job[v].inst] # None
  /\ End(v, "ready")
  /\ UNCHANGED <<loads, shared>>

CycleStarts(v) ==
  /\ At(v, "posting")
  /\ lock[job[v].inst] = None
  /\ lock' = [lock EXCEPT ![job[v].inst] = v]
  /\ job' = [job EXCEPT ![v].at = "cycle", ![v].since = seeds, ![v].read = Unread]
  /\ UNCHANGED <<page, shown, loads, bank, chain, rows, seeds>>

\* FetchSigned: one goroutine per account, each writing its own slot.
Slot_shared(v, a) ==
  IF Read(v) = {} THEN bank[a] ELSE bank[CHOOSE x \in Read(v) : TRUE]
Slot(v, a) == bank[a]

FetchBalance(v, a) ==
  /\ At(v, "cycle")
  /\ Attested(job[v].inst)
  /\ a \notin Read(v)
  /\ job' = [job EXCEPT ![v].read[a] = Slot(v, a)]
  /\ UNCHANGED <<page, shown, loads, shared>>

\* The end of a cycle, whatever it was.
Unlocked(v) == lock' = [lock EXCEPT ![job[v].inst] = None]

\* The total of a complete snapshot; an account on Stellar may hold anything.
Snapshots(v) ==
  IF Attested(job[v].inst) THEN {Total(job[v].read)}
  ELSE Holding

Complete(v) == Attested(job[v].inst) => Read(v) = Accounts

\* The prover refuses a short position: 422, shown as a failed step.
Refuses(total, owed) == total < owed

CycleRejected(v) ==
  /\ At(v, "cycle") /\ Complete(v)
  /\ \E total \in Snapshots(v) : Refuses(total, Owed[job[v].inst])
  /\ Unlocked(v)
  /\ End(v, "failed")
  /\ UNCHANGED <<loads, bank, chain, rows, seeds>>

\* The previous total declared, from the newest saved proof, and the contract's checks.
Declared(inst, total) ==
  IF rows[inst] = << >> THEN total ELSE chain[inst][Last(rows[inst])]

Accepted(inst, total) ==
  /\ 10 * total <= 11 * Declared(inst, total)
  /\ Declared(inst, total) = IF chain[inst] = << >> THEN total ELSE Last(chain[inst])

OwnId_ahead(inst) == Len(chain[inst]) + 2
OwnId(inst) == Len(chain[inst]) + 1

CyclePublishes(v, total) ==
  /\ ~Refuses(total, Owed[job[v].inst])
  /\ Accepted(job[v].inst, total)
  /\ chain' = [chain EXCEPT ![job[v].inst] = Append(@, total)]
  /\ job' = [job EXCEPT ![v].at = "saving", ![v].total = total,
                        ![v].own = OwnId(job[v].inst)]
  /\ UNCHANGED <<page, shown, loads, bank, lock, rows, seeds>>

\* Any other answer: refused by the contract, or failed on the way.
CycleFails(v) ==
  /\ \/ /\ At(v, "cycle") /\ Complete(v)
        /\ \E total \in Snapshots(v) :
             ~Refuses(total, Owed[job[v].inst]) /\ ~Accepted(job[v].inst, total)
     \/ Fails /\ (At(v, "cycle") \/ At(v, "saving"))
  /\ Unlocked(v)
  /\ End(v, "failed")
  /\ UNCHANGED <<loads, bank, chain, rows, seeds>>

CycleSaves(v) ==
  /\ At(v, "saving")
  /\ rows' = [rows EXCEPT ![job[v].inst] = Append(@, job[v].own)]
  /\ Unlocked(v)
  /\ Goto(v, "proof")
  /\ UNCHANGED <<page, shown, loads, bank, chain, seeds>>

\* fetchProof: the institution's latest proof, which may be a later one.
Fetched(v) == LatestRow(job[v].inst)

FetchProof(v) ==
  /\ At(v, "proof")
  /\ Ended(v, "done", Fetched(v))
  /\ UNCHANGED <<loads, shared>>
-----------------------------------------------------------------------------
(* verify and inclusion: reads of the registry on Stellar.                 *)

\* readOnChainRecord: through a fresh SDK client, from the contract.
OnChainRecord(inst) == IF chain[inst] = << >> THEN None ELSE Last(chain[inst])

\* verifyLines: covers.
Covers(record, inst) == record # None /\ record >= Owed[inst]

ReadRecord(v) ==
  /\ At(v, "verify")
  /\ End(v, IF Covers(OnChainRecord(job[v].inst), job[v].inst) THEN "done" ELSE "failed")
  /\ UNCHANGED <<loads, shared>>

\* The latest row's proof, looked up by its id on the contract.
verify_inclusion(inst, id) == id \in DOMAIN chain[inst]

CheckInclusion(v) ==
  /\ At(v, "inclusion")
  /\ End(v, IF verify_inclusion(job[v].inst, LatestRow(job[v].inst)) THEN "done" ELSE "failed")
  /\ UNCHANGED <<loads, shared>>

JobStep(v) ==
  \/ RequestFails(v) \/ Connect(v) \/ ReadBalance(v) \/ BalancesRead(v) \/ ReadHolding(v)
  \/ SeedScenario(v) \/ CycleBusy(v) \/ CycleStarts(v)
  \/ \E a \in Accounts : FetchBalance(v, a)
  \/ CycleRejected(v) \/ CycleFails(v) \/ CycleSaves(v)
  \/ /\ At(v, "cycle") /\ Complete(v)
     /\ \E total \in Snapshots(v) : CyclePublishes(v, total)
  \/ FetchProof(v) \/ ReadRecord(v) \/ CheckInclusion(v)

DemoNext ==
  \E v \in Visitor :
       \/ \E i \in Institution : setInstitution(v, i)
       \/ reset(v)
       \/ \E c \in Scenario : setScenario(v, c)
       \/ \E load \in loads[v] : LoadAnswered(v, load) \/ LoadFailed(v, load)
       \/ \E s \in StepId : run(v, s)
       \/ JobStep(v)

DemoSpec == DemoInit /\ [][DemoNext]_demoVars

\* Every request is answered or fails in the end.
DemoFairSpec == DemoSpec /\ \A v \in Visitor : WF_demoVars(JobStep(v))
-----------------------------------------------------------------------------
(* Properties.                                                             *)

\* Nothing on the page is left over from another institution or an earlier run: the
\* answers that arrive late are about the page as it is.
ShownIsCurrent ==
  \A v \in Visitor, s \in StepId :
    shown[v][s] # None => shown[v][s] = <<page[v].inst, page[v].run>>

\* A step is open only when every step before it is done in this run.
StepsInOrder ==
  \A v \in Visitor : \A i, k \in DOMAIN Steps :
    i < k /\ page[v].status[Steps[k]] # "locked" => page[v].status[Steps[i]] = "done"

\* The page of a visitor is about what the visitor chose: every panel belongs to the
\* institution and run of the page, and the steps open one after the other, although
\* the registry loads in an effect and every step answers after awaits.
PageIsCurrent == ShownIsCurrent /\ StepsInOrder

\* A visitor whose cycle published is shown a proof that stands on the registry of
\* the chosen institution, covers what it owes, and is no older than the visitor's
\* own: that of another visitor's later run at most.
PublishedShownIsReal ==
  \A v \in Visitor :
    /\ At(v, "proof") =>
         LatestRow(job[v].inst) \in job[v].own..Len(chain[job[v].inst])
    /\ page[v].status["prove"] = "done" =>
         /\ page[v].proof \in DOMAIN chain[page[v].inst]
         /\ chain[page[v].inst][page[v].proof] >= Owed[page[v].inst]

\* A published total is the bank's at one moment, unless the bank was seeded while
\* the accounts were read.
TornOnlyIfReseeded ==
  \A v \in Visitor :
    At(v, "saving") /\ Attested(job[v].inst) /\ job[v].since = seeds =>
      job[v].total = Total(bank)

\* A step that was started comes to an end and frees the page, whatever fails.
EveryStepEnds == \A v \in Visitor : page[v].busy ~> ~page[v].busy
=============================================================================
