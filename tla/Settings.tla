------------------------------ MODULE Settings ------------------------------
(***************************************************************************)
(* The two cards of the console's settings that change something outside   *)
(* the browser (apps/web/src/components/dashboard): the registry card      *)
(* creates a tenant, records its wallet and later its contract through     *)
(* app/api/provision; the publishing card makes the orchestrator's key a   *)
(* signer of the wallet, scoped to one registry (lib/passkey/signer.ts).   *)
(*                                                                         *)
(* Another tab of the settings unmounts a card.  The request it awaits     *)
(* goes on, and what it would have shown is lost.                          *)
(***************************************************************************)
EXTENDS Naturals, Sequences, FiniteSets, Absent

CONSTANTS
  RegistryId,    \* what an operator may type: ids of deployed registries
  MaxJobs,       \* bound: requests made by the cards
  MaxMounts      \* bound: switches between tabs

ASSUME SettingsAssumption ==
  /\ None \notin RegistryId /\ None \notin Nat /\ None \notin {"error", "info"}
  /\ MaxJobs \in Nat /\ MaxMounts \in Nat

StepIds == <<"session", "simulate", "sign", "submit">>
StepNames == {"session", "simulate", "sign", "submit"}

\* Where a request of a card is.
Stop == {"tenant", "wallet", "contract", "answer", "session", "build", "simulate", "sign",
         "submit", "poll", "over"}

VARIABLES
  view,       \* the tab of the settings that is open, and how often it was switched
  card,       \* the registry card
  keyCard,    \* the publishing card
  jobs,       \* what the cards have started, detached ones included
  tenants,    \* the rows of the orchestrator: whether the wallet is recorded, the contract
  signer      \* the registry the orchestrator's key is scoped to on the wallet

settingsVars == <<view, card, keyCard, jobs, tenants, signer>>

SettingsTypeOK ==
  /\ view \in [tab: {"registry", "publishing", "other"}, mounts: 0..MaxMounts]
  /\ card \in [busy: BOOLEAN, tenant: DOMAIN tenants \cup {None}, done: BOOLEAN,
               contract: RegistryId \cup {None}, recorded: RegistryId \cup {None}]
  /\ keyCard \in [registry: RegistryId \cup {None}, running: BOOLEAN,
                  status: [StepNames -> {"pending", "active", "done", "error"}],
                  notice: {"error", "info", None}, tx: DOMAIN jobs \cup {None}]
  /\ jobs \in Seq([kind: {"create", "record", "sign"}, mount: 0..MaxMounts, lost: BOOLEAN,
                   at: Stop, tenant: DOMAIN tenants \cup {None},
                   registry: RegistryId \cup {None}, step: StepNames,
                   tx: {"none", "pending", "success", "failed"}])
  /\ tenants \in Seq([wallet: BOOLEAN, contract: RegistryId \cup {None}])
  /\ signer \in RegistryId \cup {None}

FreshCard == [busy |-> FALSE, tenant |-> None, done |-> FALSE, contract |-> None,
              recorded |-> None]

initialStatuses == [s \in StepNames |-> "pending"]

FreshKeyCard == [registry |-> None, running |-> FALSE, status |-> initialStatuses,
                 notice |-> None, tx |-> None]

SettingsInit ==
  /\ view = [tab |-> "other", mounts |-> 0]
  /\ card = FreshCard /\ keyCard = FreshKeyCard
  /\ jobs = << >> /\ tenants = << >> /\ signer = None
-----------------------------------------------------------------------------
\* A tab: the card that was shown is unmounted, the other one mounted afresh.
setTab(t) ==
  /\ t # view.tab /\ view.mounts < MaxMounts
  /\ view' = [tab |-> t, mounts |-> view.mounts + 1]
  /\ card' = FreshCard /\ keyCard' = FreshKeyCard
  /\ UNCHANGED <<jobs, tenants, signer>>

\* Starts a request of the mounted card.
Starts(kind, stop, tenant, registry) ==
  /\ Len(jobs) < MaxJobs
  /\ jobs' = Append(jobs, [kind |-> kind, mount |-> view.mounts, lost |-> FALSE,
                           at |-> stop, tenant |-> tenant, registry |-> registry,
                           step |-> "session", tx |-> "none"])

JobAt(j, stop) == jobs[j].at = stop

\* The card that started it is still mounted and still waits.
Awaited(j) == jobs[j].mount = view.mounts /\ ~jobs[j].lost

\* A job that has ended: only its transaction may still matter.
Over(j) == jobs' = [jobs EXCEPT ![j].at = "over", ![j].step = "session", ![j].tenant = None,
                      ![j].registry = IF jobs[j].kind = "sign" THEN @ ELSE None]

\* What a finished job does to the registry card.
CardShows(j, new) == card' = IF Awaited(j) THEN new ELSE card
-----------------------------------------------------------------------------
(* The registry card and the provision route.                              *)

CreateEnabled == view.tab = "registry" /\ card.tenant = None /\ ~card.busy

create ==
  /\ CreateEnabled
  /\ Starts("create", "tenant", None, None)
  /\ card' = [card EXCEPT !.busy = TRUE]
  /\ UNCHANGED <<view, keyCard, tenants, signer>>

\* The input of the deployed registry is there even while a request runs.
setContractId(r) ==
  /\ view.tab = "registry" /\ card.tenant # None /\ ~card.done /\ r # card.contract
  /\ card' = [card EXCEPT !.contract = r]
  /\ UNCHANGED <<view, keyCard, jobs, tenants, signer>>

RecordEnabled_busy == card.tenant # None /\ ~card.done /\ card.contract # None
RecordEnabled == card.tenant # None /\ ~card.done /\ card.contract # None /\ ~card.busy

record ==
  /\ RecordEnabled
  /\ Starts("record", "contract", card.tenant, card.contract)
  /\ card' = [card EXCEPT !.busy = TRUE]
  /\ UNCHANGED <<view, keyCard, tenants, signer>>

\* POST: createTenant, then setTenantWallet, then the answer.
NewTenant_next == Len(tenants) + 2
NewTenant == Len(tenants) + 1
AfterCreate_answer == "answer"
AfterCreate == "wallet"

createTenant(j) ==
  /\ JobAt(j, "tenant")
  /\ tenants' = Append(tenants, [wallet |-> FALSE, contract |-> None])
  /\ jobs' = [jobs EXCEPT ![j].tenant = NewTenant, ![j].at = AfterCreate]
  /\ UNCHANGED <<view, card, keyCard, signer>>

setTenantWallet(j) ==
  /\ JobAt(j, "wallet")
  /\ tenants' = [tenants EXCEPT ![jobs[j].tenant].wallet = TRUE]
  /\ jobs' = [jobs EXCEPT ![j].at = "answer"]
  /\ UNCHANGED <<view, card, keyCard, signer>>

\* PUT: any contract may be recorded, over any other.
setTenantContract(j) ==
  /\ JobAt(j, "contract")
  /\ tenants' = [tenants EXCEPT ![jobs[j].tenant].contract = jobs[j].registry]
  /\ jobs' = [jobs EXCEPT ![j].at = "answer"]
  /\ UNCHANGED <<view, card, keyCard, signer>>

Answered(j) ==
  /\ JobAt(j, "answer")
  /\ Over(j)
  /\ CardShows(j, IF jobs[j].kind = "create"
                  THEN [card EXCEPT !.tenant = jobs[j].tenant, !.busy = FALSE]
                  ELSE [card EXCEPT !.done = TRUE, !.recorded = jobs[j].registry,
                                    !.busy = FALSE])
  /\ UNCHANGED <<view, keyCard, tenants, signer>>

\* The finally of create and record.
BusyAfterError_kept == TRUE
BusyAfterError == FALSE

\* A call of the route fails, before or after it took effect: an error is shown.
RouteFails(j) ==
  /\ \E stop \in {"tenant", "wallet", "contract", "answer"} : JobAt(j, stop)
  /\ Over(j)
  /\ CardShows(j, [card EXCEPT !.busy = BusyAfterError])
  /\ UNCHANGED <<view, keyCard, tenants, signer>>

\* The browser loses the connection while the route goes on.
ConnectionLost(j) ==
  /\ \E stop \in {"tenant", "wallet", "contract", "answer"} : JobAt(j, stop)
  /\ Awaited(j)
  /\ jobs' = [jobs EXCEPT ![j].lost = TRUE]
  /\ card' = [card EXCEPT !.busy = BusyAfterError]
  /\ UNCHANGED <<view, keyCard, tenants, signer>>
-----------------------------------------------------------------------------
(* The publishing card and addOrchestratorSigner.                          *)

setRegistry(r) ==
  /\ view.tab = "publishing" /\ ~keyCard.running /\ r # keyCard.registry
  /\ keyCard' = [keyCard EXCEPT !.registry = r]
  /\ UNCHANGED <<view, card, jobs, tenants, signer>>

canRun == view.tab = "publishing" /\ keyCard.registry # None /\ ~keyCard.running

run ==
  /\ canRun
  /\ Starts("sign", "session", None, keyCard.registry)
  /\ keyCard' = [keyCard EXCEPT !.notice = None, !.tx = None, !.running = TRUE,
                                !.status = [initialStatuses EXCEPT !["session"] = "active"]]
  /\ UNCHANGED <<view, card, tenants, signer>>

KeyCardShows(j, new) == keyCard' = IF Awaited(j) THEN new ELSE keyCard

\* onPhase closes the current step and opens the next.
onPhase_open(status, current, phase) == [status EXCEPT ![phase] = "active"]
onPhase(status, current, phase) == [status EXCEPT ![current] = "done", ![phase] = "active"]

Enters(j, phase, stop) ==
  /\ jobs' = [jobs EXCEPT ![j].at = stop, ![j].step = phase]
  /\ KeyCardShows(j, [keyCard EXCEPT !.status = onPhase(@, jobs[j].step, phase)])
  /\ UNCHANGED <<view, card, tenants, signer>>

\* The end of run: the current step, the notice or the hash, and the finally.
Ends(j, status, notice, hash) ==
  /\ Over(j)
  /\ KeyCardShows(j, [keyCard EXCEPT !.status[jobs[j].step] = status, !.notice = notice,
                                     !.tx = hash, !.running = FALSE])
  /\ UNCHANGED <<view, card, tenants, signer>>

GotSession(j) ==
  /\ JobAt(j, "session")
  /\ jobs' = [jobs EXCEPT ![j].at = "build"]
  /\ KeyCardShows(j, [keyCard EXCEPT !.status["session"] = "done"])
  /\ UNCHANGED <<view, card, tenants, signer>>

\* buildTx reads the deployer's account; nothing is active meanwhile.
Built(j) == JobAt(j, "build") /\ Enters(j, "simulate", "simulate")

\* The wallet's add_signer refuses a key it knows: AlreadyExists.
AddSignerKnown == signer # None

Simulated(j) == JobAt(j, "simulate") /\ ~AddSignerKnown /\ Enters(j, "sign", "sign")

\* The passkey signs the payload of the entry, and the transaction is built again.
Signed(j) == JobAt(j, "sign") /\ Enters(j, "submit", "submit")

\* describeWalletError: the signer is in place, so the run counts as done.
AlreadyExists(j) ==
  /\ JobAt(j, "simulate") \/ JobAt(j, "submit")
  /\ AddSignerKnown
  /\ Ends(j, "done", "info", None)

\* prepareTransaction simulates again; then the transaction is sent.
Sent(j) ==
  /\ JobAt(j, "submit") /\ ~AddSignerKnown
  /\ jobs' = [jobs EXCEPT ![j].at = "poll", ![j].tx = "pending"]
  /\ UNCHANGED <<view, card, keyCard, tenants, signer>>

\* The transaction's poll: SUCCESS gives its hash, FAILED throws.
Landed_sent(j) == jobs[j].tx # "failed"
Landed(j) == jobs[j].tx = "success"

Settles(j) == JobAt(j, "poll") /\ Landed(j) /\ Ends(j, "done", None, j)

\* Any other error, the 90 polls without an answer included.
RunFails(j) ==
  /\ \E stop \in {"session", "build", "simulate", "sign", "submit", "poll"} : JobAt(j, stop)
  /\ Ends(j, "error", "error", None)

\* The network runs a transaction, valid for 300 seconds, even after the last poll; one
\* that expires stays pending.
Executed(j) ==
  /\ jobs[j].tx = "pending"
  /\ jobs' = [jobs EXCEPT ![j].tx = IF AddSignerKnown THEN "failed" ELSE "success"]
  /\ signer' = IF AddSignerKnown THEN signer ELSE jobs[j].registry
  /\ UNCHANGED <<view, card, keyCard, tenants>>

Rejected(j) ==
  /\ jobs[j].tx = "pending"
  /\ jobs' = [jobs EXCEPT ![j].tx = "failed"]
  /\ UNCHANGED <<view, card, keyCard, tenants, signer>>
-----------------------------------------------------------------------------
JobStep(j) ==
  \/ createTenant(j) \/ setTenantWallet(j) \/ setTenantContract(j) \/ Answered(j)
  \/ RouteFails(j) \/ GotSession(j) \/ Built(j) \/ Simulated(j) \/ Signed(j)
  \/ AlreadyExists(j) \/ Sent(j) \/ Settles(j) \/ RunFails(j)

SettingsNext ==
  \/ \E t \in {"registry", "publishing", "other"} : setTab(t)
  \/ \E r \in RegistryId : setContractId(r) \/ setRegistry(r)
  \/ create \/ record \/ run
  \/ \E j \in DOMAIN jobs : JobStep(j) \/ ConnectionLost(j) \/ Executed(j) \/ Rejected(j)

SettingsSpec == SettingsInit /\ [][SettingsNext]_settingsVars

\* Every request, prompt and poll is answered or gives up.
Progress == \E j \in DOMAIN jobs : JobStep(j)

SettingsFairSpec == SettingsSpec /\ WF_settingsVars(Progress)
-----------------------------------------------------------------------------
(* Properties.                                                             *)

\* The tenant the card shows has its wallet recorded, so the registry deployed for it
\* can be owned by that wallet; a tenant left without one by a failure is never shown.
CardTenantIsOwned == card.tenant # None => tenants[card.tenant].wallet

\* "Provisioned. Your registry is recorded.": the row holds the registry this card
\* recorded, unless the connection of one of its requests was lost, whose route may
\* still write an earlier one.
DoneIsRecorded ==
  card.done /\ (\A j \in DOMAIN jobs : ~jobs[j].lost) =>
    tenants[card.tenant].contract = card.recorded

\* The steps of the publishing card are passed in order: a step is touched only when
\* all before it are done, and only a running card has an active one.
PhasesInOrder ==
  /\ \A i, k \in DOMAIN StepIds :
       i < k /\ keyCard.status[StepIds[k]] # "pending" => keyCard.status[StepIds[i]] = "done"
  /\ ~keyCard.running => \A s \in StepNames : keyCard.status[s] # "active"

\* "Signer added.": the key is a signer of the wallet, scoped to the registry that run
\* asked for, whatever detached runs did meanwhile; "You are all set": it is a signer.
ReportedIsOnChain ==
  /\ keyCard.tx # None => signer = jobs[keyCard.tx].registry
  /\ keyCard.notice = "info" => signer # None

\* What the two cards say is so on the server and on the ledger, whatever requests of
\* an earlier mount are still in flight, are lost, or land late.
CardsAreTrue == CardTenantIsOwned /\ DoneIsRecorded /\ PhasesInOrder /\ ReportedIsOnChain

\* A card that waits is freed in the end, whatever fails.
RequestsEnd == (card.busy ~> ~card.busy) /\ (keyCard.running ~> ~keyCard.running)
=============================================================================
