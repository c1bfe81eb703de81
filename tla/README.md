# A verification project for Solva

Solva publishes, for each institution (tenant), a growing on-chain record of
proofs that its reserves cover what it owes its customers. This directory holds
TLA+ models of the parts of the repository that make that record trustworthy,
TLC configurations that check them on small instances, and TLAPS proofs of the
properties that matter most for every value of the constants. `PROJECT.json`
maps each definition to the source lines it models and lists runs, mutants,
findings, hazards and theorems.

```
tlc -config Registry.cfg Registry          # a run: config and module as in PROJECT.json
tlapm CycleProofs.tla                      # the proofs of a module
```

## 1. The system

| Part | State it keeps | Operations | Talks to |
|---|---|---|---|
| **proof-registry contract** (`contracts/proof-registry`) | owner, verifying key, latest id; one entry per proof; rent of each ledger entry | `__constructor`, `publish_proof`, `get_proof`, `get_latest_proof`, `verify_inclusion` | called by publisher, SDK, customers |
| **solvency circuit** (`circuits/`) | none: a relation over public inputs `R, root_h, L, R_prev` | range checks, solvency, tree commitment, sums, growth bound | proved by the prover, verified by the contract |
| **proof cycle** (`orchestrator/internal/usecase/cycle.go`) | local state of one `Run` | lock, claim, fetch, snapshot, load, prove, resolve, publish, save, cache, audit, deferred release | Redis, Postgres, reserve source, prover, publisher |
| **stores** (`internal/repo`) | Redis: per-tenant lock (15 min) and latest id; Postgres: `cycle_runs`, `proofs`, `merkle_trees`, `tenants`, `audit_log` | SET NX, DEL, INSERT ... ON CONFLICT, SELECT newest | cycle, HTTP API |
| **Stellar publisher** (`infrastructure/stellar/publisher.go`) | attempt counter, loaded sequence number, polled hash | load account, simulate, sign, submit, poll, retry with backoff | Stellar RPC, the contract |
| **prover service** (`services/prover`) | `Prover.toml` and `target/` under one mutex | `prove` | gRPC from the cycle |
| **scheduler** (`infrastructure/scheduler`) | an hourly ticker, the tenants left in this tick, the attempt | `Run`, `tick`, `isDue`, `runWithRetry` | cycle |
| **reserve sources** (`infrastructure/attested`, `onchain`, `reservesource`) | one slot per account | parallel signed fetch with retries; on-chain balance read | custodians, the sandbox |
| **sandbox bank** (`services/sandbox`) | seeded balances; OAuth codes and tokens | `Seed`, `Get`, `Authorize`, `Exchange`, `Validate` | attested source, website |
| **tenant API** (`usecase/provision.go`, `query.go`, `controller/http`) | `tenants` rows | create tenant, set contract, set wallet, queries | Postgres |
| **oracle** (`services/oracle`) | none | `get_solvency`, anomaly rules | SDK: database and contract |
| **SDK** (`packages/sdk-ts`) | the contract it resolved first | run a cycle, read latest, verify inclusion | REST API, RPC |
| **web app** (`apps/web`) | localStorage and each tab's session; the deployer's session; the cards of the settings; the dashboard; the mail route's throttle | sign in, deploy the wallet, submit and approve a review; create a tenant, record its registry, add the publishing key; run a cycle, connect a source; look a proof or a customer up | tenant API, Stellar RPC, mail service |
| **website: demo** (`apps/website`) | each visitor's page | connect, read reserves, run a cycle, read the record, check a customer | sandbox bank, REST API, contract |
| **website: forms** | the two forms | join the waitlist, write to the team | mail service |
| **website: record and supply** | the example record, the picked day, the checks; one cached supply snapshot | pick, move, type, submit; read Horizon | Horizon |
| **website: scrolling and motion** | scroll locks, scroller, triggers, inline styles, counts, the pinned chapter | toggle, scroll, resize, change the motion preference, change the route | the browser, GSAP, Lenis |

### What is hard about it

* **Two sources of truth.** A proof is on chain before its row is in Postgres,
  and the previous total that the next proof is bounded against is read from
  Postgres but checked by the contract.
* **Retries over a network that answers late.** The publisher signs a new
  transaction per attempt; an earlier one may still land. All tenants share one
  signer and so one sequence number.
* **Locks that expire.** The tenant lock is a Redis key with a time to live,
  released without checking whose it is, on the context of the request.
* **Declared history.** The circuit bounds growth against a total that the
  prover declares; the contract must tie that declaration to its own record.
* **Rent.** Soroban entries are archived when nobody renews them, and
  `publish_proof` must read the previous proof.

* **Pages that outlive their requests.** In the web app and on the website an
  answer arrives at a page that has moved on: another institution, another tab
  of the settings, a dialog that was dismissed, a component that was unmounted.
* **Several tabs, several visitors.** Two tabs share one localStorage, two
  visitors of the demo share one bank and one tenant, concurrent requests share
  one cached snapshot.
* **The browser's own order.** Toggle, scroll and visibility events, timers,
  hydration and the motion preference reach the page late and in any order.

What makes each part correct: the contract's record never contains an
uncovered or over-grown entry and never changes; a publisher call that succeeds
names its own proof; a cycle that reports success is on chain, saved, cached
and audited, in that order; a request key has at most one effect; the previous
total declared is the one the contract expects; and every call returns. For the
clients: what is shown belongs to what is named on the page, is on chain, and is
no older than it may be; no reader is told another institution's proof unless its
settings name that institution's contract; a form that says "sent" is right; and whatever a page disabled or hid comes back.

## 2. The models

| Module | Models | Built on |
|---|---|---|
| `Solvency` | the circuit's relation over public inputs on u64, and `enforce_growth_baseline` | |
| `CoverageRecord` | the promise: an append-only record, covered, growing by at most a tenth per entry | |
| `Registry` | the contract and its rent; shown to implement `CoverageRecord` | `Solvency` |
| `MerkleSumTree` | the tree as the prover builds it, the circuit recomputes it and the contract folds a path of it | `Solvency` |
| `Inclusion` | the rows of liabilities, the proofs and saved trees made of them, and `verify_inclusion` of the saved paths | `Registry`, `MerkleSumTree` |
| `Publisher` | `PublishProof` with retries, and the network side: sequence number, waiting transactions, ledgers | `Solvency` |
| `Cycle` | `Cycle.Run`, the stores, crashes, cancellation, lock expiry, rotation | `Publisher` |
| `Scheduler` | ticks, due tenants, retries, several instances; `Cycle.Run` as its caller sees it | |
| `Demo` | the website's demo: pages of several visitors, its routes, the sandbox bank, the attested source, the cycle and the registry as they reach the page | |
| `SignIn` | passkeys, the wallet's deployment, sessions of several tabs over one storage, the review | |
| `Settings` | the registry card and the publishing card, their requests and the transaction | |
| `Dashboard` | cycles, sources, the dialog and the sidebar | |
| `Figures` | anomaly flags and the margin, as operators over proof histories | |
| `Readers` | the SDK, the route of the latest proof and the oracle, against cycles and rotations | |
| `Lookup` | the two public lookups | |
| `Contact`, `KybMail` | the website's forms and the web app's mail route | |
| `Supply` | the cached supply snapshot | |
| `Records` | the example record: amounts, history, pickers and checks | |
| `PageScroll` | menus and scroll locks, the smooth scroller, the back-to-top button | |
| `Reveal`, `Counters` | the motion gate and the director's marks and reveals; counts and calendars | |
| `Opening`, `Stage` | the opening's loop over days; the pinned chapter | |
| `Absent` | the value that stands for `null` and `undefined` | |
| `MCRegistry` | the contract under any caller, or under the proofs of the trees that are built | `Inclusion` |
| `MCCycle`, `MCScheduler`, `MCDemo` | instances for TLC | the module they are named after |
| `MCConsole` | the parts of the web app's console side by side | `SignIn`, `Settings`, `Dashboard`, `Figures` |
| `MCSite` | the readers, forms and pages side by side | `Readers` to `Stage` |
| `PublisherProofs`, `CycleProofs`, `SchedulerProofs`, `DemoProofs` | theorems and proofs | the module they are named after |
| `InclusionProofs` | theorems and proofs: the contract, then the trees | `Registry`, `Inclusion` |
| `ConsoleProofs` | theorems and proofs: each part, then the console | `MCConsole` |
| `SiteProofs` | theorems and proofs: readers, lookups, forms, mail, supply | `Readers`, `Lookup`, `Contact`, `KybMail`, `Supply` |
| `PagesProofs` | theorems and proofs: the pages and the record, then the whole site | `MCSite`, `SiteProofs` |

**Registry.** One variable per kind of ledger entry (`owner`, `latest_id`,
`proofs`), the ledger until which each lives, and the current ledger. A refused
call is rolled back by the host, so it is no step: its condition is a guard.
`publish_proof` is one action with all its checks in the code's order and all
its writes: the renewal of the previous proof's rent through `get_proof`, the
new entry, the id, and the instance's rent. A proof is named by the public
inputs it was made for; the verifier accepts it for those only. A read is an action only when it is submitted as a
transaction, the one case in which it renews rent.

**Inclusion.** `liabilities` is the table, in the order in which the cycle loads it,
`trees` is `merkle_trees` joined with `proofs`, and `committed` is history: what each
proof was made from. `PublishTree` is what a cycle leaves behind, a proof with its tree
or, when it died or failed to save, without. The three programs each have their own
operators in `MerkleSumTree`: `build` pairs level by level and saturates,
`compute_root` folds one array in place and adds in the field, `climb` follows a path.
A hash is the tuple of its inputs, so Poseidon2 counts as injective and what is
checked is the encoding: sums bound into hashes, sides, order and padding.

**Publisher.** Every RPC of `invokeOnce` is a step. `stage` is the position in
it; the terminal stages are the different ways `PublishProof` returns.
`TransientError` is the retry loop, `RpcError`, `SendError` and `PollTimeout`
are the ways into it, and a request whose answer is lost may have arrived. A
transaction is identified by the attempt that signed it, because its time
bounds (and so its hash) are fresh each time; two attempts within one second
sign the same one, which is when the network answers DUPLICATE. The network's
side (`Apply`, `Expire`) is external: a transaction enters a ledger only with
the account's next sequence number, and then the contract's checks decide.

**Cycle.** `Call` is the set of invocations of `Run`; `pc` is the position in
it, one label per store access. `Return` goes through the deferred release,
`ReturnUnlocked` does not. Every store access is answered or fails; a write that
fails may have taken effect. `cancelled` is the context of the run, the
publisher's calls included. The `proofs` table keeps neither the contract nor
the run a row comes from; rows carry both as history. So does the lock, whose
stored value is just `"1"`.

**Scheduler.** An instance is the goroutine of `Run`. `slot` is the ticker's
channel, which holds one tick: a tick that finds it full is lost. `at` is
the position of the loop in `tick`, `attempt` the loop variable of `runWithRetry`.
`Cycle.Run` is reduced to what `runWithRetry` can tell apart: refused by the
lock or by the claim, or run to success or failure, where a failed run may have
published and may have left its lock. `listed` and `entered` are history. Runs
triggered over HTTP are not in this module; to the scheduler they are a lock
held by somebody else. `SchedInit` has the processes up for the first hour.

**Demo.** One record per visitor for the page (`page`), what it shows
(`shown`), the registry reads of its effect (`loads`) and the step in progress
(`job`), which walks through the fetches of the client and of the route behind it; a step of the
model is one request of a route. Bank, lock, rows and chain are shared. The
cycle is the orchestrator's with the attested source opened up: the accounts of
a snapshot are fetched one by one, each into its own slot, while `Seed` may
replace every balance. `Enabled` is the `disabled` of the buttons. The history a
job carries (what the bank held, whether it was seeded meanwhile) is for the
properties.

**SignIn.** `store` is localStorage, which a browser may block; `tab` is the
React state of one tab, `cache` the session promise of its page. A step runs
from one await to the next. A wallet's address is derived from the deployer and
the passkey, so it is that pair. `Reload` is also what leaving the page in the
middle of a ceremony amounts to.

**Settings.** `jobs` are the requests in flight. Each remembers the mount it was
made from: another tab of the settings unmounts the card, the request goes on
and its answer is dropped. The routes' two calls are two steps. A transaction may
land until it expires, after the 90 polls as well.

**Dashboard, Figures.** The provider outlives the sections. `runCycle` reads
the head of its closure before the await, `connectSource` updates the state of
the moment; both are as in the code. Figures are operators over integers, with
the division of BigInts truncating towards zero; a history arrives in any order.
`sort` is specified by what it returns (`IsInOrder`), not by how.

**Readers.** A call is a record walking through its reads; the kept client of
the SDK is `sdk`, the others have a client per call. A client resolves its contract
through the orchestrator unless one is named in its settings (`endpoints.contractId`,
`SOLVA_CONTRACT_ID`): `endpoint` is that name, any contract or none, fixed for the
behaviour, and it wins for every institution the client is asked about. The route has no such
setting (`Endpoint`). Where it names a contract that the institution never had the call
is `Misdirected`, and the properties say what is then left of an answer.
`TenantParam` is what is
sent as `tenant_id`: nothing from the SDK's own client (see `oracle_answers`).
A proof is its institution and number, because `Registry` covers the rest.

**Lookup, Contact, KybMail.** Mocks answer in the order they were asked, so answers out
of order are not in play. A call
of the mail service is refused, or fails after it took effect. `listed` is the
waitlist's segment and `Elsewhere` the account's other contacts, which `contacts.get`
finds as well. The throttle's clock is in ticks.

**Supply, Records.** A page that finds the snapshot too old reads every asset and
the ledger in parallel, and the last reader keeps its own. Amounts are base units;
a text is its digits where a property is about them, and otherwise what the code
can tell apart.

**PageScroll, Reveal, Counters, Opening, Stage.** The browser, GSAP and Lenis are
external and nondeterministic where they may choose: events are queued and
coalesced, a preference changes before the page hears of it, a revert may or may
not reach a tween that a trigger started. So is `useGSAP` of `@gsap/react` (2.1.2, not in
the repository): with dependencies and without `revertOnUpdate`, the cleanup
runs when the component goes and not when a dependency changes. What an effect made for
an earlier value therefore lives on beside what it makes for the next:

* `Reveal`: `<main>` is one component for all routes, so the director of every route so far
  keeps its media context (`earlier`). When motion is reduced and allowed again they all run over
  the document of the last (`RevertAll`, `RunAll`). `gsap.from` ends at the style it
  finds, so what one found while another hid it may stay hidden: such elements, and the
  fade of `<main>`, are `"stuck"`, and `overlaid` and `refaded` are the history that
  allows it. `Reveal` runs over every document of three elements of which at most two are
  marked and at most two move.
* `Stage`: the trigger and the timeline of a pinned chapter outlive its unpinning. `trigger`
  is `None` only before the first pinning; an old trigger goes on telling the step (`Told`),
  and an old timeline goes on being scrubbed and leaves its inline styles (`Seen`).
* `Opening`: a day's media context outlives the day, and all of them count over the same value.
  The loop's observer delivers its entries in batches (`reports`) and takes
  `entries.some(isIntersecting)` of each (`SomeSeen`).

`ArrivesAtItsStep` is about a chapter
that is still pinned after the step: a screen that unpins it ends the scroll as well.

In `MCConsole` and `MCSite` the parts share no state, so a behaviour is one
part's and the others rest in an initial state: the parts are checked as they
are, in one run each, and the number of states is the sum of theirs.

Left out of these modules: encoding and XDR, wallet authorization, logging,
backoff delays, easing and styling.

## 3. The runs

Passing runs:

| Run | Instance | What it shows |
|---|---|---|
| `registry` | totals 10 to 13 with `MaxU64 = 125`, 3 proofs, 6 ledgers, an owner and a stranger, valid proofs and garbage; or up to four rows of two customers with balances 1, 10 and one beyond a u64, trees of depth 2, two proofs | the record is covered, append-only, growth-bounded and implements `CoverageRecord`; a registry that publishes within `TTL_THRESHOLD` ledgers never finds its instance or latest proof archived; the three trees agree, a saved path verifies, and no path of any saved tree verifies for a row its proof was not made from |
| `publisher` | 2 calls, 2 contracts, 2 attempts, all faults | a success names the call's own proof; nothing of it lands afterwards; a repeat lands only if the total is flat |
| `cycle_faults` | 2 runs, 2 keys, 1 tenant, 2 contracts with rotation, totals 0, 10, 11, store and network faults, crashes | the lock excludes; rows are on chain and in chain order; cache and audit log never run ahead of the rows; the declared baseline is wrong only for one of three reasons |
| `cycle_replay` | 2 runs under one key that may outlive the lock, 2 attempts, all faults and cancellation, fairness | the key publishes for one run only; every run returns |
| `scheduler` | 2 instances, 2 hourly tenants and a daily one that is not due, 2 attempts, 1 tick, failures, cancellation, restarts, fairness | one attempt of a window publishes for one instance only; a failing tenant costs no other its turn; every tick ends |
| `demo` | 2 visitors, an attested and an on-chain institution, 2 scenarios, 3 runs and 2 seedings, every request may fail, fairness | what is shown belongs to the page as it is; steps open in order; a published proof is real, and torn only if the bank was seeded meanwhile; each step frees the page |
| `console` | 2 tabs, 2 passkeys, 2 deployers, storage that may be blocked, a reload; 3 requests and 2 mounts of the cards; 2 cycles, 2 connects; histories of 3 proofs; fairness | every session names a wallet on the ledger; a stored review goes back only through a stale tab; what the cards report is recorded; cycles and sources are neither lost nor doubled; flags and margin are exact at their thresholds; everything disabled is enabled again |
| `site` | 2 institutions and 2 contracts, either of which or none is named in the settings, 2 overlapping reads; 2 overlapping lookups; 3 submissions of 3 addresses, one of them a contact already; 4 requests over a window of 2 ticks; 2 readers of an expired snapshot; 2 menus; documents of 3 elements, any number of routes and changes of the preference; 3 days; histories of 4 days | an answer is about its own institution unless the settings misdirect its reader, and is stale only after a rotation, from a client that is kept or has such a setting; settled pages show what was asked last; "sent" is right; at most one window's limit less than doubled passes; locks follow menus; nothing stays hidden but what several directors left stuck; counts settle; the chapter's step is the scroll's, or a button's after it was unpinned; amounts are cut, never rounded up |

In `registry`, 10 to 11 is the largest growth allowed, 12 and 13 are more, and with
`MaxU64 = 125` the product `10 * 13` overflows while `11 * 11` does not: the
bounds are the smallest at which the growth check has a boundary, an overflow
and a passing neighbour. Rent needs `TTL_THRESHOLD < TTL_BUMP` and enough
ledgers to run out once. A tree of depth 2 has inner nodes on both sides of the root,
and up to four rows give every amount of padding; two proofs are one whose tree is lost
and one whose tree is saved. In the publisher and the cycle two calls are what every
race listed in the hazards needs; two attempts give one retry, and one late
transaction. `cycle_faults` has one attempt (a late transaction of a run that
gave up is still possible) and leaves cancellation to `cycle_replay`: a
cancelled run behaves like one whose stores fail from then on. Symmetry is over
runs, keys and contracts, and in `site` over institutions, and is used only where no
liveness is checked: the
specification treats the members of each of these sets alike, and in the cycle every
contract belongs to the one tenant. `CHECK_DEADLOCK FALSE` throughout: when
every run has returned the system rests. In `scheduler` one tick is enough: keys
of different windows differ, and nothing but the clock is carried from one tick
to the next. In `demo` two visitors are the race over the bank and the tenant,
and three runs let one of them start over after the other's cycle. In `console`
and `site` every part has two of whatever may overlap (tabs, requests, calls,
submissions, readers, menus) and one more of whatever is counted, so that a
limit is reached and passed. In `site`, `Nodes = 3`, `MaxMarks = 2` and `MaxMoved = 2` give
every way in which two elements that move can be nested or beside one another, with a third
that is a list around or between them. `Total` in `console` has neighbours on both sides of the 10 and 15
percent thresholds and a zero; the record's amounts have one held total a unit
below what is owed.

Runs that show a disagreement between the code and what the repository says
of it (details and quotations under `findings`):

| Run | What the code does |
|---|---|
| `publisher_bad_seq` | losing the sequence number to another tenant's call counts as permanent |
| `cycle_outlives` | a run longer than 15 minutes is joined by a second one |
| `cycle_crash` | after a crash between publishing and saving, the next cycle is refused |
| `oracle_answers` | the SDK's client never sends `tenant_id`, so `get_solvency` fails for every institution |

A wrong baseline has three causes as long as the lock holds, and no other: an
unsaved proof (`cycle_crash`), a rotation, and a saved proof
with r = 0, which a tenant with neither reserves nor liabilities publishes and
which the next cycle takes for no proof at all. That is `BaselineFailsOnlyIf` in
`cycle_faults`. Likewise `RepublishesOnlyIfFlat` in `publisher` bounds what a
retry after a lost answer does: it can publish twice, but flat totals only.

**Fairness.** `FairSpec` asks for weak fairness of each run's next step and of
the network. The code justifies the first: every store, source, prover and RPC
client has a timeout or ends with its context, so each call is answered or
fails; a crashed run is `done`. The second is the ledger closing. Neither the
arrival of a transaction nor a successful answer is assumed. `SchedFairSpec`
asks the same of each scheduler's next step: a run returns (shown by
`EveryCycleReturns`), a query is answered or fails, and `time.Sleep` ends.
`DemoFairSpec` and `ConsoleSpec` ask it of each page's next step: a fetch is
answered or fails, a passkey prompt ends or is dismissed, polls are counted (45
and 90), and the mocks return after a fixed delay. A transaction's inclusion, a
visitor's click and a second attempt are never assumed. `site` checks safety only.

The properties of `demo`, `console` and `site`, and one of `registry`, are conjunctions
of named parts, each stated in its module and named below where it matters:

| Property | Parts |
|---|---|
| `InclusionIsExact` | `SavedPathsVerify`, `OnlyCommittedVerifies`, `CircuitAgrees`, `TotalIsCounted` |
| `PageIsCurrent` | `ShownIsCurrent`, `StepsInOrder` |
| `SignInIsSafe` | `WalletIsDeployed`, `DashboardOnlyIfReviewed`, `SavesAtMostOncePerTab` |
| `CardsAreTrue` | `CardTenantIsOwned`, `DoneIsRecorded`, `PhasesInOrder`, `ReportedIsOnChain` |
| `DashboardLosesNothing` | `CyclesNewestFirst`, `SourcesAreConfirmed`, `DialogIsConsistent` |
| `FiguresAreExact` | `FlagsAreExact`, `MarginIsSafe` |
| `ConsoleEnds` | `EverySignInEnds`, `RequestsEnd`, `DashboardIsFreed` |
| `AnswersAreOfTheRecord` | `AnswersOwnInstitution`, `StaleOnlyIfRotated`, `SolventIsBacked`, `DeniedOnlyIfRotated` |
| `SettledIsAsked` | `SettledProofIsAsked`, `SettledAnswerIsAsked` |
| `MailsAreHonest` | `SentIsStored`, `ConfirmedTwiceOnlyIfRaced`, `UnconfirmedOnlyIfFault`, `BurstIsBounded`, `OkIsConfirmed` |
| `FiguresAreTrue` | `HistoryIsConsistent`, `PercentIsNeverRoundedUp`, `CheckTellsTheGap`, `FocusIsOnTheDay`, `AnswerIsOfTheField`, `AmountsAreCut`, `ShownIsRecent` |
| `PageSettles` | `LockFollowsMenu`, `ButtonFollowsPage`, `AutoMarkIsOutermost`, `HiddenOnlyIfWaiting`, `CountSettles`, `CalendarReadsWhole`, `UnseenSweepEndedUnseen`, `ValueShowsTheDay`, `LoopRunsIfSeen`, `StepFollowsScroll`, `NothingBeforeItsStep` |
| `SiteSteps` | `OlderOnlyIfOverlapped`, `LockedPageStays`, `ArrivesAtItsStep` |

Every property of a passing run has a mutant in `PROJECT.json`, and a conjunction has one
for each of its parts: a plausible bug in the code (the definition `<name>_<change>`
next to the original) under which TLC finds the property violated.

## 4. The proofs

The theorems hold for every value of the constants that satisfies the named
assumptions (`MaxU64Assumption`, `RegistryAssumption`, `TreeAssumption`,
`InclusionAssumption`, `PublisherAssumption`,
`CycleAssumption`, `SchedulerAssumption`, `SignInAssumption`,
`SettingsAssumption`, `DashboardAssumption`, `FiguresAssumption`, `ReadersAssumption`,
`LookupAssumption`, `DemoAssumption`, and those of the website's parts:
`ContactAssumption`, `KybAssumption`, `SupplyAssumption`, `PageAssumption`,
`RevealAssumption`, `CountersAssumption`, `OpeningAssumption`, `StageAssumption`,
`RecordsAssumption`). These say only that totals, balances, times and
bounds are naturals, that the sets counted over are finite, that the "none"
values are not members of their sets, that the switches are Boolean, that the demo
has at least one account and opens with an institution and a scenario it has, that the
mobile menu is a menu, that a page has a top and a window some height, that something
is owed on every day of the example record and that its slider has an end, of
the sign-in that every tab can generate a deployer of its own, of the tree that the
totals of all its leaves fit in a u128 and a u128 in the field (`u64` balances and a
254-bit field), and of its customers that none has the id of a padding leaf (an id is a
Poseidon2 hash, the padding's is zero; `proving.rs` keeps them apart by nothing else). They are
proved for any combination of the fault switches unless said otherwise. Each
inductive invariant was model-checked on its run's instance before it was proved.

*Registry.* The inductive invariant is `RegistryInv`: types, `Covered`,
`GrowthBounded` and `Paid`. `Paid` is needed because being live now does not
follow from having been live before: it records that `publish_proof` pays for
the instance and the new entry up to `TTL_THRESHOLD` past the publication.
`PublishEffect` collects what a publication changes and is the only lemma that
opens `publish_proof`. From the invariant follow `TypeCorrect`,
`AlwaysCovered`, `AlwaysGrowthBounded`, `AlwaysSteadyPublisherStaysLive`,
`RecordIsAppendOnly`, and the refinement `RegistryImplementsRecord`, whose step
case is that a publication maps to `Publish` of the record and every other step
to a stutter.

*Inclusion.* `InclusionInv` says that a proof is over the rows it was made from and that
a saved tree is the tree of the proof whose id it has. The rest is about the tree, for
every `DEPTH`. `InclusionProofs` calls a family of levels `TreeOver` a witness when its
leaves are the witness and every node is `hash_pair` of the two below it; `BuiltTree`
shows that `build` makes one (a level below the root always has an even number of nodes,
so none is paired with itself). With the sums of the balances up to each leaf
(`SumsTo`), the sum of a node is the difference of two of them (`NodeSums`), so it is at
most the total and neither saturates nor wraps. From there: the front of the circuit's
array is a level of the tree (`CircuitRoot`, `CircuitProves`); the fold of a leaf's own
path is the node above it on every level (`PathClimbs`); and, from the root down, a node
on any path of the right length hashes to a node of the tree only if what it was made of
does (`PathDescends`), so only a row of the proof verifies, whatever customer, balance
and path come together (`OnlyRowsVerify`). The inductions run over sets of levels
(`SetInduction`, from `WFMin` of the library), and the powers of two are counted as
subsets (`TwoPowers`, from `FS_SUBSET`). The tree's folds are recursive functions for
this reason.

*Publisher.* `LedgerInv` says that what a call requested follows its
transactions on to the ledger (`Traced`), so that a result naming an id names
an entry with the call's totals; this gives `OkAlwaysNamesOwnProof`.
`NoLatePublication` needs `SequenceInv` as well: an attempt signs one
transaction (`OneTxPerAttempt`), no transaction of a call is ahead of the
sequence number that its latest attempt loaded, and the one it polls has
exactly the next number (`SequenceBound`); so when a result for it is seen, that
number is used up and every other transaction of the call is dead. The steps of
any system built on the publisher are classified once (`AnyStep`), so `Cycle`
reuses both lemmas.

`RepublishesOnlyIfFlatAlways` (a call that landed twice declared the total it had
found) rests on `FlatInv`. Every transaction in the network is signed with a
number the account had, so a ledger close leaves none of them ahead of it: while
a call with an entry is still live, no other call of the contract can land, and
the call's entry stays the latest. A second entry is then checked against the
call's own first one. `ChainsImplementRecord` is the refinement: each contract's
chain behaves as `CoverageRecord`, whatever the network and the cancellations do.

*Cycle.* `LockExcludes` rests on `HoldsLock`: a run in its cycle holds its
tenant's lock. It assumes `~OutlivesLock`, and `cycle_outlives` shows that it
must. `SavedRowsAreOnChain` and `EvidenceIsAlwaysSaved` rest on
`SavesWhatItPublished`: between publishing and saving, the run's totals are
still those of its request, and once it is past the save its row is in the
table. `ClaimExcludes` rests on `ClaimsHeld`: a run past its claim has its key
in `cycle_runs` and is alone with it, whatever happened to the lock.
`RowsFollowChain` (again for runs that do not outlive the lock) adds
`PublishesAfterRows`: what a run publishes comes after everything its tenant
has saved.

`BaselineFailsOnlyIfAlways` is the question of the oldest comment in the cycle:
when the contract refuses a run for its baseline, is it one of the three reasons
the run property names? Its invariant `DeclaresLatest` says that the total a run
declares is still the one its tenant's rows imply, from the read to the
publication, because nobody else adds a row while the lock is held; with
`RowsInChainOrder` the last row is the last entry unless one was lost. It
assumes `~OutlivesLock` for both. `CycleChainsImplementRecord` lifts the
publisher's refinement to the cycle: under every fault, with the runs of all
tenants publishing at once, each contract is the append-only, covered and
growth-bounded record its readers are promised.

*Scheduler.* `SchedInv` adds two parts to `OneRunPerAttempt`. `ClaimsInv`: a run
is alone with its key and holds the claim on it, and no cycle under the key is
another's. `TurnsInv`: of an instance that has listed the tenants, every due one
had its turn or lies ahead of the position of the loop; `SkipsNoDueTenant` is
that at the end of the loop. `DueAfter` and `Continue` are opened by one lemma.

*Sign-in.* `SignInInv` needs a count: a tab begins to make a wallet only while
none is stored, so the saves so far and the tabs that are making a wallet are
together at most the tabs (`SavesInv`). `PhasesInv` says what a tab has in hand
at each phase, `NamesInv` that every wallet it names is deployed, `ReviewInv`
that an approval is one that was given. `RegressOnlyIfStale` is proved from the
same invariant.

*Settings.* `SettingsInv` has five parts: what a request has at each stop
(`JobsInv`); a tenant belongs to the mount that created it, so a request left
behind by a card that is gone never touches the new card's tenant (`OwnersInv`);
a card waits for exactly one live request (`RegistryCardInv`, `KeyCardInv`); the
key card shows the stop its run is at; the one successful transaction is what set
the signer (`SignerInv`). `CardsAreTrue` is part of their consequences.

*Dashboard.* `DashInv` adds `RunsInv`, that a cycle is in flight exactly while the
button waits: what the server confirmed is then what is shown followed by what is
in flight, and `DashboardLosesNothing` follows, a reload of the page included.

*Readers.* `ReadersInv` first puts the record in order: a contract belongs to one
institution, the proofs of an institution are numbered in the order in which they
were published, across its contracts, and a cycle publishes to the newest contract
that has a proof or to a later one. Then it follows a call (`CallOK`): what a call
has read, resolved or reported was so when it learnt it, and the record only grows; a
client's contract is one its institution had or the one its settings name (`ClientOK`).
`AnswersAreOfTheRecordAlways` needs one more step, that the latest entry of a
contract has the highest number on it (`LatestIsNewest`), to bound how old an answer
can be.

*Lookups.* However requests overlap, the youngest one in flight is the last one asked,
and once none is in flight the page has the answer to it (`SettledIsAskedAlways`).

*Demo.* `DemoInv` has three parts. `PagesInv` is about one page at a time: while the
registry of its run loads nothing else has happened in the run (so a late answer finds
the page as it started, or is dropped), and the step that runs is one of this
institution and run (`PageOK`). `CyclesInv` is about what the visitors share: from its
start to its save a cycle holds the institution's lock, so its own proof is the last of
the chain; what it has read so far is what the bank holds, unless the bank was seeded
since (`CycleOK`). `ProofsInv` says that a finished proof is on the chain. Each part
has lemmas for what a step does to its own visitor and for what it leaves of the
others'. `TornOnlyIfReseededAlways` is about a sum that is a recursive function;
that it is a number at all is proved by induction over a set of numbers
(`SetInduction` again).

*Figures.* `FiguresInv` adds to the types that a history has an order (`HasOrder`), so
`Ordered` chooses one: a proof that is fetched is inserted at its time (`OrderGrows`).
In that order the cycle before a proof is the one in front of it (`BeforeIs`). The rest
is arithmetic: a quotient that truncates is past a threshold exactly when the product
is, for falls and for rises, from zero and to zero (`FallIs`, `RiseIs`, `FlagsAre`),
and the truncated margin lies on the right side of the true one (`MarginGiven`).

*Console.* A step of the console is a step of one part and a stutter of the others
(`ConsoleStep`), so the conjunction of the parts' invariants is inductive
(`ConsoleInvariant`). `ConsoleTypeOKAlways` and `FiguresAreExactAlways` follow, and
`ConsoleIsSafe` lifts the parts' own theorems; `SiteAnswers` does so on the site.

*Forms and mail.* `ContactInv` follows one address at a time. As long as no two actions
were adding it at once, at most one is at its addition and one at its confirmation, and
an address that is not listed has neither a confirmation nor an action about to send one
(`RacesInv`); the confirmations sent and still to come are at most the submissions
(`ConfirmedAsSubmitted`). `KybInv` looks at one window of the throttle at a time: the
requests admitted since it began are at most its counter and the limit, and one fewer
than the limit came in the window's length before it (`WindowFrom`). Any burst touches
two windows at most, which is why `BurstIsBounded` promises less than twice the limit.

*Supply.* Each read remembers when it began, and everything it has in hand is no older
(`ReadIsRecent`). What a read leaves in the cache is as old as the read took
(`CachedInv`), and a page shows it for `Ttl` more (`ShownInv`).

*Record.* `HistoryOK` says of every day what `buildHistory` makes of it from the days
before it; a stale day repeats the last proven one, with no ledger
(`StaleRepeats`), and the ledgers of the proven days grow (`LedgersGrow`), although
`buildHistory` scatters them within a day. For amounts, the digits written at one scale and
read at another are cut and never rounded (`CutIs`), over scales up to three as in the
model; for the percentage and the gap the arithmetic is that of the margin (`PercentIs`,
`CheckGives`).

*Pages.* `PageInv` ties the lock to the menu across the queue of toggle events: with no
event on its way the lock is the menu's, and an event on its way says what the menu is now
(`LockInv`); the button's frame flag is set exactly while a frame is asked for
(`FrameInv`). `RevealInv`: the triggers of a document stay those of the document, whichever
directors run over it (`TriggersKept`), and what the style sheet hides has one (`TriggersAre`);
while
the director is on it has taken over what the sheet hides, what it hides waits for an
armed trigger, and something is stuck only after several directors ran (`StyleInv`); it is on
exactly when motion is wanted, once no change of the
preference is on its way (`GateInv`). The marking in document order is a recursive
function over the elements; `ClaimedIs` says what it claims. `CountersInv` says what a count
and a calendar hold between two events. `OpeningInv` adds what the loop has been told
(`LoopInv`): the last entry on its way says whether the meter is seen, and once all are delivered
`visible` is that, or a batch held both. `StageInv`: once there is a trigger its progress is the
scroll's, pinned or not; before that, only a button has set the step.

*Site.* As in the console, a step is one part's (`SiteStep`), and the eleven invariants
together are inductive (`SiteInvariant`). From it follow `SiteTypeOKAlways`,
`MailsAreHonestAlways`, `FiguresAreTrueAlways`, `PageSettlesAlways`, and the action
properties in `SiteStepsAlways`: of two reads that do not overlap the later one is kept,
a page behind an open menu stays where it is, and a button's scroll arrives at the
button's step.

What the proofs asked of the models: that `None` is none of the values it is told
apart from is now assumed by name in every module; the folds, sorts and merges of
library modules in `Records`, `Reveal`, `Supply` and `Figures` became recursive
functions, explicit records or the condition that defines the result.

Only model-checked: liveness (`EveryCycleReturns`, `EveryTickEnds`,
`EveryStepEnds`, `ConsoleEnds`), since fairness and `ENABLED` are beyond the prover.
Every other property of the passing runs is a theorem; the lock's, the order of rows and
the baseline's for runs that do not outlive the lock.

## 5. Known deviations without a run of their own

Behaviours of the code that the models contain and that differ from what the
repository says or a reader may expect. The properties are stated so that they
hold nevertheless; nothing here is assumed away.

*Services.*

* A registry that is only read loses its instance: `get_proof` renews the proof's
  entry only, although the comment at `contracts/proof-registry/src/lib.rs:19`
  says "bump their TTL back to ~30 days on write and read".
* Every row of `liabilities` is a leaf: a customer with two rows is counted twice and
  `findLeaf` answers with the older one, although `repo/liabilities.sql.go:49` says "The
  tenant's current customer balances". Nothing makes `customer_id` unique there.
  `TotalIsCounted` and `SavedPathsVerify` are about rows.
* After a rotation the next cycle still declares the old contract's total and is
  refused unless reserves are flat (`postgres.go:215`, `LatestReserves`);
  `ports.go:88` says "Safe to call again to rotate the contract or network." It
  is one of the three causes in `BaselineFailsOnlyIf`.
* A cycle that completed after its client left keeps its lock until it expires:
  the deferred release runs on the cancelled context (`cycle.go:97`); `ports.go:121`
  says "The caller must release it when the cycle ends."
* Two schedulers at different attempts publish one window twice, since the key
  ends in the attempt number (`scheduler.go:133`); `scheduler.go:12` says the claim
  "deduplicates any race". `OneRunPerAttempt` is what holds.
* After a rotation a customer's older reference is denied, because it carries the
  id of the old contract (`DeniedOnlyIfRotated`).
* With `SOLVA_CONTRACT_ID` set, as in the example at `build/ai-tools.mdx:52`, or with
  `endpoints.contractId`, every institution's on-chain read is of that one contract.
  `ai-tools.mdx:64` documents the variable; `oracle/src/solvency.ts:61` ("reads resolve to
  that institution's own contract") and `ai-tools.mdx:69` ("its own registry") are then not
  so. `AnswersOwnInstitution` and the others name the case (`Misdirected`).
* The oracle reports a breach when the RPC cannot be reached: `verifyOnChain`
  turns a failed read into "not verified".
* The oracle's `getProofHistory` returns the latest proof only
  (`oracle/src/server.ts:23`), so `get_anomalies` never has two cycles to compare.
* The SDK's `runProofCycle` posts `{}`, which the orchestrator answers with 400,
  `/v1/sources` is not mounted, and the proof it returns is in snake case where the
  shared type is in camel case. None of these calls is modelled.

*Web app.*

* `passkey/session.ts:19` keeps a rejected promise, so "Try again." (line 48) can
  only succeed after a reload: every later sign-in in the page ends in the same
  error (`SessionRejected`). `EverySignInEnds` says that it ends.
* "You are all set" on the publishing card also covers a key scoped to an older
  registry (`wallet-errors.ts:5`): `ReportedIsOnChain` claims only that the key is a
  signer in that case.
* `status-hero.tsx:120` says "A cycle runs automatically"; the schedule is stored and
  read by nothing.
* The inclusion page names the new reference while it still shows the earlier
  answer, until the new one arrives; the verify page keeps the "done" of the local
  check of an earlier proof, and the local check is a stub. `SettledAnswerIsAsked` and
  `SettledProofIsAsked` are about settled pages.

*Website.*

* `waitlist-form.tsx:26` says "We sent a confirmation" also when that mail failed:
  `SentIsStored` claims that the address is on the list.
* An address that is a contact of the mail account for another reason is told "This email is
  already on the waitlist." and is not added to it (`waitlist.ts:27-28`).
* The logo in the open mobile menu navigates without closing it.
* When the visitor turns motion off after loading, the class `motion` stays on and
  what was not yet revealed stays hidden
  (`docs/plans/2026-11-03-website-v3-plan.md:68` says otherwise);
  `HiddenOnlyIfWaiting` names the case. A percentage that was being counted
  freezes half way.
* When the visitor changes route and then turns motion off and on, the directors of all
  routes so far run over the last document; a drawing, or all of `<main>`, can end
  hidden, and turning motion off again can leave what was found so. One route's
  director leaves nothing hidden (`HiddenOnlyIfWaiting`).
* A chapter that was pinned and no longer is (the window was narrowed, motion was turned off)
  still takes its step from the scroll, against the buttons, and its record keeps
  the inline style it was drawn with: it may be seen at step 1. A timeline made
  for a second pinning takes the styles it finds for its ends, so it may show less
  than the first. `StepFollowsScroll` and `NothingBeforeItsStep` name what is left.
* When the observer of the opening's meter delivers "seen" and "no longer seen" together, the
  loop runs out of view until it delivers again (`use-opening-loop.ts:25`), although
  "loops pause off screen" (`docs/release-notes/2026-11-02-website-rebuild.md:18`);
  `LoopRunsIfSeen` bounds it.
* A calendar whose intro completes out of view starts its sweep there, although
  "loops pause off screen" (`docs/release-notes/2026-11-02-website-rebuild.md:18`):
  `UnseenSweepEndedUnseen` bounds it.
* A supply snapshot with some assets missing is kept for its whole five minutes.
* The ring of a short record above about 99.3 % lights every tick
  (`coverage-check.tsx:26` says "never round it away"), and a stale check with a
  shortfall writes a surplus of 0.00. `CheckTellsTheGap` is about the other cases.

## 6. Not modelled, and the plan

In order of importance:

1. `ProverService`: the witness files under `BB_LOCK`.
2. The sandbox's one-time codes and tokens, and the attested source's retries and
   freshness check.
3. The scheduler over several days: when exactly a free tenant loses its day to
   a tick that `time.Ticker` dropped.

Left out for good: presentation (layout, easing, drawings, texts, docs; the
product page's step figures), generated bindings and gRPC stubs, unused code
(`swk-module.ts`, `wallet-state.ts`), cryptography (Poseidon2, ECDSA, WebAuthn and
the UltraHonk verifier are assumed to do what they are used for), and plain
reads and field validation in the tenant API.
