------------------------------- MODULE SignIn -------------------------------
(***************************************************************************)
(* Signing in to the console (apps/web): the passkey ceremony and the      *)
(* smart wallet it provisions (lib/auth.ts, lib/passkey), the session of   *)
(* each tab and the storage its tabs share (lib/session), and the business *)
(* review that opens the dashboard (app/(entry), app/(app)/layout.tsx).    *)
(*                                                                         *)
(* A tab keeps its session in memory; localStorage belongs to the browser. *)
(* A step of the model runs from one await to the next.  A wallet's        *)
(* address is derived from the deployer's key and the passkey, so it is    *)
(* that pair.                                                              *)
(***************************************************************************)
EXTENDS Naturals, FiniteSets, Absent

CONSTANTS
  Tab,
  Passkey,       \* bound: credentials in use at one time
  Deployer,      \* bound: deployer keys in use at one time
  MayBlock,      \* whether the browser may block its storage
  MaxReloads,    \* bound: reloads of all tabs
  MaxSent        \* bound: deployments in flight

\* deriveWalletAddress.
WalletAddress_swapped(key, cred) == <<cred, key>>
WalletAddress(key, cred) == <<key, cred>>
Wallet == Deployer \X Passkey

KybStatus == {"not_started", "in_review", "approved"}
Rank == [s \in KybStatus |-> CASE s = "not_started" -> 0 [] s = "in_review" -> 1
                               [] s = "approved" -> 2]

ASSUME SignInAssumption ==
  /\ IsFiniteSet(Tab) /\ IsFiniteSet(Passkey) /\ IsFiniteSet(Deployer)
  /\ None \notin Passkey \cup Deployer \cup Wallet \cup KybStatus
  /\ Cardinality(Deployer) >= Cardinality(Tab)
  /\ MayBlock \in BOOLEAN /\ MaxReloads \in Nat /\ MaxSent \in Nat

VARIABLES
  store,      \* localStorage: the active wallet, the passkey, the deployer, the institutions
  blocked,    \* the browser blocks localStorage
  tab,        \* per tab: the SessionProvider and the auth page
  cache,      \* per tab: sessionPromise, the deployer's session
  sent,       \* deployments the network may still include
  deployed,   \* wallets on the ledger
  reloads,
  reviewed,   \* history: wallets that were approved after a submission
  saves       \* history: how often a new wallet was stored

network == <<sent, deployed>>
ghosts == <<reviewed, saves>>
signInVars == <<store, blocked, tab, cache, network, reloads, ghosts>>

Phase == {"idle", "checking", "authenticating", "registering", "session", "deploy", "poll"}

SignInTypeOK ==
  /\ store \in [active: Wallet \cup {None}, passkey: Wallet \cup {None},
                deployer: Deployer \cup {None},
                institution: [Wallet -> KybStatus \cup {None}]]
  /\ blocked \in BOOLEAN
  /\ tab \in [Tab -> [loading: BOOLEAN, wallet: Wallet \cup {None},
                      kyb: KybStatus \cup {None}, phase: Phase,
                      cred: Passkey \cup {None}, existing: Wallet \cup {None}]]
  /\ cache \in [Tab -> [state: {"none", "pending", "ready", "rejected"},
                        key: Deployer \cup {None}]]
  /\ sent \subseteq Wallet /\ deployed \subseteq Wallet /\ reviewed \subseteq Wallet
  /\ reloads \in 0..MaxReloads /\ saves \in Nat

\* A page that has just been opened: nothing of an earlier one is left.
FreshTab == [loading |-> TRUE, wallet |-> None, kyb |-> None, phase |-> "idle",
             cred |-> None, existing |-> None]
NoSession == [state |-> "none", key |-> None]

SignInInit ==
  /\ store = [active |-> None, passkey |-> None, deployer |-> None,
              institution |-> [w \in Wallet |-> None]]
  /\ blocked \in IF MayBlock THEN BOOLEAN ELSE {FALSE}
  /\ tab = [t \in Tab |-> FreshTab]
  /\ cache = [t \in Tab |-> NoSession]
  /\ sent = {} /\ deployed = {} /\ reviewed = {}
  /\ reloads = 0 /\ saves = 0
-----------------------------------------------------------------------------
(* Storage and the session of a tab.                                       *)

\* The stores catch what localStorage throws: a blocked browser keeps nothing.
Saved(new) == store' = IF blocked THEN store ELSE new

\* loadInstitution, or freshInstitution when there is none.
Institution_fresh(w) == "not_started"
Institution(w) == IF store.institution[w] = None THEN "not_started" ELSE store.institution[w]

\* deriveStatus.
Status_submitted(t) ==
  CASE tab[t].loading -> "loading"
    [] ~tab[t].loading /\ tab[t].wallet = None -> "unauthenticated"
    [] ~tab[t].loading /\ tab[t].wallet # None /\ tab[t].kyb = "not_started" -> "onboarding"
    [] OTHER -> "active"
Status(t) ==
  CASE tab[t].loading -> "loading"
    [] ~tab[t].loading /\ tab[t].wallet = None -> "unauthenticated"
    [] ~tab[t].loading /\ tab[t].wallet # None /\ tab[t].kyb # "approved" -> "onboarding"
    [] OTHER -> "active"

\* The effect of SessionProvider: resume the active wallet.
Resume(t) ==
  /\ tab[t].loading
  /\ tab' = [tab EXCEPT ![t].loading = FALSE, ![t].wallet = store.active,
                        ![t].kyb = IF store.active = None THEN None ELSE Institution(store.active)]
  /\ UNCHANGED <<store, blocked, cache, network, reloads, ghosts>>

\* The page is loaded again, whatever it was doing.
Reload(t) ==
  /\ reloads < MaxReloads
  /\ reloads' = reloads + 1
  /\ tab' = [tab EXCEPT ![t] = FreshTab]
  /\ cache' = [cache EXCEPT ![t] = NoSession]
  /\ UNCHANGED <<store, blocked, network, ghosts>>

\* AppLayout shows the dashboard for an active session only.
Dashboard(t) == Status(t) = "active"

\* OnboardingClient: the form, or the application under review.
KybForm(t) == Status(t) = "onboarding" /\ tab[t].kyb # "in_review"
PendingReview(t) == Status(t) = "onboarding" /\ tab[t].kyb = "in_review"

\* submitKyb writes this tab's copy of the institution back.
submitKyb(t) ==
  /\ KybForm(t)
  /\ tab' = [tab EXCEPT ![t].kyb = "in_review"]
  /\ Saved([store EXCEPT !.institution[tab[t].wallet] = "in_review"])
  /\ UNCHANGED <<blocked, cache, network, reloads, ghosts>>

approveKyb(t) ==
  /\ PendingReview(t)
  /\ tab' = [tab EXCEPT ![t].kyb = "approved"]
  /\ Saved([store EXCEPT !.institution[tab[t].wallet] = "approved"])
  /\ reviewed' = reviewed \cup {tab[t].wallet}
  /\ UNCHANGED <<blocked, cache, network, reloads, saves>>

\* The sign-out of the dashboard's top bar.
signOut(t) ==
  /\ Dashboard(t)
  /\ Saved([store EXCEPT !.active = None])
  /\ tab' = [tab EXCEPT ![t].wallet = None, ![t].kyb = None]
  /\ UNCHANGED <<blocked, cache, network, reloads, ghosts>>
-----------------------------------------------------------------------------
(* PasskeyAuthProvider.signIn.                                             *)

AtPhase(t, phase) == ~tab[t].loading /\ tab[t].phase = phase
GotoPhase(t, phase) == tab' = [tab EXCEPT ![t].phase = phase]

\* The button of the auth page, disabled while busy.
SignInButton(t) == Status(t) = "unauthenticated" /\ AtPhase(t, "idle")

signInWithPasskey(t) ==
  /\ SignInButton(t)
  /\ GotoPhase(t, "checking")
  /\ UNCHANGED <<store, blocked, cache, network, reloads, ghosts>>

\* The catch: the error is shown and the button is there again.
SignInFails(t) == tab' = [tab EXCEPT ![t].phase = "idle", ![t].cred = None, ![t].existing = None]

\* detectPasskeySupport says no.
Unsupported(t) ==
  /\ AtPhase(t, "checking") /\ SignInFails(t)
  /\ UNCHANGED <<store, blocked, cache, network, reloads, ghosts>>

\* loadWallet.
StoredWallet_none == None
StoredWallet == store.passkey

Supported(t) ==
  /\ AtPhase(t, "checking")
  /\ tab' = [tab EXCEPT ![t].existing = StoredWallet,
                        ![t].phase = IF StoredWallet = None THEN "registering"
                                     ELSE "authenticating"]
  /\ UNCHANGED <<store, blocked, cache, network, reloads, ghosts>>

\* The prompt is dismissed or runs into its timeout.
PromptDismissed(t) ==
  /\ AtPhase(t, "authenticating") \/ AtPhase(t, "registering")
  /\ SignInFails(t)
  /\ UNCHANGED <<store, blocked, cache, network, reloads, ghosts>>

\* The new credential exposes no valid P-256 key.
NoSignerKey(t) ==
  /\ AtPhase(t, "registering")
  /\ SignInFails(t)
  /\ UNCHANGED <<store, blocked, cache, network, reloads, ghosts>>

\* The tail of SessionProvider.signIn: the institution, the active wallet, the session.
SignsInto(t, wallet, stored) ==
  /\ Saved([store EXCEPT !.passkey = stored, !.active = wallet,
                         !.institution[wallet] = Institution(wallet)])
  /\ tab' = [tab EXCEPT ![t] = [FreshTab EXCEPT !.loading = FALSE, !.wallet = wallet,
                                                !.kyb = Institution(wallet)]]

\* signWithPasskey: the operator holds the stored passkey.
Asserted(t) ==
  /\ AtPhase(t, "authenticating")
  /\ SignsInto(t, tab[t].existing, store.passkey)
  /\ UNCHANGED <<blocked, cache, network, reloads, ghosts>>

\* Passkeys something still refers to; any other is as good as new.
InUse ==
  {tab[t].cred : t \in Tab} \cup
  {w[2] : w \in (({store.active, store.passkey} \cup {tab[t].wallet : t \in Tab}
                  \cup {tab[t].existing : t \in Tab}) \ {None}) \cup sent}

\* createPasskey: a new credential, whose key will be the wallet's first signer.
PasskeyCreated(t) ==
  /\ AtPhase(t, "registering")
  /\ Passkey \ InUse # {}
  /\ LET cred == CHOOSE c \in Passkey \ InUse : TRUE IN
       /\ tab' = [tab EXCEPT ![t].cred = cred, ![t].phase = "session"]
       /\ deployed' = {w \in deployed : w[2] # cred}
       /\ reviewed' = {w \in reviewed : w[2] # cred}
       /\ store' = [store EXCEPT !.institution =
                      [w \in Wallet |-> IF w[2] = cred THEN None ELSE @[w]]]
  /\ UNCHANGED <<blocked, cache, sent, reloads, saves>>

\* The deployer's key in localStorage.
restore == store.deployer
persist(key) == Saved([store EXCEPT !.deployer = key])

\* getSession: the first call in a page starts createSession with the stored key or a
\* random one; every other call waits for the same promise.
createSession(t) ==
  /\ AtPhase(t, "session") /\ cache[t].state = "none"
  /\ LET key == IF restore # None THEN restore
                ELSE CHOOSE k \in Deployer : \A u \in Tab : cache[u].key # k
     IN cache' = [cache EXCEPT ![t] = [state |-> "pending", key |-> key]]
  /\ UNCHANGED <<store, blocked, tab, network, reloads, ghosts>>

\* The account exists, or friendbot funds it.
Funded(t) ==
  /\ AtPhase(t, "session") /\ cache[t].state = "pending"
  /\ cache' = [cache EXCEPT ![t].state = "ready"]
  /\ persist(cache[t].key)
  /\ UNCHANGED <<blocked, tab, network, reloads, ghosts>>

\* The three attempts fail: the promise is rejected, and it is the one kept.
FundingFails(t) ==
  /\ AtPhase(t, "session") /\ cache[t].state = "pending"
  /\ cache' = [cache EXCEPT ![t] = [state |-> "rejected", key |-> None]]
  /\ SignInFails(t)
  /\ UNCHANGED <<store, blocked, network, reloads, ghosts>>

\* A later sign-in in this page awaits the rejected promise.
SessionRejected(t) ==
  /\ AtPhase(t, "session") /\ cache[t].state = "rejected"
  /\ SignInFails(t)
  /\ UNCHANGED <<store, blocked, cache, network, reloads, ghosts>>

SessionReady(t) ==
  /\ AtPhase(t, "session") /\ cache[t].state = "ready"
  /\ GotoPhase(t, "deploy")
  /\ UNCHANGED <<store, blocked, cache, network, reloads, ghosts>>

\* walletAddressFor.
Own(t) == WalletAddress(cache[t].key, tab[t].cred)

\* The deployment cannot be built or simulated.
DeployRefused(t) ==
  /\ AtPhase(t, "deploy") /\ SignInFails(t)
  /\ UNCHANGED <<store, blocked, cache, network, reloads, ghosts>>

\* deployWallet sends the deployment; whatever signAndSend throws, it polls.
DeploySent(t) ==
  /\ AtPhase(t, "deploy") /\ Cardinality(sent) < MaxSent
  /\ sent' = sent \cup {Own(t)}
  /\ GotoPhase(t, "poll")
  /\ UNCHANGED <<store, blocked, cache, deployed, reloads, ghosts>>

DeploySendFails(t) ==
  /\ AtPhase(t, "deploy")
  /\ GotoPhase(t, "poll")
  /\ UNCHANGED <<store, blocked, cache, network, reloads, ghosts>>

\* The network includes a deployment, or lets it expire.
InLedger(w) ==
  /\ w \in sent
  /\ sent' = sent \ {w} /\ deployed' = deployed \cup {w}
  /\ UNCHANGED <<store, blocked, tab, cache, reloads, ghosts>>

Expired(w) ==
  /\ w \in sent
  /\ sent' = sent \ {w}
  /\ UNCHANGED <<store, blocked, tab, cache, deployed, reloads, ghosts>>

\* contractExists.
ContractExists_assumed(w) == TRUE
ContractExists(w) == w \in deployed

\* The poll finds the wallet: saveWallet, then the tail of signIn.
PollFinds(t) ==
  /\ AtPhase(t, "poll") /\ ContractExists(Own(t))
  /\ SignsInto(t, Own(t), Own(t))
  /\ saves' = IF blocked THEN saves ELSE saves + 1
  /\ UNCHANGED <<blocked, cache, network, reloads, reviewed>>

\* 45 polls found nothing; a read that fails counts as nothing found.
PollTimesOut_never(t) == FALSE /\ UNCHANGED signInVars
PollTimesOut(t) ==
  /\ AtPhase(t, "poll") /\ SignInFails(t)
  /\ UNCHANGED <<store, blocked, cache, network, reloads, ghosts>>
-----------------------------------------------------------------------------
SignInStep(t) ==
  \/ Unsupported(t) \/ Supported(t) \/ PromptDismissed(t) \/ NoSignerKey(t)
  \/ Asserted(t)
  \/ PasskeyCreated(t) \/ createSession(t) \/ Funded(t) \/ FundingFails(t)
  \/ SessionRejected(t) \/ SessionReady(t)
  \/ DeployRefused(t) \/ DeploySent(t) \/ DeploySendFails(t) \/ PollFinds(t) \/ PollTimesOut(t)

SignInNext ==
  \/ \E t \in Tab :
       \/ Resume(t) \/ Reload(t) \/ submitKyb(t) \/ approveKyb(t) \/ signOut(t)
       \/ signInWithPasskey(t) \/ SignInStep(t)
  \/ \E w \in Wallet : InLedger(w) \/ Expired(w)

SignInSpec == SignInInit /\ [][SignInNext]_signInVars

\* Every await of signIn settles: prompts, requests and polls all have a limit.
SignInFairSpec == SignInSpec /\ \A t \in Tab : WF_signInVars(SignInStep(t))
-----------------------------------------------------------------------------
\* Whatever tabs race, time out or are reloaded, a session, the active wallet and the
\* stored passkey always name a wallet that is on the ledger.
WalletIsDeployed ==
  {store.active, store.passkey} \cup {tab[t].wallet : t \in Tab} \subseteq deployed \cup {None}

\* AppLayout shows the dashboard only for a wallet that was submitted and approved,
\* even when tabs hold different copies of its institution.
DashboardOnlyIfReviewed ==
  \A t \in Tab : Dashboard(t) => tab[t].wallet \in reviewed

\* A second wallet is made only by a tab that had looked for the first before it was
\* saved: while storage works, at most one wallet is saved per tab.
SavesAtMostOncePerTab == ~blocked => saves <= Cardinality(Tab)

\* loginWithPasskey over a storage that several tabs share: sessions name deployed
\* wallets, the dashboard is for reviewed ones, and tabs make no wallet in vain.
SignInIsSafe == WalletIsDeployed /\ DashboardOnlyIfReviewed /\ SavesAtMostOncePerTab

\* A stored review status goes back only when a tab writes a copy it loaded before the
\* other tab moved on; signing in and resuming never do it.
RegressOnlyIfStale ==
  [][\A w \in Wallet :
       (store.institution[w] # None /\ store'.institution[w] # None
        /\ Rank[store'.institution[w]] < Rank[store.institution[w]]) =>
          \E t \in Tab : /\ tab[t].wallet = w /\ tab'[t].kyb # tab[t].kyb
                         /\ tab[t].kyb # store.institution[w]]_signInVars

\* Every sign-in ends: in a session, or with the button enabled again.
EverySignInEnds == \A t \in Tab : tab[t].phase # "idle" ~> tab[t].phase = "idle"
=============================================================================
