---------------------------- MODULE ConsoleProofs ----------------------------
(***************************************************************************)
(* Theorems about the console, for every set of tabs, keys and passkeys,   *)
(* whether the browser blocks its storage or not, whatever is reloaded,    *)
(* dismissed, refused or late.                                             *)
(***************************************************************************)
EXTENDS MCConsole, FiniteSetTheorems, SequenceTheorems, NaturalsInduction, WellFoundedInduction,
        TLAPS

\* What a sign-in has in hand at each of its awaits.
PhasesInv ==
  \A t \in Tab :
    /\ tab[t].phase \in {"session", "deploy", "poll"} => tab[t].cred # None
    /\ tab[t].phase \in {"deploy", "poll"} => cache[t].state = "ready"
    /\ tab[t].phase = "authenticating" => tab[t].existing # None
    /\ cache[t].key = None <=> cache[t].state \in {"none", "rejected"}

\* Every wallet a tab or the storage names is on the ledger.
NamesInv == WalletIsDeployed /\ \A t \in Tab : tab[t].existing \in deployed \cup {None}

\* An approval, in a tab or in the storage, is one that was given.
ReviewInv ==
  /\ \A t \in Tab : tab[t].wallet # None /\ tab[t].kyb = "approved" => tab[t].wallet \in reviewed
  /\ \A w \in Wallet : store.institution[w] = "approved" => w \in reviewed

\* The tabs that make a wallet.
Making == {t \in Tab : tab[t].phase \in {"registering", "session", "deploy", "poll"}}

\* A tab begins to make a wallet only while none is stored, so each tab that makes one
\* still has its one save ahead.
SavesInv ==
  /\ store.passkey = None => saves = 0
  /\ ~blocked => saves + Cardinality(Making) <= Cardinality(Tab)

SignInInv == SignInTypeOK /\ PhasesInv /\ NamesInv /\ ReviewInv /\ SavesInv
-----------------------------------------------------------------------------
\* The tabs, and the step that touches only one.
Tabs == [Tab -> [loading: BOOLEAN, wallet: Wallet \cup {None}, kyb: KybStatus \cup {None},
                 phase: Phase, cred: Passkey \cup {None}, existing: Wallet \cup {None}]]
OnlyTab(t) == tab' \in Tabs /\ \A u \in Tab \ {t} : tab'[u] = tab[u]

LEMMA GotoPhaseEffect ==
  ASSUME tab \in Tabs, NEW t \in Tab, NEW p \in Phase, GotoPhase(t, p)
  PROVE  /\ OnlyTab(t) /\ tab'[t].phase = p
         /\ tab'[t].wallet = tab[t].wallet /\ tab'[t].kyb = tab[t].kyb
         /\ tab'[t].cred = tab[t].cred /\ tab'[t].existing = tab[t].existing
  BY DEF Tabs, OnlyTab, GotoPhase

LEMMA SignInFailsEffect ==
  ASSUME tab \in Tabs, NEW t \in Tab, SignInFails(t)
  PROVE  /\ OnlyTab(t) /\ tab'[t].phase = "idle"
         /\ tab'[t].wallet = tab[t].wallet /\ tab'[t].kyb = tab[t].kyb
         /\ tab'[t].cred = None /\ tab'[t].existing = None
  <1> DEFINE new == [tab[t] EXCEPT !.phase = "idle", !.cred = None, !.existing = None]
  <1>1. /\ new \in [loading: BOOLEAN, wallet: Wallet \cup {None}, kyb: KybStatus \cup {None},
                    phase: Phase, cred: Passkey \cup {None}, existing: Wallet \cup {None}]
        /\ new.phase = "idle" /\ new.wallet = tab[t].wallet /\ new.kyb = tab[t].kyb
        /\ new.cred = None /\ new.existing = None
    BY DEF Tabs, Phase
  <1>2. tab' = [tab EXCEPT ![t] = new]
    BY DEF SignInFails, Tabs
  <1> HIDE DEF new
  <1> QED BY <1>1, <1>2 DEF Tabs, OnlyTab

\* A finite set does not grow by losing members, and shrinks when it loses one.
LEMMA MakingFinite == IsFiniteSet(Making) /\ Cardinality(Making) \in Nat
  <1>1. Making \in SUBSET Tab
    BY DEF Making
  <1>2. IsFiniteSet(Making)
    BY <1>1, FS_Subset, SignInAssumption
  <1> QED BY <1>2, FS_CardinalityType

\* The key of a tab that has none yet: the browsers' tabs never use up the keys.
LEMMA FreshKey ==
  ASSUME SignInTypeOK, PhasesInv, NEW t \in Tab, cache[t].state = "none"
  PROVE  \E k \in Deployer : \A u \in Tab : cache[u].key # k
  <1> DEFINE Others == Tab \ {t}
             Keys == {cache[u].key : u \in Others}
  <1>1. IsFiniteSet(Others) /\ Cardinality(Others) = Cardinality(Tab) - 1
    BY FS_RemoveElement, SignInAssumption
  <1>2. IsFiniteSet(Keys) /\ Cardinality(Keys) <= Cardinality(Others)
    <2> DEFINE key == [u \in Others |-> cache[u].key]
    <2>1. key \in Surjection(Others, Keys)
      BY DEF Surjection
    <2> QED BY <1>1, <2>1, FS_Surjection
  <1>3. Cardinality(Keys) \in Nat /\ Cardinality(Others) \in Nat /\ Cardinality(Tab) \in Nat
        /\ Cardinality(Deployer) \in Nat
    BY <1>1, <1>2, FS_CardinalityType, SignInAssumption
  <1>4. ~(Deployer \subseteq Keys)
    <2> HIDE DEF Keys, Others
    <2>1. SUFFICES ASSUME Deployer \in SUBSET Keys PROVE FALSE
      OBVIOUS
    <2>2. Cardinality(Deployer) <= Cardinality(Keys)
      BY <1>2, <2>1, FS_Subset
    <2> QED BY <1>1, <1>2, <1>3, <2>2, SignInAssumption
  <1>5. PICK k \in Deployer : k \notin Keys
    BY <1>4
  <1>6. cache[t].key = None
    BY DEF PhasesInv
  <1>7. \A u \in Tab : cache[u].key # k
    BY <1>5, <1>6, SignInAssumption
  <1> QED BY <1>5, <1>7

LEMMA OwnType ==
  ASSUME SignInTypeOK, PhasesInv, NEW t \in Tab, tab[t].phase \in {"deploy", "poll"}
  PROVE  Own(t) \in Wallet
  <1>1. cache[t].key # None /\ cache[t].key \in Deployer
    BY DEF SignInTypeOK, PhasesInv
  <1>2. tab[t].cred # None /\ tab[t].cred \in Passkey
    BY DEF SignInTypeOK, PhasesInv
  <1> QED BY <1>1, <1>2 DEF Own, WalletAddress, Wallet

LEMMA InstitutionType ==
  ASSUME SignInTypeOK, NEW w \in Wallet
  PROVE  /\ Institution(w) \in KybStatus
         /\ Institution(w) = "approved" => store.institution[w] = "approved"
  BY DEF SignInTypeOK, Institution, KybStatus

\* Where SignsInto leaves the storage and the tab.
LEMMA SignsIntoEffect ==
  ASSUME SignInTypeOK, NEW t \in Tab, NEW w \in Wallet, NEW p \in Wallet \cup {None},
         SignsInto(t, w, p)
  PROVE  /\ store' \in [active: Wallet \cup {None}, passkey: Wallet \cup {None},
                        deployer: Deployer \cup {None},
                        institution: [Wallet -> KybStatus \cup {None}]]
         /\ tab' \in Tabs
         /\ \/ store' = store /\ blocked
            \/ ~blocked /\ store'.active = w /\ store'.passkey = p
         /\ \A v \in Wallet : /\ store'.institution[v] = "approved" => store.institution[v] = "approved"
                              /\ store.institution[v] # None => store'.institution[v] = store.institution[v]
         /\ tab'[t].phase = "idle" /\ tab'[t].cred = None /\ tab'[t].existing = None
         /\ tab'[t].wallet = w
         /\ tab'[t].kyb = "approved" => store.institution[w] = "approved"
         /\ \A u \in Tab \ {t} : tab'[u] = tab[u]
  <1>1. Institution(w) \in KybStatus
        /\ (Institution(w) = "approved" => store.institution[w] = "approved")
        /\ (store.institution[w] # None => Institution(w) = store.institution[w])
    BY InstitutionType DEF Institution
  <1> DEFINE fresh == [FreshTab EXCEPT !.loading = FALSE, !.wallet = w, !.kyb = Institution(w)]
             saved == [store EXCEPT !.passkey = p, !.active = w, !.institution[w] = Institution(w)]
  <1>2. /\ fresh \in [loading: BOOLEAN, wallet: Wallet \cup {None},
                      kyb: KybStatus \cup {None}, phase: Phase,
                      cred: Passkey \cup {None}, existing: Wallet \cup {None}]
        /\ fresh.phase = "idle" /\ fresh.cred = None /\ fresh.existing = None
        /\ fresh.wallet = w /\ fresh.kyb = Institution(w)
    BY <1>1 DEF FreshTab, Phase
  <1>3. /\ saved \in [active: Wallet \cup {None}, passkey: Wallet \cup {None},
                      deployer: Deployer \cup {None},
                      institution: [Wallet -> KybStatus \cup {None}]]
        /\ saved.passkey = p /\ saved.active = w
        /\ saved.institution = [store.institution EXCEPT ![w] = Institution(w)]
    BY <1>1 DEF SignInTypeOK
  <1>4. tab' = [tab EXCEPT ![t] = fresh] /\ store' = IF blocked THEN store ELSE saved
    BY DEF SignsInto, Saved
  <1> HIDE DEF fresh, saved
  <1>5. /\ tab'[t] = fresh /\ \A u \in Tab \ {t} : tab'[u] = tab[u]
        /\ tab' \in Tabs
    BY <1>2, <1>4 DEF SignInTypeOK, Tabs
  <1>6. \A v \in Wallet : /\ store'.institution[v] = "approved" => store.institution[v] = "approved"
                          /\ store.institution[v] # None => store'.institution[v] = store.institution[v]
    <2>1. store.institution \in [Wallet -> KybStatus \cup {None}]
      BY DEF SignInTypeOK
    <2> QED BY <1>1, <1>3, <1>4, <2>1
  <1> QED BY <1>1, <1>2, <1>3, <1>4, <1>5, <1>6 DEF SignInTypeOK
-----------------------------------------------------------------------------
\* A step that names no other wallet, approves and saves none, and has no tab begin
\* to make one.
KeepsWallets ==
  /\ UNCHANGED <<blocked, reviewed, saves>> /\ deployed \subseteq deployed'
  /\ store'.passkey = store.passkey /\ store'.institution = store.institution
  /\ store'.active \in {store.active, None}
  /\ \A u \in Tab :
       /\ \/ tab'[u].wallet = None
          \/ tab'[u].wallet = tab[u].wallet /\ tab'[u].kyb = tab[u].kyb
       /\ tab'[u].existing \in {tab[u].existing, None}
  /\ Making' \subseteq Making

Sound == SignInTypeOK /\ PhasesInv

LEMMA SoundTabs == ASSUME Sound PROVE tab \in Tabs
  BY DEF Sound, SignInTypeOK, Tabs

LEMMA ReloadStep ==
  ASSUME Sound, NEW t \in Tab, Reload(t)
  PROVE  Sound' /\ KeepsWallets
  <1>1. /\ FreshTab \in [loading: BOOLEAN, wallet: Wallet \cup {None}, kyb: KybStatus \cup {None},
                         phase: Phase, cred: Passkey \cup {None}, existing: Wallet \cup {None}]
        /\ FreshTab.phase = "idle" /\ FreshTab.wallet = None /\ FreshTab.existing = None
    BY DEF FreshTab, Phase
  <1>2. OnlyTab(t) /\ tab'[t] = FreshTab
    BY <1>1, SoundTabs DEF Reload, Tabs, OnlyTab
  <1>3. /\ cache' \in [Tab -> [state: {"none", "pending", "ready", "rejected"},
                               key: Deployer \cup {None}]]
        /\ cache'[t] = NoSession /\ \A u \in Tab \ {t} : cache'[u] = cache[u]
    BY DEF Reload, NoSession, Sound, SignInTypeOK
  <1>4. reloads' \in 0..MaxReloads
    BY SignInAssumption DEF Reload, Sound, SignInTypeOK
  <1>5. SignInTypeOK'
    BY <1>2, <1>3, <1>4 DEF Sound, SignInTypeOK, Reload, network, ghosts, OnlyTab, Tabs
  <1>6. PhasesInv'
    BY <1>1, <1>2, <1>3 DEF Sound, PhasesInv, OnlyTab, NoSession
  <1>7. KeepsWallets
    BY <1>1, <1>2 DEF KeepsWallets, Reload, network, ghosts, OnlyTab, Making
  <1> QED BY <1>5, <1>6, <1>7 DEF Sound

LEMMA SignOutStep ==
  ASSUME Sound, NEW t \in Tab, signOut(t)
  PROVE  Sound' /\ KeepsWallets
  <1> DEFINE new == [tab[t] EXCEPT !.wallet = None, !.kyb = None]
  <1>1. /\ new \in [loading: BOOLEAN, wallet: Wallet \cup {None}, kyb: KybStatus \cup {None},
                    phase: Phase, cred: Passkey \cup {None}, existing: Wallet \cup {None}]
        /\ new.phase = tab[t].phase /\ new.wallet = None
        /\ new.cred = tab[t].cred /\ new.existing = tab[t].existing
    BY SoundTabs DEF Tabs
  <1>2. tab' = [tab EXCEPT ![t] = new]
    BY SoundTabs DEF signOut, Tabs
  <1> HIDE DEF new
  <1>3. OnlyTab(t) /\ tab'[t] = new
    BY <1>1, <1>2, SoundTabs DEF Tabs, OnlyTab
  <1>4. SignInTypeOK'
    BY <1>3 DEF Sound, SignInTypeOK, signOut, Saved, network, ghosts, OnlyTab, Tabs
  <1>5. PhasesInv'
    <2>1. UNCHANGED cache
      BY DEF signOut
    <2> QED BY <1>1, <1>3, <2>1 DEF Sound, PhasesInv, OnlyTab
  <1>6. KeepsWallets
    BY <1>1, <1>3 DEF KeepsWallets, signOut, Saved, network, ghosts, OnlyTab, Making, Sound, SignInTypeOK
  <1> QED BY <1>4, <1>5, <1>6 DEF Sound

\* The steps of a sign-in that fails.
LEMMA FailStep ==
  ASSUME Sound, NEW t \in Tab,
         \/ Unsupported(t) \/ PromptDismissed(t) \/ NoSignerKey(t) \/ FundingFails(t)
         \/ SessionRejected(t) \/ DeployRefused(t) \/ PollTimesOut(t)
  PROVE  Sound' /\ KeepsWallets
  <1>1. /\ SignInFails(t) /\ UNCHANGED <<store, blocked, network, reloads, ghosts>>
        /\ \/ UNCHANGED cache
           \/ cache' = [cache EXCEPT ![t] = [state |-> "rejected", key |-> None]]
    BY DEF Unsupported, PromptDismissed, NoSignerKey, FundingFails, SessionRejected,
           DeployRefused, PollTimesOut
  <1>2. /\ OnlyTab(t) /\ tab'[t].phase = "idle"
        /\ tab'[t].wallet = tab[t].wallet /\ tab'[t].kyb = tab[t].kyb
        /\ tab'[t].existing = None
    BY <1>1, SoundTabs, SignInFailsEffect
  <1>3. /\ cache' \in [Tab -> [state: {"none", "pending", "ready", "rejected"},
                               key: Deployer \cup {None}]]
        /\ cache'[t] = cache[t] \/ cache'[t] = [state |-> "rejected", key |-> None]
        /\ \A u \in Tab \ {t} : cache'[u] = cache[u]
    BY <1>1 DEF Sound, SignInTypeOK
  <1>4. SignInTypeOK'
    BY <1>1, <1>2, <1>3 DEF Sound, SignInTypeOK, network, ghosts, OnlyTab, Tabs
  <1>5. PhasesInv'
    BY <1>2, <1>3 DEF Sound, PhasesInv, OnlyTab
  <1>6. KeepsWallets
    BY <1>1, <1>2 DEF KeepsWallets, network, ghosts, OnlyTab, Making
  <1> QED BY <1>4, <1>5, <1>6 DEF Sound

\* The steps that go on to the next await.
LEMMA PhaseStep ==
  ASSUME Sound, NEW t \in Tab,
         signInWithPasskey(t) \/ SessionReady(t) \/ DeploySent(t) \/ DeploySendFails(t)
  PROVE  Sound' /\ KeepsWallets
  <1>1. PICK p \in Phase :
          /\ GotoPhase(t, p)
          /\ \/ p = "checking"
             \/ p = "deploy" /\ tab[t].phase = "session" /\ cache[t].state = "ready"
             \/ p = "poll" /\ tab[t].phase = "deploy"
    BY DEF signInWithPasskey, SessionReady, DeploySent, DeploySendFails, Phase, AtPhase
  <1>2. /\ UNCHANGED <<store, blocked, cache, deployed, reloads, reviewed, saves>>
        /\ sent' \subseteq Wallet
    <2>1. CASE DeploySent(t)
      <3>1. Own(t) \in Wallet
        BY <2>1, OwnType DEF DeploySent, AtPhase, Sound
      <3> QED BY <2>1, <3>1 DEF DeploySent, ghosts, Sound, SignInTypeOK
    <2>2. CASE signInWithPasskey(t) \/ SessionReady(t) \/ DeploySendFails(t)
      BY <2>2 DEF signInWithPasskey, SessionReady, DeploySendFails, network, ghosts,
                  Sound, SignInTypeOK
    <2> QED BY <2>1, <2>2
  <1>3. /\ OnlyTab(t) /\ tab'[t].phase = p
        /\ tab'[t].wallet = tab[t].wallet /\ tab'[t].kyb = tab[t].kyb
        /\ tab'[t].cred = tab[t].cred /\ tab'[t].existing = tab[t].existing
    BY <1>1, SoundTabs, GotoPhaseEffect
  <1>4. SignInTypeOK'
    BY <1>2, <1>3 DEF Sound, SignInTypeOK, OnlyTab, Tabs
  <1>5. PhasesInv'
    BY <1>1, <1>2, <1>3 DEF Sound, PhasesInv, OnlyTab
  <1>6. KeepsWallets
    BY <1>1, <1>2, <1>3 DEF KeepsWallets, OnlyTab, Making
  <1> QED BY <1>4, <1>5, <1>6 DEF Sound

LEMMA SessionStep ==
  ASSUME Sound, NEW t \in Tab, createSession(t) \/ Funded(t)
  PROVE  Sound' /\ KeepsWallets
  <1>1. /\ cache' \in [Tab -> [state: {"none", "pending", "ready", "rejected"},
                               key: Deployer \cup {None}]]
        /\ \A u \in Tab \ {t} : cache'[u] = cache[u]
        /\ cache'[t].state \in {"pending", "ready"} /\ cache'[t].key # None
        /\ tab[t].phase = "session" /\ cache[t].state \in {"none", "pending"}
    <2>1. CASE createSession(t)
      <3>1. PICK key \in Deployer : cache' = [cache EXCEPT ![t] = [state |-> "pending", key |-> key]]
        BY <2>1, FreshKey DEF createSession, restore, Sound, SignInTypeOK
      <3>2. key # None
        BY SignInAssumption
      <3>3. tab[t].phase = "session" /\ cache[t].state = "none"
        BY <2>1 DEF createSession, AtPhase
      <3> QED BY <3>1, <3>2, <3>3 DEF Sound, SignInTypeOK
    <2>2. CASE Funded(t)
      BY <2>2 DEF Funded, AtPhase, Sound, SignInTypeOK, PhasesInv
    <2> QED BY <2>1, <2>2
  <1>2. /\ UNCHANGED <<blocked, tab, sent, deployed, reloads, reviewed, saves>>
        /\ store' = store \/ store' = [store EXCEPT !.deployer = cache[t].key]
    BY DEF createSession, Funded, persist, Saved, network, ghosts
  <1>3. SignInTypeOK'
    BY <1>1, <1>2 DEF Sound, SignInTypeOK
  <1>4. PhasesInv'
    BY <1>1, <1>2 DEF Sound, PhasesInv
  <1>5. KeepsWallets
    BY <1>2 DEF KeepsWallets, Making, Sound, SignInTypeOK
  <1> QED BY <1>3, <1>4, <1>5 DEF Sound

LEMMA NetworkStep ==
  ASSUME Sound, NEW w \in Wallet, InLedger(w) \/ Expired(w)
  PROVE  Sound' /\ KeepsWallets
  <1>1. SignInTypeOK'
    BY DEF Sound, SignInTypeOK, InLedger, Expired, ghosts
  <1>2. PhasesInv'
    BY DEF Sound, PhasesInv, InLedger, Expired
  <1>3. KeepsWallets
    BY DEF KeepsWallets, Making, InLedger, Expired, ghosts
  <1> QED BY <1>1, <1>2, <1>3 DEF Sound

\* While no wallet is named, approved or saved, what is named stays on the ledger, what
\* is approved stays approved, and the saves ahead are not more.
LEMMA KeepsStep ==
  ASSUME SignInInv, Sound', KeepsWallets
  PROVE  SignInInv'
  <1>1. NamesInv'
    <2>1. \A t \in Tab : tab'[t].wallet \in {tab[t].wallet, None}
      BY DEF KeepsWallets
    <2> QED BY <2>1 DEF SignInInv, NamesInv, WalletIsDeployed, KeepsWallets
  <1>2. ReviewInv'
    BY DEF SignInInv, ReviewInv, KeepsWallets
  <1>3. SavesInv'
    <2>1. Cardinality(Making') <= Cardinality(Making) /\ Cardinality(Making') \in Nat
      <3>1. Making' \in SUBSET Making
        BY DEF KeepsWallets
      <3>2. IsFiniteSet(Making') /\ Cardinality(Making') <= Cardinality(Making)
        BY <3>1, MakingFinite, FS_Subset
      <3> QED BY <3>2, FS_CardinalityType
    <2>2. saves \in Nat /\ Cardinality(Tab) \in Nat
      BY SignInAssumption, FS_CardinalityType DEF SignInInv, SignInTypeOK
    <2> QED BY <2>1, <2>2, MakingFinite DEF SignInInv, SavesInv, KeepsWallets
  <1> QED BY <1>1, <1>2, <1>3 DEF SignInInv, Sound
-----------------------------------------------------------------------------
\* The saves ahead after a step: no more tabs make a wallet.
LEMMA SavesKept ==
  ASSUME SignInInv, UNCHANGED <<blocked, saves>>, store'.passkey = store.passkey,
         Making' \subseteq Making
  PROVE  SavesInv'
  <1>1. Making' \in SUBSET Making
    OBVIOUS
  <1>2. IsFiniteSet(Making') /\ Cardinality(Making') <= Cardinality(Making)
    BY <1>1, MakingFinite, FS_Subset
  <1>3. Cardinality(Making') \in Nat /\ saves \in Nat /\ Cardinality(Tab) \in Nat
    BY <1>2, SignInAssumption, FS_CardinalityType DEF SignInInv, SignInTypeOK
  <1> QED BY <1>2, <1>3, MakingFinite DEF SignInInv, SavesInv

LEMMA SoundOfInv == ASSUME SignInInv PROVE Sound
  BY DEF SignInInv, Sound

LEMMA ResumeStep ==
  ASSUME SignInInv, NEW t \in Tab, Resume(t)
  PROVE  SignInInv'
  <1> DEFINE kyb == IF store.active = None THEN None ELSE Institution(store.active)
             new == [tab[t] EXCEPT !.loading = FALSE, !.wallet = store.active, !.kyb = kyb]
  <1>1. /\ store.active \in Wallet \cup {None} /\ kyb \in KybStatus \cup {None}
        /\ store.active # None /\ kyb = "approved" => store.institution[store.active] = "approved"
    BY InstitutionType, SignInAssumption DEF SignInInv, SignInTypeOK
  <1>2. /\ new \in [loading: BOOLEAN, wallet: Wallet \cup {None}, kyb: KybStatus \cup {None},
                    phase: Phase, cred: Passkey \cup {None}, existing: Wallet \cup {None}]
        /\ new.phase = tab[t].phase /\ new.wallet = store.active /\ new.kyb = kyb
        /\ new.cred = tab[t].cred /\ new.existing = tab[t].existing
    BY <1>1, SoundOfInv, SoundTabs DEF Tabs
  <1>3. tab' = [tab EXCEPT ![t] = new]
    BY SoundOfInv, SoundTabs DEF Resume, Tabs
  <1> HIDE DEF new, kyb
  <1>4. OnlyTab(t) /\ tab'[t] = new
    BY <1>2, <1>3, SoundOfInv, SoundTabs DEF Tabs, OnlyTab
  <1>5. UNCHANGED <<store, blocked, cache, sent, deployed, reloads, reviewed, saves>>
    BY DEF Resume, network, ghosts
  <1>6. SignInTypeOK'
    BY <1>4, <1>5 DEF SignInInv, SignInTypeOK, OnlyTab, Tabs
  <1>7. PhasesInv'
    BY <1>2, <1>4, <1>5 DEF SignInInv, PhasesInv, OnlyTab
  <1>8. NamesInv'
    BY <1>2, <1>4, <1>5 DEF SignInInv, NamesInv, WalletIsDeployed, OnlyTab
  <1>9. ReviewInv'
    BY <1>1, <1>2, <1>4, <1>5 DEF SignInInv, ReviewInv, OnlyTab
  <1>10. SavesInv'
    BY <1>2, <1>4, <1>5, SavesKept DEF Making, OnlyTab
  <1> QED BY <1>6, <1>7, <1>8, <1>9, <1>10 DEF SignInInv

\* A tab that finds no stored wallet begins to make one: nothing was saved yet.
LEMMA SupportedStep ==
  ASSUME SignInInv, NEW t \in Tab, Supported(t)
  PROVE  SignInInv'
  <1> DEFINE new == [tab[t] EXCEPT !.existing = store.passkey,
                       !.phase = IF store.passkey = None THEN "registering" ELSE "authenticating"]
  <1>1. /\ new \in [loading: BOOLEAN, wallet: Wallet \cup {None}, kyb: KybStatus \cup {None},
                    phase: Phase, cred: Passkey \cup {None}, existing: Wallet \cup {None}]
        /\ new.phase = IF store.passkey = None THEN "registering" ELSE "authenticating"
        /\ new.wallet = tab[t].wallet /\ new.kyb = tab[t].kyb
        /\ new.cred = tab[t].cred /\ new.existing = store.passkey
    BY ZenonT(40), SoundOfInv, SoundTabs DEF Tabs, Phase, SignInInv, SignInTypeOK
  <1>2. tab' = [tab EXCEPT ![t] = new]
    BY SoundOfInv, SoundTabs DEF Supported, StoredWallet, Tabs
  <1> HIDE DEF new
  <1>3. OnlyTab(t) /\ tab'[t] = new
    BY <1>1, <1>2, SoundOfInv, SoundTabs DEF Tabs, OnlyTab
  <1>4. UNCHANGED <<store, blocked, cache, sent, deployed, reloads, reviewed, saves>>
    BY DEF Supported, network, ghosts
  <1>5. SignInTypeOK'
    BY <1>3, <1>4 DEF SignInInv, SignInTypeOK, OnlyTab, Tabs
  <1>6. PhasesInv'
    BY <1>1, <1>3, <1>4 DEF SignInInv, PhasesInv, OnlyTab
  <1>7. NamesInv'
    BY <1>1, <1>3, <1>4 DEF SignInInv, NamesInv, WalletIsDeployed, OnlyTab
  <1>8. ReviewInv'
    BY <1>1, <1>3, <1>4 DEF SignInInv, ReviewInv, OnlyTab
  <1>9. SavesInv'
    <2>1. CASE store.passkey = None
      <3>1. saves' = 0
        BY <2>1, <1>4 DEF SignInInv, SavesInv
      <3>2. Making' \in SUBSET Tab
        BY DEF Making
      <3>3. Cardinality(Making') <= Cardinality(Tab) /\ Cardinality(Making') \in Nat
        BY <3>2, FS_Subset, FS_CardinalityType, SignInAssumption
      <3> QED BY <3>1, <3>3 DEF SavesInv
    <2>2. CASE store.passkey # None
      BY <2>2, <1>1, <1>3, <1>4, SavesKept DEF Making, OnlyTab
    <2> QED BY <2>1, <2>2
  <1> QED BY <1>5, <1>6, <1>7, <1>8, <1>9 DEF SignInInv

\* Of one wallet: the copy a tab writes back, which is an approval only when given.
LEMMA ReviewStep ==
  ASSUME SignInInv, NEW t \in Tab, submitKyb(t) \/ approveKyb(t)
  PROVE  SignInInv'
  <1> DEFINE w == tab[t].wallet
  <1>1. PICK s \in {"in_review", "approved"} :
          /\ tab' = [tab EXCEPT ![t].kyb = s]
          /\ store' = store \/ store' = [store EXCEPT !.institution[w] = s]
          /\ reviewed' = IF s = "approved" THEN reviewed \cup {w} ELSE reviewed
          /\ UNCHANGED <<blocked, cache, sent, deployed, reloads, saves>>
    BY DEF submitKyb, approveKyb, Saved, network, ghosts
  <1>2. w \in Wallet /\ s \in KybStatus
    <2>1. Status(t) = "onboarding"
      BY DEF submitKyb, approveKyb, KybForm, PendingReview
    <2>2. tab[t].wallet # None
      BY <2>1 DEF Status
    <2> QED BY <2>2 DEF SignInInv, SignInTypeOK, KybStatus
  <1> HIDE DEF w
  <1>3. /\ OnlyTab(t) /\ tab'[t].kyb = s
        /\ tab'[t].wallet = w /\ tab'[t].phase = tab[t].phase
        /\ tab'[t].cred = tab[t].cred /\ tab'[t].existing = tab[t].existing
    BY <1>1, <1>2, SoundOfInv, SoundTabs DEF Tabs, OnlyTab, w
  <1>4. /\ store' \in [active: Wallet \cup {None}, passkey: Wallet \cup {None},
                       deployer: Deployer \cup {None},
                       institution: [Wallet -> KybStatus \cup {None}]]
        /\ store'.active = store.active /\ store'.passkey = store.passkey
        /\ \A v \in Wallet : store'.institution[v] = store.institution[v]
                              \/ (v = w /\ store'.institution[v] = s)
    <2> DEFINE new == [store.institution EXCEPT ![w] = s]
    <2>1. store \in [active: Wallet \cup {None}, passkey: Wallet \cup {None},
                     deployer: Deployer \cup {None},
                     institution: [Wallet -> KybStatus \cup {None}]]
      BY DEF SignInInv, SignInTypeOK
    <2>2. store.institution \in [Wallet -> KybStatus \cup {None}]
      BY <2>1
    <2>3. /\ new \in [Wallet -> KybStatus \cup {None}]
          /\ \A v \in Wallet : new[v] = store.institution[v] \/ (v = w /\ new[v] = s)
      BY <1>2, <2>2
    <2>4. store' = store \/ store' = [store EXCEPT !.institution = new]
      BY <1>1, <2>1
    <2> HIDE DEF new
    <2>5. CASE store' = store
      BY <2>1, <2>5
    <2>6. CASE store' = [store EXCEPT !.institution = new]
      <3>1. /\ store' \in [active: Wallet \cup {None}, passkey: Wallet \cup {None},
                           deployer: Deployer \cup {None},
                           institution: [Wallet -> KybStatus \cup {None}]]
            /\ store'.active = store.active /\ store'.passkey = store.passkey
            /\ store'.institution = new
        BY <2>1, <2>3, <2>6
      <3> QED BY <2>3, <3>1
    <2> QED BY <2>4, <2>5, <2>6
  <1>5. SignInTypeOK'
    BY <1>1, <1>2, <1>3, <1>4 DEF SignInInv, SignInTypeOK, OnlyTab, Tabs
  <1>6. PhasesInv'
    BY <1>1, <1>3 DEF SignInInv, PhasesInv, OnlyTab
  <1>7. NamesInv'
    BY <1>1, <1>3, <1>4 DEF SignInInv, NamesInv, WalletIsDeployed, OnlyTab, w
  <1>8. ReviewInv'
    BY <1>1, <1>2, <1>3, <1>4 DEF SignInInv, ReviewInv, OnlyTab
  <1>9. SavesInv'
    BY <1>1, <1>3, <1>4, SavesKept DEF Making, OnlyTab
  <1> QED BY <1>5, <1>6, <1>7, <1>8, <1>9 DEF SignInInv

LEMMA AssertedStep ==
  ASSUME SignInInv, NEW t \in Tab, Asserted(t)
  PROVE  SignInInv'
  <1> DEFINE w == tab[t].existing
  <1>1. /\ w \in Wallet /\ w \in deployed /\ store.passkey \in Wallet \cup {None}
        /\ SignsInto(t, w, store.passkey)
        /\ UNCHANGED <<blocked, cache, sent, deployed, reloads, reviewed, saves>>
    BY DEF Asserted, AtPhase, network, ghosts, SignInInv, SignInTypeOK, PhasesInv, NamesInv
  <1> HIDE DEF w
  <1>2. /\ store' \in [active: Wallet \cup {None}, passkey: Wallet \cup {None},
                       deployer: Deployer \cup {None},
                       institution: [Wallet -> KybStatus \cup {None}]]
        /\ OnlyTab(t) /\ store'.passkey = store.passkey /\ store'.active \in {store.active, w}
        /\ \A v \in Wallet : store'.institution[v] = "approved" => store.institution[v] = "approved"
        /\ tab'[t].phase = "idle" /\ tab'[t].cred = None /\ tab'[t].existing = None
        /\ tab'[t].wallet = w
        /\ tab'[t].kyb = "approved" => store.institution[w] = "approved"
    BY <1>1, SignsIntoEffect DEF SignInInv, OnlyTab
  <1>3. SignInTypeOK'
    BY <1>1, <1>2 DEF SignInInv, SignInTypeOK, OnlyTab, Tabs
  <1>4. PhasesInv'
    BY <1>1, <1>2 DEF SignInInv, PhasesInv, OnlyTab
  <1>5. NamesInv'
    BY <1>1, <1>2 DEF SignInInv, NamesInv, WalletIsDeployed, OnlyTab
  <1>6. ReviewInv'
    BY <1>1, <1>2 DEF SignInInv, ReviewInv, OnlyTab
  <1>7. SavesInv'
    BY <1>1, <1>2, SavesKept DEF Making, OnlyTab
  <1> QED BY <1>3, <1>4, <1>5, <1>6, <1>7 DEF SignInInv

\* The one save a tab has ahead: it is done, and the tab makes no wallet any more.
LEMMA PollFindsStep ==
  ASSUME SignInInv, NEW t \in Tab, PollFinds(t)
  PROVE  SignInInv'
  <1> DEFINE w == Own(t)
  <1>1. /\ w \in Wallet /\ w \in deployed /\ tab[t].phase = "poll"
        /\ SignsInto(t, w, w) /\ saves' = IF blocked THEN saves ELSE saves + 1
        /\ UNCHANGED <<blocked, cache, sent, deployed, reloads, reviewed>>
    BY OwnType DEF PollFinds, AtPhase, network, ContractExists, SignInInv
  <1> HIDE DEF w
  <1>2. /\ store' \in [active: Wallet \cup {None}, passkey: Wallet \cup {None},
                       deployer: Deployer \cup {None},
                       institution: [Wallet -> KybStatus \cup {None}]]
        /\ OnlyTab(t) /\ store'.active \in {store.active, w}
        /\ store'.passkey = IF blocked THEN store.passkey ELSE w
        /\ \A v \in Wallet : store'.institution[v] = "approved" => store.institution[v] = "approved"
        /\ tab'[t].phase = "idle" /\ tab'[t].cred = None /\ tab'[t].existing = None
        /\ tab'[t].wallet = w
        /\ tab'[t].kyb = "approved" => store.institution[w] = "approved"
    BY <1>1, SignsIntoEffect DEF SignInInv, OnlyTab
  <1>3. SignInTypeOK'
    BY <1>1, <1>2 DEF SignInInv, SignInTypeOK, OnlyTab, Tabs
  <1>4. PhasesInv'
    BY <1>1, <1>2 DEF SignInInv, PhasesInv, OnlyTab
  <1>5. NamesInv'
    BY <1>1, <1>2 DEF SignInInv, NamesInv, WalletIsDeployed, OnlyTab
  <1>6. ReviewInv'
    BY <1>1, <1>2 DEF SignInInv, ReviewInv, OnlyTab
  <1>7. SavesInv'
    <2>1. CASE blocked
      BY <2>1, <1>1, <1>2 DEF SignInInv, SavesInv
    <2>2. CASE ~blocked
      <3>1. t \in Making /\ Making' = Making \ {t}
        BY <1>1, <1>2 DEF Making, OnlyTab
      <3>2. Cardinality(Making') = Cardinality(Making) - 1
        BY <3>1, MakingFinite, FS_RemoveElement
      <3>3. saves \in Nat /\ Cardinality(Tab) \in Nat /\ w # None
        BY <1>1, SignInAssumption, FS_CardinalityType DEF SignInInv, SignInTypeOK
      <3> QED BY <2>2, <1>1, <1>2, <3>2, <3>3, MakingFinite DEF SignInInv, SavesInv
    <2> QED BY <2>1, <2>2
  <1> QED BY <1>3, <1>4, <1>5, <1>6, <1>7 DEF SignInInv

\* A new credential reuses no passkey that something names.
LEMMA PasskeyCreatedStep ==
  ASSUME SignInInv, NEW t \in Tab, PasskeyCreated(t)
  PROVE  SignInInv'
  <1>1. PICK cred \in Passkey \ InUse :
          /\ tab' = [tab EXCEPT ![t].cred = cred, ![t].phase = "session"]
          /\ deployed' = {w \in deployed : w[2] # cred}
          /\ reviewed' = {w \in reviewed : w[2] # cred}
          /\ store' = [store EXCEPT !.institution =
                          [w \in Wallet |-> IF w[2] = cred THEN None ELSE store.institution[w]]]
    BY DEF PasskeyCreated
  <1>2. /\ UNCHANGED <<blocked, cache, sent, reloads, saves>> /\ tab[t].phase = "registering"
        /\ cred # None
    BY SignInAssumption DEF PasskeyCreated, AtPhase
  <1> DEFINE new == [tab[t] EXCEPT !.cred = cred, !.phase = "session"]
             inst == [w \in Wallet |-> IF w[2] = cred THEN None ELSE store.institution[w]]
  <1>3. /\ new \in [loading: BOOLEAN, wallet: Wallet \cup {None}, kyb: KybStatus \cup {None},
                    phase: Phase, cred: Passkey \cup {None}, existing: Wallet \cup {None}]
        /\ new.phase = "session" /\ new.wallet = tab[t].wallet /\ new.kyb = tab[t].kyb
        /\ new.cred = cred /\ new.existing = tab[t].existing
    BY SoundOfInv, SoundTabs DEF Tabs, Phase
  <1>4. tab' = [tab EXCEPT ![t] = new]
    BY <1>1, SoundOfInv, SoundTabs DEF Tabs
  <1>5. inst \in [Wallet -> KybStatus \cup {None}]
        /\ \A w \in Wallet : inst[w] = "approved" => store.institution[w] = "approved" /\ w[2] # cred
    BY SignInAssumption DEF SignInInv, SignInTypeOK, KybStatus
  <1>6. store' = [store EXCEPT !.institution = inst]
    BY <1>1
  <1> HIDE DEF new, inst
  <1>7. OnlyTab(t) /\ tab'[t] = new
    BY <1>3, <1>4, SoundOfInv, SoundTabs DEF Tabs, OnlyTab
  <1>8. /\ store' \in [active: Wallet \cup {None}, passkey: Wallet \cup {None},
                       deployer: Deployer \cup {None},
                       institution: [Wallet -> KybStatus \cup {None}]]
        /\ store'.active = store.active /\ store'.passkey = store.passkey
        /\ store'.institution = inst
    BY <1>5, <1>6 DEF SignInInv, SignInTypeOK
  <1>9. \A w \in ({store.active, store.passkey} \cup {tab[u].wallet : u \in Tab}
                   \cup {tab[u].existing : u \in Tab}) \ {None} : w[2] # cred
    BY <1>1 DEF InUse
  <1>10. SignInTypeOK'
    BY <1>1, <1>2, <1>7, <1>8 DEF SignInInv, SignInTypeOK, OnlyTab, Tabs
  <1>11. PhasesInv'
    BY <1>2, <1>3, <1>7 DEF SignInInv, PhasesInv, OnlyTab
  <1>12. NamesInv'
    <2>1. \A u \in Tab : tab'[u].wallet = tab[u].wallet /\ tab'[u].existing = tab[u].existing
      BY <1>3, <1>7 DEF OnlyTab
    <2>2. \A w \in deployed : w[2] # cred => w \in deployed'
      BY <1>1
    <2>3. /\ \A u \in Tab : tab[u].wallet \in deployed \cup {None} /\ tab[u].existing \in deployed \cup {None}
          /\ store.active \in deployed \cup {None} /\ store.passkey \in deployed \cup {None}
      BY DEF SignInInv, NamesInv, WalletIsDeployed
    <2>4. /\ \A u \in Tab : tab[u].wallet \in deployed' \cup {None} /\ tab[u].existing \in deployed' \cup {None}
          /\ store.active \in deployed' \cup {None} /\ store.passkey \in deployed' \cup {None}
      BY <1>9, <2>2, <2>3
    <2> QED BY <1>8, <2>1, <2>4 DEF NamesInv, WalletIsDeployed
  <1>13. ReviewInv'
    <2>1. \A u \in Tab : tab'[u].wallet = tab[u].wallet /\ tab'[u].kyb = tab[u].kyb
      BY <1>3, <1>7 DEF OnlyTab
    <2>2. \A u \in Tab : tab[u].wallet # None /\ tab[u].kyb = "approved" => tab[u].wallet \in reviewed'
      BY <1>1, <1>9 DEF SignInInv, ReviewInv
    <2>3. \A w \in Wallet : store'.institution[w] = "approved" => w \in reviewed'
      BY <1>1, <1>5, <1>8 DEF SignInInv, ReviewInv
    <2> QED BY <2>1, <2>2, <2>3 DEF ReviewInv
  <1>14. SavesInv'
    BY <1>2, <1>3, <1>7, <1>8, SavesKept DEF Making, OnlyTab
  <1> QED BY <1>10, <1>11, <1>12, <1>13, <1>14 DEF SignInInv
-----------------------------------------------------------------------------
\* The steps of the sign-in: those that name, review or save a wallet, and the rest.
Naming(t) == \/ Resume(t) \/ Supported(t) \/ submitKyb(t) \/ approveKyb(t)
             \/ Asserted(t) \/ PollFinds(t) \/ PasskeyCreated(t)

LEMMA OtherSteps ==
  ASSUME Sound, SignInNext, \A t \in Tab : ~Naming(t)
  PROVE  Sound' /\ KeepsWallets
  <1>1. CASE \E t \in Tab : Reload(t) \/ signOut(t)
    BY <1>1, ReloadStep, SignOutStep
  <1>2. CASE \E t \in Tab : signInWithPasskey(t) \/ SignInStep(t)
    <2>1. PICK t \in Tab : signInWithPasskey(t) \/ SignInStep(t)
      BY <1>2
    <2>2. ~Naming(t)
      OBVIOUS
    <2> QED BY <2>1, <2>2, FailStep, PhaseStep, SessionStep DEF SignInStep, Naming
  <1>3. CASE \E w \in Wallet : InLedger(w) \/ Expired(w)
    BY <1>3, NetworkStep
  <1> QED BY <1>1, <1>2, <1>3 DEF SignInNext, Naming

LEMMA NamingSteps ==
  ASSUME SignInInv, NEW t \in Tab, Naming(t)
  PROVE  SignInInv'
  BY ResumeStep, SupportedStep, ReviewStep, AssertedStep, PollFindsStep, PasskeyCreatedStep
     DEF Naming

\* The first page of a browser, whose storage may be blocked.
LEMMA SignInStarts == SignInInit => SignInInv
  <1> SUFFICES ASSUME SignInInit PROVE SignInInv
    OBVIOUS
  <1>1. 0 \in 0..MaxReloads
    BY SignInAssumption
  <1>2. SignInTypeOK
    BY <1>1, SignInAssumption DEF SignInInit, SignInTypeOK, FreshTab, NoSession, Phase
  <1>3. PhasesInv
    BY DEF SignInInit, PhasesInv, FreshTab, NoSession
  <1>4. NamesInv
    BY DEF SignInInit, NamesInv, WalletIsDeployed, FreshTab
  <1>5. ReviewInv
    BY SignInAssumption DEF SignInInit, ReviewInv, FreshTab, KybStatus
  <1>6. SavesInv
    <2>1. Making = {}
      BY DEF Making, SignInInit, FreshTab
    <2>2. Cardinality(Making) = 0 /\ Cardinality(Tab) \in Nat
      BY <2>1, FS_EmptySet, FS_CardinalityType, SignInAssumption
    <2> QED BY <2>2 DEF SavesInv, SignInInit
  <1> QED BY <1>2, <1>3, <1>4, <1>5, <1>6 DEF SignInInv

\* A step of a tab or of the network keeps what the tabs hold.
LEMMA SignInInvStep == SignInInv /\ [SignInNext]_signInVars => SignInInv'
  <1> SUFFICES ASSUME SignInInv, [SignInNext]_signInVars PROVE SignInInv'
    OBVIOUS
  <1>1. CASE \E t \in Tab : Naming(t)
    BY <1>1, NamingSteps
  <1>2. CASE SignInNext /\ \A t \in Tab : ~Naming(t)
    BY <1>2, SoundOfInv, OtherSteps, KeepsStep
  <1>3. CASE UNCHANGED signInVars
    <2>1. UNCHANGED <<store, blocked, tab, cache, sent, deployed, reloads, reviewed, saves>>
      BY <1>3 DEF signInVars, network, ghosts
    <2> QED BY <2>1 DEF SignInInv, SignInTypeOK, PhasesInv, NamesInv, WalletIsDeployed,
                        ReviewInv, SavesInv, Making
  <1> QED BY <1>1, <1>2, <1>3

\* Of any number of tabs over one storage: what each holds in hand, that the wallets
\* named are on the ledger, the approvals given, and the saves counted.
THEOREM SignInInvariant == SignInSpec => []SignInInv
  BY SignInStarts, SignInInvStep, PTL DEF SignInSpec

\* From the invariant: the dashboard is for the reviewed, and each tab has one save.
LEMMA SignInGives == SignInInv => SignInIsSafe
  <1> SUFFICES ASSUME SignInInv PROVE SignInIsSafe
    OBVIOUS
  <1>1. DashboardOnlyIfReviewed
    <2> SUFFICES ASSUME NEW t \in Tab, Dashboard(t) PROVE tab[t].wallet \in reviewed
      BY DEF DashboardOnlyIfReviewed
    <2>1. tab[t].wallet # None /\ tab[t].kyb = "approved"
      BY DEF Dashboard, Status
    <2> QED BY <2>1 DEF SignInInv, ReviewInv
  <1>2. SavesAtMostOncePerTab
    <2>1. saves \in Nat /\ Cardinality(Tab) \in Nat
      BY FS_CardinalityType, SignInAssumption DEF SignInInv, SignInTypeOK
    <2> QED BY <2>1, MakingFinite DEF SignInInv, SavesInv, SavesAtMostOncePerTab
  <1> QED BY <1>1, <1>2 DEF SignInIsSafe, SignInInv, NamesInv

\* Sessions and the storage name only wallets on the ledger, the dashboard is for the
\* approved ones, and while storage works each tab saves at most one wallet.
THEOREM SignInIsSafeAlways == SignInSpec => []SignInIsSafe
  BY SignInGives, SignInInvariant, PTL

\* A step by which a review status goes back is a tab's that holds an older one.
StaleWrites ==
  \A w \in Wallet :
    (store.institution[w] # None /\ store'.institution[w] # None
     /\ Rank[store'.institution[w]] < Rank[store.institution[w]]) =>
       \E t \in Tab : /\ tab[t].wallet = w /\ tab'[t].kyb # tab[t].kyb
                      /\ tab[t].kyb # store.institution[w]

\* Only the steps of a tab that submits, approves, signs in or makes a passkey write one.
LEMMA RegressStep == SignInInv /\ [SignInNext]_signInVars => [StaleWrites]_signInVars
  <1> SUFFICES ASSUME SignInInv, SignInNext, NEW w \in Wallet,
                      store.institution[w] # None, store'.institution[w] # None,
                      Rank[store'.institution[w]] < Rank[store.institution[w]]
               PROVE  \E t \in Tab : /\ tab[t].wallet = w /\ tab'[t].kyb # tab[t].kyb
                                     /\ tab[t].kyb # store.institution[w]
    BY DEF StaleWrites
  <1>1. /\ store.institution \in [Wallet -> KybStatus \cup {None}]
        /\ store.institution[w] \in KybStatus /\ Rank[store.institution[w]] \in 0..2
        /\ ~(Rank[store.institution[w]] < Rank[store.institution[w]])
    BY DEF SignInInv, SignInTypeOK, KybStatus, Rank
  <1>2. store'.institution[w] # store.institution[w]
    BY <1>1
  <1>3. PICK t \in Tab : Naming(t)
    BY <1>2, SoundOfInv, OtherSteps DEF KeepsWallets
  <1>4. ~(Resume(t) \/ Supported(t))
    BY <1>2 DEF Resume, Supported
  <1>5. CASE Asserted(t)
    <2>1. /\ tab[t].existing \in Wallet /\ store.passkey \in Wallet \cup {None}
          /\ SignsInto(t, tab[t].existing, store.passkey)
      BY <1>5 DEF Asserted, AtPhase, SignInInv, SignInTypeOK, PhasesInv
    <2> QED BY <1>2, <2>1, SignsIntoEffect DEF SignInInv
  <1>6. CASE PollFinds(t)
    <2>1. Own(t) \in Wallet /\ SignsInto(t, Own(t), Own(t))
      BY <1>6, OwnType DEF PollFinds, AtPhase, SignInInv
    <2> QED BY <1>2, <2>1, SignsIntoEffect DEF SignInInv
  <1>7. CASE PasskeyCreated(t)
    <2>1. PICK cred \in Passkey :
            store' = [store EXCEPT !.institution =
                        [v \in Wallet |-> IF v[2] = cred THEN None ELSE store.institution[v]]]
      BY <1>7 DEF PasskeyCreated
    <2> DEFINE inst == [v \in Wallet |-> IF v[2] = cred THEN None ELSE store.institution[v]]
    <2>2. inst[w] \in {None, store.institution[w]}
      OBVIOUS
    <2>3. store' = [store EXCEPT !.institution = inst]
      BY <2>1
    <2> HIDE DEF inst
    <2>4. store'.institution = inst
      BY <2>3 DEF SignInInv, SignInTypeOK
    <2> QED BY <1>2, <2>2, <2>4
  <1>8. CASE submitKyb(t)
    <2>1. tab[t].wallet \in Wallet /\ tab[t].kyb # "in_review" /\ tab[t].kyb # "approved"
      <3>1. Status(t) = "onboarding" /\ tab[t].kyb # "in_review"
        BY <1>8 DEF submitKyb, KybForm
      <3>2. tab[t].wallet # None /\ tab[t].kyb # "approved"
        BY <3>1 DEF Status
      <3> QED BY <3>1, <3>2 DEF SignInInv, SignInTypeOK
    <2>2. store' = [store EXCEPT !.institution[tab[t].wallet] = "in_review"]
      BY <1>2, <1>8 DEF submitKyb, Saved
    <2>3. tab[t].wallet = w /\ store'.institution[w] = "in_review"
      BY <1>1, <1>2, <2>1, <2>2 DEF SignInInv, SignInTypeOK
    <2>4. store.institution[w] = "approved"
      BY <1>1, <2>3 DEF Rank, KybStatus
    <2>5. tab'[t].kyb = "in_review"
      BY <1>8 DEF submitKyb, SignInInv, SignInTypeOK
    <2> QED BY <2>1, <2>3, <2>4, <2>5
  <1>9. CASE approveKyb(t)
    <2>1. tab[t].wallet \in Wallet
      <3>1. Status(t) = "onboarding"
        BY <1>9 DEF approveKyb, PendingReview
      <3>2. tab[t].wallet # None
        BY <3>1 DEF Status
      <3> QED BY <3>2 DEF SignInInv, SignInTypeOK
    <2>2. store' = [store EXCEPT !.institution[tab[t].wallet] = "approved"]
      BY <1>2, <1>9 DEF approveKyb, Saved
    <2>3. store'.institution[w] = "approved"
      BY <1>1, <1>2, <2>1, <2>2 DEF SignInInv, SignInTypeOK
    <2> QED BY <1>1, <2>3 DEF Rank, KybStatus
  <1> QED BY <1>3, <1>4, <1>5, <1>6, <1>7, <1>8, <1>9 DEF Naming

\* A stored review status goes back only through a tab that writes an older copy.
THEOREM RegressOnlyIfStaleAlways == SignInSpec => RegressOnlyIfStale
  <1>1. SignInSpec => [][StaleWrites]_signInVars
    BY RegressStep, SignInInvariant, PTL DEF SignInSpec
  <1> QED BY <1>1 DEF RegressOnlyIfStale, StaleWrites
-----------------------------------------------------------------------------
(* The cards of the settings.                                              *)

\* The stops of each kind of request, and the step of the card a stop belongs to.
StopsOf(kind) == CASE kind = "create" -> {"tenant", "wallet", "answer", "over"}
                   [] kind = "record" -> {"contract", "answer", "over"}
                   [] kind = "sign" -> {"session", "build", "simulate", "sign", "submit", "poll", "over"}
StepOf(stop) == CASE stop \in {"session", "build", "over"} -> "session"
                  [] stop = "simulate" -> "simulate"
                  [] stop = "sign" -> "sign"
                  [] stop \in {"submit", "poll"} -> "submit"

\* A request that is not over, one of the mounted card, and whether none was lost.
Live(j) == jobs[j].at # "over"
Mine(j) == Live(j) /\ jobs[j].mount = view.mounts
NoneLost == \A j \in DOMAIN jobs : ~jobs[j].lost

\* What a request carries at each of its stops.
JobsInv ==
  \A j \in DOMAIN jobs :
    /\ jobs[j].mount <= view.mounts
    /\ jobs[j].at \in StopsOf(jobs[j].kind)
    /\ jobs[j].at \in {"wallet", "contract", "answer"} <=> jobs[j].tenant # None
    /\ jobs[j].kind = "create" /\ jobs[j].at = "answer" => tenants[jobs[j].tenant].wallet
    /\ jobs[j].kind = "sign" =>
         /\ jobs[j].registry # None /\ ~jobs[j].lost
         /\ jobs[j].step = StepOf(jobs[j].at)
    /\ jobs[j].tx # "none" => jobs[j].kind = "sign" /\ jobs[j].at \in {"poll", "over"}

\* A tenant belongs to the mount that created it: requests of another one never touch it.
OwnersInv ==
  \A j \in DOMAIN jobs : jobs[j].tenant # None =>
    /\ \A i \in DOMAIN jobs : jobs[i].tenant = jobs[j].tenant => jobs[i].mount = jobs[j].mount
    /\ jobs[j].tenant = card.tenant => jobs[j].mount = view.mounts

\* While no connection was lost, the registry card waits for its one request, which
\* works on the card's own tenant.
RegistryCardInv ==
  /\ CardTenantIsOwned /\ DoneIsRecorded
  /\ NoneLost /\ card.done => card.tenant # None
  /\ NoneLost =>
       \A j \in DOMAIN jobs : Mine(j) /\ jobs[j].kind # "sign" =>
         /\ card.busy /\ ~card.done
         /\ \A i \in DOMAIN jobs : Mine(i) /\ jobs[i].kind # "sign" => i = j
         /\ jobs[j].kind = "record" =>
              /\ jobs[j].tenant = card.tenant
              /\ jobs[j].at = "answer" => tenants[card.tenant].contract = jobs[j].registry

\* The statuses the publishing card shows while its run is at a stop.
Shows(status, stop) ==
  /\ status["session"] = IF stop = "session" THEN "active" ELSE "done"
  /\ status["simulate"] = CASE stop \in {"session", "build"} -> "pending"
                            [] stop = "simulate" -> "active"
                            [] OTHER -> "done"
  /\ status["sign"] = CASE stop \in {"session", "build", "simulate"} -> "pending"
                        [] stop = "sign" -> "active"
                        [] OTHER -> "done"
  /\ status["submit"] = IF stop \in {"submit", "poll"} THEN "active" ELSE "pending"

\* The publishing card runs exactly while it has a run, one, and shows where it is.
KeyCardInv ==
  /\ \A j \in DOMAIN jobs : Mine(j) /\ jobs[j].kind = "sign" =>
       /\ keyCard.running /\ Shows(keyCard.status, jobs[j].at)
       /\ \A i \in DOMAIN jobs : Mine(i) /\ jobs[i].kind = "sign" => i = j
  /\ keyCard.running => \E j \in DOMAIN jobs : Mine(j) /\ jobs[j].kind = "sign"
  /\ ~keyCard.running => PhasesInOrder

\* The one transaction that succeeded set the signer, and the card shows no other.
SignerInv ==
  /\ \A j \in DOMAIN jobs : jobs[j].tx = "success" => signer = jobs[j].registry
  /\ keyCard.tx # None => jobs[keyCard.tx].tx = "success"
  /\ keyCard.notice = "info" => signer # None

SettingsInv ==
  SettingsTypeOK /\ JobsInv /\ OwnersInv /\ RegistryCardInv /\ KeyCardInv /\ SignerInv
-----------------------------------------------------------------------------
\* A request as the cards keep it, while the tenants are those of T.
Job(T) == [kind: {"create", "record", "sign"}, mount: 0..MaxMounts, lost: BOOLEAN, at: Stop,
           tenant: T \cup {None}, registry: RegistryId \cup {None}, step: StepNames,
           tx: {"none", "pending", "success", "failed"}]

\* The step of one request.
OnlyJob(j) ==
  /\ jobs' \in Seq(Job(DOMAIN tenants')) /\ Len(jobs') = Len(jobs) /\ DOMAIN jobs' = DOMAIN jobs
  /\ \A i \in DOMAIN jobs : i # j => jobs'[i] = jobs[i]

LEMMA JobsList ==
  ASSUME SettingsTypeOK
  PROVE  /\ jobs \in Seq(Job(DOMAIN tenants))
         /\ Len(jobs) \in Nat /\ DOMAIN jobs = 1..Len(jobs)
         /\ \A j \in DOMAIN jobs : jobs[j] \in Job(DOMAIN tenants)
  <1>1. jobs \in Seq(Job(DOMAIN tenants))
    BY DEF SettingsTypeOK, Job
  <1> QED BY <1>1

LEMMA TenantsType ==
  ASSUME SettingsTypeOK
  PROVE  /\ tenants \in Seq([wallet: BOOLEAN, contract: RegistryId \cup {None}])
         /\ Len(tenants) \in Nat /\ DOMAIN tenants = 1..Len(tenants)
         /\ None \notin DOMAIN tenants
         /\ \A k \in DOMAIN tenants :
              tenants[k] \in [wallet: BOOLEAN, contract: RegistryId \cup {None}]
  <1> DEFINE Row == [wallet: BOOLEAN, contract: RegistryId \cup {None}]
  <1>1. tenants \in Seq(Row)
    BY DEF SettingsTypeOK
  <1> HIDE DEF Row
  <1>2. /\ Len(tenants) \in Nat /\ DOMAIN tenants = 1..Len(tenants)
        /\ \A k \in DOMAIN tenants : tenants[k] \in Row
    BY <1>1
  <1> QED BY <1>1, <1>2, SettingsAssumption DEF Row

LEMMA JobSet ==
  ASSUME SettingsTypeOK, NEW j \in DOMAIN jobs, NEW r,
         r \in Job(DOMAIN tenants'), DOMAIN tenants \subseteq DOMAIN tenants',
         jobs' = [jobs EXCEPT ![j] = r]
  PROVE  OnlyJob(j) /\ jobs'[j] = r
  <1>1. \A i \in DOMAIN jobs : jobs[i] \in Job(DOMAIN tenants')
    BY JobsList DEF Job
  <1>2. jobs \in Seq(Job(DOMAIN tenants'))
    BY <1>1, JobsList
  <1> QED BY <1>2 DEF OnlyJob

LEMMA OverEffect ==
  ASSUME SettingsTypeOK, UNCHANGED tenants, NEW j \in DOMAIN jobs, Over(j)
  PROVE  /\ OnlyJob(j)
         /\ jobs'[j].kind = jobs[j].kind /\ jobs'[j].mount = jobs[j].mount
         /\ jobs'[j].lost = jobs[j].lost /\ jobs'[j].at = "over"
         /\ jobs'[j].tenant = None
         /\ jobs[j].kind = "sign" => jobs'[j].registry = jobs[j].registry
         /\ jobs'[j].step = "session" /\ jobs'[j].tx = jobs[j].tx
  <1> DEFINE r == [jobs[j] EXCEPT !.at = "over", !.step = "session", !.tenant = None,
                     !.registry = IF jobs[j].kind = "sign" THEN jobs[j].registry ELSE None]
  <1>1. jobs[j] \in Job(DOMAIN tenants')
    BY JobsList
  <1>2. /\ r \in Job(DOMAIN tenants')
        /\ r.kind = jobs[j].kind /\ r.mount = jobs[j].mount /\ r.lost = jobs[j].lost
        /\ r.at = "over" /\ r.tenant = None
        /\ jobs[j].kind = "sign" => r.registry = jobs[j].registry
        /\ r.step = "session" /\ r.tx = jobs[j].tx
    BY ZenonT(40), <1>1 DEF Job, Stop, StepNames
  <1>3. jobs' = [jobs EXCEPT ![j] = r]
    BY JobsList DEF Over, Job
  <1> HIDE DEF r
  <1> QED BY <1>2, <1>3, JobSet
-----------------------------------------------------------------------------
\* What the steps of one card leave to the other.
LEMMA SignFrame ==
  ASSUME SettingsInv, NEW j \in DOMAIN jobs, OnlyJob(j), jobs[j].kind = "sign",
         jobs'[j].kind = "sign", jobs'[j].mount = jobs[j].mount, jobs'[j].lost = jobs[j].lost,
         jobs'[j].at \in StopsOf("sign"), jobs'[j].step = StepOf(jobs'[j].at),
         jobs'[j].tx # "none" => jobs'[j].at \in {"poll", "over"},
         jobs'[j].tenant = None, jobs'[j].registry = jobs[j].registry,
         UNCHANGED <<view, card, tenants>>
  PROVE  JobsInv' /\ OwnersInv' /\ RegistryCardInv'
  <1>0. jobs[j].tenant = None
    BY DEF SettingsInv, JobsInv, StopsOf
  <1>1. JobsInv'
    <2>1. jobs[j].mount <= view.mounts /\ jobs[j].registry # None /\ ~jobs[j].lost
      BY DEF SettingsInv, JobsInv
    <2>2. jobs'[j].at \notin {"wallet", "contract", "answer"}
      BY DEF StopsOf
    <2>3. \A i \in DOMAIN jobs' : i # j => jobs'[i] = jobs[i] /\ i \in DOMAIN jobs
      BY DEF OnlyJob
    <2> QED BY <2>1, <2>2, <2>3 DEF SettingsInv, JobsInv
  <1>2. OwnersInv'
    BY <1>0 DEF SettingsInv, OwnersInv, OnlyJob
  <1>3. NoneLost' => NoneLost
    BY DEF NoneLost, OnlyJob
  <1>4. CardTenantIsOwned' /\ (NoneLost' /\ card'.done => card'.tenant # None)
    BY <1>3 DEF SettingsInv, RegistryCardInv, CardTenantIsOwned
  <1>5. DoneIsRecorded'
    BY <1>3 DEF SettingsInv, RegistryCardInv, DoneIsRecorded, NoneLost, OnlyJob
  <1>6. \A i \in DOMAIN jobs' : jobs'[i].kind # "sign" => jobs'[i] = jobs[i] /\ i \in DOMAIN jobs
    BY DEF OnlyJob
  <1>7. RegistryCardInv'
    BY <1>3, <1>4, <1>5, <1>6 DEF SettingsInv, RegistryCardInv, Mine, Live
  <1> QED BY <1>1, <1>2, <1>7

LEMMA RouteFrame ==
  ASSUME SettingsInv, NEW j \in DOMAIN jobs, OnlyJob(j), jobs[j].kind # "sign",
         jobs'[j].kind = jobs[j].kind, jobs'[j].tx = jobs[j].tx,
         UNCHANGED <<view, keyCard, signer>>
  PROVE  KeyCardInv' /\ SignerInv'
  <1>1. jobs[j].tx = "none"
    BY DEF SettingsInv, JobsInv
  <1>2. SignerInv'
    <2>1. keyCard.tx \in DOMAIN jobs \cup {None}
      BY DEF SettingsInv, SettingsTypeOK
    <2> QED BY <1>1, <2>1 DEF SettingsInv, SignerInv, OnlyJob
  <1>3. /\ \A i \in DOMAIN jobs' : jobs'[i].kind = "sign" => jobs'[i] = jobs[i]
        /\ \A i \in DOMAIN jobs : jobs[i].kind = "sign" => jobs'[i] = jobs[i]
        /\ DOMAIN jobs' = DOMAIN jobs
    BY DEF OnlyJob
  <1>4. PhasesInOrder' <=> PhasesInOrder
    BY DEF PhasesInOrder
  <1>5. KeyCardInv'
    <2>1. \A i \in DOMAIN jobs' : Mine(i)' /\ jobs'[i].kind = "sign" =>
            Mine(i) /\ jobs[i].kind = "sign" /\ jobs'[i] = jobs[i]
      BY <1>3 DEF Mine, Live
    <2>2. \A i \in DOMAIN jobs : Mine(i) /\ jobs[i].kind = "sign" =>
            Mine(i)' /\ jobs'[i].kind = "sign"
      BY <1>3 DEF Mine, Live
    <2> QED BY <1>3, <1>4, <2>1, <2>2 DEF SettingsInv, KeyCardInv
  <1> QED BY <1>2, <1>5

\* The steps in order, told from the four statuses.
LEMMA InOrder ==
  ASSUME NEW status,
         status["simulate"] # "pending" => status["session"] = "done",
         status["sign"] # "pending" => status["session"] = "done" /\ status["simulate"] = "done",
         status["submit"] # "pending" =>
           status["session"] = "done" /\ status["simulate"] = "done" /\ status["sign"] = "done"
  PROVE  \A i, k \in DOMAIN StepIds :
           i < k /\ status[StepIds[k]] # "pending" => status[StepIds[i]] = "done"
  <1>1. \A i, k \in 1..4 : i < k =>
          (i = 1 /\ k \in {2, 3, 4}) \/ (i = 2 /\ k \in {3, 4}) \/ (i = 3 /\ k = 4)
    OBVIOUS
  <1>2. /\ DOMAIN StepIds = 1..4 /\ StepIds[1] = "session" /\ StepIds[2] = "simulate"
        /\ StepIds[3] = "sign" /\ StepIds[4] = "submit"
    BY DEF StepIds
  <1> QED BY <1>1, <1>2

\* The run goes on, or ends, and the card shows it if it is the card's run.
LEMMA KeyCardMoves ==
  ASSUME SettingsInv, NEW j \in DOMAIN jobs, OnlyJob(j), jobs[j].kind = "sign",
         jobs'[j].kind = "sign", jobs'[j].mount = jobs[j].mount, Live(j), Live(j)',
         UNCHANGED view,
         IF Mine(j) THEN Shows(keyCard'.status, jobs'[j].at) /\ keyCard'.running = keyCard.running
                    ELSE keyCard' = keyCard /\ jobs'[j].at \in Stop
  PROVE  KeyCardInv'
  <1>1. \A i \in DOMAIN jobs' : /\ i \in DOMAIN jobs
                                /\ jobs'[i].kind = jobs[i].kind
                                /\ Mine(i)' <=> Mine(i)
    BY DEF OnlyJob, Mine, Live
  <1>2. CASE Mine(j)
    <2>1. keyCard.running /\ \A i \in DOMAIN jobs : Mine(i) /\ jobs[i].kind = "sign" => i = j
      BY <1>2 DEF SettingsInv, KeyCardInv
    <2> QED BY <1>1, <1>2, <2>1 DEF KeyCardInv, OnlyJob
  <1>3. CASE ~Mine(j)
    <2>1. \A i \in DOMAIN jobs' : Mine(i)' => jobs'[i] = jobs[i]
      BY <1>1, <1>3 DEF OnlyJob
    <2>2. keyCard' = keyCard /\ DOMAIN jobs' = DOMAIN jobs
      BY <1>3 DEF OnlyJob
    <2>3. PhasesInOrder' <=> PhasesInOrder
      BY <2>2 DEF PhasesInOrder
    <2> QED BY <1>1, <2>1, <2>2, <2>3 DEF SettingsInv, KeyCardInv
  <1> QED BY <1>2, <1>3

LEMMA KeyCardEnds ==
  ASSUME SettingsInv, NEW j \in DOMAIN jobs, OnlyJob(j), jobs[j].kind = "sign",
         jobs'[j].kind = "sign", jobs'[j].mount = jobs[j].mount, Live(j), ~Live(j)',
         UNCHANGED view,
         IF Mine(j) THEN PhasesInOrder' /\ ~keyCard'.running ELSE keyCard' = keyCard
  PROVE  KeyCardInv'
  <1>1. \A i \in DOMAIN jobs' : /\ i \in DOMAIN jobs
                                /\ Mine(i)' <=> Mine(i) /\ i # j
                                /\ i # j => jobs'[i] = jobs[i]
    BY DEF OnlyJob, Mine, Live
  <1>2. CASE Mine(j)
    <2>1. \A i \in DOMAIN jobs : Mine(i) /\ jobs[i].kind = "sign" => i = j
      BY <1>2 DEF SettingsInv, KeyCardInv
    <2> QED BY <1>1, <1>2, <2>1 DEF KeyCardInv
  <1>3. CASE ~Mine(j)
    <2>1. keyCard' = keyCard /\ DOMAIN jobs' = DOMAIN jobs
      BY <1>3 DEF OnlyJob
    <2>2. PhasesInOrder' <=> PhasesInOrder
      BY <2>1 DEF PhasesInOrder
    <2> QED BY <1>1, <1>3, <2>1, <2>2 DEF SettingsInv, KeyCardInv
  <1> QED BY <1>2, <1>3

LEMMA KeyCardKept ==
  ASSUME SettingsInv, NEW j \in DOMAIN jobs, OnlyJob(j),
         jobs'[j].kind = jobs[j].kind, jobs'[j].mount = jobs[j].mount, jobs'[j].at = jobs[j].at,
         UNCHANGED <<view, keyCard>>
  PROVE  KeyCardInv'
  <1>1. \A i \in DOMAIN jobs' : /\ i \in DOMAIN jobs
                                /\ Mine(i)' <=> Mine(i)
                                /\ jobs'[i].kind = jobs[i].kind /\ jobs'[i].at = jobs[i].at
    BY DEF OnlyJob, Mine, Live
  <1>2. DOMAIN jobs' = DOMAIN jobs
    BY DEF OnlyJob
  <1>3. PhasesInOrder' <=> PhasesInOrder
    BY DEF PhasesInOrder
  <1> QED BY <1>1, <1>2, <1>3 DEF SettingsInv, KeyCardInv
-----------------------------------------------------------------------------
\* The steps of a run of the publishing card.
LEMMA SignJob ==
  ASSUME SettingsInv, NEW j \in DOMAIN jobs,
         \/ jobs[j].at \in {"session", "build", "simulate", "sign", "submit", "poll"}
         \/ jobs[j].tx # "none"
  PROVE  /\ jobs[j].kind = "sign" /\ ~jobs[j].lost /\ jobs[j].tenant = None
         /\ jobs[j].step = StepOf(jobs[j].at) /\ jobs[j].at \in StopsOf("sign")
         /\ jobs[j].registry \in RegistryId
  <1>1. jobs[j] \in Job(DOMAIN tenants)
    BY JobsList DEF SettingsInv
  <1>2. jobs[j].kind = "sign"
    BY <1>1 DEF SettingsInv, JobsInv, StopsOf, Job
  <1> QED BY <1>1, <1>2 DEF SettingsInv, JobsInv, StopsOf, Job

LEMMA RunGoesOn ==
  ASSUME SettingsInv, NEW j \in DOMAIN jobs,
         GotSession(j) \/ Built(j) \/ Simulated(j) \/ Signed(j) \/ Sent(j)
  PROVE  SettingsInv'
  <1>1. PICK stop \in {"build", "simulate", "sign", "submit", "poll"} :
          /\ jobs' = [jobs EXCEPT ![j] = [jobs[j] EXCEPT !.at = stop, !.step = StepOf(stop),
                        !.tx = IF stop = "poll" THEN "pending" ELSE jobs[j].tx,
                        !.lost = jobs[j].lost]]
          /\ \/ jobs[j].at = "session" /\ stop = "build"
                /\ KeyCardShows(j, [keyCard EXCEPT !.status["session"] = "done"])
             \/ jobs[j].at = "build" /\ stop = "simulate"
                /\ KeyCardShows(j, [keyCard EXCEPT !.status = onPhase(@, "session", "simulate")])
             \/ jobs[j].at = "simulate" /\ stop = "sign"
                /\ KeyCardShows(j, [keyCard EXCEPT !.status = onPhase(@, "simulate", "sign")])
             \/ jobs[j].at = "sign" /\ stop = "submit"
                /\ KeyCardShows(j, [keyCard EXCEPT !.status = onPhase(@, "sign", "submit")])
             \/ jobs[j].at = "submit" /\ stop = "poll" /\ UNCHANGED keyCard
    <2>1. jobs \in Seq(Job(DOMAIN tenants)) /\ jobs[j] \in Job(DOMAIN tenants)
      BY JobsList DEF SettingsInv
    <2>2. CASE GotSession(j)
      <3>1. jobs[j].at = "session" /\ jobs[j].step = "session"
        BY <2>2, SignJob DEF GotSession, JobAt, StepOf
      <3>2. jobs' = [jobs EXCEPT ![j] = [jobs[j] EXCEPT !.at = "build"]]
        BY <2>1, <2>2 DEF GotSession
      <3>3. [jobs[j] EXCEPT !.at = "build"]
              = [jobs[j] EXCEPT !.at = "build", !.step = "session", !.tx = jobs[j].tx,
                                !.lost = jobs[j].lost]
        BY <2>1, <3>1 DEF Job
      <3> QED BY <2>2, <3>1, <3>2, <3>3 DEF GotSession, StepOf
    <2>3. ASSUME NEW phase \in StepNames, NEW stop \in Stop, Enters(j, phase, stop)
          PROVE  /\ jobs' = [jobs EXCEPT ![j] = [jobs[j] EXCEPT !.at = stop, !.step = phase,
                                                   !.tx = jobs[j].tx, !.lost = jobs[j].lost]]
                 /\ KeyCardShows(j, [keyCard EXCEPT !.status = onPhase(@, jobs[j].step, phase)])
      <3>1. jobs' = [jobs EXCEPT ![j] = [jobs[j] EXCEPT !.at = stop, !.step = phase]]
        BY <2>1, <2>3 DEF Enters
      <3>2. [jobs[j] EXCEPT !.at = stop, !.step = phase]
              = [jobs[j] EXCEPT !.at = stop, !.step = phase, !.tx = jobs[j].tx,
                                !.lost = jobs[j].lost]
        BY <2>1 DEF Job
      <3> QED BY <2>3, <3>1, <3>2 DEF Enters
    <2>4. CASE Built(j)
      <3>1. jobs[j].at = "build" /\ jobs[j].step = "session" /\ Enters(j, "simulate", "simulate")
        BY <2>4, SignJob DEF Built, JobAt, StepOf
      <3> QED BY <2>3, <3>1 DEF StepOf, StepNames, Stop
    <2>5. CASE Simulated(j)
      <3>1. jobs[j].at = "simulate" /\ jobs[j].step = "simulate" /\ Enters(j, "sign", "sign")
        BY <2>5, SignJob DEF Simulated, JobAt, StepOf
      <3> QED BY <2>3, <3>1 DEF StepOf, StepNames, Stop
    <2>6. CASE Signed(j)
      <3>1. jobs[j].at = "sign" /\ jobs[j].step = "sign" /\ Enters(j, "submit", "submit")
        BY <2>6, SignJob DEF Signed, JobAt, StepOf
      <3> QED BY <2>3, <3>1 DEF StepOf, StepNames, Stop
    <2>7. CASE Sent(j)
      <3>1. jobs[j].at = "submit" /\ jobs[j].step = "submit"
        BY <2>7, SignJob DEF Sent, JobAt, StepOf
      <3>2. jobs' = [jobs EXCEPT ![j] = [jobs[j] EXCEPT !.at = "poll", !.tx = "pending"]]
        BY <2>1, <2>7 DEF Sent
      <3>3. [jobs[j] EXCEPT !.at = "poll", !.tx = "pending"]
              = [jobs[j] EXCEPT !.at = "poll", !.step = "submit", !.tx = "pending",
                                !.lost = jobs[j].lost]
        BY <2>1, <3>1 DEF Job
      <3> QED BY <2>7, <3>1, <3>2, <3>3 DEF Sent, StepOf
    <2> QED BY <2>2, <2>4, <2>5, <2>6, <2>7
  <1>2. UNCHANGED <<view, card, tenants, signer>>
    BY DEF GotSession, Built, Simulated, Signed, Enters, Sent
  <1>3. /\ jobs[j].kind = "sign" /\ ~jobs[j].lost /\ jobs[j].tenant = None
        /\ jobs[j] \in Job(DOMAIN tenants)
    BY <1>1, SignJob, JobsList DEF SettingsInv
  <1>4. /\ OnlyJob(j) /\ jobs'[j].kind = "sign" /\ jobs'[j].mount = jobs[j].mount
        /\ jobs'[j].lost = jobs[j].lost /\ jobs'[j].at = stop /\ jobs'[j].tenant = None
        /\ jobs'[j].registry = jobs[j].registry /\ jobs'[j].step = StepOf(stop)
        /\ jobs'[j].tx = IF stop = "poll" THEN "pending" ELSE jobs[j].tx
        /\ stop \in StopsOf("sign") /\ stop \in Stop
    <2>1. stop \in Stop /\ StepOf(stop) \in StepNames /\ stop \in StopsOf("sign")
      BY DEF Stop, StepOf, StepNames, StopsOf
    <2> DEFINE r == [jobs[j] EXCEPT !.at = stop, !.step = StepOf(stop),
                       !.tx = IF stop = "poll" THEN "pending" ELSE jobs[j].tx,
                       !.lost = jobs[j].lost]
    <2>2. /\ r \in Job(DOMAIN tenants')
          /\ r.kind = "sign" /\ r.mount = jobs[j].mount /\ r.lost = jobs[j].lost
          /\ r.at = stop /\ r.tenant = None /\ r.registry = jobs[j].registry
          /\ r.step = StepOf(stop) /\ r.tx = IF stop = "poll" THEN "pending" ELSE jobs[j].tx
      BY <1>2, <1>3, <2>1 DEF Job
    <2>3. jobs' = [jobs EXCEPT ![j] = r]
      BY <1>1
    <2> HIDE DEF r
    <2>4. OnlyJob(j) /\ jobs'[j] = r
      BY <1>2, <2>2, <2>3, JobSet DEF SettingsInv
    <2> QED BY <2>1, <2>2, <2>4
  <1>5. JobsInv' /\ OwnersInv' /\ RegistryCardInv'
    <2>1. jobs[j].tx # "none" => jobs[j].at \in {"poll", "over"}
      BY DEF SettingsInv, JobsInv
    <2>2. jobs'[j].tx # "none" => jobs'[j].at \in {"poll", "over"}
      BY <1>1, <1>4, <2>1
    <2> QED BY <1>2, <1>3, <1>4, <2>2, SignFrame
  <1>6. /\ Live(j) /\ Live(j)'
        /\ Mine(j) <=> Awaited(j)
    BY <1>1, <1>3, <1>4 DEF Live, Mine, Awaited
  <1>7. keyCard \in [registry: RegistryId \cup {None}, running: BOOLEAN,
                     status: [StepNames -> {"pending", "active", "done", "error"}],
                     notice: {"error", "info", None}, tx: DOMAIN jobs \cup {None}]
    BY DEF SettingsInv, SettingsTypeOK
  <1> DEFINE Follows ==
        /\ keyCard' \in [registry: RegistryId \cup {None}, running: BOOLEAN,
                         status: [StepNames -> {"pending", "active", "done", "error"}],
                         notice: {"error", "info", None}, tx: DOMAIN jobs \cup {None}]
        /\ keyCard'.running = keyCard.running /\ keyCard'.notice = keyCard.notice
        /\ keyCard'.tx = keyCard.tx
        /\ ~Mine(j) => keyCard' = keyCard
        /\ Mine(j) /\ Shows(keyCard.status, jobs[j].at) => Shows(keyCard'.status, stop)
  <1>8. Follows
    <2>1. ASSUME NEW new \in [StepNames -> {"pending", "active", "done", "error"}],
                 KeyCardShows(j, [keyCard EXCEPT !.status = new]),
                 Shows(keyCard.status, jobs[j].at) => Shows(new, stop)
          PROVE  Follows
      <3>1. CASE Mine(j)
        <4>1. keyCard' = [keyCard EXCEPT !.status = new]
          BY <1>6, <2>1, <3>1 DEF KeyCardShows
        <4>2. keyCard'.status = new
          BY <1>7, <4>1
        <4> QED BY <1>7, <2>1, <3>1, <4>1, <4>2
      <3>2. CASE ~Mine(j)
        BY <1>6, <1>7, <2>1, <3>2 DEF KeyCardShows
      <3> QED BY <3>1, <3>2
    <2> HIDE DEF Follows
    <2> DEFINE st == keyCard.status
    <2>2. st \in [StepNames -> {"pending", "active", "done", "error"}]
      BY <1>7
    <2>3. CASE jobs[j].at = "session" /\ stop = "build"
      <3> DEFINE new == [st EXCEPT !["session"] = "done"]
      <3>1. new \in [StepNames -> {"pending", "active", "done", "error"}]
        BY <2>2
      <3>2. Shows(st, "session") => Shows(new, "build")
        BY <2>2 DEF Shows, StepNames
      <3>3. KeyCardShows(j, [keyCard EXCEPT !.status = new])
        BY <1>1, <1>7, <2>3 DEF KeyCardShows
      <3> HIDE DEF new
      <3> QED BY <2>1, <2>3, <3>1, <3>2, <3>3
    <2>4. ASSUME NEW from \in StepNames, NEW to \in StepNames, from # to,
                 KeyCardShows(j, [keyCard EXCEPT !.status = onPhase(@, from, to)])
          PROVE  /\ onPhase(st, from, to) \in [StepNames -> {"pending", "active", "done", "error"}]
                 /\ onPhase(st, from, to)[from] = "done" /\ onPhase(st, from, to)[to] = "active"
                 /\ \A s \in StepNames \ {from, to} : onPhase(st, from, to)[s] = st[s]
                 /\ KeyCardShows(j, [keyCard EXCEPT !.status = onPhase(st, from, to)])
      BY <1>7, <2>2, <2>4 DEF onPhase, KeyCardShows
    <2>5. CASE jobs[j].at = "build" /\ stop = "simulate"
      <3>1. KeyCardShows(j, [keyCard EXCEPT !.status = onPhase(@, "session", "simulate")])
        BY <1>1, <2>5
      <3>2. Shows(st, "build") => Shows(onPhase(st, "session", "simulate"), "simulate")
        BY <2>4, <3>1 DEF Shows, StepNames
      <3> QED BY <2>1, <2>4, <2>5, <3>1, <3>2 DEF StepNames
    <2>6. CASE jobs[j].at = "simulate" /\ stop = "sign"
      <3>1. KeyCardShows(j, [keyCard EXCEPT !.status = onPhase(@, "simulate", "sign")])
        BY <1>1, <2>6
      <3>2. Shows(st, "simulate") => Shows(onPhase(st, "simulate", "sign"), "sign")
        BY <2>4, <3>1 DEF Shows, StepNames
      <3> QED BY <2>1, <2>4, <2>6, <3>1, <3>2 DEF StepNames
    <2>7. CASE jobs[j].at = "sign" /\ stop = "submit"
      <3>1. KeyCardShows(j, [keyCard EXCEPT !.status = onPhase(@, "sign", "submit")])
        BY <1>1, <2>7
      <3>2. Shows(st, "sign") => Shows(onPhase(st, "sign", "submit"), "submit")
        BY <2>4, <3>1 DEF Shows, StepNames
      <3> QED BY <2>1, <2>4, <2>7, <3>1, <3>2 DEF StepNames
    <2>8. CASE jobs[j].at = "submit" /\ stop = "poll" /\ UNCHANGED keyCard
      BY <1>7, <2>8 DEF Shows, Follows
    <2> QED BY <1>1, <2>3, <2>5, <2>6, <2>7, <2>8
  <1>9. KeyCardInv'
    <2>1. Mine(j) => Shows(keyCard.status, jobs[j].at)
      BY <1>3 DEF SettingsInv, KeyCardInv
    <2> QED BY <1>2, <1>3, <1>4, <1>6, <1>8, <2>1, KeyCardMoves
  <1>10. SignerInv'
    <2>1. \A i \in DOMAIN jobs' : /\ i \in DOMAIN jobs /\ jobs'[i].registry = jobs[i].registry
                                  /\ jobs'[i].tx = "success" => jobs[i].tx = "success"
      BY <1>4 DEF OnlyJob
    <2>2. keyCard.tx # None => jobs'[keyCard.tx].tx = "success"
      <3>1. keyCard.tx # None => keyCard.tx \in DOMAIN jobs /\ jobs[keyCard.tx].tx = "success"
        BY <1>7 DEF SettingsInv, SignerInv
      <3>2. jobs[j].tx # "success"
        BY <1>1 DEF SettingsInv, JobsInv
      <3> QED BY <1>4, <3>1, <3>2 DEF OnlyJob
    <2> QED BY <1>2, <1>8, <2>1, <2>2 DEF SettingsInv, SignerInv
  <1>11. SettingsTypeOK'
    BY <1>2, <1>4, <1>8 DEF SettingsInv, SettingsTypeOK, OnlyJob, Job
  <1> QED BY <1>5, <1>9, <1>10, <1>11 DEF SettingsInv

LEMMA RunEnds ==
  ASSUME SettingsInv, NEW j \in DOMAIN jobs, AlreadyExists(j) \/ Settles(j) \/ RunFails(j)
  PROVE  SettingsInv'
  <1>1. /\ jobs[j].at \in {"session", "build", "simulate", "sign", "submit", "poll"}
        /\ UNCHANGED <<view, card, tenants, signer>> /\ Over(j)
    BY DEF AlreadyExists, Settles, RunFails, Ends, JobAt
  <1>2. /\ jobs[j].kind = "sign" /\ ~jobs[j].lost /\ jobs[j].tenant = None
        /\ jobs[j].step = StepOf(jobs[j].at) /\ jobs[j].step \in StepNames
    BY <1>1, SignJob DEF StepOf, StepNames
  <1>3. /\ OnlyJob(j) /\ jobs'[j].kind = "sign" /\ jobs'[j].mount = jobs[j].mount
        /\ jobs'[j].lost = jobs[j].lost /\ jobs'[j].at = "over" /\ jobs'[j].tenant = None
        /\ jobs'[j].registry = jobs[j].registry /\ jobs'[j].step = "session"
        /\ jobs'[j].tx = jobs[j].tx
    BY <1>1, <1>2, OverEffect DEF SettingsInv
  <1>4. JobsInv' /\ OwnersInv' /\ RegistryCardInv'
    BY <1>1, <1>2, <1>3, SignFrame DEF StopsOf, StepOf
  <1>5. Live(j) /\ ~Live(j)' /\ (Mine(j) <=> Awaited(j))
    BY <1>1, <1>2, <1>3 DEF Live, Mine, Awaited
  <1>6. PICK status \in {"done", "error"}, notice \in {"error", "info", None},
             hash \in {None, j} :
          /\ KeyCardShows(j, [keyCard EXCEPT !.status[jobs[j].step] = status, !.notice = notice,
                                             !.tx = hash, !.running = FALSE])
          /\ notice = "info" => signer # None
          /\ hash = j => jobs[j].tx = "success"
          /\ status = "done" => jobs[j].at # "build"
    <2>1. ASSUME NEW status, NEW notice, NEW hash, Ends(j, status, notice, hash)
          PROVE  KeyCardShows(j, [keyCard EXCEPT !.status[jobs[j].step] = status,
                                    !.notice = notice, !.tx = hash, !.running = FALSE])
      BY <2>1 DEF Ends
    <2>2. CASE AlreadyExists(j)
      <3>1. /\ Ends(j, "done", "info", None) /\ signer # None
            /\ jobs[j].at \in {"simulate", "submit"}
        BY <2>2 DEF AlreadyExists, AddSignerKnown, JobAt
      <3>2. j # None
        BY JobsList, SettingsAssumption DEF SettingsInv
      <3> QED BY <2>1, <3>1, <3>2
    <2>3. CASE Settles(j)
      <3>1. Ends(j, "done", None, j) /\ jobs[j].at = "poll" /\ jobs[j].tx = "success"
        BY <2>3 DEF Settles, Landed, JobAt
      <3>2. None # "info"
        BY SettingsAssumption
      <3> QED BY <2>1, <3>1, <3>2
    <2>4. CASE RunFails(j)
      <3>1. Ends(j, "error", "error", None)
        BY <2>4 DEF RunFails
      <3>2. j # None
        BY JobsList, SettingsAssumption DEF SettingsInv
      <3> QED BY <2>1, <3>1, <3>2
    <2> QED BY <2>2, <2>3, <2>4
  <1>7. keyCard \in [registry: RegistryId \cup {None}, running: BOOLEAN,
                     status: [StepNames -> {"pending", "active", "done", "error"}],
                     notice: {"error", "info", None}, tx: DOMAIN jobs \cup {None}]
    BY DEF SettingsInv, SettingsTypeOK
  <1> DEFINE new == [keyCard.status EXCEPT ![jobs[j].step] = status]
  <1>8. /\ new \in [StepNames -> {"pending", "active", "done", "error"}]
        /\ new[jobs[j].step] = status
        /\ \A x \in StepNames : x # jobs[j].step => new[x] = keyCard.status[x]
    BY <1>2, <1>7
  <1>9. KeyCardShows(j, [keyCard EXCEPT !.status = new, !.notice = notice, !.tx = hash,
                                        !.running = FALSE])
    BY <1>6, <1>7 DEF KeyCardShows
  <1> HIDE DEF new
  <1>10. CASE Mine(j)
    <2>1. /\ keyCard' \in [registry: RegistryId \cup {None}, running: BOOLEAN,
                           status: [StepNames -> {"pending", "active", "done", "error"}],
                           notice: {"error", "info", None}, tx: DOMAIN jobs \cup {None}]
          /\ keyCard'.status = new /\ keyCard'.notice = notice /\ keyCard'.tx = hash
          /\ keyCard'.running = FALSE
      BY <1>5, <1>7, <1>8, <1>9, <1>10 DEF KeyCardShows
    <2>2. Shows(keyCard.status, jobs[j].at)
      BY <1>2, <1>10 DEF SettingsInv, KeyCardInv
    <2>3. /\ new["simulate"] # "pending" => new["session"] = "done"
          /\ new["sign"] # "pending" => new["session"] = "done" /\ new["simulate"] = "done"
          /\ new["submit"] # "pending" =>
               new["session"] = "done" /\ new["simulate"] = "done" /\ new["sign"] = "done"
          /\ \A x \in StepNames : new[x] # "active"
      <3>1. /\ "session" \in StepNames /\ "simulate" \in StepNames /\ "sign" \in StepNames
            /\ "submit" \in StepNames
            /\ \A x \in StepNames : x \in {"session", "simulate", "sign", "submit"}
        BY DEF StepNames
      <3>2. CASE jobs[j].at \in {"session", "build"}
        BY <1>2, <1>8, <2>2, <3>1, <3>2 DEF Shows, StepOf
      <3>3. CASE jobs[j].at = "simulate"
        BY <1>2, <1>8, <2>2, <3>1, <3>3 DEF Shows, StepOf
      <3>4. CASE jobs[j].at = "sign"
        BY <1>2, <1>8, <2>2, <3>1, <3>4 DEF Shows, StepOf
      <3>5. CASE jobs[j].at \in {"submit", "poll"}
        BY <1>2, <1>8, <2>2, <3>1, <3>5 DEF Shows, StepOf
      <3> QED BY <1>1, <3>2, <3>3, <3>4, <3>5
    <2>4. PhasesInOrder'
      <3>1. \A i, k \in DOMAIN StepIds : i < k /\ new[StepIds[k]] # "pending" => new[StepIds[i]] = "done"
        BY <2>3, InOrder
      <3> QED BY <2>1, <2>3, <3>1 DEF PhasesInOrder, StepIds
    <2>5. KeyCardInv'
      BY <1>1, <1>2, <1>3, <1>5, <1>10, <2>1, <2>4, KeyCardEnds
    <2>6. SignerInv'
      <3>1. \A i \in DOMAIN jobs' : /\ i \in DOMAIN jobs /\ jobs'[i].registry = jobs[i].registry
                                    /\ jobs'[i].tx = jobs[i].tx
        BY <1>3 DEF OnlyJob
      <3>2. hash # None => hash = j
        BY <1>6
      <3> QED BY <1>1, <1>3, <1>6, <2>1, <3>1, <3>2 DEF SettingsInv, SignerInv
    <2>7. SettingsTypeOK'
      BY <1>1, <1>3, <2>1 DEF SettingsInv, SettingsTypeOK, OnlyJob, Job
    <2> QED BY <1>4, <2>5, <2>6, <2>7 DEF SettingsInv
  <1>11. CASE ~Mine(j)
    <2>1. UNCHANGED keyCard
      BY <1>5, <1>9, <1>11 DEF KeyCardShows
    <2>2. KeyCardInv'
      BY <1>1, <1>2, <1>3, <1>5, <1>11, <2>1, KeyCardEnds
    <2>3. SignerInv'
      <3>1. \A i \in DOMAIN jobs : /\ i \in DOMAIN jobs' /\ jobs'[i].registry = jobs[i].registry
                                   /\ jobs'[i].tx = jobs[i].tx
        BY <1>3 DEF OnlyJob
      <3>2. DOMAIN jobs' = DOMAIN jobs
        BY <1>3 DEF OnlyJob
      <3> QED BY <1>1, <1>7, <2>1, <3>1, <3>2 DEF SettingsInv, SignerInv
    <2>4. SettingsTypeOK'
      BY <1>1, <1>3, <2>1 DEF SettingsInv, SettingsTypeOK, OnlyJob, Job
    <2> QED BY <1>4, <2>2, <2>3, <2>4 DEF SettingsInv
  <1> QED BY <1>10, <1>11

\* The network runs a transaction, whether its run is over or not: the first one sets
\* the signer, and it stays.
LEMMA NetworkRuns ==
  ASSUME SettingsInv, NEW j \in DOMAIN jobs, Executed(j) \/ Rejected(j)
  PROVE  SettingsInv'
  <1>1. /\ jobs[j].tx = "pending" /\ UNCHANGED <<view, card, keyCard, tenants>>
        /\ \/ /\ jobs' = [jobs EXCEPT ![j].tx = "success"]
              /\ signer = None /\ signer' = jobs[j].registry
           \/ jobs' = [jobs EXCEPT ![j].tx = "failed"] /\ signer' = signer
    BY DEF Executed, Rejected, AddSignerKnown
  <1>2. /\ jobs[j].kind = "sign" /\ jobs[j].tenant = None /\ jobs[j].registry \in RegistryId
        /\ jobs[j].step = StepOf(jobs[j].at) /\ jobs[j].at \in StopsOf("sign")
        /\ jobs[j].at \in {"poll", "over"}
    BY <1>1, SignJob DEF SettingsInv, JobsInv
  <1>3. /\ OnlyJob(j) /\ jobs'[j].kind = "sign" /\ jobs'[j].mount = jobs[j].mount
        /\ jobs'[j].lost = jobs[j].lost /\ jobs'[j].at = jobs[j].at /\ jobs'[j].tenant = None
        /\ jobs'[j].registry = jobs[j].registry /\ jobs'[j].step = jobs[j].step
        /\ \/ jobs'[j].tx = "success" /\ signer = None /\ signer' = jobs[j].registry
           \/ jobs'[j].tx = "failed" /\ signer' = signer
    <2>1. jobs[j] \in Job(DOMAIN tenants) /\ jobs \in Seq(Job(DOMAIN tenants))
      BY JobsList DEF SettingsInv
    <2>2. ASSUME NEW tx \in {"success", "failed"}, jobs' = [jobs EXCEPT ![j].tx = tx]
          PROVE  /\ OnlyJob(j) /\ jobs'[j].kind = "sign" /\ jobs'[j].mount = jobs[j].mount
                 /\ jobs'[j].lost = jobs[j].lost /\ jobs'[j].at = jobs[j].at
                 /\ jobs'[j].tenant = None /\ jobs'[j].registry = jobs[j].registry
                 /\ jobs'[j].step = jobs[j].step /\ jobs'[j].tx = tx
      <3> DEFINE r == [jobs[j] EXCEPT !.tx = tx]
      <3>1. /\ r \in Job(DOMAIN tenants')
            /\ r.kind = "sign" /\ r.mount = jobs[j].mount /\ r.lost = jobs[j].lost
            /\ r.at = jobs[j].at /\ r.tenant = None /\ r.registry = jobs[j].registry
            /\ r.step = jobs[j].step /\ r.tx = tx
        BY <1>1, <1>2, <2>1 DEF Job
      <3>2. jobs' = [jobs EXCEPT ![j] = r]
        BY <2>1, <2>2
      <3> HIDE DEF r
      <3>3. OnlyJob(j) /\ jobs'[j] = r
        BY <1>1, <3>1, <3>2, JobSet DEF SettingsInv
      <3> QED BY <3>1, <3>3
    <2> QED BY <1>1, <2>2
  <1>4. JobsInv' /\ OwnersInv' /\ RegistryCardInv'
    BY <1>1, <1>2, <1>3, SignFrame
  <1>5. KeyCardInv'
    BY <1>1, <1>2, <1>3, KeyCardKept
  <1>6. SignerInv'
    <2>1. \A i \in DOMAIN jobs' : /\ i \in DOMAIN jobs /\ jobs'[i].registry = jobs[i].registry
                                  /\ i # j => jobs'[i].tx = jobs[i].tx
      BY <1>3 DEF OnlyJob
    <2>2. \A i \in DOMAIN jobs : jobs[i].tx = "success" => signer = jobs[i].registry /\ signer # None
      BY SignJob, SettingsAssumption DEF SettingsInv, SignerInv
    <2>3. keyCard.tx # None => keyCard.tx \in DOMAIN jobs /\ keyCard.tx # j /\ jobs'[keyCard.tx] = jobs[keyCard.tx]
      BY <1>1, <1>3 DEF SettingsInv, SettingsTypeOK, SignerInv, OnlyJob
    <2>4. keyCard.notice = "info" => signer # None
      BY DEF SettingsInv, SignerInv
    <2>5. \A i \in DOMAIN jobs' : jobs'[i].tx = "success" => signer' = jobs'[i].registry
      BY <1>3, <2>1, <2>2
    <2> QED BY <1>1, <1>2, <1>3, <2>3, <2>4, <2>5, SettingsAssumption DEF SettingsInv, SignerInv
  <1>7. SettingsTypeOK'
    BY <1>1, <1>2, <1>3 DEF SettingsInv, SettingsTypeOK, OnlyJob, Job
  <1> QED BY <1>4, <1>5, <1>6, <1>7 DEF SettingsInv
-----------------------------------------------------------------------------
\* The steps of a request of the registry card.
LEMMA RouteJob ==
  ASSUME SettingsInv, NEW j \in DOMAIN jobs, jobs[j].at \in {"tenant", "wallet", "contract", "answer"}
  PROVE  /\ jobs[j] \in Job(DOMAIN tenants) /\ jobs[j].kind # "sign" /\ jobs[j].tx = "none"
         /\ jobs[j].at \in {"tenant", "wallet"} => jobs[j].kind = "create"
         /\ jobs[j].at = "contract" => jobs[j].kind = "record"
         /\ jobs[j].at \in {"wallet", "contract", "answer"} => jobs[j].tenant \in DOMAIN tenants
         /\ jobs[j].at = "tenant" => jobs[j].tenant = None
         /\ Live(j)
  <1>1. jobs[j] \in Job(DOMAIN tenants)
    BY JobsList DEF SettingsInv
  <1>2. jobs[j].kind # "sign"
    BY <1>1 DEF SettingsInv, JobsInv, StopsOf, Job
  <1> QED BY <1>1, <1>2 DEF SettingsInv, JobsInv, StopsOf, Job, Live

\* The request goes on to another stop, with its tenant.
LEMMA RouteMoves ==
  ASSUME SettingsInv, NEW j \in DOMAIN jobs, jobs[j].at \in {"tenant", "wallet", "contract"},
         NEW stop \in {"wallet", "answer"}, NEW ten \in DOMAIN tenants',
         DOMAIN tenants \subseteq DOMAIN tenants',
         jobs' = [jobs EXCEPT ![j].tenant = ten, ![j].at = stop]
  PROVE  /\ OnlyJob(j)
         /\ jobs'[j].kind = jobs[j].kind /\ jobs'[j].mount = jobs[j].mount
         /\ jobs'[j].lost = jobs[j].lost /\ jobs'[j].at = stop /\ jobs'[j].tenant = ten
         /\ jobs'[j].registry = jobs[j].registry /\ jobs'[j].tx = jobs[j].tx
  <1> DEFINE r == [jobs[j] EXCEPT !.tenant = ten, !.at = stop]
  <1>1. jobs[j] \in Job(DOMAIN tenants) /\ jobs \in Seq(Job(DOMAIN tenants))
    BY JobsList DEF SettingsInv
  <1>2. /\ r \in Job(DOMAIN tenants')
        /\ r.kind = jobs[j].kind /\ r.mount = jobs[j].mount /\ r.lost = jobs[j].lost
        /\ r.at = stop /\ r.tenant = ten /\ r.registry = jobs[j].registry /\ r.tx = jobs[j].tx
    BY <1>1 DEF Job, Stop
  <1>3. jobs' = [jobs EXCEPT ![j] = r]
    BY <1>1
  <1> HIDE DEF r
  <1>4. OnlyJob(j) /\ jobs'[j] = r
    BY <1>2, <1>3, JobSet DEF SettingsInv
  <1> QED BY <1>2, <1>4

\* What the requests carry when one of the registry card goes on or ends.
LEMMA RouteJobs ==
  ASSUME SettingsInv, NEW j \in DOMAIN jobs, OnlyJob(j), UNCHANGED view,
         jobs[j].kind # "sign", jobs'[j].kind = jobs[j].kind, jobs'[j].mount = jobs[j].mount,
         jobs'[j].tx = "none", jobs'[j].at \in StopsOf(jobs[j].kind),
         (jobs'[j].at \in {"wallet", "contract", "answer"}) <=> (jobs'[j].tenant # None),
         jobs[j].kind = "create" /\ jobs'[j].at = "answer" => tenants'[jobs'[j].tenant].wallet,
         \A k \in DOMAIN tenants : tenants[k].wallet => tenants'[k].wallet
  PROVE  JobsInv'
  <1> SUFFICES ASSUME NEW i \in DOMAIN jobs'
               PROVE  /\ jobs'[i].mount <= view'.mounts
                      /\ jobs'[i].at \in StopsOf(jobs'[i].kind)
                      /\ (jobs'[i].at \in {"wallet", "contract", "answer"}) <=> (jobs'[i].tenant # None)
                      /\ jobs'[i].kind = "create" /\ jobs'[i].at = "answer" => tenants'[jobs'[i].tenant].wallet
                      /\ jobs'[i].kind = "sign" =>
                           /\ jobs'[i].registry # None /\ ~jobs'[i].lost
                           /\ jobs'[i].step = StepOf(jobs'[i].at)
                      /\ jobs'[i].tx # "none" => jobs'[i].kind = "sign" /\ jobs'[i].at \in {"poll", "over"}
    BY DEF JobsInv
  <1>1. CASE i = j
    <2>1. jobs[j].mount <= view.mounts
      BY DEF SettingsInv, JobsInv
    <2> QED BY <1>1, <2>1
  <1>2. CASE i # j
    <2>1. jobs'[i] = jobs[i] /\ i \in DOMAIN jobs
      BY <1>2 DEF OnlyJob
    <2>2. jobs[i].tenant \in DOMAIN tenants \cup {None}
      BY <2>1, JobsList DEF SettingsInv, Job
    <2> QED BY <2>1, <2>2 DEF SettingsInv, JobsInv
  <1> QED BY <1>1, <1>2

\* A request that goes on leaves the card what it shows: it writes no contract but its
\* own tenant's, which is the card's only while the card waits for it.
LEMMA CardKept ==
  ASSUME SettingsInv, NEW j \in DOMAIN jobs, OnlyJob(j), UNCHANGED <<view, card>>,
         jobs[j].kind # "sign", jobs'[j].kind = jobs[j].kind, jobs'[j].mount = jobs[j].mount,
         jobs'[j].lost = jobs[j].lost, jobs'[j].registry = jobs[j].registry,
         Live(j), Live(j)',
         \A k \in DOMAIN tenants : tenants[k].wallet => tenants'[k].wallet,
         \A k \in DOMAIN tenants :
           tenants'[k].contract # tenants[k].contract => jobs[j].kind = "record" /\ k = jobs[j].tenant,
         jobs[j].kind = "record" =>
           /\ jobs[j].tenant \in DOMAIN tenants /\ jobs'[j].tenant = jobs[j].tenant
           /\ jobs'[j].at = "answer" => tenants'[jobs[j].tenant].contract = jobs[j].registry
  PROVE  RegistryCardInv'
  <1>1. NoneLost' => NoneLost
    BY DEF NoneLost, OnlyJob
  <1>2. card.tenant \in DOMAIN tenants \cup {None}
    BY DEF SettingsInv, SettingsTypeOK
  <1>3. CardTenantIsOwned' /\ (NoneLost' /\ card'.done => card'.tenant # None)
    BY <1>1, <1>2 DEF SettingsInv, RegistryCardInv, CardTenantIsOwned
  <1>4. \A i \in DOMAIN jobs' : /\ i \in DOMAIN jobs /\ (Mine(i)' <=> Mine(i))
                                /\ jobs'[i].kind = jobs[i].kind
                                /\ i # j => jobs'[i] = jobs[i]
    BY DEF Mine, Live, OnlyJob
  <1>5. ASSUME card.tenant # None, tenants'[card.tenant].contract # tenants[card.tenant].contract
        PROVE  Mine(j)
    <2>1. jobs[j].tenant = card.tenant
      BY <1>2, <1>5
    <2> QED BY <1>5, <2>1 DEF SettingsInv, OwnersInv, Mine
  <1>6. DoneIsRecorded'
    <2>1. NoneLost <=> \A i \in DOMAIN jobs : ~jobs[i].lost
      BY DEF NoneLost
    <2>2. NoneLost' <=> \A i \in DOMAIN jobs' : ~jobs'[i].lost
      BY DEF NoneLost
    <2>3. NoneLost /\ card.done => ~Mine(j)
      BY DEF SettingsInv, RegistryCardInv
    <2>4. NoneLost /\ card.done =>
            card.tenant # None /\ tenants[card.tenant].contract = card.recorded
      BY <2>1 DEF SettingsInv, RegistryCardInv, DoneIsRecorded
    <2> QED BY <1>1, <1>5, <2>2, <2>3, <2>4 DEF DoneIsRecorded
  <1>7. ASSUME NoneLost', NEW i \in DOMAIN jobs', Mine(i)', jobs'[i].kind # "sign"
        PROVE  /\ card'.busy /\ ~card'.done
               /\ \A k \in DOMAIN jobs' : Mine(k)' /\ jobs'[k].kind # "sign" => k = i
               /\ jobs'[i].kind = "record" =>
                    /\ jobs'[i].tenant = card'.tenant
                    /\ jobs'[i].at = "answer" => tenants'[card'.tenant].contract = jobs'[i].registry
    <2>1. NoneLost /\ i \in DOMAIN jobs /\ Mine(i) /\ jobs[i].kind # "sign"
      BY <1>1, <1>4, <1>7
    <2>2. /\ card.busy /\ ~card.done
          /\ \A k \in DOMAIN jobs : Mine(k) /\ jobs[k].kind # "sign" => k = i
          /\ jobs[i].kind = "record" =>
               /\ jobs[i].tenant = card.tenant
               /\ jobs[i].at = "answer" => tenants[card.tenant].contract = jobs[i].registry
      BY <2>1 DEF SettingsInv, RegistryCardInv
    <2>3. \A k \in DOMAIN jobs' : Mine(k)' /\ jobs'[k].kind # "sign" => k = i
      BY <1>4, <2>2
    <2>4. CASE i = j
      BY <1>2, <2>2, <2>3, <2>4
    <2>5. CASE i # j
      <3>1. ~Mine(j)
        BY <2>2, <2>5
      <3>2. jobs'[i] = jobs[i]
        BY <1>4, <2>5
      <3>3. jobs[i].kind = "record" => card.tenant # None
        <4> SUFFICES ASSUME jobs[i].kind = "record" PROVE card.tenant # None
          OBVIOUS
        <4>1. jobs[i].at \in {"contract", "answer"}
          BY <2>1 DEF SettingsInv, JobsInv, StopsOf, Mine, Live
        <4>2. jobs[i].tenant \in DOMAIN tenants
          BY <2>1, <4>1, RouteJob
        <4> QED BY <2>2, <4>2, TenantsType DEF SettingsInv
      <3> QED BY <1>5, <2>2, <2>3, <3>1, <3>2, <3>3
    <2> QED BY <2>4, <2>5
  <1> QED BY <1>3, <1>6, <1>7 DEF RegistryCardInv

LEMMA createTenantStep ==
  ASSUME SettingsInv, NEW j \in DOMAIN jobs, createTenant(j)
  PROVE  SettingsInv'
  <1> DEFINE new == Len(tenants) + 1
  <1>1. /\ jobs[j].at = "tenant" /\ UNCHANGED <<view, card, keyCard, signer>>
        /\ tenants' = Append(tenants, [wallet |-> FALSE, contract |-> None])
        /\ jobs' = [jobs EXCEPT ![j].tenant = new, ![j].at = "wallet"]
    BY DEF createTenant, JobAt, NewTenant, AfterCreate
  <1>2. /\ tenants' \in Seq([wallet: BOOLEAN, contract: RegistryId \cup {None}])
        /\ DOMAIN tenants' = DOMAIN tenants \cup {new} /\ new \notin DOMAIN tenants
        /\ \A k \in DOMAIN tenants : tenants'[k] = tenants[k]
        /\ new # None
    <2>1. [wallet |-> FALSE, contract |-> None] \in [wallet: BOOLEAN, contract: RegistryId \cup {None}]
      OBVIOUS
    <2>2. /\ tenants \in Seq([wallet: BOOLEAN, contract: RegistryId \cup {None}])
          /\ Len(tenants) \in Nat
      BY TenantsType DEF SettingsInv
    <2> DEFINE row == [wallet |-> FALSE, contract |-> None]
    <2>3. tenants' = Append(tenants, row) /\ row \in [wallet: BOOLEAN, contract: RegistryId \cup {None}]
      BY <1>1, <2>1
    <2> HIDE DEF row
    <2> QED BY <2>2, <2>3, SettingsAssumption
  <1>3. /\ jobs[j].kind = "create" /\ jobs[j].tx = "none" /\ Live(j) /\ jobs[j].tenant = None
    BY <1>1, RouteJob
  <1>4. /\ OnlyJob(j) /\ jobs'[j].kind = "create" /\ jobs'[j].mount = jobs[j].mount
        /\ jobs'[j].lost = jobs[j].lost /\ jobs'[j].at = "wallet" /\ jobs'[j].tenant = new
        /\ jobs'[j].registry = jobs[j].registry /\ jobs'[j].tx = "none"
    BY ZenonT(40), <1>1, <1>2, <1>3, RouteMoves
  <1> HIDE DEF new
  <1>5. KeyCardInv' /\ SignerInv'
    BY <1>1, <1>3, <1>4, RouteFrame
  <1>6. \A i \in DOMAIN jobs : jobs[i].tenant \in DOMAIN tenants \cup {None}
    BY JobsList DEF SettingsInv, Job
  <1>7. card.tenant \in DOMAIN tenants \cup {None}
    BY DEF SettingsInv, SettingsTypeOK
  <1>8. \A i \in DOMAIN jobs' : i # j => jobs'[i] = jobs[i] /\ i \in DOMAIN jobs
    BY <1>4 DEF OnlyJob
  <1>9. JobsInv'
    <2>1. jobs'[j].at \in StopsOf("create")
      BY <1>4 DEF StopsOf
    <2> QED BY <1>1, <1>2, <1>3, <1>4, <2>1, RouteJobs
  <1>10. OwnersInv'
    <2>1. \A i \in DOMAIN jobs' : i # j => jobs'[i].tenant # new
      BY <1>2, <1>6, <1>8
    <2>2. card'.tenant # new
      BY <1>1, <1>2, <1>7
    <2> QED BY <1>1, <1>4, <1>8, <2>1, <2>2 DEF SettingsInv, OwnersInv
  <1>11. RegistryCardInv'
    <2>1. \A k \in DOMAIN tenants : tenants'[k] = tenants[k]
      BY <1>2
    <2>2. Live(j)'
      BY <1>4 DEF Live
    <2> QED BY <1>1, <1>3, <1>4, <2>1, <2>2, CardKept
  <1>12. SettingsTypeOK'
    BY <1>1, <1>2, <1>4, <1>7 DEF SettingsInv, SettingsTypeOK, OnlyJob, Job
  <1> QED BY <1>5, <1>9, <1>10, <1>11, <1>12 DEF SettingsInv

LEMMA setTenantStep ==
  ASSUME SettingsInv, NEW j \in DOMAIN jobs, setTenantWallet(j) \/ setTenantContract(j)
  PROVE  SettingsInv'
  <1> DEFINE ten == jobs[j].tenant
  <1>1. /\ UNCHANGED <<view, card, keyCard, signer>>
        /\ jobs' = [jobs EXCEPT ![j].at = "answer"]
        /\ \/ /\ jobs[j].at = "wallet"
              /\ tenants' = [tenants EXCEPT ![ten].wallet = TRUE]
           \/ /\ jobs[j].at = "contract"
              /\ tenants' = [tenants EXCEPT ![ten].contract = jobs[j].registry]
    BY DEF setTenantWallet, setTenantContract, JobAt
  <1>2. /\ jobs[j] \in Job(DOMAIN tenants) /\ jobs[j].kind # "sign" /\ jobs[j].tx = "none"
        /\ ten \in DOMAIN tenants /\ Live(j) /\ ten # None
        /\ jobs[j].at = "wallet" => jobs[j].kind = "create"
        /\ jobs[j].at = "contract" => jobs[j].kind = "record"
    BY <1>1, RouteJob, TenantsType DEF SettingsInv
  <1>3. /\ tenants' \in Seq([wallet: BOOLEAN, contract: RegistryId \cup {None}])
        /\ DOMAIN tenants' = DOMAIN tenants
        /\ \A k \in DOMAIN tenants : k # ten => tenants'[k] = tenants[k]
        /\ \/ /\ jobs[j].kind = "create" /\ tenants'[ten].wallet
              /\ tenants'[ten].contract = tenants[ten].contract
           \/ /\ jobs[j].kind = "record" /\ tenants'[ten].wallet = tenants[ten].wallet
              /\ tenants'[ten].contract = jobs[j].registry
    <2>1. /\ tenants \in Seq([wallet: BOOLEAN, contract: RegistryId \cup {None}])
          /\ tenants[ten] \in [wallet: BOOLEAN, contract: RegistryId \cup {None}]
          /\ jobs[j].registry \in RegistryId \cup {None}
      <3>1. tenants \in Seq([wallet: BOOLEAN, contract: RegistryId \cup {None}])
        BY TenantsType DEF SettingsInv
      <3>2. jobs[j].registry \in RegistryId \cup {None}
        BY <1>2 DEF Job
      <3> QED BY <1>2, <3>1, <3>2, TenantsType DEF SettingsInv
    <2>2. PICK row \in [wallet: BOOLEAN, contract: RegistryId \cup {None}] :
            /\ tenants' = [tenants EXCEPT ![ten] = row]
            /\ \/ /\ jobs[j].kind = "create" /\ row.wallet /\ row.contract = tenants[ten].contract
               \/ /\ jobs[j].kind = "record" /\ row.wallet = tenants[ten].wallet
                  /\ row.contract = jobs[j].registry
      <3>1. CASE jobs[j].at = "wallet"
        <4> DEFINE row == [tenants[ten] EXCEPT !.wallet = TRUE]
        <4>1. /\ row \in [wallet: BOOLEAN, contract: RegistryId \cup {None}]
              /\ row.wallet /\ row.contract = tenants[ten].contract
          BY <2>1
        <4>2. tenants' = [tenants EXCEPT ![ten] = row]
          BY <1>1, <2>1, <3>1
        <4> HIDE DEF row
        <4> QED BY <1>2, <3>1, <4>1, <4>2
      <3>2. CASE jobs[j].at = "contract"
        <4> DEFINE row == [tenants[ten] EXCEPT !.contract = jobs[j].registry]
        <4>1. /\ row \in [wallet: BOOLEAN, contract: RegistryId \cup {None}]
              /\ row.wallet = tenants[ten].wallet /\ row.contract = jobs[j].registry
          BY <2>1
        <4>2. tenants' = [tenants EXCEPT ![ten] = row]
          BY <1>1, <2>1, <3>2
        <4> HIDE DEF row
        <4> QED BY <1>2, <3>2, <4>1, <4>2
      <3> QED BY <1>1, <3>1, <3>2
    <2> QED BY <1>2, <2>1, <2>2
  <1>4. /\ OnlyJob(j) /\ jobs'[j].kind = jobs[j].kind /\ jobs'[j].mount = jobs[j].mount
        /\ jobs'[j].lost = jobs[j].lost /\ jobs'[j].at = "answer" /\ jobs'[j].tenant = ten
        /\ jobs'[j].registry = jobs[j].registry /\ jobs'[j].tx = "none"
    <2>1. jobs' = [jobs EXCEPT ![j].tenant = ten, ![j].at = "answer"]
      <3>1. jobs \in Seq(Job(DOMAIN tenants))
        BY JobsList DEF SettingsInv
      <3>2. [jobs[j] EXCEPT !.tenant = ten, !.at = "answer"] = [jobs[j] EXCEPT !.at = "answer"]
        BY <1>2 DEF Job
      <3> QED BY <1>1, <3>1, <3>2
    <2> QED BY ZenonT(40), <1>1, <1>2, <1>3, <2>1, RouteMoves
  <1> HIDE DEF ten
  <1>5. KeyCardInv' /\ SignerInv'
    BY <1>1, <1>2, <1>4, RouteFrame
  <1>6. JobsInv'
    <2>1. jobs'[j].at \in StopsOf(jobs[j].kind)
      BY <1>3, <1>4 DEF StopsOf
    <2>2. \A k \in DOMAIN tenants : tenants[k].wallet => tenants'[k].wallet
      BY <1>3
    <2>3. jobs[j].kind = "create" => tenants'[ten].wallet
      BY <1>3
    <2> QED BY <1>1, <1>2, <1>4, <2>1, <2>2, <2>3, RouteJobs
  <1>7. OwnersInv'
    <2>1. \A i \in DOMAIN jobs' : /\ i \in DOMAIN jobs /\ jobs'[i].tenant = jobs[i].tenant
                                  /\ jobs'[i].mount = jobs[i].mount
      BY <1>4 DEF OnlyJob, ten
    <2> QED BY <1>1, <2>1 DEF SettingsInv, OwnersInv
  <1>8. RegistryCardInv'
    <2>1. \A k \in DOMAIN tenants : tenants[k].wallet => tenants'[k].wallet
      BY <1>3
    <2>2. \A k \in DOMAIN tenants :
            tenants'[k].contract # tenants[k].contract => jobs[j].kind = "record" /\ k = ten
      BY <1>3
    <2>3. Live(j)'
      BY <1>4 DEF Live
    <2>4. jobs[j].kind = "record" => tenants'[ten].contract = jobs[j].registry
      BY <1>3
    <2> QED BY <1>1, <1>2, <1>4, <2>1, <2>2, <2>3, <2>4, CardKept DEF ten
  <1>9. SettingsTypeOK'
    BY <1>1, <1>3, <1>4 DEF SettingsInv, SettingsTypeOK, OnlyJob, Job
  <1> QED BY <1>5, <1>6, <1>7, <1>8, <1>9 DEF SettingsInv

LEMMA AnsweredStep ==
  ASSUME SettingsInv, NEW j \in DOMAIN jobs, Answered(j) \/ RouteFails(j)
  PROVE  SettingsInv'
  <1>1. /\ UNCHANGED <<view, keyCard, tenants, signer>> /\ Over(j)
        /\ jobs[j].at \in {"tenant", "wallet", "contract", "answer"}
    BY DEF Answered, RouteFails, JobAt
  <1>2. /\ jobs[j] \in Job(DOMAIN tenants) /\ jobs[j].kind # "sign" /\ jobs[j].tx = "none"
        /\ Live(j)
    BY <1>1, RouteJob
  <1>3. /\ OnlyJob(j) /\ jobs'[j].kind = jobs[j].kind /\ jobs'[j].mount = jobs[j].mount
        /\ jobs'[j].lost = jobs[j].lost /\ jobs'[j].at = "over" /\ jobs'[j].tenant = None
        /\ jobs'[j].tx = "none"
    BY <1>1, <1>2, OverEffect DEF SettingsInv
  <1>4. KeyCardInv' /\ SignerInv'
    BY <1>1, <1>2, <1>3, RouteFrame
  <1>5. JobsInv'
    <2>1. "over" \in StopsOf(jobs[j].kind)
      BY <1>2 DEF StopsOf, Job
    <2> QED BY <1>1, <1>2, <1>3, <2>1, RouteJobs
  <1>6. card \in [busy: BOOLEAN, tenant: DOMAIN tenants \cup {None}, done: BOOLEAN,
                  contract: RegistryId \cup {None}, recorded: RegistryId \cup {None}]
    BY DEF SettingsInv, SettingsTypeOK
  <1>7. \/ UNCHANGED card
        \/ Awaited(j) /\ card' = [card EXCEPT !.busy = FALSE]
        \/ /\ Awaited(j) /\ jobs[j].at = "answer" /\ jobs[j].kind = "create"
           /\ card' = [card EXCEPT !.tenant = jobs[j].tenant, !.busy = FALSE]
        \/ /\ Awaited(j) /\ jobs[j].at = "answer" /\ jobs[j].kind = "record"
           /\ card' = [card EXCEPT !.done = TRUE, !.recorded = jobs[j].registry, !.busy = FALSE]
    BY <1>2 DEF Answered, RouteFails, CardShows, BusyAfterError, JobAt, Job
  <1>8. /\ card' \in [busy: BOOLEAN, tenant: DOMAIN tenants \cup {None}, done: BOOLEAN,
                      contract: RegistryId \cup {None}, recorded: RegistryId \cup {None}]
        /\ \/ UNCHANGED card
           \/ /\ Awaited(j) /\ card'.tenant = card.tenant /\ card'.done = card.done
              /\ card'.recorded = card.recorded
           \/ /\ Awaited(j) /\ jobs[j].at = "answer" /\ jobs[j].kind = "create"
              /\ card'.tenant = jobs[j].tenant /\ card'.done = card.done
           \/ /\ Awaited(j) /\ jobs[j].at = "answer" /\ jobs[j].kind = "record"
              /\ card'.tenant = card.tenant /\ card'.done /\ card'.recorded = jobs[j].registry
    BY <1>2, <1>6, <1>7 DEF Job
  <1>9. \A i \in DOMAIN jobs' : /\ i \in DOMAIN jobs /\ jobs'[i].mount = jobs[i].mount
                                /\ jobs'[i].lost = jobs[i].lost
                                /\ i # j => jobs'[i] = jobs[i]
                                /\ Mine(i)' => Mine(i) /\ i # j
    BY <1>1, <1>3 DEF OnlyJob, Mine, Live
  <1>10. OwnersInv'
    <2>1. ASSUME NEW i \in DOMAIN jobs', jobs'[i].tenant # None, jobs'[i].tenant = card'.tenant
          PROVE  jobs'[i].mount = view'.mounts
      <3>1. i # j /\ jobs'[i] = jobs[i] /\ i \in DOMAIN jobs
        BY <1>3, <1>9, <2>1
      <3>2. CASE card'.tenant = card.tenant
        BY <1>1, <2>1, <3>1, <3>2 DEF SettingsInv, OwnersInv
      <3>3. CASE Awaited(j) /\ card'.tenant = jobs[j].tenant
        <4>1. jobs[i].mount = jobs[j].mount
          BY <2>1, <3>1, <3>3 DEF SettingsInv, OwnersInv
        <4> QED BY <1>1, <3>1, <3>3, <4>1 DEF Awaited
      <3> QED BY <1>8, <3>2, <3>3
    <2>2. ASSUME NEW i \in DOMAIN jobs', jobs'[i].tenant # None, NEW k \in DOMAIN jobs',
                 jobs'[k].tenant = jobs'[i].tenant
          PROVE  jobs'[k].mount = jobs'[i].mount
      <3>1. i # j /\ k # j
        BY <1>3, <2>2
      <3> QED BY <1>9, <2>2, <3>1 DEF SettingsInv, OwnersInv
    <2> QED BY <2>1, <2>2 DEF OwnersInv
  <1>11. RegistryCardInv'
    <2>1. NoneLost' <=> NoneLost
      BY <1>3, <1>9 DEF NoneLost, OnlyJob
    <2>2. Awaited(j) => Mine(j)
      BY <1>2 DEF Awaited, Mine
    <2>3. NoneLost /\ Mine(j) =>
            /\ card.busy /\ ~card.done
            /\ \A i \in DOMAIN jobs : Mine(i) /\ jobs[i].kind # "sign" => i = j
            /\ jobs[j].kind = "record" =>
                 /\ jobs[j].tenant = card.tenant
                 /\ jobs[j].at = "answer" => tenants[card.tenant].contract = jobs[j].registry
      BY <1>2 DEF SettingsInv, RegistryCardInv
    <2>4. CardTenantIsOwned'
      <3>1. jobs[j].kind = "create" /\ jobs[j].at = "answer" => tenants[jobs[j].tenant].wallet
        BY DEF SettingsInv, JobsInv
      <3> QED BY <1>1, <1>8, <3>1 DEF SettingsInv, RegistryCardInv, CardTenantIsOwned
    <2>5. NoneLost /\ card.done =>
            card.tenant # None /\ tenants[card.tenant].contract = card.recorded
      BY DEF SettingsInv, RegistryCardInv, DoneIsRecorded, NoneLost
    <2>6. jobs[j].at = "answer" => jobs[j].tenant # None
      BY DEF SettingsInv, JobsInv
    <2>7. NoneLost' /\ card'.done =>
            card'.tenant # None /\ tenants'[card'.tenant].contract = card'.recorded
      BY <1>1, <1>8, <2>1, <2>2, <2>3, <2>5, <2>6
    <2>8. DoneIsRecorded'
      BY <2>7 DEF DoneIsRecorded, NoneLost
    <2>9. ASSUME NoneLost', NEW i \in DOMAIN jobs', Mine(i)', jobs'[i].kind # "sign"
          PROVE  /\ card'.busy /\ ~card'.done
                 /\ \A k \in DOMAIN jobs' : Mine(k)' /\ jobs'[k].kind # "sign" => k = i
                 /\ jobs'[i].kind = "record" =>
                      /\ jobs'[i].tenant = card'.tenant
                      /\ jobs'[i].at = "answer" => tenants'[card'.tenant].contract = jobs'[i].registry
      <3>1. NoneLost /\ i \in DOMAIN jobs /\ Mine(i) /\ i # j /\ jobs'[i] = jobs[i]
        BY <1>9, <2>1, <2>9
      <3>2. ~Mine(j)
        BY <2>3, <2>9, <3>1
      <3>3. UNCHANGED card
        BY <1>8, <2>2, <3>2
      <3>4. \A k \in DOMAIN jobs' : Mine(k)' => k \in DOMAIN jobs /\ Mine(k) /\ jobs'[k] = jobs[k]
        BY <1>9
      <3> QED BY <1>1, <2>9, <3>1, <3>3, <3>4 DEF SettingsInv, RegistryCardInv
    <2> QED BY <2>4, <2>7, <2>8, <2>9 DEF RegistryCardInv
  <1>12. SettingsTypeOK'
    BY <1>1, <1>3, <1>8 DEF SettingsInv, SettingsTypeOK, OnlyJob, Job
  <1> QED BY <1>4, <1>5, <1>10, <1>11, <1>12 DEF SettingsInv

\* A connection that is lost: from now on the card promises no record.
LEMMA ConnectionLostStep ==
  ASSUME SettingsInv, NEW j \in DOMAIN jobs, ConnectionLost(j)
  PROVE  SettingsInv'
  <1>1. /\ UNCHANGED <<view, keyCard, tenants, signer>>
        /\ jobs[j].at \in {"tenant", "wallet", "contract", "answer"}
        /\ jobs' = [jobs EXCEPT ![j].lost = TRUE] /\ card' = [card EXCEPT !.busy = FALSE]
    BY DEF ConnectionLost, JobAt, BusyAfterError
  <1>2. /\ jobs[j] \in Job(DOMAIN tenants) /\ jobs \in Seq(Job(DOMAIN tenants))
        /\ jobs[j].kind # "sign" /\ jobs[j].tx = "none"
    BY <1>1, RouteJob, JobsList DEF SettingsInv
  <1> DEFINE r == [jobs[j] EXCEPT !.lost = TRUE]
  <1>3. /\ r \in Job(DOMAIN tenants')
        /\ r.kind = jobs[j].kind /\ r.mount = jobs[j].mount /\ r.lost /\ r.at = jobs[j].at
        /\ r.tenant = jobs[j].tenant /\ r.tx = "none"
    BY <1>1, <1>2 DEF Job
  <1>4. jobs' = [jobs EXCEPT ![j] = r]
    BY <1>1, <1>2
  <1> HIDE DEF r
  <1>5. OnlyJob(j) /\ jobs'[j] = r
    BY <1>1, <1>3, <1>4, JobSet DEF SettingsInv
  <1>6. KeyCardInv' /\ SignerInv'
    BY <1>1, <1>2, <1>3, <1>5, RouteFrame
  <1>7. JobsInv'
    <2>1. /\ jobs[j].at \in StopsOf(jobs[j].kind)
          /\ (jobs[j].at \in {"wallet", "contract", "answer"}) <=> (jobs[j].tenant # None)
          /\ jobs[j].kind = "create" /\ jobs[j].at = "answer" => tenants[jobs[j].tenant].wallet
      BY DEF SettingsInv, JobsInv
    <2> QED BY <1>1, <1>2, <1>3, <1>5, <2>1, RouteJobs
  <1>8. /\ card' \in [busy: BOOLEAN, tenant: DOMAIN tenants \cup {None}, done: BOOLEAN,
                      contract: RegistryId \cup {None}, recorded: RegistryId \cup {None}]
        /\ card'.tenant = card.tenant
    BY <1>1 DEF SettingsInv, SettingsTypeOK
  <1>9. OwnersInv'
    <2>1. \A i \in DOMAIN jobs' : /\ i \in DOMAIN jobs /\ jobs'[i].tenant = jobs[i].tenant
                                  /\ jobs'[i].mount = jobs[i].mount
      BY <1>3, <1>5 DEF OnlyJob
    <2> QED BY <1>1, <1>8, <2>1 DEF SettingsInv, OwnersInv
  <1>10. RegistryCardInv'
    <2>1. ~NoneLost' /\ ~(\A i \in DOMAIN jobs' : ~jobs'[i].lost)
      BY <1>3, <1>5 DEF NoneLost, OnlyJob
    <2> QED BY <1>1, <1>8, <2>1 DEF SettingsInv, RegistryCardInv, CardTenantIsOwned, DoneIsRecorded
  <1>11. SettingsTypeOK'
    BY <1>1, <1>5, <1>8 DEF SettingsInv, SettingsTypeOK, OnlyJob, Job
  <1> QED BY <1>6, <1>7, <1>9, <1>10, <1>11 DEF SettingsInv
-----------------------------------------------------------------------------
\* A request begins: it is the last of the list, of the mounted card.
IsNew(j, kind, stop, ten, r) ==
  /\ jobs' \in Seq(Job(DOMAIN tenants')) /\ j \notin DOMAIN jobs
  /\ DOMAIN jobs' = DOMAIN jobs \cup {j}
  /\ \A i \in DOMAIN jobs : jobs'[i] = jobs[i]
  /\ jobs'[j].kind = kind /\ jobs'[j].mount = view.mounts /\ ~jobs'[j].lost
  /\ jobs'[j].at = stop /\ jobs'[j].tenant = ten /\ jobs'[j].registry = r
  /\ jobs'[j].step = "session" /\ jobs'[j].tx = "none"

LEMMA StartsEffect ==
  ASSUME SettingsInv, view' = view, tenants' = tenants,
         NEW kind \in {"create", "record", "sign"}, NEW stop \in Stop,
         NEW ten \in DOMAIN tenants \cup {None}, NEW r \in RegistryId \cup {None},
         Starts(kind, stop, ten, r)
  PROVE  \E j : IsNew(j, kind, stop, ten, r)
  <1> DEFINE new == [kind |-> kind, mount |-> view.mounts, lost |-> FALSE, at |-> stop,
                     tenant |-> ten, registry |-> r, step |-> "session", tx |-> "none"]
  <1>1. view.mounts \in 0..MaxMounts
    BY DEF SettingsInv, SettingsTypeOK
  <1>2. /\ new \in Job(DOMAIN tenants')
        /\ new.kind = kind /\ new.mount = view.mounts /\ ~new.lost
        /\ new.at = stop /\ new.tenant = ten /\ new.registry = r
        /\ new.step = "session" /\ new.tx = "none"
    BY <1>1 DEF Job, StepNames
  <1>3. jobs' = Append(jobs, new)
    BY DEF Starts
  <1>4. jobs \in Seq(Job(DOMAIN tenants'))
    BY JobsList DEF SettingsInv
  <1> HIDE DEF new
  <1>5. /\ jobs' \in Seq(Job(DOMAIN tenants')) /\ Len(jobs) + 1 \notin DOMAIN jobs
        /\ DOMAIN jobs' = DOMAIN jobs \cup {Len(jobs) + 1}
        /\ \A i \in DOMAIN jobs : jobs'[i] = jobs[i]
        /\ jobs'[Len(jobs) + 1] = new
    BY <1>2, <1>3, <1>4
  <1>6. IsNew(Len(jobs) + 1, kind, stop, ten, r)
    BY <1>2, <1>5 DEF IsNew
  <1> QED BY <1>6

LEMMA createStep ==
  ASSUME SettingsInv, create \/ record
  PROVE  SettingsInv'
  <1>0. card \in [busy: BOOLEAN, tenant: DOMAIN tenants \cup {None}, done: BOOLEAN,
                  contract: RegistryId \cup {None}, recorded: RegistryId \cup {None}]
    BY DEF SettingsInv, SettingsTypeOK
  <1>1. PICK kind \in {"create", "record"}, stop \in Stop,
             ten \in DOMAIN tenants \cup {None}, r \in RegistryId \cup {None} :
          /\ Starts(kind, stop, ten, r) /\ ~card.busy /\ ten = card.tenant
          /\ card' = [card EXCEPT !.busy = TRUE]
          /\ UNCHANGED <<view, keyCard, tenants, signer>>
          /\ \/ kind = "create" /\ stop = "tenant" /\ ten = None
             \/ kind = "record" /\ stop = "contract" /\ ten # None /\ ~card.done
    <2>1. CASE create
      BY <2>1 DEF create, CreateEnabled, Stop
    <2>2. CASE record
      BY <1>0, <2>2 DEF record, RecordEnabled, Stop
    <2> QED BY <2>1, <2>2
  <1>11. PICK j : IsNew(j, kind, stop, ten, r)
    <2>1. view' = view /\ tenants' = tenants /\ Starts(kind, stop, ten, r)
      BY <1>1
    <2> QED BY <2>1, StartsEffect
  <1>2. /\ jobs' \in Seq(Job(DOMAIN tenants')) /\ j \notin DOMAIN jobs
        /\ DOMAIN jobs' = DOMAIN jobs \cup {j}
        /\ \A i \in DOMAIN jobs : jobs'[i] = jobs[i]
        /\ jobs'[j].kind = kind /\ jobs'[j].mount = view.mounts /\ ~jobs'[j].lost
        /\ jobs'[j].at = stop /\ jobs'[j].tenant = ten /\ jobs'[j].registry = r
        /\ jobs'[j].step = "session" /\ jobs'[j].tx = "none"
    BY <1>11 DEF IsNew
  <1>3. /\ card' \in [busy: BOOLEAN, tenant: DOMAIN tenants \cup {None}, done: BOOLEAN,
                      contract: RegistryId \cup {None}, recorded: RegistryId \cup {None}]
        /\ card'.busy /\ card'.tenant = card.tenant /\ card'.done = card.done
        /\ card'.recorded = card.recorded
    BY <1>0, <1>1
  <1>4. \A i \in DOMAIN jobs' : i # j => /\ i \in DOMAIN jobs /\ jobs'[i] = jobs[i]
                                         /\ Mine(i)' <=> Mine(i)
    BY <1>1, <1>2 DEF Mine, Live
  <1>5. JobsInv'
    <2>1. stop \in StopsOf(kind) /\ view.mounts <= view.mounts
      BY <1>1 DEF StopsOf, SettingsInv, SettingsTypeOK
    <2>2. ASSUME NEW i \in DOMAIN jobs
          PROVE  /\ jobs'[i].mount <= view'.mounts
                 /\ jobs'[i].at \in StopsOf(jobs'[i].kind)
                 /\ (jobs'[i].at \in {"wallet", "contract", "answer"}) <=> (jobs'[i].tenant # None)
                 /\ jobs'[i].kind = "create" /\ jobs'[i].at = "answer" => tenants'[jobs'[i].tenant].wallet
                 /\ jobs'[i].kind = "sign" =>
                      /\ jobs'[i].registry # None /\ ~jobs'[i].lost
                      /\ jobs'[i].step = StepOf(jobs'[i].at)
                 /\ jobs'[i].tx # "none" => jobs'[i].kind = "sign" /\ jobs'[i].at \in {"poll", "over"}
      BY <1>1, <1>2 DEF SettingsInv, JobsInv
    <2>3. /\ jobs'[j].mount <= view'.mounts
          /\ jobs'[j].at \in StopsOf(jobs'[j].kind)
          /\ (jobs'[j].at \in {"wallet", "contract", "answer"}) <=> (jobs'[j].tenant # None)
          /\ jobs'[j].kind # "sign" /\ jobs'[j].at # "answer" /\ jobs'[j].tx = "none"
      BY <1>1, <1>2, <2>1
    <2> QED BY <1>2, <2>2, <2>3 DEF JobsInv
  <1>6. OwnersInv'
    <2>1. \A i \in DOMAIN jobs : jobs[i].tenant # None /\ jobs[i].tenant = ten => jobs[i].mount = view.mounts
      BY <1>1 DEF SettingsInv, OwnersInv
    <2> QED BY <1>1, <1>2, <1>3, <2>1 DEF SettingsInv, OwnersInv
  <1>7. RegistryCardInv'
    <2>1. NoneLost' => NoneLost
      BY <1>2 DEF NoneLost
    <2>2. CardTenantIsOwned'
      BY <1>1, <1>3 DEF SettingsInv, RegistryCardInv, CardTenantIsOwned
    <2>3. NoneLost /\ card.done =>
            card.tenant # None /\ tenants[card.tenant].contract = card.recorded
      BY DEF SettingsInv, RegistryCardInv, DoneIsRecorded, NoneLost
    <2>4. DoneIsRecorded' /\ (NoneLost' /\ card'.done => card'.tenant # None)
      BY <1>1, <1>3, <2>1, <2>3 DEF DoneIsRecorded, NoneLost
    <2>5. ASSUME NoneLost', NEW i \in DOMAIN jobs', Mine(i)', jobs'[i].kind # "sign"
          PROVE  i = j
      BY <1>1, <1>4, <2>1, <2>5 DEF SettingsInv, RegistryCardInv
    <2>6. NoneLost' => ~card'.done
      BY <1>1, <1>3, <2>1, <2>3
    <2>7. jobs'[j].kind = "record" => jobs'[j].tenant = card'.tenant /\ jobs'[j].at # "answer"
      BY <1>1, <1>2, <1>3
    <2> QED BY <1>3, <2>2, <2>4, <2>5, <2>6, <2>7 DEF RegistryCardInv
  <1>8. KeyCardInv'
    <2>1. \A i \in DOMAIN jobs' : Mine(i)' /\ jobs'[i].kind = "sign" =>
            i \in DOMAIN jobs /\ Mine(i) /\ jobs'[i] = jobs[i]
      BY <1>1, <1>2, <1>4
    <2>2. \A i \in DOMAIN jobs : Mine(i) => i \in DOMAIN jobs' /\ Mine(i)' /\ jobs'[i] = jobs[i]
      BY <1>2, <1>4
    <2>3. PhasesInOrder' <=> PhasesInOrder
      BY <1>1 DEF PhasesInOrder
    <2> QED BY <1>1, <2>1, <2>2, <2>3 DEF SettingsInv, KeyCardInv
  <1>9. SignerInv'
    <2>1. keyCard.tx \in DOMAIN jobs \cup {None}
      BY DEF SettingsInv, SettingsTypeOK
    <2> QED BY <1>1, <1>2, <2>1 DEF SettingsInv, SignerInv
  <1>10. SettingsTypeOK'
    BY <1>1, <1>2, <1>3 DEF SettingsInv, SettingsTypeOK, Job
  <1> QED BY <1>5, <1>6, <1>7, <1>8, <1>9, <1>10 DEF SettingsInv

LEMMA runStep ==
  ASSUME SettingsInv, run
  PROVE  SettingsInv'
  <1>0. keyCard \in [registry: RegistryId \cup {None}, running: BOOLEAN,
                     status: [StepNames -> {"pending", "active", "done", "error"}],
                     notice: {"error", "info", None}, tx: DOMAIN jobs \cup {None}]
    BY DEF SettingsInv, SettingsTypeOK
  <1>1. /\ Starts("sign", "session", None, keyCard.registry)
        /\ keyCard.registry # None /\ ~keyCard.running
        /\ keyCard' = [keyCard EXCEPT !.notice = None, !.tx = None, !.running = TRUE,
                          !.status = [initialStatuses EXCEPT !["session"] = "active"]]
        /\ UNCHANGED <<view, card, tenants, signer>>
    BY DEF run, canRun
  <1>12. PICK j : IsNew(j, "sign", "session", None, keyCard.registry)
    <2>1. keyCard.registry \in RegistryId \cup {None} /\ "session" \in Stop
      BY <1>0 DEF Stop
    <2>2. view' = view /\ tenants' = tenants /\ Starts("sign", "session", None, keyCard.registry)
      BY <1>1
    <2> QED BY <2>1, <2>2, StartsEffect
  <1>2. /\ jobs' \in Seq(Job(DOMAIN tenants')) /\ j \notin DOMAIN jobs
        /\ DOMAIN jobs' = DOMAIN jobs \cup {j}
        /\ \A i \in DOMAIN jobs : jobs'[i] = jobs[i]
        /\ jobs'[j].kind = "sign" /\ jobs'[j].mount = view.mounts /\ ~jobs'[j].lost
        /\ jobs'[j].at = "session" /\ jobs'[j].tenant = None
        /\ jobs'[j].registry = keyCard.registry
        /\ jobs'[j].step = "session" /\ jobs'[j].tx = "none"
    BY <1>12 DEF IsNew
  <1> DEFINE new == [initialStatuses EXCEPT !["session"] = "active"]
  <1>3. /\ new \in [StepNames -> {"pending", "active", "done", "error"}]
        /\ Shows(new, "session")
    BY DEF initialStatuses, StepNames, Shows
  <1>4. /\ keyCard' \in [registry: RegistryId \cup {None}, running: BOOLEAN,
                         status: [StepNames -> {"pending", "active", "done", "error"}],
                         notice: {"error", "info", None}, tx: DOMAIN jobs \cup {None}]
        /\ keyCard'.running /\ keyCard'.status = new /\ keyCard'.notice = None
        /\ keyCard'.tx = None
    <2> HIDE DEF new
    <2> QED BY <1>0, <1>1, <1>3 DEF new
  <1> HIDE DEF new
  <1>5. \A i \in DOMAIN jobs' : i # j => /\ i \in DOMAIN jobs /\ jobs'[i] = jobs[i]
                                         /\ Mine(i)' <=> Mine(i)
    BY <1>1, <1>2 DEF Mine, Live
  <1>6. JobsInv'
    <2>1. "session" \in StopsOf("sign") /\ StepOf("session") = "session" /\ view.mounts <= view.mounts
      BY DEF StopsOf, StepOf, SettingsInv, SettingsTypeOK
    <2>2. ASSUME NEW i \in DOMAIN jobs
          PROVE  /\ jobs'[i].mount <= view'.mounts
                 /\ jobs'[i].at \in StopsOf(jobs'[i].kind)
                 /\ (jobs'[i].at \in {"wallet", "contract", "answer"}) <=> (jobs'[i].tenant # None)
                 /\ jobs'[i].kind = "create" /\ jobs'[i].at = "answer" => tenants'[jobs'[i].tenant].wallet
                 /\ jobs'[i].kind = "sign" =>
                      /\ jobs'[i].registry # None /\ ~jobs'[i].lost
                      /\ jobs'[i].step = StepOf(jobs'[i].at)
                 /\ jobs'[i].tx # "none" => jobs'[i].kind = "sign" /\ jobs'[i].at \in {"poll", "over"}
      BY <1>1, <1>2 DEF SettingsInv, JobsInv
    <2>3. /\ jobs'[j].mount <= view'.mounts
          /\ jobs'[j].at \in StopsOf(jobs'[j].kind)
          /\ (jobs'[j].at \in {"wallet", "contract", "answer"}) <=> (jobs'[j].tenant # None)
          /\ jobs'[j].kind = "sign" /\ jobs'[j].registry # None /\ ~jobs'[j].lost
          /\ jobs'[j].step = StepOf(jobs'[j].at) /\ jobs'[j].tx = "none"
      BY <1>1, <1>2, <2>1
    <2> QED BY <1>2, <2>2, <2>3 DEF JobsInv
  <1>7. OwnersInv'
    BY <1>1, <1>2 DEF SettingsInv, OwnersInv
  <1>8. RegistryCardInv'
    <2>1. NoneLost' <=> NoneLost
      BY <1>2 DEF NoneLost
    <2>2. DoneIsRecorded'
      BY <1>1, <2>1 DEF SettingsInv, RegistryCardInv, DoneIsRecorded, NoneLost
    <2>3. \A i \in DOMAIN jobs' : Mine(i)' /\ jobs'[i].kind # "sign" =>
            i \in DOMAIN jobs /\ Mine(i) /\ jobs'[i] = jobs[i]
      BY <1>2, <1>5
    <2> QED BY <1>1, <2>1, <2>2, <2>3 DEF SettingsInv, RegistryCardInv, CardTenantIsOwned
  <1>9. KeyCardInv'
    <2>1. \A i \in DOMAIN jobs' : Mine(i)' /\ jobs'[i].kind = "sign" => i = j
      BY <1>1, <1>5 DEF SettingsInv, KeyCardInv
    <2>2. Mine(j)' /\ j \in DOMAIN jobs'
      BY <1>1, <1>2 DEF Mine, Live
    <2> QED BY <1>2, <1>3, <1>4, <2>1, <2>2 DEF KeyCardInv
  <1>10. SignerInv'
    <2>1. None # "info"
      BY SettingsAssumption
    <2> QED BY <1>1, <1>2, <1>4, <2>1 DEF SettingsInv, SignerInv
  <1>11. SettingsTypeOK'
    BY <1>1, <1>2, <1>4 DEF SettingsInv, SettingsTypeOK, Job
  <1> QED BY <1>6, <1>7, <1>8, <1>9, <1>10, <1>11 DEF SettingsInv
-----------------------------------------------------------------------------
\* A card that is mounted afresh has no request, whatever is still in flight.
LEMMA setTabStep ==
  ASSUME SettingsInv, NEW t \in {"registry", "publishing", "other"}, setTab(t)
  PROVE  SettingsInv'
  <1>1. /\ view' = [tab |-> t, mounts |-> view.mounts + 1] /\ view.mounts < MaxMounts
        /\ card' = FreshCard /\ keyCard' = FreshKeyCard
        /\ UNCHANGED <<jobs, tenants, signer>>
    BY DEF setTab
  <1>2. /\ view.mounts \in 0..MaxMounts /\ view'.mounts = view.mounts + 1
        /\ view' \in [tab: {"registry", "publishing", "other"}, mounts: 0..MaxMounts]
    BY <1>1, SettingsAssumption DEF SettingsInv, SettingsTypeOK
  <1>3. \A j \in DOMAIN jobs : /\ jobs[j].mount \in Nat /\ jobs[j].mount < view'.mounts
                               /\ ~Mine(j)'
    BY <1>1, <1>2, JobsList DEF SettingsInv, JobsInv, Mine, Job
  <1>4. /\ keyCard' \in [registry: RegistryId \cup {None}, running: BOOLEAN,
                         status: [StepNames -> {"pending", "active", "done", "error"}],
                         notice: {"error", "info", None}, tx: DOMAIN jobs \cup {None}]
        /\ keyCard'.running = FALSE /\ keyCard'.status = initialStatuses
        /\ keyCard'.notice = None /\ keyCard'.tx = None
        /\ \A x \in {"session", "simulate", "sign", "submit"} :
             x \in StepNames /\ initialStatuses[x] = "pending"
        /\ \A x \in StepNames : initialStatuses[x] = "pending"
    BY <1>1 DEF FreshKeyCard, initialStatuses, StepNames
  <1>5. /\ card' \in [busy: BOOLEAN, tenant: DOMAIN tenants \cup {None}, done: BOOLEAN,
                      contract: RegistryId \cup {None}, recorded: RegistryId \cup {None}]
        /\ card'.tenant = None /\ card'.done = FALSE
    BY <1>1 DEF FreshCard
  <1>6. JobsInv'
    BY <1>1, <1>2, <1>3 DEF SettingsInv, JobsInv
  <1>7. OwnersInv'
    BY <1>1, <1>5 DEF SettingsInv, OwnersInv
  <1>8. RegistryCardInv'
    BY <1>1, <1>3, <1>5 DEF RegistryCardInv, CardTenantIsOwned, DoneIsRecorded
  <1>9. KeyCardInv'
    <2>1. \A i, k \in DOMAIN StepIds :
            i < k /\ initialStatuses[StepIds[k]] # "pending" => initialStatuses[StepIds[i]] = "done"
      BY <1>4, InOrder
    <2>2. PhasesInOrder'
      BY <1>4, <2>1 DEF PhasesInOrder, StepIds
    <2> QED BY <1>1, <1>3, <1>4, <2>2 DEF KeyCardInv
  <1>10. SignerInv'
    <2>1. None # "info"
      BY SettingsAssumption
    <2> QED BY <1>1, <1>4, <2>1 DEF SettingsInv, SignerInv
  <1>11. SettingsTypeOK'
    BY <1>1, <1>2, <1>4, <1>5 DEF SettingsInv, SettingsTypeOK
  <1> QED BY <1>6, <1>7, <1>8, <1>9, <1>10, <1>11 DEF SettingsInv

\* What the operator types changes neither what is shown nor what is in flight.
LEMMA inputStep ==
  ASSUME SettingsInv, NEW r \in RegistryId, setContractId(r) \/ setRegistry(r)
  PROVE  SettingsInv'
  <1>1. /\ UNCHANGED <<view, jobs, tenants, signer>>
        /\ card' = [card EXCEPT !.contract = r] \/ UNCHANGED card
        /\ keyCard' = [keyCard EXCEPT !.registry = r] \/ UNCHANGED keyCard
    BY DEF setContractId, setRegistry
  <1>2. /\ card' \in [busy: BOOLEAN, tenant: DOMAIN tenants \cup {None}, done: BOOLEAN,
                      contract: RegistryId \cup {None}, recorded: RegistryId \cup {None}]
        /\ card'.busy = card.busy /\ card'.tenant = card.tenant /\ card'.done = card.done
        /\ card'.recorded = card.recorded
    BY <1>1 DEF SettingsInv, SettingsTypeOK
  <1>3. /\ keyCard' \in [registry: RegistryId \cup {None}, running: BOOLEAN,
                         status: [StepNames -> {"pending", "active", "done", "error"}],
                         notice: {"error", "info", None}, tx: DOMAIN jobs \cup {None}]
        /\ keyCard'.running = keyCard.running /\ keyCard'.status = keyCard.status
        /\ keyCard'.notice = keyCard.notice /\ keyCard'.tx = keyCard.tx
    BY <1>1 DEF SettingsInv, SettingsTypeOK
  <1>4. JobsInv' /\ OwnersInv'
    BY <1>1, <1>2 DEF SettingsInv, JobsInv, OwnersInv
  <1>5. \A j \in DOMAIN jobs' : (Mine(j)' <=> Mine(j)) /\ jobs'[j] = jobs[j]
    BY <1>1 DEF Mine, Live
  <1>6. RegistryCardInv'
    BY <1>1, <1>2, <1>5 DEF SettingsInv, RegistryCardInv, CardTenantIsOwned, DoneIsRecorded, NoneLost
  <1>7. KeyCardInv'
    <2>1. PhasesInOrder' <=> PhasesInOrder
      BY <1>3 DEF PhasesInOrder
    <2> QED BY <1>1, <1>3, <1>5, <2>1 DEF SettingsInv, KeyCardInv
  <1>8. SignerInv'
    BY <1>1, <1>3 DEF SettingsInv, SignerInv
  <1>9. SettingsTypeOK'
    BY <1>1, <1>2, <1>3 DEF SettingsInv, SettingsTypeOK
  <1> QED BY <1>4, <1>6, <1>7, <1>8, <1>9 DEF SettingsInv
-----------------------------------------------------------------------------
LEMMA SettingsStarts == SettingsInit => SettingsInv
  <1> SUFFICES ASSUME SettingsInit PROVE SettingsInv
    OBVIOUS
  <1>1. /\ view = [tab |-> "other", mounts |-> 0] /\ card = FreshCard /\ keyCard = FreshKeyCard
        /\ jobs = << >> /\ tenants = << >> /\ signer = None /\ 0 \in 0..MaxMounts
    BY SettingsAssumption DEF SettingsInit
  <1>2. DOMAIN jobs = {} /\ DOMAIN tenants = {}
    BY <1>1
  <1>3. /\ keyCard \in [registry: RegistryId \cup {None}, running: BOOLEAN,
                        status: [StepNames -> {"pending", "active", "done", "error"}],
                        notice: {"error", "info", None}, tx: DOMAIN jobs \cup {None}]
        /\ keyCard.running = FALSE /\ keyCard.status = initialStatuses
        /\ keyCard.notice = None /\ keyCard.tx = None
        /\ \A x \in {"session", "simulate", "sign", "submit"} : initialStatuses[x] = "pending"
        /\ \A x \in StepNames : initialStatuses[x] = "pending"
    BY <1>1 DEF FreshKeyCard, initialStatuses, StepNames
  <1>4. /\ card \in [busy: BOOLEAN, tenant: DOMAIN tenants \cup {None}, done: BOOLEAN,
                     contract: RegistryId \cup {None}, recorded: RegistryId \cup {None}]
        /\ card.tenant = None /\ card.done = FALSE
    BY <1>1 DEF FreshCard
  <1>5. SettingsTypeOK
    BY <1>1, <1>3, <1>4 DEF SettingsTypeOK
  <1>6. JobsInv /\ OwnersInv
    BY <1>2 DEF JobsInv, OwnersInv
  <1>7. RegistryCardInv
    BY <1>2, <1>4 DEF RegistryCardInv, CardTenantIsOwned, DoneIsRecorded
  <1>8. KeyCardInv
    <2>1. \A i, k \in DOMAIN StepIds :
            i < k /\ initialStatuses[StepIds[k]] # "pending" => initialStatuses[StepIds[i]] = "done"
      BY <1>3, InOrder
    <2>2. PhasesInOrder
      BY <1>3, <2>1 DEF PhasesInOrder, StepIds
    <2> QED BY <1>2, <1>3, <2>2 DEF KeyCardInv
  <1>9. SignerInv
    <2>1. None # "info"
      BY SettingsAssumption
    <2> QED BY <1>2, <1>3, <2>1 DEF SignerInv
  <1> QED BY <1>5, <1>6, <1>7, <1>8, <1>9 DEF SettingsInv

\* A step of the cards, of a request or of the network keeps what the cards hold.
LEMMA SettingsInvStep == SettingsInv /\ [SettingsNext]_settingsVars => SettingsInv'
  <1> SUFFICES ASSUME SettingsInv, [SettingsNext]_settingsVars PROVE SettingsInv'
    OBVIOUS
  <1>1. CASE \E t \in {"registry", "publishing", "other"} : setTab(t)
    BY <1>1, setTabStep
  <1>2. CASE \E r \in RegistryId : setContractId(r) \/ setRegistry(r)
    BY <1>2, inputStep
  <1>3. CASE create \/ record
    BY <1>3, createStep
  <1>4. CASE run
    BY <1>4, runStep
  <1>5. ASSUME NEW j \in DOMAIN jobs, JobStep(j) \/ ConnectionLost(j) \/ Executed(j) \/ Rejected(j)
        PROVE  SettingsInv'
    <2>1. CASE createTenant(j)
      BY <2>1, createTenantStep
    <2>2. CASE setTenantWallet(j) \/ setTenantContract(j)
      BY <2>2, setTenantStep
    <2>3. CASE Answered(j) \/ RouteFails(j)
      BY <2>3, AnsweredStep
    <2>4. CASE ConnectionLost(j)
      BY <2>4, ConnectionLostStep
    <2>5. CASE GotSession(j) \/ Built(j) \/ Simulated(j) \/ Signed(j) \/ Sent(j)
      BY <2>5, RunGoesOn
    <2>6. CASE AlreadyExists(j) \/ Settles(j) \/ RunFails(j)
      BY <2>6, RunEnds
    <2>7. CASE Executed(j) \/ Rejected(j)
      BY <2>7, NetworkRuns
    <2> QED BY <1>5, <2>1, <2>2, <2>3, <2>4, <2>5, <2>6, <2>7 DEF JobStep
  <1>6. CASE UNCHANGED settingsVars
    <2>1. UNCHANGED <<view, card, keyCard, jobs, tenants, signer>>
      BY <1>6 DEF settingsVars
    <2>2. SettingsTypeOK' /\ JobsInv' /\ OwnersInv' /\ SignerInv'
      BY <2>1 DEF SettingsInv, SettingsTypeOK, JobsInv, OwnersInv, SignerInv
    <2>3. RegistryCardInv'
      BY <2>1 DEF SettingsInv, RegistryCardInv, CardTenantIsOwned, DoneIsRecorded, NoneLost,
                  Mine, Live
    <2>4. KeyCardInv'
      BY <2>1 DEF SettingsInv, KeyCardInv, PhasesInOrder, Mine, Live
    <2> QED BY <2>2, <2>3, <2>4 DEF SettingsInv
  <1> QED BY <1>1, <1>2, <1>3, <1>4, <1>5, <1>6 DEF SettingsNext

\* Of any number of requests, of any mounts: what each carries, that its tenant is its own,
\* and what the mounted cards show of theirs.
THEOREM SettingsInvariant == SettingsSpec => []SettingsInv
  BY SettingsStarts, SettingsInvStep, PTL DEF SettingsSpec

\* From the invariant: what the cards say is so.
LEMMA SettingsGives == SettingsInv => CardsAreTrue
  <1> SUFFICES ASSUME SettingsInv PROVE CardsAreTrue
    OBVIOUS
  <1>1. CardTenantIsOwned /\ DoneIsRecorded
    BY DEF SettingsInv, RegistryCardInv
  <1>2. PhasesInOrder
    <2>1. CASE ~keyCard.running
      BY <2>1 DEF SettingsInv, KeyCardInv
    <2>2. CASE keyCard.running
      <3>1. PICK j \in DOMAIN jobs : Shows(keyCard.status, jobs[j].at)
        BY <2>2 DEF SettingsInv, KeyCardInv
      <3> DEFINE status == keyCard.status
      <3>2. /\ status["simulate"] # "pending" => status["session"] = "done"
            /\ status["sign"] # "pending" =>
                 status["session"] = "done" /\ status["simulate"] = "done"
            /\ status["submit"] # "pending" =>
                 status["session"] = "done" /\ status["simulate"] = "done" /\ status["sign"] = "done"
        BY <3>1 DEF Shows
      <3>3. \A i, k \in DOMAIN StepIds :
              i < k /\ status[StepIds[k]] # "pending" => status[StepIds[i]] = "done"
        <4> HIDE DEF status
        <4> QED BY <3>2, InOrder
      <3> QED BY <2>2, <3>3 DEF PhasesInOrder
    <2> QED BY <2>1, <2>2
  <1>3. ReportedIsOnChain
    <2>1. keyCard.tx \in DOMAIN jobs \cup {None}
      BY DEF SettingsInv, SettingsTypeOK
    <2> QED BY <2>1 DEF SettingsInv, SignerInv, ReportedIsOnChain
  <1> QED BY <1>1, <1>2, <1>3 DEF CardsAreTrue

\* What the two cards of the settings say is so on the server and on the ledger, whatever
\* requests of an earlier mount are in flight, are lost, or land late (provisioning-card.tsx,
\* publishing-key-card.tsx, api/provision/route.ts, lib/passkey/signer.ts).
THEOREM CardsAreTrueAlways == SettingsSpec => []CardsAreTrue
  BY SettingsGives, SettingsInvariant, PTL
-----------------------------------------------------------------------------
(* The dashboard.                                                          *)

\* A cycle is in flight exactly while the button waits, and it is of the newest one.
RunsInv == runs = IF running THEN <<Head(cycles)>> ELSE << >>

DashInv == DashTypeOK /\ RunsInv /\ DashboardLosesNothing

Cycle == [proofId: Nat, reserves: Nat, liabilities: Nat]
Connect == [label: Label, left: Nat, seen: Seq(Label)]
labels(calls) == [i \in DOMAIN calls |-> calls[i].label]

LEMMA LabelsType ==
  ASSUME NEW calls \in Seq(Connect)
  PROVE  /\ labels(calls) \in Seq(Label) /\ Len(labels(calls)) = Len(calls)
         /\ \A i \in 1..Len(calls) : labels(calls)[i] = calls[i].label
  <1>1. Len(calls) \in Nat /\ DOMAIN calls = 1..Len(calls)
        /\ \A i \in 1..Len(calls) : calls[i].label \in Label
    <2>1. Len(calls) \in Nat /\ DOMAIN calls = 1..Len(calls) /\ \A i \in 1..Len(calls) : calls[i] \in Connect
      BY ElementOfSeq
    <2> QED BY <2>1 DEF Connect
  <1>2. labels(calls) \in [1..Len(calls) -> Label]
    BY <1>1 DEF labels
  <1> QED BY <1>1, <1>2 DEF labels

LEMMA LabelsOfMore ==
  ASSUME NEW calls \in Seq(Connect), NEW call \in Connect
  PROVE  labels(Append(calls, call)) = Append(labels(calls), call.label)
  <1> DEFINE more == Append(calls, call)
             s == labels(more)
             t == Append(labels(calls), call.label)
  <1>1. /\ more \in Seq(Connect) /\ Len(more) = Len(calls) + 1 /\ more[Len(calls) + 1] = call
        /\ Len(calls) \in Nat /\ \A i \in 1..Len(calls) : more[i] = calls[i]
    BY AppendProperties
  <1>2. /\ s \in Seq(Label) /\ Len(s) = Len(calls) + 1
        /\ \A i \in 1..(Len(calls) + 1) : s[i] = more[i].label
    <2> HIDE DEF more
    <2> QED BY <1>1, LabelsType
  <1>3. labels(calls) \in Seq(Label) /\ call.label \in Label
    BY LabelsType DEF Connect
  <1>4. /\ t \in Seq(Label) /\ Len(t) = Len(calls) + 1 /\ t[Len(calls) + 1] = call.label
        /\ \A i \in 1..Len(calls) : t[i] = calls[i].label
    BY <1>3, LabelsType, AppendProperties
  <1> HIDE DEF s, t, more
  <1>5. \A i \in 1..Len(s) : s[i] = t[i]
    BY SMTT(30), <1>1, <1>2, <1>4
  <1>6. s = t
    BY <1>2, <1>4, <1>5, SeqEqual
  <1> QED BY <1>6 DEF s, t, more

LEMMA LabelsOfRest ==
  ASSUME NEW calls \in Seq(Connect), calls # << >>
  PROVE  /\ labels(calls) # << >> /\ Head(labels(calls)) = Head(calls).label
         /\ Tail(labels(calls)) = labels(Tail(calls))
  <1> DEFINE rest == Tail(calls)
             all == labels(calls)
             s == labels(rest)
             t == Tail(all)
  <1>1. /\ Len(calls) \in Nat \ {0} /\ Head(calls) = calls[1]
        /\ rest \in Seq(Connect) /\ Len(rest) = Len(calls) - 1
        /\ \A i \in 1..Len(rest) : rest[i] = calls[i + 1]
    BY EmptySeq, HeadTailProperties
  <1>2. /\ all \in Seq(Label) /\ Len(all) = Len(calls)
        /\ \A i \in 1..Len(calls) : all[i] = calls[i].label
    BY LabelsType
  <1>3. /\ s \in Seq(Label) /\ Len(s) = Len(rest)
        /\ \A i \in 1..Len(rest) : s[i] = rest[i].label
    <2> HIDE DEF rest
    <2> QED BY <1>1, LabelsType
  <1> HIDE DEF all, rest
  <1>4. all # << >> /\ Head(all) = all[1]
    BY <1>1, <1>2, EmptySeq
  <1>5. /\ t \in Seq(Label) /\ Len(t) = Len(all) - 1
        /\ \A i \in 1..Len(t) : t[i] = all[i + 1]
    BY <1>2, <1>4, HeadTailProperties
  <1> HIDE DEF s, t
  <1>6. ASSUME NEW i \in 1..Len(s) PROVE s[i] = t[i]
    <2>1. i \in 1..Len(rest) /\ i \in 1..Len(t) /\ i + 1 \in 1..Len(calls)
      BY <1>1, <1>2, <1>3, <1>5
    <2>2. s[i] = rest[i].label /\ rest[i] = calls[i + 1] /\ t[i] = all[i + 1]
      BY <1>1, <1>3, <1>5, <2>1
    <2>3. all[i + 1] = calls[i + 1].label
      BY <1>2, <2>1
    <2> QED BY <2>2, <2>3
  <1>7. s = t
    BY <1>1, <1>2, <1>3, <1>5, <1>6, SeqEqual
  <1>8. Head(all) = Head(calls).label
    BY <1>1, <1>2, <1>4
  <1> QED BY <1>4, <1>7, <1>8 DEF s, t, all, rest

\* A call that begins is confirmed last; one that returns is shown after the ones before it.
LEMMA CallBegins ==
  ASSUME NEW shown \in Seq(Label), NEW calls \in Seq(Connect), NEW call \in Connect
  PROVE  Append(shown \o labels(calls), call.label) = shown \o labels(Append(calls, call))
  <1>1. labels(calls) \in Seq(Label) /\ call.label \in Label
    BY LabelsType DEF Connect
  <1> DEFINE l == labels(calls)
             e == call.label
  <1>2. labels(Append(calls, call)) = Append(l, e)
    BY LabelsOfMore
  <1> HIDE DEF l, e
  <1>3. l \in Seq(Label) /\ e \in Label /\ <<e>> \in Seq(Label) /\ shown \o l \in Seq(Label)
    BY <1>1, ConcatProperties DEF l, e
  <1>4. Append(shown \o l, e) = (shown \o l) \o <<e>> /\ Append(l, e) = l \o <<e>>
    BY <1>3, AppendIsConcat
  <1>5. (shown \o l) \o <<e>> = shown \o (l \o <<e>>)
    BY <1>3, ConcatAssociative
  <1> QED BY <1>2, <1>4, <1>5 DEF l, e

LEMMA CallReturns ==
  ASSUME NEW shown \in Seq(Label), NEW calls \in Seq(Connect), calls # << >>
  PROVE  shown \o labels(calls) = Append(shown, Head(calls).label) \o labels(Tail(calls))
  <1> DEFINE l == labels(calls)
             e == l[1]
             rest == Tail(l)
  <1>1. l \in Seq(Label) /\ l # << >> /\ Head(l) = Head(calls).label /\ rest = labels(Tail(calls))
    BY LabelsType, LabelsOfRest
  <1> HIDE DEF l
  <1>2. /\ Len(l) \in Nat \ {0} /\ Head(l) = e /\ e \in Label /\ <<e>> \in Seq(Label)
        /\ rest \in Seq(Label)
    BY <1>1, EmptySeq, HeadTailProperties
  <1>3. l = <<e>> \o rest
    <2>1. 1 \in 1..Len(l) /\ Len(l) \in 1..Len(l)
      BY <1>2
    <2>2. SubSeq(l, 1, Len(l)) = <<l[1]>> \o SubSeq(l, 1 + 1, Len(l))
      BY <1>1, <2>1, SubSeqRecursiveFirst
    <2>3. SubSeq(l, 1, Len(l)) = l /\ rest = SubSeq(l, 2, Len(l)) /\ 1 + 1 = 2
      BY <1>1, SubSeqFull, TailIsSubSeq
    <2> QED BY <2>2, <2>3
  <1> HIDE DEF e, rest
  <1>4. shown \o (<<e>> \o rest) = (shown \o <<e>>) \o rest
    BY SMTT(30), <1>2, ConcatAssociative
  <1>5. shown \o <<e>> = Append(shown, e)
    BY <1>2, AppendIsConcat
  <1>6. shown \o l = Append(shown, e) \o rest
    BY <1>3, <1>4, <1>5
  <1>7. e = Head(calls).label /\ rest = labels(Tail(calls))
    BY <1>1, <1>2
  <1> QED BY <1>6, <1>7 DEF l
-----------------------------------------------------------------------------
LEMMA DashTypes ==
  ASSUME DashTypeOK
  PROVE  /\ cycles \in Seq(Cycle) /\ Len(cycles) \in Nat \ {0} /\ Head(cycles) = cycles[1]
         /\ Head(cycles) \in Cycle /\ Head(cycles) \in Range(cycles)
         /\ sources \in Seq(Label) /\ confirmed \in Seq(Label) /\ connects \in Seq(Connect)
  <1>1. cycles \in Seq(Cycle) /\ cycles # << >>
    BY DEF DashTypeOK, Cycle
  <1>2. Len(cycles) \in Nat \ {0} /\ Head(cycles) = cycles[1] /\ Head(cycles) \in Cycle
        /\ 1 \in DOMAIN cycles
    BY <1>1, EmptySeq, HeadTailProperties
  <1> QED BY <1>1, <1>2 DEF DashTypeOK, Connect, Range

\* A cycle returns before the next is begun, so it continues the newest.
LEMMA CycleReturnsStep ==
  ASSUME DashInv, CycleReturns
  PROVE  DashInv'
  <1> DEFINE new == NextRecord(Head(cycles))
             one == <<new>>
  <1>1. /\ running /\ runs = <<Head(cycles)>>
        /\ cycles' = <<new>> \o cycles /\ running' = FALSE /\ runs' = << >>
        /\ UNCHANGED <<section, sources, dialog, connects, confirmed>>
    BY DEF DashInv, RunsInv, CycleReturns, RunningAfter
  <1>2. new \in Cycle /\ new.proofId = Head(cycles).proofId + 1
    <2> DEFINE newest == Head(cycles)
    <2>1. newest \in Cycle
      BY DashTypes DEF DashInv
    <2> HIDE DEF newest
    <2>2. NextRecord(newest) \in Cycle /\ NextRecord(newest).proofId = newest.proofId + 1
      BY <2>1 DEF NextRecord, Cycle
    <2> QED BY <2>2 DEF newest
  <1> HIDE DEF new
  <1>3. one \in Seq(Cycle) /\ Len(one) = 1 /\ one[1] = new
    BY <1>2
  <1> HIDE DEF one
  <1>4. /\ cycles' \in Seq(Cycle) /\ Len(cycles') = Len(cycles) + 1 /\ cycles'[1] = new
        /\ \A i \in 1..Len(cycles) : cycles'[i + 1] = cycles[i]
    <2>1. cycles' = one \o cycles
      BY <1>1 DEF one
    <2>2. cycles \in Seq(Cycle) /\ Len(cycles) \in Nat \ {0}
      BY DashTypes DEF DashInv
    <2>3. /\ cycles' \in Seq(Cycle) /\ Len(cycles') = Len(one) + Len(cycles)
          /\ \A i \in 1..(Len(one) + Len(cycles)) :
               cycles'[i] = IF i <= Len(one) THEN one[i] ELSE cycles[i - Len(one)]
      BY <1>3, <2>1, <2>2, ConcatProperties
    <2>4. ASSUME NEW i \in 1..Len(cycles) PROVE cycles'[i + 1] = cycles[i]
      <3>1. i + 1 \in 1..(Len(one) + Len(cycles)) /\ ~(i + 1 <= Len(one)) /\ (i + 1) - Len(one) = i
        BY <1>3, <2>2
      <3> QED BY <2>3, <3>1
    <2>5. 1 \in 1..(Len(one) + Len(cycles)) /\ 1 <= Len(one)
      BY <1>3, <2>2
    <2> QED BY <1>3, <2>2, <2>3, <2>4, <2>5
  <1>5. CyclesNewestFirst'
    <2> SUFFICES ASSUME NEW i \in 1..(Len(cycles') - 1)
                 PROVE  /\ cycles'[i].proofId > cycles'[i + 1].proofId
                        /\ i <= Len(cycles') - Len(initialDashboard) =>
                             cycles'[i] = NextRecord(cycles'[i + 1])
      BY DEF CyclesNewestFirst
    <2>1. Len(cycles) \in Nat \ {0} /\ cycles[1] = Head(cycles) /\ cycles[1].proofId \in Nat
      BY DashTypes DEF DashInv, Cycle
    <2>2. CASE i = 1
      <3>1. cycles'[i] = new /\ cycles'[i + 1] = cycles[1]
        BY <1>4, <2>1, <2>2
      <3> QED BY <1>2, <2>1, <3>1 DEF new
    <2>3. CASE i # 1
      <3> DEFINE k == i - 1
      <3>1. k \in 1..(Len(cycles) - 1) /\ k \in 1..Len(cycles) /\ k + 1 \in 1..Len(cycles) /\ k + 1 = i
        BY <1>4, <2>1, <2>3
      <3>2. cycles'[i] = cycles[k] /\ cycles'[i + 1] = cycles[k + 1]
        BY <1>4, <3>1
      <3>3. Len(initialDashboard) = 4
        BY DEF initialDashboard
      <3>4. i <= Len(cycles') - 4 => k <= Len(cycles) - 4
        BY <1>4, <2>1, <3>1
      <3> HIDE DEF k
      <3>5. /\ cycles[k].proofId > cycles[k + 1].proofId
            /\ k <= Len(cycles) - Len(initialDashboard) => cycles[k] = NextRecord(cycles[k + 1])
        BY <3>1 DEF DashInv, DashboardLosesNothing, CyclesNewestFirst
      <3> QED BY <3>2, <3>3, <3>4, <3>5
    <2> QED BY <2>2, <2>3
  <1>6. SourcesAreConfirmed' /\ DialogIsConsistent'
    BY <1>1 DEF DashInv, DashboardLosesNothing, SourcesAreConfirmed, DialogIsConsistent, InDialog
  <1>7. DashTypeOK'
    <2>1. runs' \in Seq(Range(cycles'))
      BY <1>1
    <2>2. cycles' # << >>
      BY <1>4, DashTypes, EmptySeq DEF DashInv
    <2> QED BY <1>1, <1>4, <2>1, <2>2 DEF DashInv, DashTypeOK, Cycle
  <1>8. RunsInv'
    BY <1>1 DEF RunsInv
  <1> QED BY <1>5, <1>6, <1>7, <1>8 DEF DashInv, DashboardLosesNothing

LEMMA runCycleStep ==
  ASSUME DashInv, runCycle
  PROVE  DashInv'
  <1>1. /\ ~running /\ running' = TRUE /\ runs' = Append(runs, Head(cycles))
        /\ UNCHANGED <<section, cycles, sources, dialog, connects, confirmed>>
    BY DEF runCycle, RunEnabled
  <1>2. runs' = <<Head(cycles)>> /\ Head(cycles) \in Range(cycles)
    BY <1>1, DashTypes DEF DashInv, RunsInv
  <1>3. runs' \in Seq(Range(cycles))
    BY <1>2
  <1>4. RunsInv'
    BY <1>1, <1>2 DEF RunsInv
  <1>5. DashTypeOK'
    BY <1>1, <1>3 DEF DashInv, DashTypeOK
  <1>6. DashboardLosesNothing'
    BY <1>1 DEF DashInv, DashboardLosesNothing, CyclesNewestFirst, SourcesAreConfirmed,
                DialogIsConsistent, InDialog
  <1> QED BY <1>4, <1>5, <1>6 DEF DashInv

\* A step of the dialog that starts nothing.
LEMMA DialogSteps ==
  ASSUME DashInv,
         \/ openDialog \/ dismiss \/ choose("custodians") \/ choose("wallet")
         \/ \E c \in Custodian : pickCustodian(c)
         \/ back \/ \E w \in OwnWallet : enterWallet(w)
  PROVE  DashInv'
  <1> DEFINE Dialogs == [open: BOOLEAN, step: DialogStep, custodian: Custodian \cup {None},
                         wallet: OwnWallet \cup {None}, busy: BOOLEAN]
  <1>1. dialog \in Dialogs
    BY DEF DashInv, DashTypeOK
  <1>2. /\ ~dialog.open => dialog = FreshDialog
        /\ dialog.open /\ dialog.step = "consent" => dialog.custodian # None
    BY DEF DashInv, DashboardLosesNothing, DialogIsConsistent, InDialog
  <1>3. FreshDialog \in Dialogs /\ ~FreshDialog.open
    BY DEF FreshDialog, DialogStep
  <1> DEFINE Kept ==
        /\ UNCHANGED <<section, cycles, runs, running, sources, connects, confirmed>>
        /\ dialog' \in Dialogs
        /\ ~dialog'.open => dialog' = FreshDialog
        /\ dialog'.open /\ dialog'.step = "consent" => dialog'.custodian # None
  <1>4. Kept
    <2>1. CASE openDialog
      <3>1. dialog' = [dialog EXCEPT !.open = TRUE] /\ dialog = FreshDialog
        BY <1>2, <2>1 DEF openDialog, Dialog
      <3> QED BY <1>1, <2>1, <3>1 DEF openDialog, Dialog, FreshDialog
    <2>2. CASE dismiss
      BY <1>3, <2>2 DEF dismiss, Dialog, AfterDismiss
    <2>3. CASE choose("custodians") \/ choose("wallet")
      BY <1>1, <2>3 DEF choose, Dialog, DialogStep, InDialog
    <2>4. ASSUME NEW c \in Custodian, pickCustodian(c)
          PROVE  Kept
      BY <1>1, <2>4, DashboardAssumption DEF pickCustodian, Dialog, DialogStep, InDialog
    <2>5. CASE back
      BY <1>1, <2>5 DEF back, Dialog, DialogStep, InDialog
    <2>6. ASSUME NEW w \in OwnWallet, enterWallet(w)
          PROVE  Kept
      BY <1>1, <2>6 DEF enterWallet, Dialog, DialogStep, InDialog
    <2> QED BY <2>1, <2>2, <2>3, <2>4, <2>5, <2>6
  <1>5. DashTypeOK' /\ RunsInv'
    BY <1>4 DEF DashInv, DashTypeOK, RunsInv
  <1>6. DashboardLosesNothing'
    BY <1>4 DEF DashInv, DashboardLosesNothing, CyclesNewestFirst, SourcesAreConfirmed,
                DialogIsConsistent, InDialog
  <1> QED BY <1>5, <1>6 DEF DashInv

LEMMA ConfirmedStep ==
  ASSUME DashInv, authorize \/ connectWallet
  PROVE  DashInv'
  <1> DEFINE Dialogs == [open: BOOLEAN, step: DialogStep, custodian: Custodian \cup {None},
                         wallet: OwnWallet \cup {None}, busy: BOOLEAN]
  <1>1. dialog \in Dialogs /\ section.left \in Nat
    BY DashboardAssumption DEF DashInv, DashTypeOK
  <1>2. PICK l \in Label : (InDialog("consent") \/ InDialog("wallet")) /\ finish(l)
    <2>1. CASE authorize
      <3>1. dialog.custodian # None
        BY <2>1 DEF authorize, DashInv, DashboardLosesNothing, DialogIsConsistent
      <3>2. dialog.custodian \in Label
        BY <1>1, <3>1 DEF Label
      <3> QED BY <2>1, <3>2 DEF authorize
    <2>2. CASE connectWallet
      <3>1. dialog.wallet \in Label
        BY <1>1, <2>2 DEF connectWallet, Label
      <3> QED BY <2>2, <3>1 DEF connectWallet
    <2> QED BY <2>1, <2>2
  <1> DEFINE call == [label |-> l, left |-> section.left, seen |-> sources]
  <1>3. /\ dialog.open /\ dialog' = [dialog EXCEPT !.busy = TRUE]
        /\ connects' = Append(connects, call) /\ confirmed' = Append(confirmed, l)
        /\ UNCHANGED <<section, cycles, runs, running, sources>>
    BY <1>2 DEF finish, InDialog
  <1>4. sources \in Seq(Label) /\ connects \in Seq(Connect) /\ confirmed \in Seq(Label)
    BY DashTypes DEF DashInv
  <1>5. call \in Connect /\ call.label = l
    BY <1>1, <1>4 DEF Connect
  <1> HIDE DEF call
  <1>6. connects' \in Seq(Connect) /\ confirmed' \in Seq(Label)
    BY <1>3, <1>4, <1>5, AppendProperties
  <1>7. SourcesAreConfirmed'
    <2>1. confirmed = sources \o labels(connects)
      BY DEF DashInv, DashboardLosesNothing, SourcesAreConfirmed, labels
    <2>2. Append(sources \o labels(connects), call.label) = sources \o labels(Append(connects, call))
      BY <1>4, <1>5, CallBegins
    <2>3. confirmed' = sources' \o labels(connects')
      BY <1>3, <1>5, <2>1, <2>2
    <2> QED BY <2>3 DEF SourcesAreConfirmed, labels
  <1>8. dialog' \in Dialogs /\ dialog'.open /\ dialog'.step = dialog.step
        /\ dialog'.custodian = dialog.custodian
    BY <1>1, <1>3
  <1>9. DialogIsConsistent'
    BY <1>3, <1>8 DEF DashInv, DashboardLosesNothing, DialogIsConsistent, InDialog
  <1>10. CyclesNewestFirst' /\ RunsInv'
    BY <1>3 DEF DashInv, DashboardLosesNothing, CyclesNewestFirst, RunsInv
  <1>11. DashTypeOK'
    BY <1>3, <1>6, <1>8 DEF DashInv, DashTypeOK, Connect
  <1> QED BY <1>7, <1>9, <1>10, <1>11 DEF DashInv, DashboardLosesNothing

LEMMA ConnectReturnsStep ==
  ASSUME DashInv, ConnectReturns
  PROVE  DashInv'
  <1>1. /\ connects # << >> /\ connects' = Tail(connects)
        /\ sources' = Append(sources, Head(connects).label)
        /\ dialog' = FreshDialog \/ dialog' = dialog
        /\ UNCHANGED <<section, cycles, runs, running, confirmed>>
    BY DEF ConnectReturns, Appended
  <1>2. sources \in Seq(Label) /\ connects \in Seq(Connect) /\ confirmed \in Seq(Label)
    BY DashTypes DEF DashInv
  <1>3. connects' \in Seq(Connect) /\ sources' \in Seq(Label)
    <2>1. Head(connects) \in Connect /\ Tail(connects) \in Seq(Connect)
      BY <1>1, <1>2, HeadTailProperties
    <2>2. Head(connects).label \in Label
      BY <2>1 DEF Connect
    <2> QED BY <1>1, <1>2, <2>1, <2>2, AppendProperties
  <1>4. SourcesAreConfirmed'
    <2>1. confirmed = sources \o labels(connects)
      BY DEF DashInv, DashboardLosesNothing, SourcesAreConfirmed, labels
    <2>2. confirmed' = sources' \o labels(connects')
      BY <1>1, <1>2, <2>1, CallReturns
    <2> QED BY <2>2 DEF SourcesAreConfirmed, labels
  <1>5. FreshDialog \in [open: BOOLEAN, step: DialogStep, custodian: Custodian \cup {None},
                         wallet: OwnWallet \cup {None}, busy: BOOLEAN] /\ ~FreshDialog.open
    BY DEF FreshDialog, DialogStep
  <1>6. DialogIsConsistent'
    BY <1>1, <1>5 DEF DashInv, DashboardLosesNothing, DialogIsConsistent, InDialog
  <1>7. CyclesNewestFirst' /\ RunsInv'
    BY <1>1 DEF DashInv, DashboardLosesNothing, CyclesNewestFirst, RunsInv
  <1>8. DashTypeOK'
    BY <1>1, <1>3, <1>5 DEF DashInv, DashTypeOK, Connect
  <1> QED BY <1>4, <1>6, <1>7, <1>8 DEF DashInv, DashboardLosesNothing
-----------------------------------------------------------------------------
\* A provider that is mounted afresh: the seeded log, and nothing in flight.
LEMMA FreshProvider ==
  ASSUME NEW log, log = initialDashboard
  PROVE  /\ log \in Seq(Cycle) /\ log # << >> /\ Len(log) = 4
         /\ \A i \in 1..(Len(log) - 1) : log[i].proofId > log[i + 1].proofId
  <1>1. \A id, r, l \in Nat : /\ Seeded(id, r, l) \in Cycle /\ Seeded(id, r, l).proofId = id
    BY DEF Seeded, Cycle
  <1> DEFINE a == Seeded(1042, 12400, 11980)
             b == Seeded(1041, 12310, 11940)
             c == Seeded(1038, 12100, 11890)
             d == Seeded(1035, 12050, 10000)
  <1>2. /\ a \in Cycle /\ b \in Cycle /\ c \in Cycle /\ d \in Cycle
        /\ a.proofId = 1042 /\ b.proofId = 1041 /\ c.proofId = 1038 /\ d.proofId = 1035
    <2>1. a \in Cycle /\ a.proofId = 1042
      BY <1>1
    <2>2. b \in Cycle /\ b.proofId = 1041
      BY <1>1
    <2>3. c \in Cycle /\ c.proofId = 1038
      BY <1>1
    <2>4. d \in Cycle /\ d.proofId = 1035
      BY <1>1
    <2> QED BY <2>1, <2>2, <2>3, <2>4
  <1>3. log = <<a, b, c, d>>
    BY DEF initialDashboard
  <1> HIDE DEF a, b, c, d
  <1>4. /\ Len(log) = 4 /\ log[1] = a /\ log[2] = b /\ log[3] = c /\ log[4] = d
        /\ log \in Seq(Cycle)
    BY <1>2, <1>3
  <1>5. log # << >>
    BY <1>4, EmptySeq
  <1>6. ASSUME NEW i \in 1..3 PROVE log[i].proofId > log[i + 1].proofId
    <2>1. i = 1 \/ i = 2 \/ i = 3
      OBVIOUS
    <2>2. 1042 > 1041 /\ 1041 > 1038 /\ 1038 > 1035
      OBVIOUS
    <2> QED BY <1>2, <1>4, <2>1, <2>2
  <1> QED BY <1>4, <1>5, <1>6

Fresh ==
  /\ section \in [name: Section, left: 0..MaxLeaves]
  /\ cycles = initialDashboard /\ runs = << >> /\ running = FALSE
  /\ sources = << >> /\ dialog = FreshDialog
  /\ connects = << >> /\ confirmed = << >>

LEMMA FreshDash == Fresh => DashInv
  <1> SUFFICES ASSUME Fresh PROVE DashInv
    OBVIOUS
  <1>1. /\ cycles \in Seq(Cycle) /\ cycles # << >> /\ Len(cycles) = 4
        /\ \A i \in 1..(Len(cycles) - 1) : cycles[i].proofId > cycles[i + 1].proofId
    BY FreshProvider DEF Fresh
  <1>2. CyclesNewestFirst
    <2>1. Len(initialDashboard) = 4
      BY DEF initialDashboard
    <2> QED BY <1>1, <2>1 DEF CyclesNewestFirst, Fresh
  <1>3. SourcesAreConfirmed
    <2>1. labels(connects) = << >>
      <3>1. connects \in Seq(Connect) /\ Len(connects) = 0
        BY DEF Fresh
      <3>2. labels(connects) \in Seq(Label) /\ Len(labels(connects)) = 0
        BY <3>1, LabelsType
      <3> QED BY <3>2, EmptySeq
    <2>2. confirmed = sources \o labels(connects)
      BY <2>1, ConcatEmptySeq DEF Fresh
    <2> QED BY <2>2 DEF SourcesAreConfirmed, labels
  <1>4. /\ FreshDialog \in [open: BOOLEAN, step: DialogStep, custodian: Custodian \cup {None},
                            wallet: OwnWallet \cup {None}, busy: BOOLEAN]
        /\ FreshDialog.step = "choose"
    BY DEF FreshDialog, DialogStep
  <1>5. DialogIsConsistent
    BY <1>4 DEF DialogIsConsistent, InDialog, Fresh
  <1>6. DashTypeOK
    <2>1. /\ << >> \in Seq(Range(cycles)) /\ << >> \in Seq(Label)
          /\ << >> \in Seq([label: Label, left: Nat, seen: Seq(Label)])
      BY EmptySeq
    <2> QED BY <1>1, <1>4, <2>1 DEF DashTypeOK, Cycle, Fresh
  <1>7. RunsInv
    BY DEF RunsInv, Fresh
  <1> QED BY <1>2, <1>3, <1>5, <1>6, <1>7 DEF DashInv, DashboardLosesNothing

LEMMA FreshNext == Fresh' => DashInv'
  BY FreshDash, PTL

\* The provider as it is mounted first.
LEMMA DashStarts == DashInit => DashInv
  <1>1. DashInit => Fresh
    BY DashboardAssumption DEF DashInit, Fresh, Section
  <1> QED BY <1>1, FreshDash

\* A step of the operator or the return of a call keeps the log and the dialog.
LEMMA DashInvStep == DashInv /\ [DashNext]_dashVars => DashInv'
  <1> SUFFICES ASSUME DashInv, [DashNext]_dashVars PROVE DashInv'
    OBVIOUS
  <1>1. ASSUME NEW s \in Section, navigate(s) PROVE DashInv'
    <2>1. /\ section' = [name |-> s, left |-> section.left + 1] /\ section.left < MaxLeaves
          /\ dialog' = FreshDialog
          /\ UNCHANGED <<cycles, runs, running, sources, connects, confirmed>>
      BY <1>1 DEF navigate
    <2>2. section' \in [name: Section, left: 0..MaxLeaves]
      BY <2>1, DashboardAssumption DEF DashInv, DashTypeOK
    <2>3. /\ FreshDialog \in [open: BOOLEAN, step: DialogStep, custodian: Custodian \cup {None},
                              wallet: OwnWallet \cup {None}, busy: BOOLEAN]
          /\ FreshDialog.step = "choose"
      BY DEF FreshDialog, DialogStep
    <2>4. DashTypeOK' /\ RunsInv'
      BY <2>1, <2>2, <2>3 DEF DashInv, DashTypeOK, RunsInv
    <2>5. DashboardLosesNothing'
      BY <2>1, <2>3 DEF DashInv, DashboardLosesNothing, CyclesNewestFirst, SourcesAreConfirmed,
                        DialogIsConsistent, InDialog
    <2> QED BY <2>4, <2>5 DEF DashInv
  <1>2. CASE endSession
    <2>1. section' \in [name: Section, left: 0..MaxLeaves]
      BY SMTT(30), <1>2, DashboardAssumption DEF endSession, DashInv, DashTypeOK, Section
    <2> QED BY <1>2, <2>1, FreshNext DEF endSession, Fresh
  <1>3. CASE runCycle
    BY <1>3, runCycleStep
  <1>4. CASE CycleReturns
    BY <1>4, CycleReturnsStep
  <1>5. CASE \/ openDialog \/ dismiss \/ choose("custodians") \/ choose("wallet")
             \/ \E c \in Custodian : pickCustodian(c)
             \/ back \/ \E w \in OwnWallet : enterWallet(w)
    BY <1>5, DialogSteps
  <1>6. CASE authorize \/ connectWallet
    BY <1>6, ConfirmedStep
  <1>7. CASE ConnectReturns
    BY <1>7, ConnectReturnsStep
  <1>8. CASE UNCHANGED dashVars
    <2>1. UNCHANGED <<section, cycles, runs, running, sources, dialog, connects, confirmed>>
      BY <1>8 DEF dashVars
    <2> QED BY <2>1 DEF DashInv, DashTypeOK, RunsInv, DashboardLosesNothing, CyclesNewestFirst,
                        SourcesAreConfirmed, DialogIsConsistent, InDialog
  <1> QED BY <1>1, <1>2, <1>3, <1>4, <1>5, <1>6, <1>7, <1>8 DEF DashNext

\* Of any number of cycles and connections: one cycle at most is in flight, of the newest
\* proof, and nothing confirmed is lost.
THEOREM DashInvariant == DashSpec => []DashInv
  BY DashStarts, DashInvStep, PTL DEF DashSpec

\* Overlapping cycles and dialogs lose nothing, double nothing and mix nothing up: the log
\* stays newest first, every confirmed source is shown once and in order, a closed dialog is
\* fresh (lib/dashboard/provider.tsx, status-hero.tsx, connect-source-dialog.tsx).
THEOREM DashboardLosesNothingAlways == DashSpec => []DashboardLosesNothing
  <1>1. DashInv => DashboardLosesNothing
    BY DEF DashInv
  <1> QED BY <1>1, DashInvariant, PTL
-----------------------------------------------------------------------------
(* The figures.                                                            *)

\* A set of numbers has a least one.
LEMMA LeastNat ==
  ASSUME NEW T, T \subseteq Nat, T # {}
  PROVE  \E x \in T : \A y \in T : x <= y
  <1>1. PICK x \in T : \A y \in T : ~ (<<y, x>> \in OpToRel(<, Nat))
    BY WFMin, NatLessThanWellFounded
  <1>2. \A y \in T : ~ (y < x)
    BY <1>1 DEF OpToRel
  <1> QED BY <1>2

\* A history has an order.
HasOrder(proofs) == \E s \in [DOMAIN proofs -> Range(proofs)] : IsInOrder(s, proofs)

FiguresInv == FiguresTypeOK /\ HasOrder(history)

\* A proof that comes is inserted at its time.
LEMMA OrderGrows ==
  ASSUME NEW h \in Seq(PublishedProof), HasOrder(h), NEW p \in PublishedProof,
         \A i \in DOMAIN h : h[i].at # p.at
  PROVE  HasOrder(Append(h, p))
  <1> DEFINE n == Len(h)
             z == Append(h, p)
  <1>1. n \in Nat /\ DOMAIN h = 1 .. n /\ \A i \in 1 .. n : h[i] \in PublishedProof
    OBVIOUS
  <1>2. /\ DOMAIN z = 1 .. n + 1 /\ z[n + 1] = p /\ \A i \in 1 .. n : z[i] = h[i]
    OBVIOUS
  <1>3. Range(z) = Range(h) \cup {p}
    <2> HIDE DEF z
    <2>1. \A i \in 1 .. n + 1 : i \in 1 .. n \/ i = n + 1
      BY <1>1
    <2> QED BY <1>1, <1>2, <2>1 DEF Range
  <1>4. PICK s \in [1 .. n -> Range(h)] : IsInOrder(s, h)
    BY <1>1 DEF HasOrder
  <1>5. /\ Range(s) = Range(h) /\ DOMAIN s = 1 .. n
        /\ \A i, j \in 1 .. n : i < j => s[i].at < s[j].at
    BY <1>4 DEF IsInOrder
  <1>6. \A i \in 1 .. n : /\ s[i] \in PublishedProof /\ s[i].at \in Nat /\ s[i].at # p.at
    <2> SUFFICES ASSUME NEW i \in 1 .. n
                 PROVE  s[i] \in PublishedProof /\ s[i].at \in Nat /\ s[i].at # p.at
      OBVIOUS
    <2>1. PICK j \in 1 .. n : s[i] = h[j]
      BY <1>1, <1>4 DEF Range
    <2>2. h[j] \in PublishedProof /\ h[j].at # p.at
      BY <1>1
    <2> QED BY <2>1, <2>2, FiguresAssumption DEF PublishedProof
  <1>7. p.at \in Nat
    BY FiguresAssumption DEF PublishedProof
  <1> DEFINE T == {k \in 1 .. n + 1 : k = n + 1 \/ (k \in 1 .. n /\ s[k].at > p.at)}
  <1>8. PICK k \in T : \A y \in T : k <= y
    <2>1. T \subseteq Nat /\ n + 1 \in T
      BY <1>1
    <2> HIDE DEF T
    <2> QED BY <2>1, LeastNat
  <1>9. /\ k \in 1 .. n + 1
        /\ \A i \in 1 .. n : i < k => s[i].at < p.at
        /\ \A i \in 1 .. n : i >= k => s[i].at > p.at
    <2>1. k \in 1 .. n + 1 /\ (k = n + 1 \/ s[k].at > p.at)
      OBVIOUS
    <2>2. ASSUME NEW i \in 1 .. n, i < k PROVE s[i].at < p.at
      <3>1. i \notin T
        <4> HIDE DEF T
        <4>1. k \in Nat
          BY <2>1
        <4> QED BY <1>8, <2>2, <4>1
      <3>2. ~(s[i].at > p.at)
        BY <3>1
      <3> QED BY <1>6, <1>7, <3>2
    <2>3. ASSUME NEW i \in 1 .. n, i >= k PROVE s[i].at > p.at
      <3>1. k \in 1 .. n /\ s[k].at > p.at
        BY <1>1, <2>1, <2>3
      <3>2. i = k \/ s[k].at < s[i].at
        BY <1>5, <2>3, <3>1
      <3> QED BY <1>6, <1>7, <3>1, <3>2
    <2> HIDE DEF T
    <2> QED BY <2>1, <2>2, <2>3
  <1> HIDE DEF T
  <1> DEFINE t == [i \in 1 .. n + 1 |-> IF i < k THEN s[i] ELSE IF i = k THEN p ELSE s[i - 1]]
  <1>10. \A i \in 1 .. n + 1 : t[i] = IF i < k THEN s[i] ELSE IF i = k THEN p ELSE s[i - 1]
    OBVIOUS
  <1>11. \A i \in 1 .. n + 1 : /\ i < k => i \in 1 .. n
                               /\ i > k => i - 1 \in 1 .. n /\ i - 1 >= k
    BY <1>1, <1>9
  <1>12. DOMAIN t = 1 .. n + 1
    OBVIOUS
  <1>13. t \in [1 .. n + 1 -> Range(z)]
    <2>1. \A i \in 1 .. n : s[i] \in Range(z)
      BY <1>3, <1>4
    <2>2. p \in Range(z)
      BY <1>3
    <2>3. \A i \in 1 .. n + 1 : t[i] \in Range(z)
      <3> HIDE DEF t, z
      <3> QED BY <2>1, <2>2, <1>9, <1>10, <1>11
    <2>4. t = [i \in 1 .. n + 1 |-> t[i]]
      OBVIOUS
    <2> HIDE DEF t, z
    <2> QED BY <2>3, <2>4
  <1> HIDE DEF t
  <1>14. Range(t) = Range(z)
    <2>1. Range(t) \subseteq Range(z)
      <3> HIDE DEF z
      <3> QED BY <1>12, <1>13 DEF Range
    <2>2. p \in Range(t)
      BY <1>9, <1>10, <1>12 DEF Range
    <2>3. ASSUME NEW x \in Range(h) PROVE x \in Range(t)
      <3>1. PICK i \in 1 .. n : x = s[i]
        BY <1>5 DEF Range
      <3>2. CASE i < k
        <4>1. i \in 1 .. n + 1 /\ t[i] = x
          BY <1>10, <3>1, <3>2
        <4> QED BY <4>1, <1>12 DEF Range
      <3>3. CASE i >= k
        <4>1. i + 1 \in 1 .. n + 1 /\ i + 1 > k /\ (i + 1) - 1 = i /\ k \in Int
          BY <1>1, <1>9, <3>3
        <4> DEFINE j == i + 1
        <4>2. j \in 1 .. n + 1 /\ j > k /\ j - 1 = i /\ k \in Int
          BY <4>1
        <4> HIDE DEF j
        <4>3. t[j] = s[i]
          BY <1>10, <4>2
        <4> QED BY <4>2, <4>3, <3>1, <1>12 DEF Range
      <3> QED BY <1>9, <3>2, <3>3
    <2> QED BY <1>3, <2>1, <2>2, <2>3
  <1>15. \A i, j \in 1 .. n + 1 : i < j => t[i].at < t[j].at
    <2> SUFFICES ASSUME NEW i \in 1 .. n + 1, NEW j \in 1 .. n + 1, i < j PROVE t[i].at < t[j].at
      OBVIOUS
    <2>1. CASE j < k
      BY <1>5, <1>10, <1>11, <2>1, <1>9
    <2>2. CASE i > k
      <3>1. i - 1 \in 1 .. n /\ j - 1 \in 1 .. n /\ i - 1 < j - 1 /\ ~(i < k) /\ ~(j < k) /\ i # k /\ j # k
        BY <1>9, <1>11, <2>2
      <3> QED BY <1>5, <1>10, <3>1
    <2>3. CASE i = k
      <3>1. j - 1 \in 1 .. n /\ j - 1 >= k /\ ~(j < k) /\ j # k
        BY <1>9, <1>11, <2>3
      <3>2. t[i] = p /\ t[j] = s[j - 1]
        BY <1>10, <2>3, <3>1, <1>9
      <3> QED BY <1>6, <1>7, <1>9, <3>1, <3>2
    <2>4. CASE j = k
      <3>1. i \in 1 .. n /\ i < k
        BY <1>11, <2>4
      <3>2. t[i] = s[i] /\ t[j] = p
        BY <1>10, <2>4, <3>1, <1>9
      <3> QED BY <1>9, <3>1, <3>2
    <2>5. CASE i < k /\ j > k
      <3>1. i \in 1 .. n /\ j - 1 \in 1 .. n /\ j - 1 >= k /\ ~(j < k) /\ j # k
        BY <1>9, <1>11, <2>5
      <3>2. t[i] = s[i] /\ t[j] = s[j - 1]
        BY <1>10, <2>5, <3>1
      <3>3. s[i].at < p.at /\ p.at < s[j - 1].at
        BY <1>9, <2>5, <3>1, <1>6, <1>7
      <3> QED BY <1>6, <1>7, <3>1, <3>2, <3>3
    <2> QED BY <1>9, <2>1, <2>2, <2>3, <2>4, <2>5
  <1>16. IsInOrder(t, z)
    BY <1>12, <1>14, <1>15 DEF IsInOrder
  <1> HIDE DEF z
  <1> QED BY <1>2, <1>13, <1>16 DEF HasOrder, z

\* The change from one total to another, past a threshold of 10 or 15 percent, without
\* dividing.
LEMMA FallIs ==
  ASSUME NEW prev \in Nat, NEW curr \in Nat
  PROVE  LET drift == percentChange(prev, curr) IN
         /\ drift \in Int
         /\ prev = 0 => drift >= 0
         /\ prev > 0 => /\ drift <= -1000 <=> 100 * (prev - curr) >= 10 * prev
                        /\ drift <= -2000 <=> 100 * (prev - curr) >= 2 * 10 * prev
  <1> DEFINE d == (curr - prev) * 10000
             q == (-d) \div prev
  <1>1. CASE prev = 0
    BY <1>1 DEF percentChange, Infinity
  <1>2. CASE prev > 0 /\ d >= 0
    <2>1. percentChange(prev, curr) = Div(d, prev)
      BY <1>2 DEF percentChange
    <2>2. prev - curr <= 0
      BY <1>2
    <2>3. d \in Nat
      BY <1>2
    <2> HIDE DEF d
    <2>4. Div(d, prev) = d \div prev
      BY <1>2 DEF Div
    <2>5. d \div prev \in Nat
      BY <1>2, <2>3
    <2> DEFINE x == d \div prev
    <2>6. percentChange(prev, curr) = x /\ x \in Nat
      BY <2>1, <2>4, <2>5
    <2> HIDE DEF x
    <2> QED BY <1>2, <2>2, <2>6
  <1>3. CASE prev > 0 /\ d < 0
    <2>1. percentChange(prev, curr) = -q
      <3>1. percentChange(prev, curr) = Div(d, prev)
        BY <1>3 DEF percentChange
      <3>2. ~(d >= 0)
        BY <1>3
      <3> HIDE DEF d
      <3> QED BY <3>1, <3>2 DEF Div
    <2>2. q \in Nat /\ (q >= 1000 <=> -d >= 1000 * prev) /\ (q >= 2000 <=> -d >= 2000 * prev)
      <3> DEFINE e == -d
      <3>1. e \in Nat
        BY <1>3
      <3> HIDE DEF e
      <3>2. e \div prev \in Nat
        BY <1>3, <3>1
      <3>3. e \div prev >= 1000 <=> e >= 1000 * prev
        BY <1>3, <3>1
      <3>4. e \div prev >= 2000 <=> e >= 2000 * prev
        BY <1>3, <3>1
      <3> QED BY <3>2, <3>3, <3>4 DEF e
    <2>3. -d = 10000 * (prev - curr)
      OBVIOUS
    <2> HIDE DEF q, d
    <2> QED BY <1>3, <2>1, <2>2, <2>3
  <1> QED BY <1>1, <1>2, <1>3

\* The same of a rise, past 15 percent; a rise from nothing is past every threshold.
LEMMA RiseIs ==
  ASSUME NEW prev \in Nat, NEW curr \in Nat
  PROVE  LET spike == percentChange(prev, curr) IN
         /\ spike \in Int
         /\ prev = 0 => /\ spike >= 1500 <=> curr > prev
                        /\ spike >= 3000 <=> curr > prev
         /\ prev > 0 => /\ spike >= 1500 <=> 100 * (curr - prev) >= 15 * prev
                        /\ spike >= 3000 <=> 100 * (curr - prev) >= 2 * 15 * prev
  <1> DEFINE d == (curr - prev) * 10000
             q == d \div prev
             r == (-d) \div prev
  <1>1. CASE prev = 0
    BY <1>1 DEF percentChange, Infinity
  <1>2. CASE prev > 0 /\ d >= 0
    <2>1. percentChange(prev, curr) = q
      <3>1. percentChange(prev, curr) = Div(d, prev)
        BY <1>2 DEF percentChange
      <3> HIDE DEF d
      <3> QED BY <1>2, <3>1 DEF Div
    <2>2. q \in Nat /\ (q >= 1500 <=> d >= 1500 * prev) /\ (q >= 3000 <=> d >= 3000 * prev)
      <3> HIDE DEF d
      <3>0. d \in Int
        BY DEF d
      <3>1. q \in Nat
        BY <1>2, <3>0
      <3>2. q >= 1500 <=> d >= 1500 * prev
        BY <1>2, <3>0
      <3>3. q >= 3000 <=> d >= 3000 * prev
        BY <1>2, <3>0
      <3> QED BY <3>1, <3>2, <3>3
    <2>3. d = 10000 * (curr - prev)
      OBVIOUS
    <2> HIDE DEF q, d
    <2> QED BY <1>2, <2>1, <2>2, <2>3
  <1>3. CASE prev > 0 /\ d < 0
    <2>0. percentChange(prev, curr) = Div(d, prev)
      BY <1>3 DEF percentChange
    <2>2. curr - prev < 0 /\ ~(d >= 0) /\ -d \in Nat
      BY <1>3
    <2> HIDE DEF d
    <2>3. Div(d, prev) = -r
      BY <2>2 DEF Div
    <2> DEFINE e == -d
    <2>4. e \in Nat
      BY <2>2
    <2> HIDE DEF e
    <2>5. e \div prev \in Nat
      BY <1>3, <2>4
    <2>1. percentChange(prev, curr) = -r /\ r \in Nat
      BY <2>0, <2>3, <2>5 DEF e
    <2> HIDE DEF r, d
    <2> QED BY <1>3, <2>1, <2>2
  <1> QED BY <1>1, <1>2, <1>3

\* The flags that the thresholds ask for.
Want(p, c) ==
  {Flag("reserve_drift", s, c.at) :
     s \in IF p.reserves = 0 THEN {} ELSE Past(p.reserves - c.reserves, p.reserves, 10)}
  \cup {Flag("liability_spike", s, c.at) : s \in Past(c.liabilities - p.liabilities, p.liabilities, 15)}
  \cup (IF c.at - p.at <= 26 THEN {}
        ELSE {Flag("cycle_timing_gap", IF c.at - p.at >= 52 THEN "critical" ELSE "warning", c.at)})

\* The flags that are raised are those.
LEMMA FlagsAre ==
  ASSUME NEW p \in PublishedProof, NEW c \in PublishedProof
  PROVE  FlagsOf(p, c) = Want(p, c)
  <1> DEFINE drift == percentChange(p.reserves, c.reserves)
             spike == percentChange(p.liabilities, c.liabilities)
             gap == c.at - p.at
             fall == p.reserves - c.reserves
             rise == c.liabilities - p.liabilities
  <1>1. /\ p.reserves \in Nat /\ c.reserves \in Nat /\ p.liabilities \in Nat /\ c.liabilities \in Nat
        /\ p.at \in Nat /\ c.at \in Nat
    BY FiguresAssumption DEF PublishedProof
  <1>2. /\ drift \in Int
        /\ p.reserves = 0 => drift >= 0
        /\ p.reserves > 0 => /\ drift <= -1000 <=> 100 * fall >= 10 * p.reserves
                             /\ drift <= -2000 <=> 100 * fall >= 2 * 10 * p.reserves
    <2> DEFINE x == p.reserves
               y == c.reserves
    <2>1. x \in Nat /\ y \in Nat
      BY <1>1
    <2> HIDE DEF x, y
    <2>2. LET z == percentChange(x, y) IN
          /\ z \in Int
          /\ x = 0 => z >= 0
          /\ x > 0 => /\ z <= -1000 <=> 100 * (x - y) >= 10 * x
                      /\ z <= -2000 <=> 100 * (x - y) >= 2 * 10 * x
      BY <2>1, FallIs
    <2> QED BY <2>2 DEF x, y
  <1>3. /\ spike \in Int
        /\ p.liabilities = 0 => /\ spike >= 1500 <=> rise > 0
                                /\ spike >= 3000 <=> rise > 0
        /\ p.liabilities > 0 => /\ spike >= 1500 <=> 100 * rise >= 15 * p.liabilities
                                /\ spike >= 3000 <=> 100 * rise >= 2 * 15 * p.liabilities
    <2> DEFINE x == p.liabilities
               y == c.liabilities
    <2>1. x \in Nat /\ y \in Nat /\ (y - x > 0 <=> y > x)
      BY <1>1
    <2> HIDE DEF x, y
    <2>2. LET z == percentChange(x, y) IN
          /\ z \in Int
          /\ x = 0 => /\ z >= 1500 <=> y - x > 0
                      /\ z >= 3000 <=> y - x > 0
          /\ x > 0 => /\ z >= 1500 <=> 100 * (y - x) >= 15 * x
                      /\ z >= 3000 <=> 100 * (y - x) >= 2 * 15 * x
      BY <2>1, RiseIs
    <2> QED BY <2>2 DEF x, y
  <1>4. /\ fall \in Int /\ rise \in Int /\ gap \in Int
    BY <1>1
  <1> DEFINE Falls == IF drift <= -reserveDriftPct
                      THEN {Flag("reserve_drift", severityFor(-drift, reserveDriftPct), c.at)} ELSE {}
             Rises == IF spike >= liabilitySpikePct
                      THEN {Flag("liability_spike", severityFor(spike, liabilitySpikePct), c.at)} ELSE {}
             Gaps == IF gap > cycleTimingGap
                     THEN {Flag("cycle_timing_gap", severityFor(gap, cycleTimingGap), c.at)} ELSE {}
             WantFalls == {Flag("reserve_drift", s, c.at) :
                             s \in IF p.reserves = 0 THEN {} ELSE Past(fall, p.reserves, 10)}
             WantRises == {Flag("liability_spike", s, c.at) : s \in Past(rise, p.liabilities, 15)}
             WantGaps == IF gap <= 26 THEN {}
                         ELSE {Flag("cycle_timing_gap", IF gap >= 52 THEN "critical" ELSE "warning", c.at)}
  <1>5. FlagsOf(p, c) = Falls \cup Rises \cup Gaps /\ Want(p, c) = WantFalls \cup WantRises \cup WantGaps
    BY DEF FlagsOf, Want
  <1>6. Falls = WantFalls
    <2> HIDE DEF drift, fall
    <2>1. CASE p.reserves = 0
      BY <1>2, <2>1 DEF reserveDriftPct
    <2>2. CASE p.reserves > 0 /\ ~(100 * fall >= 10 * p.reserves)
      <3>1. ~(drift <= -1000) /\ ~(100 * fall >= 2 * 10 * p.reserves)
        BY <1>1, <1>2, <1>4, <2>2
      <3>2. Past(fall, p.reserves, 10) = {}
        BY <2>2, <3>1 DEF Past
      <3> QED BY <2>2, <3>1, <3>2 DEF reserveDriftPct
    <2>3. CASE p.reserves > 0 /\ 100 * fall >= 10 * p.reserves /\ ~(100 * fall >= 2 * 10 * p.reserves)
      <3>1. drift <= -1000 /\ ~(drift <= -2000)
        BY <1>1, <1>2, <1>4, <2>3
      <3>2. Past(fall, p.reserves, 10) = {"warning"}
        BY <2>3 DEF Past
      <3>3. severityFor(-drift, reserveDriftPct) = "warning"
        BY <1>2, <3>1 DEF severityFor, reserveDriftPct
      <3> QED BY <2>3, <3>1, <3>2, <3>3 DEF reserveDriftPct
    <2>4. CASE p.reserves > 0 /\ 100 * fall >= 2 * 10 * p.reserves
      <3>1. drift <= -2000 /\ drift <= -1000
        BY <1>1, <1>2, <1>4, <2>4
      <3>2. Past(fall, p.reserves, 10) = {"critical"}
        BY <2>4 DEF Past
      <3>3. severityFor(-drift, reserveDriftPct) = "critical"
        BY <1>2, <3>1 DEF severityFor, reserveDriftPct
      <3> QED BY <2>4, <3>1, <3>2, <3>3 DEF reserveDriftPct
    <2> QED BY <1>1, <2>1, <2>2, <2>3, <2>4
  <1>7. Rises = WantRises
    <2> HIDE DEF spike, rise
    <2>1. CASE p.liabilities = 0 /\ rise > 0
      <3>1. spike >= 1500 /\ spike >= 3000
        BY <1>3, <2>1
      <3>2. Past(rise, p.liabilities, 15) = {"critical"}
        BY <2>1 DEF Past
      <3>3. severityFor(spike, liabilitySpikePct) = "critical"
        BY <1>3, <3>1 DEF severityFor, liabilitySpikePct
      <3> QED BY <3>1, <3>2, <3>3 DEF liabilitySpikePct
    <2>2. CASE p.liabilities = 0 /\ ~(rise > 0)
      <3>1. ~(spike >= 1500) /\ Past(rise, p.liabilities, 15) = {}
        BY <1>3, <2>2 DEF Past
      <3> QED BY <3>1 DEF liabilitySpikePct
    <2>3. CASE p.liabilities > 0 /\ ~(100 * rise >= 15 * p.liabilities)
      <3>1. ~(spike >= 1500) /\ ~(100 * rise >= 2 * 15 * p.liabilities)
        BY <1>1, <1>3, <1>4, <2>3
      <3>2. Past(rise, p.liabilities, 15) = {}
        BY <2>3, <3>1 DEF Past
      <3> QED BY <2>3, <3>1, <3>2 DEF liabilitySpikePct
    <2>4. CASE p.liabilities > 0 /\ 100 * rise >= 15 * p.liabilities /\ ~(100 * rise >= 2 * 15 * p.liabilities)
      <3>1. spike >= 1500 /\ ~(spike >= 3000)
        BY <1>1, <1>3, <1>4, <2>4
      <3>2. Past(rise, p.liabilities, 15) = {"warning"}
        BY <2>4 DEF Past
      <3>3. severityFor(spike, liabilitySpikePct) = "warning"
        BY <1>3, <3>1 DEF severityFor, liabilitySpikePct
      <3> QED BY <2>4, <3>1, <3>2, <3>3 DEF liabilitySpikePct
    <2>5. CASE p.liabilities > 0 /\ 100 * rise >= 2 * 15 * p.liabilities
      <3>1. spike >= 3000 /\ spike >= 1500
        BY <1>1, <1>3, <1>4, <2>5
      <3>2. Past(rise, p.liabilities, 15) = {"critical"}
        BY <2>5 DEF Past
      <3>3. severityFor(spike, liabilitySpikePct) = "critical"
        BY <1>3, <3>1 DEF severityFor, liabilitySpikePct
      <3> QED BY <2>5, <3>1, <3>2, <3>3 DEF liabilitySpikePct
    <2>6. p.liabilities = 0 \/ p.liabilities > 0
      BY <1>1
    <2>7. p.liabilities = 0 => (rise > 0 \/ ~(rise > 0))
      OBVIOUS
    <2> DEFINE once == 100 * rise >= 15 * p.liabilities
               twice == 100 * rise >= 2 * 15 * p.liabilities
    <2>8. once \/ ~once
      OBVIOUS
    <2>9. CASE p.liabilities > 0 /\ once
      <3>1. CASE twice
        BY <2>5, <2>9, <3>1
      <3>2. CASE ~twice
        BY <2>4, <2>9, <3>2
      <3> QED BY <3>1, <3>2
    <2> QED BY <2>1, <2>2, <2>3, <2>6, <2>9
  <1>8. Gaps = WantGaps
    BY <1>4 DEF severityFor, cycleTimingGap
  <1> HIDE DEF Falls, Rises, Gaps, WantFalls, WantRises, WantGaps
  <1> QED BY <1>5, <1>6, <1>7, <1>8

\* In order, the cycle before a proof is the one in front of it.
LEMMA BeforeIs ==
  ASSUME NEW h \in Seq(PublishedProof), NEW s \in [DOMAIN h -> Range(h)], IsInOrder(s, h),
         NEW i \in 1 .. Len(h)
  PROVE  Before(h, s[i]) = IF i = 1 THEN {} ELSE {s[i - 1]}
  <1> DEFINE n == Len(h)
  <1>1. /\ n \in Nat /\ DOMAIN h = 1 .. n /\ DOMAIN s = 1 .. n /\ Range(s) = Range(h)
        /\ \A j, k \in 1 .. n : j < k => s[j].at < s[k].at
    BY DEF IsInOrder
  <1>2. \A j \in 1 .. n : s[j].at \in Nat
    <2> SUFFICES ASSUME NEW j \in 1 .. n PROVE s[j].at \in Nat
      OBVIOUS
    <2>1. PICK k \in 1 .. n : s[j] = h[k]
      BY <1>1 DEF Range
    <2>2. h[k] \in PublishedProof
      BY <1>1
    <2> QED BY <2>1, <2>2, FiguresAssumption DEF PublishedProof
  <1>3. \A p : p \in Range(h) <=> \E j \in 1 .. n : p = s[j]
    <2>1. \A p : p \in Range(s) <=> \E j \in 1 .. n : p = s[j]
      BY <1>1 DEF Range
    <2> QED BY <1>1, <2>1
  <1>4. \A j \in 1 .. n : s[j].at < s[i].at <=> j < i
    <2> SUFFICES ASSUME NEW j \in 1 .. n PROVE s[j].at < s[i].at <=> j < i
      OBVIOUS
    <2>1. j < i \/ j = i \/ i < j
      OBVIOUS
    <2> QED BY <1>1, <1>2, <2>1
  <1>5. CASE i = 1
    <2>1. \A p \in Range(h) : ~(p.at < s[i].at)
      BY <1>3, <1>4, <1>5
    <2> QED BY <1>5, <2>1 DEF Before
  <1>6. CASE i # 1
    <2> DEFINE j == i - 1
    <2>1. j \in 1 .. n /\ j < i
      BY <1>6
    <2>2. \A k \in 1 .. n : k < i => k = j \/ k < j
      BY <2>1
    <2>3. \A k \in 1 .. n : k < i => s[k].at <= s[j].at
      <3> HIDE DEF j
      <3> QED BY <1>1, <1>2, <2>1, <2>2
    <2> HIDE DEF j
    <2>4. s[j] \in Before(h, s[i])
      BY <1>3, <1>4, <2>1, <2>3 DEF Before
    <2>5. ASSUME NEW p \in Before(h, s[i]) PROVE p = s[j]
      <3>1. p \in Range(h) /\ p.at < s[i].at /\ \A q \in Range(h) : q.at < s[i].at => q.at <= p.at
        BY <2>5 DEF Before
      <3>2. PICK k \in 1 .. n : p = s[k]
        BY <1>3, <3>1
      <3>3. k < i /\ s[j].at <= s[k].at
        BY <1>3, <1>4, <2>1, <3>1, <3>2
      <3>4. ~(k < j)
        BY <1>1, <1>2, <2>1, <3>3
      <3> QED BY <2>2, <3>2, <3>3, <3>4
    <2> QED BY <1>6, <2>4, <2>5 DEF j
  <1> QED BY <1>5, <1>6

\* Every flag is raised, and no other.
LEMMA FlagsGiven == FiguresInv => FlagsAreExact
  <1> SUFFICES ASSUME FiguresInv PROVE FlagsAreExact
    OBVIOUS
  <1> DEFINE n == Len(history)
             s == Ordered(history)
             Wanted == UNION {UNION {Want(p, c) : p \in Before(history, c)} : c \in Range(history)}
             Raised == UNION {FlagsOf(s[i - 1], s[i]) : i \in 2 .. n}
  <1>1. history \in Seq(PublishedProof) /\ n \in Nat /\ DOMAIN history = 1 .. n
        /\ \A i \in 1 .. n : history[i] \in PublishedProof
    BY DEF FiguresInv, FiguresTypeOK
  <1>2. s \in [DOMAIN history -> Range(history)] /\ IsInOrder(s, history)
    BY DEF FiguresInv, HasOrder, Ordered
  <1> HIDE DEF s
  <1>3. Range(s) = Range(history) /\ DOMAIN s = 1 .. n
    BY <1>1, <1>2 DEF IsInOrder
  <1>4. \A i \in 1 .. n : s[i] \in PublishedProof
    <2> SUFFICES ASSUME NEW i \in 1 .. n PROVE s[i] \in PublishedProof
      OBVIOUS
    <2>1. s[i] \in Range(history)
      BY <1>1, <1>2
    <2> QED BY <1>1, <2>1 DEF Range
  <1>5. \A i \in 1 .. n : Before(history, s[i]) = IF i = 1 THEN {} ELSE {s[i - 1]}
    BY <1>1, <1>2, BeforeIs
  <1>6. ASSUME NEW f \in Raised PROVE f \in Wanted
    <2>1. PICK i \in 2 .. n : f \in FlagsOf(s[i - 1], s[i])
      OBVIOUS
    <2>2. i \in 1 .. n /\ i - 1 \in 1 .. n /\ i # 1
      BY <1>1
    <2>3. f \in Want(s[i - 1], s[i])
      BY <1>4, <2>1, <2>2, FlagsAre
    <2>4. s[i - 1] \in Before(history, s[i]) /\ s[i] \in Range(history)
      BY <1>1, <1>2, <1>5, <2>2
    <2> QED BY <2>3, <2>4
  <1>7. ASSUME NEW f \in Wanted PROVE f \in Raised
    <2>1. PICK c \in Range(history) : f \in UNION {Want(p, c) : p \in Before(history, c)}
      OBVIOUS
    <2>2. PICK p \in Before(history, c) : f \in Want(p, c)
      BY <2>1
    <2>3. PICK i \in 1 .. n : c = s[i]
      BY <1>3 DEF Range
    <2>4. i # 1 /\ p = s[i - 1]
      BY <1>5, <2>2, <2>3
    <2>5. i \in 2 .. n /\ i - 1 \in 1 .. n
      BY <1>1, <2>4
    <2>6. f \in FlagsOf(s[i - 1], s[i])
      BY <1>4, <2>2, <2>3, <2>4, <2>5, FlagsAre
    <2> QED BY <2>5, <2>6
  <1>8. Raised = Wanted
    <2> HIDE DEF Raised, Wanted
    <2> QED BY <1>6, <1>7
  <1>9. detectAnomalies(history) = Raised
    BY DEF detectAnomalies, s
  <1>10. FlagsAreExact <=> detectAnomalies(history) = Wanted
    BY DEF FlagsAreExact, Want
  <1> QED BY <1>8, <1>9, <1>10

\* The margin is cut towards zero.
LEMMA MarginGiven == FiguresInv => MarginIsSafe
  <1> SUFFICES ASSUME FiguresInv, NEW i \in DOMAIN history, history[i].liabilities > 0
               PROVE  LET r == history[i].reserves
                          l == history[i].liabilities
                          exact == (r - l) * 10000
                          shown == marginBps(r, l) * l
                      IN IF r >= l THEN shown <= exact /\ exact < shown + l
                         ELSE shown <= 0 /\ exact <= shown /\ shown < exact + l
    BY DEF MarginIsSafe
  <1> DEFINE r == history[i].reserves
             l == history[i].liabilities
             exact == (r - l) * 10000
             shown == marginBps(r, l) * l
  <1>1. r \in Nat /\ l \in Nat /\ l > 0
    <2>1. history[i] \in PublishedProof
      BY DEF FiguresInv, FiguresTypeOK
    <2> QED BY <2>1, FiguresAssumption DEF PublishedProof
  <1>2. shown = Div(exact, l) * l
    BY <1>1 DEF marginBps
  <1>3. exact \in Int /\ (r >= l <=> exact >= 0)
    <2> HIDE DEF r, l
    <2> QED BY <1>1
  <1> HIDE DEF r, l, exact, shown
  <1>4. ASSUME NEW e \in Nat PROVE (e \div l) * l <= e /\ e < (e \div l) * l + l /\ e \div l \in Nat
    BY <1>1
  <1>5. CASE r >= l
    <2>1. exact \in Nat /\ Div(exact, l) = exact \div l
      BY <1>3, <1>5 DEF Div
    <2> QED BY <1>1, <1>2, <1>4, <1>5, <2>1 DEF r, l, exact, shown
  <1>6. CASE ~(r >= l)
    <2> DEFINE e == -exact
               q == e \div l
               x == q * l
    <2>1. e \in Nat /\ Div(exact, l) = -q
      BY <1>3, <1>6 DEF Div
    <2>2. x <= e /\ e < x + l /\ q \in Nat
      BY <1>4, <2>1
    <2>3. x \in Nat /\ (-q) * l = -x
      BY <1>1, <2>2
    <2>4. shown = -x
      BY <1>2, <2>1, <2>3
    <2> HIDE DEF q, x
    <2>5. shown <= 0 /\ exact <= shown /\ shown < exact + l
      BY <1>1, <1>3, <2>1, <2>2, <2>3, <2>4
    <2> QED BY <1>6, <2>5 DEF r, l, exact, shown
  <1> QED BY <1>5, <1>6 DEF r, l, exact, shown

\* The history starts empty.
LEMMA FiguresStart == FiguresInit => FiguresInv
  <1> SUFFICES ASSUME FiguresInit PROVE FiguresInv
    OBVIOUS
  <1> DEFINE h == << >>
  <1>1. h \in Seq(PublishedProof) /\ DOMAIN h = {} /\ h \in [{} -> Range(h)]
    OBVIOUS
  <1>2. history = h
    BY DEF FiguresInit
  <1> HIDE DEF h
  <1>3. IsInOrder(h, h)
    BY <1>1 DEF IsInOrder
  <1> QED BY <1>1, <1>2, <1>3 DEF FiguresInv, FiguresTypeOK, HasOrder

\* A proof that is fetched has a place in the order.
LEMMA FiguresInvStep == FiguresInv /\ [FiguresNext]_history => FiguresInv'
  <1> SUFFICES ASSUME FiguresInv, [FiguresNext]_history PROVE FiguresInv'
    OBVIOUS
  <1>1. CASE history' = history
    BY <1>1 DEF FiguresInv, FiguresTypeOK, HasOrder, IsInOrder
  <1>2. CASE FiguresNext
    <2>1. PICK p \in PublishedProof : fetchProof(p)
      BY <1>2 DEF FiguresNext
    <2>2. history' = Append(history, p) /\ \A i \in DOMAIN history : history[i].at # p.at
      BY <2>1 DEF fetchProof, Fetched
    <2>3. history \in Seq(PublishedProof) /\ HasOrder(history)
      BY DEF FiguresInv, FiguresTypeOK
    <2>4. Append(history, p) \in Seq(PublishedProof)
      BY <2>3
    <2>5. HasOrder(Append(history, p))
      BY <2>2, <2>3, OrderGrows
    <2> QED BY <2>2, <2>4, <2>5 DEF FiguresInv, FiguresTypeOK
  <1> QED BY <1>1, <1>2
-----------------------------------------------------------------------------
(* The console.                                                            *)

\* A step of the console is a step of one part, and leaves the others alone.
LEMMA ConsoleStep ==
  ASSUME [ConsoleNext]_consoleVars
  PROVE  /\ [SignInNext]_signInVars /\ [SettingsNext]_settingsVars
         /\ [DashNext]_dashVars /\ [FiguresNext]_history
  <1>1. CASE UNCHANGED consoleVars
    BY <1>1 DEF consoleVars
  <1>2. CASE OfSignIn(SignInNext)
    BY <1>2 DEF OfSignIn
  <1>3. CASE OfSettings(SettingsNext)
    BY <1>3 DEF OfSettings
  <1>4. CASE OfDashboard(DashNext)
    BY <1>4 DEF OfDashboard
  <1>5. CASE OfFigures(FiguresNext)
    BY <1>5 DEF OfFigures
  <1> QED BY <1>1, <1>2, <1>3, <1>4, <1>5 DEF ConsoleNext

\* The invariants of the four parts.
ConsoleInv == SignInInv /\ SettingsInv /\ DashInv /\ FiguresInv

\* The invariant of the console: that of each of its parts.
THEOREM ConsoleInvariant == ConsoleSpec => []ConsoleInv
  <1>1. ConsoleInit => ConsoleInv
    BY SignInStarts, SettingsStarts, DashStarts, FiguresStart DEF ConsoleInit, ConsoleInv
  <1>2. ConsoleInv /\ [ConsoleNext]_consoleVars => ConsoleInv'
    <2> SUFFICES ASSUME ConsoleInv, [ConsoleNext]_consoleVars PROVE ConsoleInv'
      OBVIOUS
    <2>1. SignInInv'
      BY ConsoleStep, SignInInvStep DEF ConsoleInv
    <2>2. SettingsInv'
      BY ConsoleStep, SettingsInvStep DEF ConsoleInv
    <2>3. DashInv'
      BY ConsoleStep, DashInvStep DEF ConsoleInv
    <2>4. FiguresInv'
      BY ConsoleStep, FiguresInvStep DEF ConsoleInv
    <2> QED BY <2>1, <2>2, <2>3, <2>4 DEF ConsoleInv
  <1> QED BY <1>1, <1>2, PTL DEF ConsoleSpec

\* What holds of the parts holds of the console: the sessions, the cards and the dashboard
\* are safe, and a stored review goes back only through a stale tab.
THEOREM ConsoleIsSafe ==
  ConsoleSpec => [](SignInIsSafe /\ CardsAreTrue /\ DashboardLosesNothing) /\ RegressOnlyIfStale
  <1>1. ConsoleInv => SignInIsSafe /\ CardsAreTrue /\ DashboardLosesNothing
    BY SignInGives, SettingsGives DEF ConsoleInv, DashInv
  <1>2. ConsoleInv /\ [ConsoleNext]_consoleVars => [StaleWrites]_signInVars
    BY ConsoleStep, RegressStep DEF ConsoleInv
  <1>3. ConsoleSpec => [][StaleWrites]_signInVars
    BY <1>2, ConsoleInvariant, PTL DEF ConsoleSpec
  <1>4. ConsoleSpec => RegressOnlyIfStale
    BY <1>3 DEF RegressOnlyIfStale, StaleWrites
  <1> QED BY <1>1, <1>4, ConsoleInvariant, PTL

\* Every part of the console keeps its types.
THEOREM ConsoleTypeOKAlways == ConsoleSpec => []ConsoleTypeOK
  <1>1. ConsoleInv => ConsoleTypeOK
    BY DEF ConsoleInv, ConsoleTypeOK, SignInInv, SettingsInv, DashInv, FiguresInv
  <1> QED BY <1>1, ConsoleInvariant, PTL

\* Whatever order the proofs are fetched in and whatever totals they state, detectAnomalies
\* flags exactly the falls, rises and gaps its thresholds ask for and the margin is never
\* shown above the true one, although both divide BigInts, which truncates
\* (shared-types/src/anomaly.ts, lib/format.ts).
THEOREM FiguresAreExactAlways == ConsoleSpec => []FiguresAreExact
  <1>1. FiguresInv => FiguresAreExact
    BY FlagsGiven, MarginGiven DEF FiguresAreExact
  <1> QED BY <1>1, ConsoleInvariant, PTL DEF ConsoleInv
=============================================================================
