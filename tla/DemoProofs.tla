----------------------------- MODULE DemoProofs -----------------------------
(***************************************************************************)
(* Theorems about the website's demo: for every number of visitors,        *)
(* institutions, accounts and scenarios, and every order of the requests   *)
(* of their pages.                                                         *)
(***************************************************************************)
EXTENDS Demo, FiniteSetTheorems, SequenceTheorems, NaturalsInduction, WellFoundedInduction, TLAPS

-----------------------------------------------------------------------------
(* Induction over a set of numbers, and the sum of the balances by it.     *)

LEMMA LeastNat ==
  ASSUME NEW T, T \subseteq Nat, T # {}
  PROVE  \E x \in T : \A y \in T : x <= y
  <1>1. PICK x \in T : \A y \in T : ~ (<<y, x>> \in OpToRel(<, Nat))
    BY WFMin, NatLessThanWellFounded
  <1>2. \A y \in T : ~ (y < x)
    BY <1>1 DEF OpToRel
  <1> QED BY <1>2

LEMMA SetInduction ==
  ASSUME NEW T, 0 \in T, \A n \in Nat : n \in T => n + 1 \in T
  PROVE  Nat \subseteq T
  <1> SUFFICES ASSUME Nat \ T # {} PROVE FALSE
    OBVIOUS
  <1>1. PICK x \in Nat \ T : \A y \in Nat \ T : x <= y
    BY LeastNat
  <1>2. x # 0 /\ x - 1 \in Nat /\ x - 1 \in T
    BY <1>1
  <1> QED BY <1>1, <1>2

\* f adds up the balances of the first m accounts.
SumsUpTo(f, balances, m) ==
  f = [n \in 0..m |-> IF n = 0 THEN 0 ELSE f[n - 1] + balances[Account[n]]]

LEMMA SumsExist ==
  ASSUME NEW balances \in [Accounts -> Nat]
  PROVE  \E f \in [0..Len(Account) -> Nat] : SumsUpTo(f, balances, Len(Account))
  <1> DEFINE T == {m \in Nat : m <= Len(Account) =>
                     \E f \in [0..m -> Nat] : SumsUpTo(f, balances, m)}
  <1>1. Account \in Seq(Accounts) /\ Len(Account) \in Nat
    BY DemoAssumption
  <1>2. 0 \in T
    <2> DEFINE f == [n \in 0..0 |-> 0]
    <2>1. f \in [0..0 -> Nat] /\ SumsUpTo(f, balances, 0)
      BY DEF SumsUpTo
    <2> QED BY <2>1
  <1>3. ASSUME NEW m \in Nat, m \in T, m + 1 <= Len(Account)
        PROVE  \E g \in [0..(m + 1) -> Nat] : SumsUpTo(g, balances, m + 1)
    <2>1. PICK f \in [0..m -> Nat] : SumsUpTo(f, balances, m)
      BY <1>1, <1>3
    <2> DEFINE next == f[m] + balances[Account[m + 1]]
    <2>2. next \in Nat
      BY <1>1, <1>3
    <2> DEFINE g == [n \in 0..(m + 1) |-> IF n = m + 1 THEN next ELSE f[n]]
    <2>3. g \in [0..(m + 1) -> Nat]
      BY <2>2
    <2>4. \A n \in 0..(m + 1) :
            g[n] = IF n = 0 THEN 0 ELSE g[n - 1] + balances[Account[n]]
      BY <2>1 DEF SumsUpTo
    <2>5. SumsUpTo(g, balances, m + 1)
      BY <2>4 DEF SumsUpTo
    <2> QED BY <2>3, <2>5
  <1>4. Nat \subseteq T
    <2>1. ASSUME NEW m \in Nat, m \in T PROVE m + 1 \in T
      <3>1. CASE m + 1 <= Len(Account)
        <4>1. \E g \in [0..(m + 1) -> Nat] : SumsUpTo(g, balances, m + 1)
          BY <1>3, <2>1, <3>1
        <4> QED BY <4>1
      <3>2. CASE ~(m + 1 <= Len(Account))
        BY <3>2
      <3> QED BY <3>1, <3>2
    <2> HIDE DEF T
    <2> QED BY <1>2, <2>1, SetInduction
  <1> QED BY <1>1, <1>4

\* The total of complete balances is a number.
LEMMA TotalIsNat ==
  ASSUME NEW balances \in [Accounts -> Nat]
  PROVE  Total(balances) \in Nat
  <1>1. PICK f \in [0..Len(Account) -> Nat] : SumsUpTo(f, balances, Len(Account))
    BY SumsExist
  <1> DEFINE N == Len(Account)
             sum == CHOOSE g : SumsUpTo(g, balances, N)
  <1>2. Account \in Seq(Accounts) /\ N \in Nat
    BY DemoAssumption
  <1>3. SumsUpTo(sum, balances, N)
    BY <1>1
  <1>4. Total(balances) = sum[N]
    BY DEF Total, SumsUpTo
  <1> DEFINE T == {n \in Nat : n <= N => sum[n] \in Nat}
  <1> HIDE DEF sum
  <1>5. \A n \in 0..N : sum[n] = IF n = 0 THEN 0 ELSE sum[n - 1] + balances[Account[n]]
    BY <1>3 DEF SumsUpTo
  <1>6. 0 \in T
    BY <1>2, <1>5
  <1>7. \A n \in Nat : n \in T => n + 1 \in T
    <2> SUFFICES ASSUME NEW n \in Nat, n \in T, n + 1 <= N PROVE sum[n + 1] \in Nat
      OBVIOUS
    <2>1. sum[n + 1] = sum[n] + balances[Account[n + 1]]
      BY <1>2, <1>5
    <2>2. Account[n + 1] \in Accounts /\ sum[n] \in Nat
      BY <1>2
    <2> QED BY <2>1, <2>2
  <1>8. Nat \subseteq T
    <2> HIDE DEF T
    <2> QED BY <1>6, <1>7, SetInduction
  <1> QED BY <1>2, <1>4, <1>8

-----------------------------------------------------------------------------
(* The steps of a page.                                                    *)

LEMMA StepFacts ==
  /\ DOMAIN Steps = 1..6
  /\ StepId = {"registry", "connect", "reserves", "prove", "verify", "inclusion"}
  /\ Steps[1] = "registry" /\ Steps[2] = "connect" /\ Steps[3] = "reserves"
  /\ Steps[4] = "prove" /\ Steps[5] = "verify" /\ Steps[6] = "inclusion"
  <1>1. /\ Steps[1] = "registry" /\ Steps[2] = "connect" /\ Steps[3] = "reserves"
        /\ Steps[4] = "prove" /\ Steps[5] = "verify" /\ Steps[6] = "inclusion"
        /\ DOMAIN Steps = 1..6
    BY DEF Steps
  <1>2. StepId = {Steps[i] : i \in 1..6}
    BY <1>1 DEF StepId, Range
  <1> QED BY <1>1, <1>2

LEMMA IndexIs ==
  ASSUME NEW i \in 1..6
  PROVE  Index(Steps[i]) = i
  BY StepFacts DEF Index

LEMMA LaterIs ==
  /\ Later("connect") = {"reserves"} /\ Later("reserves") = {"prove"}
  /\ Later("prove") = {"verify"} /\ Later("verify") = {"inclusion"}
  /\ Later("inclusion") = {}
  <1>1. Len(Steps) = 6
    BY DEF Steps
  <1>2. /\ Index("connect") = 2 /\ Index("reserves") = 3 /\ Index("prove") = 4
        /\ Index("verify") = 5 /\ Index("inclusion") = 6
    BY IndexIs, StepFacts
  <1> QED BY <1>1, <1>2, StepFacts DEF Later

\* A step is open only when every step before it is done.
InOrder(status) ==
  \A i, k \in DOMAIN Steps : i < k /\ status[Steps[k]] # "locked" => status[Steps[i]] = "done"

\* Each step but the first is open only when the one before it is done.
LEMMA InOrderIs ==
  ASSUME NEW status
  PROVE  InOrder(status) <=>
           /\ status["connect"] # "locked" => status["registry"] = "done"
           /\ status["reserves"] # "locked" => status["connect"] = "done"
           /\ status["prove"] # "locked" => status["reserves"] = "done"
           /\ status["verify"] # "locked" => status["prove"] = "done"
           /\ status["inclusion"] # "locked" => status["verify"] = "done"
  <1>1. InOrder(status) <=> \A i, k \in 1..6 :
          i < k /\ status[Steps[k]] # "locked" => status[Steps[i]] = "done"
    BY StepFacts DEF InOrder
  <1>2. ASSUME InOrder(status)
        PROVE  /\ status["connect"] # "locked" => status["registry"] = "done"
               /\ status["reserves"] # "locked" => status["connect"] = "done"
               /\ status["prove"] # "locked" => status["reserves"] = "done"
               /\ status["verify"] # "locked" => status["prove"] = "done"
               /\ status["inclusion"] # "locked" => status["verify"] = "done"
    <2>1. ASSUME NEW k \in 2..6, status[Steps[k]] # "locked"
          PROVE  status[Steps[k - 1]] = "done"
      BY <1>1, <1>2, <2>1
    <2>2. /\ status[Steps[2]] # "locked" => status[Steps[1]] = "done"
          /\ status[Steps[3]] # "locked" => status[Steps[2]] = "done"
          /\ status[Steps[4]] # "locked" => status[Steps[3]] = "done"
          /\ status[Steps[5]] # "locked" => status[Steps[4]] = "done"
          /\ status[Steps[6]] # "locked" => status[Steps[5]] = "done"
      BY <2>1
    <2> QED BY <2>2, StepFacts
  <1>3. ASSUME /\ status["connect"] # "locked" => status["registry"] = "done"
               /\ status["reserves"] # "locked" => status["connect"] = "done"
               /\ status["prove"] # "locked" => status["reserves"] = "done"
               /\ status["verify"] # "locked" => status["prove"] = "done"
               /\ status["inclusion"] # "locked" => status["verify"] = "done",
               NEW i \in 1..6, NEW k \in 1..6, i < k, status[Steps[k]] # "locked"
        PROVE  status[Steps[i]] = "done"
    <2>1. CASE k = 2
      BY <1>3, <2>1, StepFacts
    <2>2. CASE k = 3
      BY <1>3, <2>2, StepFacts
    <2>3. CASE k = 4
      BY <1>3, <2>3, StepFacts
    <2>4. CASE k = 5
      BY <1>3, <2>4, StepFacts
    <2>5. CASE k = 6
      BY <1>3, <2>5, StepFacts
    <2> QED BY <1>3, <2>1, <2>2, <2>3, <2>4, <2>5
  <1> QED BY <1>1, <1>2, <1>3

-----------------------------------------------------------------------------
(* The invariant.                                                          *)

\* Where the request of a step may be.
StopsOf(step) ==
  CASE step = "connect"  -> {"connect"}
    [] step = "reserves" -> {"reading", "holding"}
    [] step = "prove"    -> {"seeding", "posting", "cycle", "saving", "proof"}
    [] step = "verify"   -> {"verify"}
    [] OTHER             -> {"inclusion"}

Logs == [StepId -> (Institution \X Nat) \cup {None}]
Loads == SUBSET (Institution \X Nat)

\* What a page shows is of its institution and run, and its steps open in order.
PanelsOK(p, log) ==
  /\ p \in Page /\ log \in Logs
  /\ \A s \in StepId : log[s] # None => log[s] = <<p.inst, p.run>>
  /\ InOrder(p.status) /\ p.status["registry"] \notin {"ready", "locked"}

\* While the registry of this run loads nothing else has happened in it.
LoadsOK(p, load) ==
  /\ load \in Loads
  /\ \A l \in load : l[2] <= p.run /\ (l[2] = p.run => l[1] = p.inst /\ p.status = Starting)

\* The step that runs is one of this page, which is busy.
JobOK(p, j) ==
  /\ j \in Job \cup {None}
  /\ j # None =>
       /\ p.busy /\ j.inst = p.inst /\ j.run = p.run
       /\ j.step # "registry" /\ p.status[j.step] = "running" /\ j.at \in StopsOf(j.step)

PageOK(p, log, load, j) == PanelsOK(p, log) /\ LoadsOK(p, load) /\ JobOK(p, j)

\* The rows name proofs on the chain, and every proof covers what is owed.
RecordOK(ch, rw) ==
  /\ ch \in [Institution -> Seq(Nat)] /\ rw \in [Institution -> Seq(Nat)]
  /\ \A i \in Institution : /\ \A k \in DOMAIN ch[i] : ch[i][k] >= Owed[i]
                            /\ \A k \in DOMAIN rw[i] : rw[i][k] \in DOMAIN ch[i]

\* The request of a proof: from its start to its save a cycle holds the institution's
\* lock, so its own proof is the last; what it has read is the bank's, if the bank was
\* not seeded since; and once it is saved the latest row is its own or a later one.
CycleOK(b, lk, ch, rw, sd, v, j) ==
  j # None =>
    /\ j.since <= sd /\ j.own <= Len(ch[j.inst])
    /\ j.at \in {"cycle", "saving"} => lk[j.inst] = v
    /\ j.at = "cycle" /\ j.since = sd => \A a \in Accounts : j.read[a] \in {None, b[a]}
    /\ j.at = "saving" => /\ j.own = Len(ch[j.inst]) /\ j.own # 0
                          /\ Attested(j.inst) /\ j.since = sd => j.total = Total(b)
    /\ j.at = "proof" => rw[j.inst] # << >> /\ j.own <= Last(rw[j.inst])

ProofOK(ch, p) == p.status["prove"] = "done" => p.proof \in DOMAIN ch[p.inst]

BankOK(b, lk, sd) ==
  b \in [Accounts -> Nat] /\ lk \in [Institution -> Visitor \cup {None}] /\ sd \in Nat

PagesTyped ==
  /\ page \in [Visitor -> Page] /\ shown \in [Visitor -> Logs]
  /\ loads \in [Visitor -> Loads] /\ job \in [Visitor -> Job \cup {None}]

PagesInv == PagesTyped /\ \A v \in Visitor : PageOK(page[v], shown[v], loads[v], job[v])

CyclesInv ==
  /\ BankOK(bank, lock, seeds) /\ RecordOK(chain, rows)
  /\ \A v \in Visitor : CycleOK(bank, lock, chain, rows, seeds, v, job[v])

ProofsInv == \A v \in Visitor : ProofOK(chain, page[v])

DemoInv == PagesInv /\ CyclesInv /\ ProofsInv

-----------------------------------------------------------------------------
(* What one page does: its panels, its loads and its step.                 *)

LEMMA StartingIs ==
  /\ Starting \in [StepId -> StepStatus]
  /\ Starting["registry"] = "running"
  /\ \A s \in StepId : s # "registry" => Starting[s] = "locked"
  /\ InOrder(Starting)
  <1>1. /\ Starting \in [StepId -> StepStatus]
        /\ Starting["registry"] = "running"
        /\ \A s \in StepId : s # "registry" => Starting[s] = "locked"
    BY StepFacts DEF Starting, StepStatus
  <1>2. InOrder(Starting)
    BY <1>1, StepFacts, InOrderIs
  <1> QED BY <1>1, <1>2

LEMMA EmptyIs == EmptyLogs \in Logs /\ \A s \in StepId : EmptyLogs[s] = None
  BY DEF EmptyLogs, Logs

LEMMA StatusesDiffer ==
  ASSUME NEW p, NEW log, PanelsOK(p, log)
  PROVE  p.status \in [StepId -> StepStatus] /\ p.run \in Nat /\ p.inst \in Institution
         /\ p.busy \in BOOLEAN
  BY DEF PanelsOK, Page

\* A page that is not busy runs no step; one whose registry still loads runs none either.
LEMMA Idle ==
  ASSUME NEW p, NEW j, JobOK(p, j), ~p.busy \/ p.status = Starting
  PROVE  j = None
  <1> SUFFICES ASSUME j # None PROVE FALSE
    OBVIOUS
  <1>1. p.busy /\ j.step # "registry" /\ p.status[j.step] = "running" /\ j \in Job
    BY DEF JobOK
  <1>2. j.step \in StepId
    BY <1>1 DEF Job
  <1> QED BY <1>1, <1>2, StartingIs

\* The registry of this run has been answered once a step runs or is ready.
LEMMA NotLoading ==
  ASSUME NEW p, NEW load, NEW s \in StepId, LoadsOK(p, load), s # "registry", p.status[s] # "locked"
  PROVE  \A l \in load : l[2] # p.run
  BY StartingIs DEF LoadsOK

\* An institution or a restart: a new run, whose registry loads.
LEMMA ClearedPage ==
  ASSUME NEW p, NEW log, NEW load, NEW j, PageOK(p, log, load, j), ~p.busy, NEW inst \in Institution
  PROVE  PageOK([p EXCEPT !.inst = inst, !.run = p.run + 1, !.status = Starting, !.proof = None],
                EmptyLogs, load \cup {<<inst, p.run + 1>>}, j)
  <1> DEFINE q == [p EXCEPT !.inst = inst, !.run = p.run + 1, !.status = Starting, !.proof = None]
  <1>1. PanelsOK(p, log) /\ LoadsOK(p, load) /\ JobOK(p, j) /\ j = None
    BY Idle DEF PageOK
  <1>2. p \in Page /\ p.run \in Nat
    BY <1>1 DEF PanelsOK, Page
  <1>3. q \in Page /\ q.status = Starting /\ q.run = p.run + 1 /\ q.inst = inst
    <2>1. Starting \in [StepId -> StepStatus] /\ p.run + 1 \in Nat
      BY <1>2, StartingIs
    <2>2. ASSUME NEW st \in [StepId -> StepStatus], NEW r \in Nat
          PROVE  LET e == [p EXCEPT !.inst = inst, !.run = r, !.status = st, !.proof = None]
                 IN e \in Page /\ e.status = st /\ e.run = r /\ e.inst = inst
      BY <1>2 DEF Page
    <2> QED BY <2>1, <2>2
  <1> HIDE DEF q
  <1>4. PanelsOK(q, EmptyLogs)
    BY <1>3, StartingIs, EmptyIs DEF PanelsOK
  <1>5. LoadsOK(q, load \cup {<<inst, p.run + 1>>})
    BY <1>1, <1>2, <1>3 DEF LoadsOK, Loads
  <1>6. JobOK(q, j)
    BY <1>1 DEF JobOK
  <1> QED BY <1>4, <1>5, <1>6 DEF PageOK, q

LEMMA ScenarioPage ==
  ASSUME NEW p, NEW log, NEW load, NEW j, PageOK(p, log, load, j), NEW scen \in Scenario
  PROVE  PageOK([p EXCEPT !.scen = scen], log, load, j)
  <1> DEFINE q == [p EXCEPT !.scen = scen]
  <1>1. PanelsOK(p, log) /\ LoadsOK(p, load) /\ JobOK(p, j) /\ p \in Page
    BY DEF PageOK, PanelsOK
  <1>2. q \in Page /\ q.status = p.status /\ q.run = p.run /\ q.inst = p.inst /\ q.busy = p.busy
    BY <1>1 DEF Page
  <1> HIDE DEF q
  <1>3. PanelsOK(q, log) /\ LoadsOK(q, load) /\ JobOK(q, j)
    BY <1>1, <1>2 DEF PanelsOK, LoadsOK, JobOK
  <1> QED BY <1>3 DEF PageOK, q

\* An answer to an effect that was cleaned up.
LEMMA LateAnswerPage ==
  ASSUME NEW p, NEW log, NEW load, NEW j, PageOK(p, log, load, j), NEW l
  PROVE  PageOK(p, log, load \ {l}, j)
  BY DEF PageOK, LoadsOK, Loads

\* The answer to the effect of this run: nothing else has happened in it.
LEMMA AnsweredPage ==
  ASSUME NEW p, NEW log, NEW load, NEW j, PageOK(p, log, load, j), NEW l \in load, l[2] = p.run,
         NEW contract \in Institution \cup {None}, NEW proof \in Nat \cup {None},
         NEW status \in [StepId -> StepStatus], InOrder(status),
         status["registry"] \notin {"ready", "locked"}
  PROVE  PageOK([p EXCEPT !.contract = contract, !.proof = proof, !.status = status],
                [log EXCEPT !["registry"] = l], load \ {l}, j)
  <1> DEFINE q == [p EXCEPT !.contract = contract, !.proof = proof, !.status = status]
             lg == [log EXCEPT !["registry"] = l]
  <1>1. PanelsOK(p, log) /\ LoadsOK(p, load) /\ JobOK(p, j) /\ p \in Page
    BY DEF PageOK, PanelsOK
  <1>2. load \in Loads /\ l \in Institution \X Nat /\ l[1] = p.inst /\ p.status = Starting
    BY <1>1 DEF LoadsOK, Loads
  <1>3. j = None
    BY <1>1, <1>2, Idle
  <1>4. q \in Page /\ q.status = status /\ q.run = p.run /\ q.inst = p.inst
    BY <1>1 DEF Page
  <1>5. lg \in Logs /\ lg["registry"] = l /\ \A s \in StepId : s # "registry" => lg[s] = log[s]
    BY <1>1, <1>2, StepFacts DEF PanelsOK, Logs
  <1>6. l = <<p.inst, p.run>>
    BY <1>2
  <1> HIDE DEF q, lg
  <1>7. PanelsOK(q, lg)
    BY <1>1, <1>4, <1>5, <1>6 DEF PanelsOK
  <1>8. \A k \in load \ {l} : k[2] # p.run
    <2> SUFFICES ASSUME NEW k \in load, k[2] = p.run PROVE k = l
      OBVIOUS
    <2>1. k \in Institution \X Nat /\ k[1] = p.inst
      BY <1>1, <1>2 DEF LoadsOK, Loads
    <2>2. k = <<p.inst, p.run>>
      BY <2>1
    <2> QED BY <1>6, <2>2
  <1>9. LoadsOK(q, load \ {l})
    <2>1. load \ {l} \in Loads
      BY <1>2 DEF Loads
    <2>2. \A k \in load \ {l} : k[2] <= p.run
      BY <1>1 DEF LoadsOK
    <2> QED BY <1>4, <1>8, <2>1, <2>2 DEF LoadsOK
  <1>10. JobOK(q, j)
    BY <1>3 DEF JobOK
  <1> QED BY <1>7, <1>9, <1>10 DEF PageOK, q, lg

\* A step is started.
LEMMA StartedPage ==
  ASSUME NEW p, NEW log, NEW load, NEW j, PageOK(p, log, load, j), ~p.busy,
         NEW step \in StepId, p.status[step] = "ready",
         NEW k \in Job, k.step = step, k.inst = p.inst, k.run = p.run, k.at \in StopsOf(step)
  PROVE  PageOK([p EXCEPT !.busy = TRUE, !.status[step] = "running"], log, load, k)
  <1> DEFINE q == [p EXCEPT !.busy = TRUE, !.status[step] = "running"]
  <1>1. PanelsOK(p, log) /\ LoadsOK(p, load) /\ p \in Page /\ step # "registry"
        /\ p.status \in [StepId -> StepStatus]
    BY DEF PageOK, PanelsOK, Page
  <1>2. q \in Page /\ q.run = p.run /\ q.inst = p.inst /\ q.busy
        /\ q.status = [p.status EXCEPT ![step] = "running"]
    BY <1>1 DEF Page, StepStatus
  <1> HIDE DEF q
  <1>3. /\ q.status[step] = "running"
        /\ \A s \in StepId : s # step => q.status[s] = p.status[s]
    BY <1>1, <1>2
  <1>4. InOrder(q.status)
    <2>1. InOrder(p.status)
      BY <1>1 DEF PanelsOK
    <2> QED BY <1>3, <2>1, InOrderIs, StepFacts
  <1>5. PanelsOK(q, log)
    BY <1>1, <1>2, <1>3, <1>4, StepFacts DEF PanelsOK
  <1>6. LoadsOK(q, load)
    <2>1. \A l \in load : l[2] # p.run
      BY <1>1, NotLoading
    <2> QED BY <1>1, <1>2, <2>1 DEF LoadsOK
  <1>7. JobOK(q, k)
    BY <1>1, <1>2, <1>3 DEF JobOK
  <1> QED BY <1>5, <1>6, <1>7 DEF PageOK, q

\* The request of a step goes on.
LEMMA RunningPage ==
  ASSUME NEW p, NEW log, NEW load, NEW j, PageOK(p, log, load, j), j # None,
         NEW k \in Job, k.step = j.step, k.inst = j.inst, k.run = j.run,
         k.at \in StopsOf(j.step)
  PROVE  PageOK(p, log, load, k)
  BY DEF PageOK, JobOK

\* A step ends: the steps after it are still locked, and one of them may open.
EndedStatus(status, step, outcome) ==
  [s \in StepId |-> IF s = step THEN outcome
                    ELSE IF s \in (IF outcome = "done" THEN Later(step) ELSE {}) THEN "ready"
                    ELSE status[s]]

LEMMA EndedInOrder ==
  ASSUME NEW status \in [StepId -> StepStatus], InOrder(status), NEW step \in StepId,
         step # "registry", status[step] = "running", NEW outcome \in {"done", "failed", "ready"}
  PROVE  InOrder(EndedStatus(status, step, outcome))
  <1> DEFINE st == EndedStatus(status, step, outcome)
  <1>1. \A s \in StepId : st[s] = IF s = step THEN outcome
                    ELSE IF s \in (IF outcome = "done" THEN Later(step) ELSE {}) THEN "ready"
                    ELSE status[s]
    BY DEF EndedStatus
  <1> HIDE DEF st
  <1>2. /\ status["connect"] # "locked" => status["registry"] = "done"
        /\ status["reserves"] # "locked" => status["connect"] = "done"
        /\ status["prove"] # "locked" => status["reserves"] = "done"
        /\ status["verify"] # "locked" => status["prove"] = "done"
        /\ status["inclusion"] # "locked" => status["verify"] = "done"
    BY InOrderIs
  <1>3. /\ st["connect"] # "locked" => st["registry"] = "done"
        /\ st["reserves"] # "locked" => st["connect"] = "done"
        /\ st["prove"] # "locked" => st["reserves"] = "done"
        /\ st["verify"] # "locked" => st["prove"] = "done"
        /\ st["inclusion"] # "locked" => st["verify"] = "done"
    <2> USE <1>1, <1>2, StepFacts, LaterIs
    <2>1. CASE step = "connect"
      BY <2>1
    <2>2. CASE step = "reserves"
      BY <2>2
    <2>3. CASE step = "prove"
      BY <2>3
    <2>4. CASE step = "verify"
      BY <2>4
    <2>5. CASE step = "inclusion"
      BY <2>5
    <2> QED BY <2>1, <2>2, <2>3, <2>4, <2>5
  <1>4. InOrder(st)
    BY <1>3, InOrderIs
  <1> QED BY <1>4 DEF st

LEMMA EndedPage ==
  ASSUME NEW p, NEW log, NEW load, NEW j, PageOK(p, log, load, j), j # None,
         NEW outcome \in {"done", "failed", "ready"}, NEW proof \in Nat \cup {None},
         NEW status, status = EndedStatus(p.status, j.step, outcome)
  PROVE  PageOK([p EXCEPT !.status = status, !.busy = FALSE, !.proof = proof],
                [log EXCEPT ![j.step] = <<j.inst, j.run>>], load, None)
  <1> DEFINE q == [p EXCEPT !.status = status, !.busy = FALSE, !.proof = proof]
             lg == [log EXCEPT ![j.step] = <<j.inst, j.run>>]
  <1>1. PanelsOK(p, log) /\ LoadsOK(p, load) /\ JobOK(p, j) /\ p \in Page /\ j \in Job
        /\ p.status \in [StepId -> StepStatus] /\ InOrder(p.status)
    BY DEF PageOK, PanelsOK, JobOK, Page
  <1>2. /\ j.step \in StepId /\ j.step # "registry" /\ p.status[j.step] = "running"
        /\ j.inst = p.inst /\ j.run = p.run /\ p.inst \in Institution /\ p.run \in Nat
    BY <1>1 DEF JobOK, Job, Page
  <1>3. InOrder(status)
    BY <1>1, <1>2, EndedInOrder
  <1>4. status \in [StepId -> StepStatus] /\ status["registry"] = p.status["registry"]
    <2>1. "registry" \notin Later(j.step)
      BY <1>2, StepFacts, LaterIs
    <2> QED BY <1>1, <1>2, <2>1, StepFacts DEF EndedStatus, StepStatus
  <1>5. q \in Page /\ q.status = status /\ q.run = p.run /\ q.inst = p.inst
    BY <1>1, <1>4 DEF Page
  <1>6. lg \in Logs /\ \A s \in StepId : lg[s] = IF s = j.step THEN <<p.inst, p.run>> ELSE log[s]
    BY <1>1, <1>2 DEF PanelsOK, Logs
  <1> HIDE DEF q, lg
  <1>7. PanelsOK(q, lg)
    BY <1>1, <1>3, <1>4, <1>5, <1>6 DEF PanelsOK
  <1>8. LoadsOK(q, load)
    <2>1. \A l \in load : l[2] # p.run
      BY <1>1, <1>2, NotLoading
    <2> QED BY <1>1, <1>5, <2>1 DEF LoadsOK
  <1>9. JobOK(q, None)
    BY DEF JobOK
  <1> QED BY <1>7, <1>8, <1>9 DEF PageOK, q, lg

-----------------------------------------------------------------------------
(* What the steps of others leave of a request: the bank is seeded, a lock *)
(* is taken or released, a proof is published and saved.                   *)

LEMMA Typed ==
  ASSUME NEW j, j \in Job \cup {None}, j # None
  PROVE  /\ j \in Job /\ j.step \in StepId /\ j.inst \in Institution /\ j.scen \in Scenario
         /\ j.run \in Nat /\ j.at \in Stop /\ j.read \in [Accounts -> Nat \cup {None}]
         /\ j.total \in Nat /\ j.since \in Nat /\ j.own \in Nat
  BY DEF Job

LEMMA AfterSeed ==
  ASSUME NEW b, NEW b2, NEW lk, NEW ch, NEW rw, NEW sd \in Nat, NEW w, NEW j \in Job \cup {None},
         CycleOK(b, lk, ch, rw, sd, w, j)
  PROVE  CycleOK(b2, lk, ch, rw, sd + 1, w, j)
  <1> SUFFICES ASSUME j # None PROVE CycleOK(b2, lk, ch, rw, sd + 1, w, j)
    BY DEF CycleOK
  <1>1. j.since \in Nat /\ j.since <= sd
    BY Typed DEF CycleOK
  <1>2. j.since # sd + 1 /\ j.since <= sd + 1
    BY <1>1
  <1> QED BY <1>2 DEF CycleOK

LEMMA AfterLock ==
  ASSUME NEW b, NEW lk \in [Institution -> Visitor \cup {None}], NEW ch, NEW rw, NEW sd,
         NEW w, NEW j \in Job \cup {None}, CycleOK(b, lk, ch, rw, sd, w, j),
         NEW i \in Institution, lk[i] # w, NEW u
  PROVE  CycleOK(b, [lk EXCEPT ![i] = u], ch, rw, sd, w, j)
  <1> DEFINE l2 == [lk EXCEPT ![i] = u]
  <1> SUFFICES ASSUME j # None PROVE CycleOK(b, l2, ch, rw, sd, w, j)
    BY DEF CycleOK
  <1>1. j.inst \in Institution
    BY Typed
  <1>2. lk[j.inst] = w => l2[j.inst] = w
    BY <1>1
  <1> HIDE DEF l2
  <1> QED BY <1>2 DEF CycleOK

LEMMA AfterPublish ==
  ASSUME NEW b, NEW lk, NEW ch \in [Institution -> Seq(Nat)], NEW rw, NEW sd,
         NEW w, NEW j \in Job \cup {None}, CycleOK(b, lk, ch, rw, sd, w, j),
         NEW i \in Institution, lk[i] # w, NEW t \in Nat
  PROVE  CycleOK(b, lk, [ch EXCEPT ![i] = Append(@, t)], rw, sd, w, j)
  <1> DEFINE c2 == [ch EXCEPT ![i] = Append(@, t)]
  <1> SUFFICES ASSUME j # None PROVE CycleOK(b, lk, c2, rw, sd, w, j)
    BY DEF CycleOK
  <1>1. j.inst \in Institution /\ j.own \in Nat
    BY Typed
  <1>2. ch[j.inst] \in Seq(Nat) /\ Len(ch[j.inst]) \in Nat
    BY <1>1
  <1>3. Len(c2[j.inst]) \in Nat /\ Len(ch[j.inst]) <= Len(c2[j.inst])
    BY <1>1, <1>2
  <1>4. j.inst # i => c2[j.inst] = ch[j.inst]
    BY <1>1
  <1> HIDE DEF c2
  <1>5. j.own <= Len(c2[j.inst])
    BY <1>1, <1>2, <1>3 DEF CycleOK
  <1>6. j.at = "saving" => j.inst # i
    BY DEF CycleOK
  <1> QED BY <1>4, <1>5, <1>6 DEF CycleOK

LEMMA AfterSave ==
  ASSUME NEW b, NEW lk, NEW ch, NEW rw \in [Institution -> Seq(Nat)], NEW sd,
         NEW w, NEW j \in Job \cup {None}, CycleOK(b, lk, ch, rw, sd, w, j),
         NEW i \in Institution, NEW id \in Nat, id = Len(ch[i])
  PROVE  CycleOK(b, lk, ch, [rw EXCEPT ![i] = Append(@, id)], sd, w, j)
  <1> DEFINE r2 == [rw EXCEPT ![i] = Append(@, id)]
  <1> SUFFICES ASSUME j # None PROVE CycleOK(b, lk, ch, r2, sd, w, j)
    BY DEF CycleOK
  <1>1. j.inst \in Institution /\ j.own \in Nat /\ j.own <= Len(ch[j.inst])
    BY Typed DEF CycleOK
  <1>2. j.inst # i => r2[j.inst] = rw[j.inst]
    BY <1>1
  <1>3. j.inst = i => r2[j.inst] # << >> /\ Last(r2[j.inst]) = id
    <2> SUFFICES ASSUME j.inst = i PROVE r2[i] # << >> /\ Last(r2[i]) = id
      OBVIOUS
    <2>1. rw[i] \in Seq(Nat) /\ r2[i] = Append(rw[i], id)
      OBVIOUS
    <2> HIDE DEF r2
    <2>2. Len(r2[i]) = Len(rw[i]) + 1 /\ r2[i][Len(rw[i]) + 1] = id /\ Len(rw[i]) \in Nat
      BY <2>1
    <2>3. r2[i] # << >>
      BY <2>2
    <2> QED BY <2>2, <2>3 DEF Last
  <1> HIDE DEF r2
  <1>4. j.at = "proof" => r2[j.inst] # << >> /\ j.own <= Last(r2[j.inst])
    BY <1>1, <1>2, <1>3 DEF CycleOK
  <1> QED BY <1>4 DEF CycleOK

-----------------------------------------------------------------------------
(* A step of one visitor.                                                  *)

LEMMA LocalPages ==
  ASSUME PagesInv, NEW v \in Visitor, NEW p, NEW log, NEW load, NEW j,
         page' = [page EXCEPT ![v] = p], shown' = [shown EXCEPT ![v] = log],
         loads' = [loads EXCEPT ![v] = load], job' = [job EXCEPT ![v] = j],
         PageOK(p, log, load, j)
  PROVE  PagesInv'
  <1>1. p \in Page /\ log \in Logs /\ load \in Loads /\ j \in Job \cup {None}
    BY DEF PageOK, PanelsOK, LoadsOK, JobOK
  <1>2. PagesTyped'
    BY <1>1 DEF PagesInv, PagesTyped
  <1>3. ASSUME NEW w \in Visitor
        PROVE  PageOK(page'[w], shown'[w], loads'[w], job'[w])
    <2>1. CASE w = v
      <3>1. page'[w] = p /\ shown'[w] = log /\ loads'[w] = load /\ job'[w] = j
        BY <2>1 DEF PagesInv, PagesTyped
      <3> QED BY <3>1
    <2>2. CASE w # v
      <3>1. page'[w] = page[w] /\ shown'[w] = shown[w] /\ loads'[w] = loads[w] /\ job'[w] = job[w]
        BY <2>2 DEF PagesInv, PagesTyped
      <3> QED BY <3>1 DEF PagesInv
    <2> QED BY <2>1, <2>2
  <1> QED BY <1>2, <1>3 DEF PagesInv

\* What a step does not assign stays, for this visitor as for the others.
LEMMA KeptFunction ==
  ASSUME NEW D, NEW f, f = [x \in D |-> f[x]], NEW v
  PROVE  f = [f EXCEPT ![v] = f[v]]
  OBVIOUS

LEMMA Kept ==
  ASSUME PagesInv, NEW v \in Visitor
  PROVE  /\ page = [page EXCEPT ![v] = page[v]] /\ shown = [shown EXCEPT ![v] = shown[v]]
         /\ loads = [loads EXCEPT ![v] = loads[v]] /\ job = [job EXCEPT ![v] = job[v]]
         /\ PageOK(page[v], shown[v], loads[v], job[v])
  BY DEF PagesInv, PagesTyped

LEMMA CyclesKept ==
  ASSUME CyclesInv, job' = job, bank' = bank, lock' = lock, chain' = chain, rows' = rows,
         seeds' = seeds
  PROVE  CyclesInv'
  BY DEF CyclesInv

\* Proofs are only added to a chain.
LEMMA LocalProofs ==
  ASSUME PagesInv, CyclesInv, ProofsInv, NEW v \in Visitor, NEW p, page' = [page EXCEPT ![v] = p],
         \A i \in Institution : DOMAIN chain[i] \subseteq DOMAIN chain'[i],
         ProofOK(chain', p)
  PROVE  ProofsInv'
  <1>1. ASSUME NEW w \in Visitor PROVE ProofOK(chain', page'[w])
    <2>1. CASE w = v
      <3>1. page'[w] = p
        BY <2>1 DEF PagesInv, PagesTyped
      <3> QED BY <3>1
    <2>2. CASE w # v
      <3>1. page'[w] = page[w] /\ page[w].inst \in Institution
        BY <2>2 DEF PagesInv, PagesTyped, Page
      <3> QED BY <3>1 DEF ProofsInv, ProofOK
    <2> QED BY <2>1, <2>2
  <1> QED BY <1>1 DEF ProofsInv

-----------------------------------------------------------------------------
(* The page's own actions.                                                 *)

LEMMA ClearedStep ==
  ASSUME DemoInv, NEW v \in Visitor, NEW inst \in Institution, ~page[v].busy, Cleared(v, inst)
  PROVE  DemoInv'
  <1> DEFINE p == [page[v] EXCEPT !.inst = inst, !.run = page[v].run + 1, !.status = Starting,
                                  !.proof = None]
  <1>1. PagesInv /\ CyclesInv /\ ProofsInv /\ page[v] \in Page
    BY DEF DemoInv, PagesInv, PagesTyped
  <1>2. PageOK(p, EmptyLogs, loads[v] \cup {<<inst, page[v].run + 1>>}, job[v])
    BY <1>1, ClearedPage DEF PagesInv
  <1>3. page' = [page EXCEPT ![v] = p]
    BY <1>1 DEF Cleared, PagesInv, PagesTyped, Page
  <1>4. /\ shown' = [shown EXCEPT ![v] = EmptyLogs]
        /\ loads' = [loads EXCEPT ![v] = loads[v] \cup {<<inst, page[v].run + 1>>}]
        /\ job' = job /\ bank' = bank /\ lock' = lock /\ chain' = chain /\ rows' = rows
        /\ seeds' = seeds
    BY DEF Cleared, shared
  <1>5. ProofOK(chain', p)
    <2>1. p.status = Starting
      BY <1>1 DEF Page
    <2>2. Starting["prove"] = "locked"
      BY StartingIs, StepFacts
    <2> QED BY <2>1, <2>2 DEF ProofOK
  <1> HIDE DEF p
  <1>6. PagesInv'
    <2>1. job' = [job EXCEPT ![v] = job[v]]
      BY <1>1, <1>4, Kept
    <2> DEFINE ld == loads[v] \cup {<<inst, page[v].run + 1>>}
               j == job[v]
    <2>2. /\ loads' = [loads EXCEPT ![v] = ld] /\ job' = [job EXCEPT ![v] = j]
          /\ PageOK(p, EmptyLogs, ld, j)
      BY <1>2, <1>4, <2>1
    <2> HIDE DEF ld, j
    <2> QED BY <1>1, <1>3, <1>4, <2>2, LocalPages
  <1>7. CyclesInv'
    BY <1>1, <1>4, CyclesKept
  <1>8. ProofsInv'
    BY <1>1, <1>3, <1>4, <1>5, LocalProofs
  <1> QED BY <1>6, <1>7, <1>8 DEF DemoInv

LEMMA ScenarioStep ==
  ASSUME DemoInv, NEW v \in Visitor, NEW scen \in Scenario, setScenario(v, scen)
  PROVE  DemoInv'
  <1> DEFINE p == [page[v] EXCEPT !.scen = scen]
  <1>1. PagesInv /\ CyclesInv /\ ProofsInv /\ page[v] \in Page
    BY DEF DemoInv, PagesInv, PagesTyped
  <1>2. PageOK(p, shown[v], loads[v], job[v])
    BY <1>1, ScenarioPage DEF PagesInv
  <1>3. page' = [page EXCEPT ![v] = p]
    BY DEF setScenario
  <1>4. /\ shown' = shown /\ loads' = loads /\ job' = job
        /\ bank' = bank /\ lock' = lock /\ chain' = chain /\ rows' = rows /\ seeds' = seeds
    BY DEF setScenario, shared
  <1>5. ProofOK(chain', p)
    <2>1. p.status = page[v].status /\ p.proof = page[v].proof /\ p.inst = page[v].inst
      BY <1>1 DEF Page
    <2> HIDE DEF p
    <2> QED BY <1>1, <1>4, <2>1 DEF ProofsInv, ProofOK
  <1> HIDE DEF p
  <1>6. PagesInv'
    <2>1. /\ shown' = [shown EXCEPT ![v] = shown[v]] /\ loads' = [loads EXCEPT ![v] = loads[v]]
          /\ job' = [job EXCEPT ![v] = job[v]]
      BY <1>1, <1>4, Kept
    <2> QED BY <1>1, <1>2, <1>3, <2>1, LocalPages
  <1>7. CyclesInv'
    BY <1>1, <1>4, CyclesKept
  <1>8. ProofsInv'
    BY <1>1, <1>3, <1>4, <1>5, LocalProofs
  <1> QED BY <1>6, <1>7, <1>8 DEF DemoInv

\* The answer to a load that was cleaned up changes nothing on the page.
LEMMA DroppedStep ==
  ASSUME DemoInv, NEW v \in Visitor, NEW l, loads' = [loads EXCEPT ![v] = @ \ {l}],
         page' = page, shown' = shown, job' = job, bank' = bank, lock' = lock, chain' = chain,
         rows' = rows, seeds' = seeds
  PROVE  DemoInv'
  <1>1. PagesInv /\ CyclesInv /\ ProofsInv
    BY DEF DemoInv
  <1>2. PageOK(page[v], shown[v], loads[v] \ {l}, job[v])
    BY <1>1, LateAnswerPage DEF PagesInv
  <1>3. /\ page' = [page EXCEPT ![v] = page[v]] /\ shown' = [shown EXCEPT ![v] = shown[v]]
        /\ loads' = [loads EXCEPT ![v] = loads[v] \ {l}] /\ job' = [job EXCEPT ![v] = job[v]]
    BY <1>1, Kept
  <1>4. PagesInv'
    <2> DEFINE p == page[v]
               lg == shown[v]
               ld == loads[v] \ {l}
               j == job[v]
    <2>1. /\ page' = [page EXCEPT ![v] = p] /\ shown' = [shown EXCEPT ![v] = lg]
          /\ loads' = [loads EXCEPT ![v] = ld] /\ job' = [job EXCEPT ![v] = j]
          /\ PageOK(p, lg, ld, j)
      BY <1>2, <1>3
    <2> HIDE DEF p, lg, ld, j
    <2> QED BY <1>1, <2>1, LocalPages
  <1>5. CyclesInv'
    BY <1>1, CyclesKept
  <1>6. ProofsInv'
    BY <1>1 DEF ProofsInv
  <1> QED BY <1>4, <1>5, <1>6 DEF DemoInv

\* The answer, or the failure, of the registry effect of this run.
LEMMA RegistryStep ==
  ASSUME DemoInv, NEW v \in Visitor, NEW l \in loads[v], ~Cancelled(v, l),
         NEW contract \in Institution \cup {None}, NEW proof \in Nat \cup {None},
         NEW status \in [StepId -> StepStatus], InOrder(status),
         status["registry"] \notin {"ready", "locked"}, status["prove"] = "locked",
         page' = [page EXCEPT ![v] = [@ EXCEPT !.contract = contract, !.proof = proof,
                                               !.status = status]],
         shown' = [shown EXCEPT ![v] = [@ EXCEPT !["registry"] = l]],
         loads' = [loads EXCEPT ![v] = @ \ {l}],
         job' = job, bank' = bank, lock' = lock, chain' = chain, rows' = rows, seeds' = seeds
  PROVE  DemoInv'
  <1> DEFINE p == [page[v] EXCEPT !.contract = contract, !.proof = proof, !.status = status]
             lg == [shown[v] EXCEPT !["registry"] = l]
  <1>1. PagesInv /\ CyclesInv /\ ProofsInv /\ page[v] \in Page
    BY DEF DemoInv, PagesInv, PagesTyped
  <1>2. PageOK(p, lg, loads[v] \ {l}, job[v])
    <2>1. l[2] = page[v].run /\ PageOK(page[v], shown[v], loads[v], job[v])
      BY <1>1 DEF Cancelled, PagesInv
    <2> QED BY <2>1, AnsweredPage
  <1>3. /\ page' = [page EXCEPT ![v] = p] /\ shown' = [shown EXCEPT ![v] = lg]
        /\ loads' = [loads EXCEPT ![v] = loads[v] \ {l}]
    OBVIOUS
  <1>4. ProofOK(chain', p)
    <2>1. p.status = status
      BY <1>1 DEF Page
    <2> QED BY <2>1 DEF ProofOK
  <1> HIDE DEF p, lg
  <1>5. PagesInv'
    <2>1. job' = [job EXCEPT ![v] = job[v]]
      BY <1>1, Kept
    <2> DEFINE ld == loads[v] \ {l}
               j == job[v]
    <2>2. /\ loads' = [loads EXCEPT ![v] = ld] /\ job' = [job EXCEPT ![v] = j]
          /\ PageOK(p, lg, ld, j)
      BY <1>2, <1>3, <2>1
    <2> HIDE DEF ld, j
    <2> QED BY <1>1, <1>3, <2>2, LocalPages
  <1>6. CyclesInv'
    BY <1>1, CyclesKept
  <1>7. ProofsInv'
    BY <1>1, <1>3, <1>4, LocalProofs
  <1> QED BY <1>5, <1>6, <1>7 DEF DemoInv

\* While the registry of this run loads, the page is as it started.
LEMMA LoadingStatus ==
  ASSUME DemoInv, NEW v \in Visitor, NEW l \in loads[v], ~Cancelled(v, l)
  PROVE  page[v].status = Starting /\ l[1] = page[v].inst /\ l[1] \in Institution
         /\ page[v] \in Page /\ shown[v] \in Logs
  BY DEF DemoInv, PagesInv, PagesTyped, PageOK, LoadsOK, Cancelled, Loads

\* The newest saved proof is one of the chain, if there is one.
LEMMA LatestRowIs ==
  ASSUME CyclesInv, NEW i \in Institution
  PROVE  /\ LatestRow(i) \in Nat \cup {None}
         /\ rows[i] # << >> => LatestRow(i) = Last(rows[i]) /\ LatestRow(i) \in DOMAIN chain[i]
  <1>1. rows[i] \in Seq(Nat) /\ chain[i] \in Seq(Nat)
        /\ \A k \in DOMAIN rows[i] : rows[i][k] \in DOMAIN chain[i]
    BY DEF CyclesInv, RecordOK
  <1>2. rows[i] # << >> => Len(rows[i]) \in DOMAIN rows[i] /\ Last(rows[i]) = rows[i][Len(rows[i])]
    BY <1>1 DEF Last
  <1>3. rows[i] # << >> => Last(rows[i]) \in DOMAIN chain[i] /\ Last(rows[i]) \in Nat
    BY <1>1, <1>2
  <1> QED BY <1>3 DEF LatestRow

LEMMA AnsweredStep ==
  ASSUME DemoInv, NEW v \in Visitor, NEW l, LoadAnswered(v, l)
  PROVE  DemoInv'
  <1>1. /\ l \in loads[v] /\ loads' = [loads EXCEPT ![v] = @ \ {l}] /\ job' = job /\ bank' = bank
        /\ lock' = lock /\ chain' = chain /\ rows' = rows /\ seeds' = seeds
    BY DEF LoadAnswered, shared
  <1>2. CASE Cancelled(v, l)
    <2>1. page' = page /\ shown' = shown
      BY <1>2 DEF LoadAnswered
    <2> QED BY <1>1, <2>1, DroppedStep
  <1>3. CASE ~Cancelled(v, l)
    <2> DEFINE contract == Registry(l[1]).contract
               proof == Registry(l[1]).proof
               status == [Starting EXCEPT !["registry"] = "done", !["connect"] = "ready"]
    <2>1. page[v].status = Starting /\ l[1] \in Institution /\ page[v] \in Page /\ shown[v] \in Logs
      BY <1>1, <1>3, LoadingStatus
    <2>2. contract \in Institution \cup {None} /\ proof \in Nat \cup {None}
      BY <2>1, LatestRowIs DEF Registry, DemoInv
    <2>3. /\ status \in [StepId -> StepStatus] /\ status["registry"] = "done"
          /\ status["connect"] = "ready"
          /\ \A s \in StepId : s \notin {"registry", "connect"} => status[s] = "locked"
      BY StartingIs, StepFacts DEF StepStatus
    <2>4. page' = [page EXCEPT ![v] = [@ EXCEPT !.contract = contract, !.proof = proof,
                                                !.status = status]]
      <3>1. page' = [page EXCEPT ![v] = [page[v] EXCEPT !.contract = contract, !.proof = proof,
                       !.status = [page[v].status EXCEPT !["registry"] = "done",
                                                         !["connect"] = "ready"]]]
        <4> HIDE DEF contract, proof, status
        <4>1. page \in [Visitor -> Page]
          BY DEF DemoInv, PagesInv, PagesTyped
        <4>2. page' = [page EXCEPT ![v].contract = contract, ![v].proof = proof,
                         ![v].status["registry"] = "done", ![v].status["connect"] = "ready"]
          BY <1>3 DEF LoadAnswered, contract, proof
        <4>3. page[v] \in [inst: Institution, scen: Scenario, run: Nat, status: [StepId -> StepStatus],
                           busy: BOOLEAN, contract: Institution \cup {None}, proof: Nat \cup {None}]
          BY <4>1 DEF Page
        <4> QED BY <4>1, <4>2, <4>3
      <3> QED BY <2>1, <3>1
    <2>5. shown' = [shown EXCEPT ![v] = [@ EXCEPT !["registry"] = l]]
      BY <1>3 DEF LoadAnswered
    <2> HIDE DEF contract, proof, status
    <2>6. InOrder(status) /\ status["prove"] = "locked"
      BY <2>3, InOrderIs, StepFacts
    <2> QED BY <1>1, <1>3, <2>2, <2>3, <2>4, <2>5, <2>6, RegistryStep
  <1> QED BY <1>2, <1>3

LEMMA FailedStep ==
  ASSUME DemoInv, NEW v \in Visitor, NEW l, LoadFailed(v, l)
  PROVE  DemoInv'
  <1>1. /\ l \in loads[v] /\ loads' = [loads EXCEPT ![v] = @ \ {l}] /\ job' = job /\ bank' = bank
        /\ lock' = lock /\ chain' = chain /\ rows' = rows /\ seeds' = seeds
    BY DEF LoadFailed, shared
  <1>2. CASE Cancelled(v, l)
    <2>1. page' = page /\ shown' = shown
      BY <1>2 DEF LoadFailed
    <2> QED BY <1>1, <2>1, DroppedStep
  <1>3. CASE ~Cancelled(v, l)
    <2> DEFINE status == [Starting EXCEPT !["registry"] = "failed"]
    <2>1. page[v].status = Starting /\ l[1] \in Institution /\ page[v] \in Page /\ shown[v] \in Logs
      BY <1>1, <1>3, LoadingStatus
    <2>2. /\ status \in [StepId -> StepStatus] /\ status["registry"] = "failed"
          /\ \A s \in StepId : s # "registry" => status[s] = "locked"
      BY StartingIs, StepFacts DEF StepStatus
    <2>3. page' = [page EXCEPT ![v] = [@ EXCEPT !.contract = None, !.proof = None,
                                                !.status = status]]
      BY <1>3, <2>1 DEF LoadFailed, DemoInv, PagesInv, PagesTyped, Page
    <2>4. shown' = [shown EXCEPT ![v] = [@ EXCEPT !["registry"] = l]]
      BY <1>3 DEF LoadFailed
    <2> HIDE DEF status
    <2>5. InOrder(status) /\ status["prove"] = "locked"
      BY <2>2, InOrderIs, StepFacts
    <2> QED BY <1>1, <1>3, <2>2, <2>3, <2>4, <2>5, RegistryStep
  <1> QED BY <1>2, <1>3

-----------------------------------------------------------------------------
(* A step is started, goes on and ends.                                    *)

LEMMA LocalCycles ==
  ASSUME DemoInv, NEW v \in Visitor, NEW j, job' = [job EXCEPT ![v] = j],
         BankOK(bank', lock', seeds'), RecordOK(chain', rows'),
         CycleOK(bank', lock', chain', rows', seeds', v, j),
         \A w \in Visitor : w # v => CycleOK(bank', lock', chain', rows', seeds', w, job[w])
  PROVE  CyclesInv'
  <1>1. ASSUME NEW w \in Visitor PROVE CycleOK(bank', lock', chain', rows', seeds', w, job'[w])
    <2>1. CASE w = v
      <3>1. job'[w] = j
        BY <2>1 DEF DemoInv, PagesInv, PagesTyped
      <3> QED BY <2>1, <3>1
    <2>2. CASE w # v
      <3>1. job'[w] = job[w]
        BY <2>2 DEF DemoInv, PagesInv, PagesTyped
      <3> QED BY <2>2, <3>1
    <2> QED BY <2>1, <2>2
  <1> QED BY <1>1 DEF CyclesInv

LEMMA Locals ==
  ASSUME DemoInv, NEW v \in Visitor
  PROVE  /\ PagesInv /\ CyclesInv /\ ProofsInv
         /\ page[v] \in Page /\ job[v] \in Job \cup {None}
         /\ PageOK(page[v], shown[v], loads[v], job[v])
         /\ CycleOK(bank, lock, chain, rows, seeds, v, job[v])
         /\ BankOK(bank, lock, seeds) /\ RecordOK(chain, rows) /\ ProofOK(chain, page[v])
  BY DEF DemoInv, PagesInv, PagesTyped, CyclesInv, ProofsInv

LEMMA FirstStopIs ==
  ASSUME NEW step \in StepId, step # "registry", NEW inst
  PROVE  /\ FirstStop(step, inst) \in StopsOf(step) /\ FirstStop(step, inst) \in Stop
         /\ FirstStop(step, inst) \notin {"cycle", "saving", "proof"}
  <1> USE StepFacts DEF FirstStop, StopsOf, Stop
  <1>1. CASE step = "connect"
    BY <1>1
  <1>2. CASE step = "reserves"
    BY <1>2
  <1>3. CASE step = "prove"
    BY <1>3
  <1>4. CASE step = "verify"
    BY <1>4
  <1>5. CASE step = "inclusion"
    BY <1>5
  <1> QED BY <1>1, <1>2, <1>3, <1>4, <1>5

LEMMA RunStep ==
  ASSUME DemoInv, NEW v \in Visitor, NEW step \in StepId, run(v, step)
  PROVE  DemoInv'
  <1> DEFINE p == [page[v] EXCEPT !.busy = TRUE, !.status[step] = "running"]
             k == [step |-> step, inst |-> page[v].inst, scen |-> page[v].scen,
                   run |-> page[v].run, at |-> FirstStop(step, page[v].inst), read |-> Unread,
                   total |-> 0, since |-> seeds, own |-> 0]
  <1>1. /\ PagesInv /\ CyclesInv /\ ProofsInv /\ page[v] \in Page
        /\ PageOK(page[v], shown[v], loads[v], job[v])
        /\ BankOK(bank, lock, seeds) /\ RecordOK(chain, rows) /\ ProofOK(chain, page[v])
    BY Locals
  <1>2. /\ page[v].inst \in Institution /\ page[v].scen \in Scenario /\ page[v].run \in Nat
        /\ page[v].status \in [StepId -> StepStatus]
    BY <1>1 DEF Page
  <1>3. ~page[v].busy /\ page[v].status[step] = "ready" /\ step # "registry"
    BY <1>1 DEF run, PageOK, PanelsOK
  <1>4. page' = [page EXCEPT ![v] = p]
    BY DEF run
  <1>5. /\ job' = [job EXCEPT ![v] = k] /\ shown' = shown /\ loads' = loads /\ bank' = bank
        /\ lock' = lock /\ chain' = chain /\ rows' = rows /\ seeds' = seeds
    BY DEF run, shared
  <1>6. k \in Job
    <2>1. Unread \in [Accounts -> Nat \cup {None}]
      BY DEF Unread
    <2>2. FirstStop(step, page[v].inst) \in Stop
      BY <1>3, FirstStopIs
    <2>3. seeds \in Nat
      BY <1>1 DEF BankOK
    <2> HIDE DEF Stop
    <2> QED BY <1>2, <2>1, <2>2, <2>3 DEF Job
  <1>7. /\ k.step = step /\ k.inst = page[v].inst /\ k.run = page[v].run
        /\ k.at = FirstStop(step, page[v].inst) /\ k.since = seeds /\ k.own = 0
    OBVIOUS
  <1>8. ProofOK(chain', p)
    <2>1. /\ p.inst = page[v].inst /\ p.proof = page[v].proof
          /\ p.status = [page[v].status EXCEPT ![step] = "running"]
      BY <1>1 DEF Page
    <2> HIDE DEF p
    <2>2. p.status["prove"] = "done" => page[v].status["prove"] = "done"
      BY <1>2, <2>1, StepFacts
    <2> QED BY <1>1, <1>5, <2>1, <2>2 DEF ProofOK
  <1> HIDE DEF k
  <1>9. PageOK(p, shown[v], loads[v], k)
    <2>1. k.at \in StopsOf(step)
      BY <1>3, <1>7, FirstStopIs
    <2> HIDE DEF p
    <2> QED BY <1>1, <1>3, <1>6, <1>7, <2>1, StartedPage DEF p
  <1>10. CycleOK(bank, lock, chain, rows, seeds, v, k)
    <2>1. seeds \in Nat /\ Len(chain[page[v].inst]) \in Nat
      BY <1>1, <1>2 DEF BankOK, RecordOK
    <2>2. k.at \notin {"cycle", "saving", "proof"}
      BY <1>3, <1>7, FirstStopIs
    <2> QED BY <1>7, <2>1, <2>2 DEF CycleOK
  <1> HIDE DEF p
  <1>11. PagesInv'
    <2>1. shown' = [shown EXCEPT ![v] = shown[v]] /\ loads' = [loads EXCEPT ![v] = loads[v]]
      BY <1>1, <1>5, Kept
    <2> QED BY <1>1, <1>4, <1>5, <1>9, <2>1, LocalPages
  <1>12. CyclesInv'
    <2>1. \A w \in Visitor : CycleOK(bank, lock, chain, rows, seeds, w, job[w])
      BY <1>1 DEF CyclesInv
    <2> QED BY <1>1, <1>5, <1>10, <2>1, LocalCycles
  <1>13. ProofsInv'
    BY <1>1, <1>4, <1>5, <1>8, LocalProofs
  <1> QED BY <1>11, <1>12, <1>13 DEF DemoInv

\* The request of a step goes on: the page is as it was.
LEMMA GoesOn ==
  ASSUME DemoInv, NEW v \in Visitor, job[v] # None,
         NEW k \in Job, k.step = job[v].step, k.inst = job[v].inst, k.run = job[v].run,
         k.at \in StopsOf(k.step), job' = [job EXCEPT ![v] = k],
         page' = page, shown' = shown, loads' = loads,
         BankOK(bank', lock', seeds'), RecordOK(chain', rows'),
         \A i \in Institution : DOMAIN chain[i] \subseteq DOMAIN chain'[i],
         CycleOK(bank', lock', chain', rows', seeds', v, k),
         \A w \in Visitor : w # v => CycleOK(bank', lock', chain', rows', seeds', w, job[w])
  PROVE  DemoInv'
  <1>1. PagesInv /\ CyclesInv /\ ProofsInv /\ page[v] \in Page /\ ProofOK(chain, page[v])
        /\ PageOK(page[v], shown[v], loads[v], job[v])
    BY Locals
  <1>2. /\ page' = [page EXCEPT ![v] = page[v]] /\ shown' = [shown EXCEPT ![v] = shown[v]]
        /\ loads' = [loads EXCEPT ![v] = loads[v]]
    BY <1>1, Kept
  <1>3. PageOK(page[v], shown[v], loads[v], k)
    BY <1>1, RunningPage
  <1>4. PagesInv'
    BY <1>1, <1>2, <1>3, LocalPages
  <1>5. CyclesInv'
    BY LocalCycles
  <1>6. ProofOK(chain', page[v])
    <2>1. page[v].inst \in Institution
      BY <1>1 DEF Page
    <2> QED BY <1>1, <2>1 DEF ProofOK
  <1>7. ProofsInv'
    BY <1>1, <1>2, <1>6, LocalProofs
  <1> QED BY <1>4, <1>5, <1>7 DEF DemoInv

\* The end of a step, which may release the lock its cycle holds.
LEMMA EndedStep ==
  ASSUME DemoInv, NEW v \in Visitor, job[v] # None, NEW outcome \in {"done", "failed", "ready"},
         NEW proof \in Nat \cup {None}, Ended(v, outcome, proof),
         job[v].step # "prove" => proof = page[v].proof,
         job[v].step = "prove" /\ outcome = "done" => proof \in DOMAIN chain[job[v].inst],
         loads' = loads, bank' = bank, chain' = chain, rows' = rows, seeds' = seeds,
         \/ lock' = lock
         \/ lock[job[v].inst] = v /\ lock' = [lock EXCEPT ![job[v].inst] = None]
  PROVE  DemoInv'
  <1> DEFINE j == job[v]
             status == EndedStatus(page[v].status, j.step, outcome)
             p == [page[v] EXCEPT !.status = status, !.busy = FALSE, !.proof = proof]
             lg == [shown[v] EXCEPT ![j.step] = <<j.inst, j.run>>]
  <1>1. /\ PagesInv /\ CyclesInv /\ ProofsInv /\ page[v] \in Page
        /\ PageOK(page[v], shown[v], loads[v], j)
        /\ BankOK(bank, lock, seeds) /\ RecordOK(chain, rows) /\ ProofOK(chain, page[v])
    BY Locals
  <1>2. /\ j \in Job /\ j.inst \in Institution /\ j.inst = page[v].inst /\ j.step \in StepId
        /\ j.step # "registry"
    BY <1>1, Typed DEF PageOK, JobOK
  <1>3. page' = [page EXCEPT ![v] = p]
    BY DEF Ended, BusyAfter, EndedStatus
  <1>4. shown' = [shown EXCEPT ![v] = lg] /\ job' = [job EXCEPT ![v] = None]
    BY DEF Ended, Lines
  <1>5. ProofOK(chain', p)
    <2>1. /\ p.inst = page[v].inst /\ p.proof = proof /\ p.status = status
      BY <1>1 DEF Page
    <2>2. "prove" \in StepId
      BY StepFacts
    <2>3. status["prove"] = IF j.step = "prove" THEN outcome
                            ELSE IF "prove" \in (IF outcome = "done" THEN Later(j.step) ELSE {})
                                 THEN "ready" ELSE page[v].status["prove"]
      BY <2>2 DEF EndedStatus
    <2> HIDE DEF p, status
    <2>4. CASE j.step = "prove"
      BY <1>2, <2>1, <2>3, <2>4 DEF ProofOK
    <2>5. CASE j.step # "prove"
      <3>1. p.status["prove"] = "done" => page[v].status["prove"] = "done"
        BY <2>1, <2>3, <2>5
      <3> QED BY <1>1, <2>1, <2>5, <3>1 DEF ProofOK
    <2> QED BY <2>4, <2>5
  <1> HIDE DEF status
  <1>6. PageOK(p, lg, loads[v], None)
    BY <1>1, EndedPage DEF status
  <1> HIDE DEF p, lg
  <1>7. PagesInv'
    <2>1. loads' = [loads EXCEPT ![v] = loads[v]]
      BY <1>1, Kept
    <2> QED BY <1>1, <1>3, <1>4, <1>6, <2>1, LocalPages
  <1>8. CyclesInv'
    <2>1. lock \in [Institution -> Visitor \cup {None}]
      BY <1>1 DEF BankOK
    <2>2. BankOK(bank', lock', seeds') /\ RecordOK(chain', rows')
      BY <1>1, <2>1 DEF BankOK
    <2>3. CycleOK(bank', lock', chain', rows', seeds', v, None)
      BY DEF CycleOK
    <2>4. ASSUME NEW w \in Visitor, w # v
          PROVE  CycleOK(bank', lock', chain', rows', seeds', w, job[w])
      <3>1. CycleOK(bank, lock, chain, rows, seeds, w, job[w]) /\ job[w] \in Job \cup {None}
        BY <1>1 DEF CyclesInv, PagesInv, PagesTyped
      <3>2. CASE lock' = lock
        BY <3>1, <3>2
      <3>3. CASE lock[j.inst] = v /\ lock' = [lock EXCEPT ![j.inst] = None]
        BY <1>2, <2>1, <2>4, <3>1, <3>3, AfterLock
      <3> QED BY <3>2, <3>3
    <2> QED BY <1>4, <2>2, <2>3, <2>4, LocalCycles
  <1>9. ProofsInv'
    BY <1>1, <1>3, <1>5, LocalProofs
  <1> QED BY <1>7, <1>8, <1>9 DEF DemoInv

-----------------------------------------------------------------------------
(* The requests.                                                           *)

\* Only the requests of a proof stop at a cycle.
LEMMA StepOfStop ==
  ASSUME DemoInv, NEW v \in Visitor, job[v] # None
  PROVE  /\ job[v] \in Job /\ job[v].inst \in Institution
         /\ job[v].at \in StopsOf(job[v].step)
         /\ job[v].step = "prove" <=>
              job[v].at \in {"seeding", "posting", "cycle", "saving", "proof"}
         /\ job[v].at = "reading" => job[v].step = "reserves"
  <1>1. job[v] \in Job /\ job[v].at \in StopsOf(job[v].step) /\ job[v].step # "registry"
    BY Locals DEF PageOK, JobOK
  <1>2. job[v].step \in StepId /\ job[v].inst \in Institution
    BY <1>1 DEF Job
  <1> QED BY <1>1, <1>2, StepFacts DEF StopsOf

\* A step that ends without a proof: the page keeps the proof it shows.
LEMMA EndStep ==
  ASSUME DemoInv, NEW v \in Visitor, job[v] # None, NEW outcome \in {"done", "failed", "ready"},
         End(v, outcome), outcome = "done" => job[v].step # "prove",
         loads' = loads, bank' = bank, chain' = chain, rows' = rows, seeds' = seeds,
         \/ lock' = lock
         \/ lock[job[v].inst] = v /\ lock' = [lock EXCEPT ![job[v].inst] = None]
  PROVE  DemoInv'
  <1>1. page[v].proof \in Nat \cup {None}
    BY Locals DEF Page
  <1>2. Ended(v, outcome, page[v].proof)
    BY DEF End
  <1> QED BY <1>1, <1>2, EndedStep

LEMMA RequestFailsStep ==
  ASSUME DemoInv, NEW v \in Visitor, RequestFails(v)
  PROVE  DemoInv'
  <1>1. /\ job[v] # None /\ End(v, "failed") /\ loads' = loads /\ bank' = bank /\ lock' = lock
        /\ chain' = chain /\ rows' = rows /\ seeds' = seeds
    BY DEF RequestFails, At, shared
  <1> QED BY <1>1, EndStep

LEMMA ConnectStep ==
  ASSUME DemoInv, NEW v \in Visitor,
         Connect(v) \/ BalancesRead(v) \/ ReadHolding(v)
  PROVE  DemoInv'
  <1>1. /\ job[v] # None /\ End(v, "done") /\ job[v].at \in {"connect", "reading", "holding"}
        /\ loads' = loads /\ bank' = bank /\ lock' = lock
        /\ chain' = chain /\ rows' = rows /\ seeds' = seeds
    BY DEF Connect, BalancesRead, ReadHolding, At, shared
  <1>2. job[v].step # "prove"
    BY <1>1, StepOfStop
  <1> QED BY <1>1, <1>2, EndStep

LEMMA ReadRecordStep ==
  ASSUME DemoInv, NEW v \in Visitor, ReadRecord(v) \/ CheckInclusion(v)
  PROVE  DemoInv'
  <1>1. PICK outcome \in {"done", "failed"} : End(v, outcome)
    BY DEF ReadRecord, CheckInclusion
  <1>2. /\ job[v] # None /\ job[v].at \in {"verify", "inclusion"}
        /\ loads' = loads /\ bank' = bank /\ lock' = lock
        /\ chain' = chain /\ rows' = rows /\ seeds' = seeds
    BY DEF ReadRecord, CheckInclusion, At, shared
  <1>3. job[v].step # "prove"
    BY <1>2, StepOfStop
  <1> QED BY <1>1, <1>2, <1>3, EndStep

LEMMA CycleBusyStep ==
  ASSUME DemoInv, NEW v \in Visitor, CycleBusy(v)
  PROVE  DemoInv'
  <1>1. /\ job[v] # None /\ End(v, "ready") /\ loads' = loads /\ bank' = bank /\ lock' = lock
        /\ chain' = chain /\ rows' = rows /\ seeds' = seeds
    BY DEF CycleBusy, At, shared
  <1> QED BY <1>1, EndStep

\* A cycle that ends without a saved proof releases the lock that it holds.
LEMMA CycleEndsStep ==
  ASSUME DemoInv, NEW v \in Visitor, CycleRejected(v) \/ CycleFails(v)
  PROVE  DemoInv'
  <1>1. /\ job[v] # None /\ job[v].at \in {"cycle", "saving"} /\ End(v, "failed")
        /\ loads' = loads /\ bank' = bank /\ chain' = chain /\ rows' = rows /\ seeds' = seeds
        /\ lock' = [lock EXCEPT ![job[v].inst] = None]
    BY DEF CycleRejected, CycleFails, At, Unlocked
  <1>2. lock[job[v].inst] = v
    BY <1>1, Locals DEF CycleOK
  <1> QED BY <1>1, <1>2, EndStep

LEMMA FetchProofStep ==
  ASSUME DemoInv, NEW v \in Visitor, FetchProof(v)
  PROVE  DemoInv'
  <1>1. /\ job[v] # None /\ job[v].at = "proof" /\ Ended(v, "done", Fetched(v))
        /\ loads' = loads /\ bank' = bank /\ lock' = lock
        /\ chain' = chain /\ rows' = rows /\ seeds' = seeds
    BY DEF FetchProof, At, shared
  <1>2. job[v].step = "prove" /\ job[v].inst \in Institution
    BY <1>1, StepOfStop
  <1>3. rows[job[v].inst] # << >>
    BY <1>1, Locals DEF CycleOK
  <1>4. Fetched(v) \in Nat \cup {None} /\ Fetched(v) \in DOMAIN chain[job[v].inst]
    BY <1>2, <1>3, LatestRowIs, Locals DEF Fetched
  <1> QED BY <1>1, <1>2, <1>4, EndedStep

\* Each balance is read as the bank has it, whichever account is next.
LEMMA ReadBalanceStep ==
  ASSUME DemoInv, NEW v \in Visitor, NEW a, NEW x, job[v] # None, job[v].at \in {"reading", "cycle"},
         a \in Accounts => x = bank[a],
         job' = [job EXCEPT ![v].read[a] = x],
         page' = page, shown' = shown, loads' = loads, bank' = bank, lock' = lock,
         chain' = chain, rows' = rows, seeds' = seeds
  PROVE  DemoInv'
  <1> DEFINE j == job[v]
             read == [j.read EXCEPT ![a] = x]
             k == [j EXCEPT !.read = read]
  <1>1. /\ j \in Job /\ CycleOK(bank, lock, chain, rows, seeds, v, j)
        /\ BankOK(bank, lock, seeds) /\ RecordOK(chain, rows) /\ j.at \in StopsOf(j.step)
        /\ \A w \in Visitor : CycleOK(bank, lock, chain, rows, seeds, w, job[w])
    BY Locals, StepOfStop DEF CyclesInv
  <1>2. j.read \in [Accounts -> Nat \cup {None}] /\ bank \in [Accounts -> Nat]
    BY <1>1 DEF Job, BankOK
  <1>3. /\ read \in [Accounts -> Nat \cup {None}]
        /\ \A b \in Accounts : read[b] \in {j.read[b], bank[b]}
    BY <1>2
  <1> HIDE DEF read
  <1>4. /\ k \in Job /\ k.step = j.step /\ k.inst = j.inst /\ k.run = j.run /\ k.at = j.at
        /\ k.read = read /\ k.since = j.since /\ k.own = j.own /\ k.total = j.total
    BY <1>1, <1>3 DEF Job
  <1>5. job' = [job EXCEPT ![v] = k]
    BY DEF read
  <1> HIDE DEF k
  <1>6. CycleOK(bank, lock, chain, rows, seeds, v, k)
    <2>1. j.at = "cycle" /\ j.since = seeds => \A b \in Accounts : read[b] \in {None, bank[b]}
      BY <1>1, <1>3 DEF CycleOK
    <2> QED BY <1>1, <1>4, <2>1 DEF CycleOK
  <1> HIDE DEF j
  <1> QED BY <1>1, <1>4, <1>5, <1>6, GoesOn DEF j

LEMMA ReadingStep ==
  ASSUME DemoInv, NEW v \in Visitor, ReadBalance(v) \/ \E a \in Accounts : FetchBalance(v, a)
  PROVE  DemoInv'
  <1>1. CASE ReadBalance(v)
    <2> DEFINE next == Account[Cardinality(Read(v)) + 1]
    <2>1. /\ job[v] # None /\ job[v].at = "reading" /\ job' = [job EXCEPT ![v].read[next] = bank[next]]
          /\ page' = page /\ shown' = shown /\ loads' = loads /\ bank' = bank /\ lock' = lock
          /\ chain' = chain /\ rows' = rows /\ seeds' = seeds
      BY <1>1 DEF ReadBalance, At, shared
    <2> HIDE DEF next
    <2> QED BY <2>1, ReadBalanceStep
  <1>2. CASE \E a \in Accounts : FetchBalance(v, a)
    <2>1. PICK a \in Accounts : FetchBalance(v, a)
      BY <1>2
    <2>2. /\ job[v] # None /\ job[v].at = "cycle" /\ job' = [job EXCEPT ![v].read[a] = bank[a]]
          /\ page' = page /\ shown' = shown /\ loads' = loads /\ bank' = bank /\ lock' = lock
          /\ chain' = chain /\ rows' = rows /\ seeds' = seeds
      BY <2>1 DEF FetchBalance, At, Slot, shared
    <2> QED BY <2>2, ReadBalanceStep
  <1> QED BY <1>1, <1>2

LEMMA SeedStep ==
  ASSUME DemoInv, NEW v \in Visitor, SeedScenario(v)
  PROVE  DemoInv'
  <1> DEFINE j == job[v]
             k == [j EXCEPT !.at = "posting"]
  <1>1. /\ j # None /\ j.at = "seeding" /\ bank' = Balance[j.scen] /\ seeds' = seeds + 1
        /\ job' = [job EXCEPT ![v].at = "posting"]
        /\ page' = page /\ shown' = shown /\ loads' = loads /\ lock' = lock
        /\ chain' = chain /\ rows' = rows
    BY DEF SeedScenario, At, Goto
  <1>2. /\ j \in Job /\ j.step = "prove" /\ CycleOK(bank, lock, chain, rows, seeds, v, j)
        /\ BankOK(bank, lock, seeds) /\ RecordOK(chain, rows)
        /\ \A w \in Visitor : /\ CycleOK(bank, lock, chain, rows, seeds, w, job[w])
                              /\ job[w] \in Job \cup {None}
    BY <1>1, Locals, StepOfStop DEF CyclesInv, PagesInv, PagesTyped
  <1>3. /\ k \in Job /\ k.step = j.step /\ k.inst = j.inst /\ k.run = j.run /\ k.at = "posting"
        /\ k.since = j.since /\ k.own = j.own
    BY <1>2 DEF Job, Stop
  <1>4. job' = [job EXCEPT ![v] = k]
    BY <1>1
  <1> HIDE DEF k
  <1>5. j.scen \in Scenario /\ j.since \in Nat /\ seeds \in Nat
    BY <1>2 DEF Job, BankOK
  <1>6. BankOK(bank', lock', seeds')
    <2>1. Balance[j.scen] \in [Accounts -> Nat]
      BY <1>5, DemoAssumption
    <2> HIDE DEF j
    <2> QED BY <1>1, <1>2, <1>5, <2>1 DEF BankOK
  <1>7. CycleOK(bank', lock', chain', rows', seeds', v, k)
    <2>1. j.since <= seeds + 1 /\ j.own <= Len(chain[j.inst])
      BY <1>1, <1>2, <1>5 DEF CycleOK
    <2> QED BY <1>1, <1>3, <2>1 DEF CycleOK
  <1>8. \A w \in Visitor : CycleOK(bank', lock', chain', rows', seeds', w, job[w])
    <2>1. ASSUME NEW w \in Visitor PROVE CycleOK(bank', lock, chain, rows, seeds + 1, w, job[w])
      BY <1>2, <1>5, AfterSeed
    <2> QED BY <1>1, <2>1
  <1>9. k.at \in StopsOf(k.step)
    BY <1>2, <1>3 DEF StopsOf
  <1> HIDE DEF j
  <1> QED BY <1>1, <1>2, <1>3, <1>4, <1>6, <1>7, <1>8, <1>9, GoesOn DEF j

LEMMA CycleStartsStep ==
  ASSUME DemoInv, NEW v \in Visitor, CycleStarts(v)
  PROVE  DemoInv'
  <1> DEFINE j == job[v]
             k == [j EXCEPT !.at = "cycle", !.since = seeds, !.read = Unread]
  <1>1. /\ j # None /\ j.at = "posting" /\ lock[j.inst] = None
        /\ lock' = [lock EXCEPT ![j.inst] = v]
        /\ job' = [job EXCEPT ![v].at = "cycle", ![v].since = seeds, ![v].read = Unread]
        /\ page' = page /\ shown' = shown /\ loads' = loads /\ bank' = bank
        /\ chain' = chain /\ rows' = rows /\ seeds' = seeds
    BY DEF CycleStarts, At
  <1>2. /\ j \in Job /\ j.step = "prove" /\ CycleOK(bank, lock, chain, rows, seeds, v, j)
        /\ BankOK(bank, lock, seeds) /\ RecordOK(chain, rows)
        /\ \A w \in Visitor : /\ CycleOK(bank, lock, chain, rows, seeds, w, job[w])
                              /\ job[w] \in Job \cup {None}
        /\ job \in [Visitor -> Job \cup {None}]
    BY <1>1, Locals, StepOfStop DEF CyclesInv, PagesInv, PagesTyped
  <1>3. j.inst \in Institution /\ seeds \in Nat /\ lock \in [Institution -> Visitor \cup {None}]
        /\ Unread \in [Accounts -> Nat \cup {None}] /\ \A a \in Accounts : Unread[a] = None
    BY <1>2 DEF Job, BankOK, Unread
  <1>4. /\ k \in Job /\ k.step = j.step /\ k.inst = j.inst /\ k.run = j.run /\ k.at = "cycle"
        /\ k.since = seeds /\ k.own = j.own /\ k.read = Unread
    BY <1>2, <1>3 DEF Job, Stop
  <1>5. job' = [job EXCEPT ![v] = k]
    BY <1>1, <1>2 DEF Job
  <1> HIDE DEF k
  <1>6. BankOK(bank', lock', seeds')
    BY <1>1, <1>2, <1>3 DEF BankOK
  <1>7. CycleOK(bank', lock', chain', rows', seeds', v, k)
    <2>1. j.own <= Len(chain[j.inst])
      BY <1>1, <1>2 DEF CycleOK
    <2>2. lock'[j.inst] = v
      BY <1>1, <1>3
    <2>3. \A a \in Accounts : k.read[a] = None
      BY <1>3, <1>4
    <2>4. k.since <= seeds'
      BY <1>1, <1>3, <1>4
    <2> QED BY <1>1, <1>4, <2>1, <2>2, <2>3, <2>4 DEF CycleOK
  <1>8. \A w \in Visitor : CycleOK(bank', lock', chain', rows', seeds', w, job[w])
    <2>1. ASSUME NEW w \in Visitor
          PROVE  CycleOK(bank, [lock EXCEPT ![j.inst] = v], chain, rows, seeds, w, job[w])
      <3>1. lock[j.inst] # w
        BY <1>1, DemoAssumption
      <3> HIDE DEF j
      <3> QED BY <1>2, <1>3, <3>1, AfterLock
    <2> QED BY <1>1, <2>1
  <1>9. k.at \in StopsOf(k.step)
    BY <1>2, <1>4 DEF StopsOf
  <1> HIDE DEF j
  <1> QED BY <1>1, <1>2, <1>4, <1>5, <1>6, <1>7, <1>8, <1>9, GoesOn DEF j

\* The total of a complete snapshot; it is the bank's, if the bank was not seeded since.
LEMMA SnapshotIs ==
  ASSUME DemoInv, NEW v \in Visitor, At(v, "cycle"), Complete(v), NEW total \in Snapshots(v)
  PROVE  /\ total \in Nat
         /\ Attested(job[v].inst) /\ job[v].since = seeds => total = Total(bank)
  <1>1. /\ job[v] \in Job /\ CycleOK(bank, lock, chain, rows, seeds, v, job[v])
        /\ BankOK(bank, lock, seeds) /\ job[v] # None /\ job[v].at = "cycle"
    BY Locals, StepOfStop DEF At
  <1>2. CASE ~Attested(job[v].inst)
    BY <1>2, DemoAssumption DEF Snapshots
  <1>3. CASE Attested(job[v].inst)
    <2>1. total = Total(job[v].read)
      BY <1>3 DEF Snapshots
    <2>2. \A a \in Accounts : job[v].read[a] # None
      BY <1>3 DEF Complete, Read
    <2>3. job[v].read \in [Accounts -> Nat \cup {None}] /\ bank \in [Accounts -> Nat]
      BY <1>1 DEF Job, BankOK
    <2>4. job[v].read \in [Accounts -> Nat]
      BY <2>2, <2>3
    <2>5. ASSUME job[v].since = seeds PROVE job[v].read = bank
      <3>1. \A a \in Accounts : job[v].read[a] = bank[a]
        BY <1>1, <2>2, <2>5 DEF CycleOK
      <3> QED BY <2>3, <2>4, <3>1
    <2> QED BY <2>1, <2>4, <2>5, TotalIsNat
  <1> QED BY <1>2, <1>3

LEMMA PublishStep ==
  ASSUME DemoInv, NEW v \in Visitor, At(v, "cycle"), Complete(v), NEW total \in Snapshots(v),
         CyclePublishes(v, total)
  PROVE  DemoInv'
  <1> DEFINE j == job[v]
             i == j.inst
             k == [j EXCEPT !.at = "saving", !.total = total, !.own = OwnId(i)]
  <1>1. /\ j # None /\ j.at = "cycle" /\ ~Refuses(total, Owed[i])
        /\ chain' = [chain EXCEPT ![i] = Append(@, total)]
        /\ job' = [job EXCEPT ![v].at = "saving", ![v].total = total, ![v].own = OwnId(i)]
        /\ page' = page /\ shown' = shown /\ loads' = loads /\ bank' = bank /\ lock' = lock
        /\ rows' = rows /\ seeds' = seeds
    BY DEF CyclePublishes, At
  <1>2. /\ j \in Job /\ j.step = "prove" /\ CycleOK(bank, lock, chain, rows, seeds, v, j)
        /\ BankOK(bank, lock, seeds) /\ RecordOK(chain, rows)
        /\ \A w \in Visitor : /\ CycleOK(bank, lock, chain, rows, seeds, w, job[w])
                              /\ job[w] \in Job \cup {None}
        /\ job \in [Visitor -> Job \cup {None}]
    BY <1>1, Locals, StepOfStop DEF CyclesInv, PagesInv, PagesTyped
  <1>3. /\ total \in Nat /\ (Attested(i) /\ j.since = seeds => total = Total(bank))
    BY SnapshotIs
  <1>4. /\ i \in Institution /\ chain \in [Institution -> Seq(Nat)] /\ chain[i] \in Seq(Nat)
        /\ rows \in [Institution -> Seq(Nat)] /\ Len(chain[i]) \in Nat /\ Owed[i] \in Nat
        /\ OwnId(i) = Len(chain[i]) + 1
    <2>1. i \in Institution /\ chain \in [Institution -> Seq(Nat)] /\ rows \in [Institution -> Seq(Nat)]
      BY <1>2 DEF Job, RecordOK
    <2>2. Owed[i] \in Nat
      BY <2>1, DemoAssumption
    <2> HIDE DEF i
    <2> QED BY <2>1, <2>2 DEF OwnId
  <1> HIDE DEF i
  <1>5. /\ k \in Job /\ k.step = j.step /\ k.inst = i /\ k.run = j.run /\ k.at = "saving"
        /\ k.since = j.since /\ k.own = Len(chain[i]) + 1 /\ k.total = total
    <2>1. ASSUME NEW t \in Nat, NEW n \in Nat
          PROVE  LET e == [j EXCEPT !.at = "saving", !.total = t, !.own = n]
                 IN /\ e \in Job /\ e.step = j.step /\ e.inst = j.inst /\ e.run = j.run
                    /\ e.at = "saving" /\ e.since = j.since /\ e.own = n /\ e.total = t
      BY <1>2 DEF Job, Stop
    <2>2. OwnId(i) \in Nat
      BY <1>4
    <2> HIDE DEF j
    <2>3. /\ k \in Job /\ k.step = j.step /\ k.inst = j.inst /\ k.run = j.run
          /\ k.at = "saving" /\ k.since = j.since /\ k.own = OwnId(i) /\ k.total = total
      BY <1>3, <2>1, <2>2
    <2> HIDE DEF k
    <2> QED BY <1>4, <2>3 DEF i
  <1>6. job' = [job EXCEPT ![v] = k]
    BY <1>1, <1>2 DEF Job
  <1> HIDE DEF k
  <1>7. /\ Len(chain'[i]) = Len(chain[i]) + 1 /\ chain'[i][Len(chain[i]) + 1] = total
        /\ \A n \in DOMAIN chain[i] : chain'[i][n] = chain[i][n]
        /\ chain' \in [Institution -> Seq(Nat)]
        /\ DOMAIN chain[i] = 1..Len(chain[i]) /\ DOMAIN chain'[i] = 1..(Len(chain[i]) + 1)
    BY <1>1, <1>3, <1>4
  <1>8. \A u \in Institution : u # i => chain'[u] = chain[u]
    BY <1>1, <1>4
  <1>9. \A u \in Institution : DOMAIN chain[u] \subseteq DOMAIN chain'[u]
    <2> SUFFICES ASSUME NEW u \in Institution PROVE DOMAIN chain[u] \subseteq DOMAIN chain'[u]
      OBVIOUS
    <2>1. CASE u = i
      <3>1. 1..Len(chain[i]) \subseteq 1..(Len(chain[i]) + 1)
        BY <1>4
      <3> QED BY <1>7, <2>1, <3>1
    <2>2. CASE u # i
      BY <1>8, <2>2
    <2> QED BY <2>1, <2>2
  <1>10. RecordOK(chain', rows')
    <2>1. ASSUME NEW u \in Institution, NEW n \in DOMAIN chain'[u]
          PROVE  chain'[u][n] >= Owed[u]
      <3>1. CASE u # i
        BY <1>2, <1>8, <2>1, <3>1 DEF RecordOK
      <3>2. CASE u = i /\ n \in DOMAIN chain[i]
        BY <1>2, <1>7, <2>1, <3>2 DEF RecordOK
      <3>3. CASE u = i /\ n = Len(chain[i]) + 1
        BY <1>1, <1>3, <1>4, <1>7, <3>3 DEF Refuses, i
      <3> QED BY <1>4, <1>7, <2>1, <3>1, <3>2, <3>3
    <2>2. ASSUME NEW u \in Institution, NEW n \in DOMAIN rows'[u]
          PROVE  rows'[u][n] \in DOMAIN chain'[u]
      BY <1>1, <1>2, <1>9, <2>2 DEF RecordOK
    <2> QED BY <1>1, <1>4, <1>7, <2>1, <2>2 DEF RecordOK
  <1>11. CycleOK(bank', lock', chain', rows', seeds', v, k)
    <2>1. j.since <= seeds /\ lock[i] = v
      BY <1>1, <1>2 DEF CycleOK, i
    <2>2. k.own = Len(chain'[k.inst]) /\ k.own # 0 /\ k.own <= Len(chain'[k.inst])
      BY <1>4, <1>5, <1>7
    <2>3. Attested(k.inst) /\ k.since = seeds => k.total = Total(bank)
      BY <1>3, <1>5
    <2> QED BY <1>1, <1>5, <2>1, <2>2, <2>3 DEF CycleOK
  <1>12. \A w \in Visitor : w # v => CycleOK(bank', lock', chain', rows', seeds', w, job[w])
    <2>1. ASSUME NEW w \in Visitor, w # v
          PROVE  CycleOK(bank, lock, [chain EXCEPT ![i] = Append(@, total)], rows, seeds, w, job[w])
      <3>1. lock[i] = v
        BY <1>1, <1>2 DEF CycleOK, i
      <3> QED BY <1>2, <1>3, <1>4, <2>1, <3>1, AfterPublish
    <2> QED BY <1>1, <2>1
  <1>13. k.at \in StopsOf(k.step)
    BY <1>2, <1>5 DEF StopsOf
  <1>14. BankOK(bank', lock', seeds')
    BY <1>1, <1>2
  <1>15. k.inst = j.inst
    BY <1>5 DEF i
  <1> HIDE DEF j
  <1> QED BY <1>1, <1>5, <1>6, <1>9, <1>10, <1>11, <1>12, <1>13, <1>14, <1>15, GoesOn DEF j

LEMMA SaveStep ==
  ASSUME DemoInv, NEW v \in Visitor, CycleSaves(v)
  PROVE  DemoInv'
  <1> DEFINE j == job[v]
             i == j.inst
             k == [j EXCEPT !.at = "proof"]
  <1>1. /\ j # None /\ j.at = "saving"
        /\ rows' = [rows EXCEPT ![i] = Append(@, j.own)]
        /\ lock' = [lock EXCEPT ![i] = None]
        /\ job' = [job EXCEPT ![v].at = "proof"]
        /\ page' = page /\ shown' = shown /\ loads' = loads /\ bank' = bank /\ chain' = chain
        /\ seeds' = seeds
    BY DEF CycleSaves, At, Unlocked, Goto
  <1>2. /\ j \in Job /\ j.step = "prove" /\ CycleOK(bank, lock, chain, rows, seeds, v, j)
        /\ BankOK(bank, lock, seeds) /\ RecordOK(chain, rows)
        /\ \A w \in Visitor : /\ CycleOK(bank, lock, chain, rows, seeds, w, job[w])
                              /\ job[w] \in Job \cup {None}
    BY <1>1, Locals, StepOfStop DEF CyclesInv, PagesInv, PagesTyped
  <1>3. /\ i \in Institution /\ chain[i] \in Seq(Nat) /\ rows \in [Institution -> Seq(Nat)]
        /\ rows[i] \in Seq(Nat) /\ lock \in [Institution -> Visitor \cup {None}]
        /\ j.own \in Nat /\ j.since \in Nat /\ seeds \in Nat /\ Len(rows[i]) \in Nat
    BY <1>2 DEF Job, RecordOK, BankOK
  <1>4. j.own = Len(chain[i]) /\ j.own # 0 /\ j.own \in DOMAIN chain[i] /\ lock[i] = v
        /\ j.since <= seeds
    BY <1>1, <1>2, <1>3 DEF CycleOK
  <1>5. /\ k \in Job /\ k.step = j.step /\ k.inst = i /\ k.run = j.run /\ k.at = "proof"
        /\ k.since = j.since /\ k.own = j.own
    BY <1>2 DEF Job, Stop
  <1>6. job' = [job EXCEPT ![v] = k]
    BY <1>1
  <1> HIDE DEF k, i
  <1>7. /\ Len(rows'[i]) = Len(rows[i]) + 1 /\ rows'[i][Len(rows[i]) + 1] = j.own
        /\ \A n \in DOMAIN rows[i] : rows'[i][n] = rows[i][n]
        /\ rows' \in [Institution -> Seq(Nat)]
        /\ DOMAIN rows[i] = 1..Len(rows[i]) /\ DOMAIN rows'[i] = 1..(Len(rows[i]) + 1)
    BY <1>1, <1>3
  <1>8. \A u \in Institution : u # i => rows'[u] = rows[u]
    BY <1>1, <1>3
  <1>9. RecordOK(chain', rows')
    <2>1. ASSUME NEW u \in Institution, NEW n \in DOMAIN rows'[u]
          PROVE  rows'[u][n] \in DOMAIN chain[u]
      <3>1. CASE u # i
        BY <1>2, <1>8, <2>1, <3>1 DEF RecordOK
      <3>2. CASE u = i /\ n \in DOMAIN rows[i]
        BY <1>2, <1>7, <2>1, <3>2 DEF RecordOK
      <3>3. CASE u = i /\ n = Len(rows[i]) + 1
        BY <1>4, <1>7, <3>3
      <3> QED BY <1>3, <1>7, <2>1, <3>1, <3>2, <3>3
    <2> QED BY <1>1, <1>2, <1>7, <2>1 DEF RecordOK
  <1>10. BankOK(bank', lock', seeds')
    BY <1>1, <1>2, <1>3 DEF BankOK
  <1>11. CycleOK(bank', lock', chain', rows', seeds', v, k)
    <2>1. rows'[i] # << >> /\ Last(rows'[i]) = j.own
      BY <1>3, <1>7 DEF Last
    <2> QED BY <1>1, <1>3, <1>4, <1>5, <2>1 DEF CycleOK
  <1>12. \A w \in Visitor : w # v => CycleOK(bank', lock', chain', rows', seeds', w, job[w])
    <2>1. ASSUME NEW w \in Visitor, w # v
          PROVE  CycleOK(bank, [lock EXCEPT ![i] = None], chain,
                         [rows EXCEPT ![i] = Append(@, j.own)], seeds, w, job[w])
      <3>1. CycleOK(bank, [lock EXCEPT ![i] = None], chain, rows, seeds, w, job[w])
        BY <1>2, <1>3, <1>4, <2>1, AfterLock
      <3> QED BY <1>2, <1>3, <1>4, <3>1, AfterSave
    <2> QED BY <1>1, <2>1
  <1>13. k.at \in StopsOf(k.step)
    BY <1>2, <1>5 DEF StopsOf
  <1>14. \A u \in Institution : DOMAIN chain[u] \subseteq DOMAIN chain'[u]
    BY <1>1
  <1>15. k.inst = j.inst
    BY <1>5 DEF i
  <1> HIDE DEF j
  <1> QED BY <1>1, <1>5, <1>6, <1>9, <1>10, <1>11, <1>12, <1>13, <1>14, <1>15, GoesOn DEF j

-----------------------------------------------------------------------------
(* The theorems.                                                           *)

LEMMA DemoInitInv == DemoInit => DemoInv
  <1> SUFFICES ASSUME DemoInit PROVE DemoInv
    OBVIOUS
  <1> DEFINE p == [inst |-> First[1], scen |-> First[2], run |-> 1, status |-> Starting,
                   busy |-> FALSE, contract |-> None, proof |-> None]
  <1>1. First[1] \in Institution /\ First[2] \in Scenario
    BY DemoAssumption
  <1>2. p \in Page /\ p.status = Starting /\ p.run = 1 /\ p.inst = First[1]
    BY <1>1, StartingIs DEF Page
  <1> HIDE DEF p
  <1>3. /\ page = [v \in Visitor |-> p] /\ loads = [v \in Visitor |-> {<<First[1], 1>>}]
        /\ shown = [v \in Visitor |-> EmptyLogs] /\ job = [v \in Visitor |-> None]
    BY DEF DemoInit, p
  <1>4. PageOK(p, EmptyLogs, {<<First[1], 1>>}, None)
    <2>1. PanelsOK(p, EmptyLogs)
      BY <1>2, StartingIs, EmptyIs DEF PanelsOK
    <2>2. LoadsOK(p, {<<First[1], 1>>})
      BY <1>1, <1>2 DEF LoadsOK, Loads
    <2>3. JobOK(p, None)
      BY DEF JobOK
    <2> QED BY <2>1, <2>2, <2>3 DEF PageOK
  <1>5. PagesInv
    <2>1. p \in Page /\ EmptyLogs \in Logs /\ {<<First[1], 1>>} \in Loads
      BY <1>4 DEF PageOK, PanelsOK, LoadsOK
    <2>2. PagesTyped
      BY <1>3, <2>1 DEF PagesTyped
    <2>3. \A v \in Visitor : PageOK(page[v], shown[v], loads[v], job[v])
      BY <1>3, <1>4
    <2> QED BY <2>2, <2>3 DEF PagesInv
  <1>6. CyclesInv
    <2>1. BankOK(bank, lock, seeds)
      BY <1>1, DemoAssumption DEF DemoInit, BankOK
    <2>2. RecordOK(chain, rows)
      BY DEF DemoInit, RecordOK
    <2>3. \A v \in Visitor : job[v] = None
      BY <1>3
    <2> QED BY <2>1, <2>2, <2>3 DEF CyclesInv, CycleOK
  <1>7. ProofsInv
    <2>1. p.status["prove"] = "locked"
      BY <1>2, StartingIs, StepFacts
    <2> QED BY <1>3, <2>1 DEF ProofsInv, ProofOK
  <1> QED BY <1>5, <1>6, <1>7 DEF DemoInv

LEMMA DemoNextInv == DemoInv /\ [DemoNext]_demoVars => DemoInv'
  <1> SUFFICES ASSUME DemoInv, [DemoNext]_demoVars PROVE DemoInv'
    OBVIOUS
  <1>1. CASE UNCHANGED demoVars
    BY <1>1 DEF demoVars, shared, DemoInv, PagesInv, PagesTyped, CyclesInv, ProofsInv
  <1>2. ASSUME NEW v \in Visitor, NEW i \in Institution, setInstitution(v, i) PROVE DemoInv'
    BY <1>2, ClearedStep DEF setInstitution, Enabled
  <1>3. ASSUME NEW v \in Visitor, reset(v) PROVE DemoInv'
    <2>1. page[v].inst \in Institution
      BY Locals DEF Page
    <2> QED BY <1>3, <2>1, ClearedStep DEF reset, Enabled
  <1>4. ASSUME NEW v \in Visitor, NEW c \in Scenario, setScenario(v, c) PROVE DemoInv'
    BY <1>4, ScenarioStep
  <1>5. ASSUME NEW v \in Visitor, NEW l \in loads[v], LoadAnswered(v, l) \/ LoadFailed(v, l)
        PROVE  DemoInv'
    BY <1>5, AnsweredStep, FailedStep
  <1>6. ASSUME NEW v \in Visitor, NEW s \in StepId, run(v, s) PROVE DemoInv'
    BY <1>6, RunStep
  <1>7. ASSUME NEW v \in Visitor, JobStep(v) PROVE DemoInv'
    <2>1. CASE RequestFails(v)
      BY <2>1, RequestFailsStep
    <2>2. CASE Connect(v) \/ BalancesRead(v) \/ ReadHolding(v)
      BY <2>2, ConnectStep
    <2>3. CASE ReadBalance(v) \/ \E a \in Accounts : FetchBalance(v, a)
      BY <2>3, ReadingStep
    <2>4. CASE SeedScenario(v)
      BY <2>4, SeedStep
    <2>5. CASE CycleBusy(v)
      BY <2>5, CycleBusyStep
    <2>6. CASE CycleStarts(v)
      BY <2>6, CycleStartsStep
    <2>7. CASE CycleRejected(v) \/ CycleFails(v)
      BY <2>7, CycleEndsStep
    <2>8. CASE CycleSaves(v)
      BY <2>8, SaveStep
    <2>9. CASE /\ At(v, "cycle") /\ Complete(v)
               /\ \E total \in Snapshots(v) : CyclePublishes(v, total)
      BY <2>9, PublishStep
    <2>10. CASE FetchProof(v)
      BY <2>10, FetchProofStep
    <2>11. CASE ReadRecord(v) \/ CheckInclusion(v)
      BY <2>11, ReadRecordStep
    <2> QED BY <1>7, <2>1, <2>2, <2>3, <2>4, <2>5, <2>6, <2>7, <2>8, <2>9, <2>10, <2>11
            DEF JobStep
  <1> QED BY <1>1, <1>2, <1>3, <1>4, <1>5, <1>6, <1>7 DEF DemoNext

LEMMA DemoInvariant == DemoSpec => []DemoInv
  BY DemoInitInv, DemoNextInv, PTL DEF DemoSpec

\* The pages, the requests and the bank have their types, and no visitor is told of a
\* proof of their own that the registry does not have.
THEOREM DemoTypes == DemoSpec => []DemoTypeOK
  <1>1. DemoInv => DemoTypeOK
    <2> SUFFICES ASSUME DemoInv PROVE DemoTypeOK
      OBVIOUS
    <2>1. \A v \in Visitor : job[v] # None => job[v].own <= Len(chain[job[v].inst])
      BY DEF DemoInv, CyclesInv, CycleOK
    <2>2. PagesTyped /\ BankOK(bank, lock, seeds) /\ RecordOK(chain, rows)
      BY DEF DemoInv, PagesInv, CyclesInv
    <2> QED BY <2>1, <2>2 DEF DemoTypeOK, PagesTyped, BankOK, RecordOK, Logs, Loads
  <1> QED BY <1>1, DemoInvariant, PTL

\* However late the registry and the steps answer, and whatever the visitor chooses in
\* between, every panel of a page is about its institution and run, and a step is open
\* only when every step before it is done.
THEOREM PagesAreCurrent == DemoSpec => []PageIsCurrent
  <1>1. DemoInv => PageIsCurrent
    BY DEF DemoInv, PagesInv, PageOK, PanelsOK, InOrder, PageIsCurrent, ShownIsCurrent, StepsInOrder
  <1> QED BY <1>1, DemoInvariant, PTL

\* With any number of visitors proving at once, a proof that is shown stands on the
\* registry of the institution chosen, covers what it owes, and is the visitor's own or
\* a later one.
THEOREM PublishedIsReal == DemoSpec => []PublishedShownIsReal
  <1>1. DemoInv => PublishedShownIsReal
    <2> SUFFICES ASSUME DemoInv, NEW v \in Visitor
                 PROVE  /\ At(v, "proof") =>
                             LatestRow(job[v].inst) \in job[v].own..Len(chain[job[v].inst])
                        /\ page[v].status["prove"] = "done" =>
                             /\ page[v].proof \in DOMAIN chain[page[v].inst]
                             /\ chain[page[v].inst][page[v].proof] >= Owed[page[v].inst]
      BY DEF PublishedShownIsReal
    <2>1. ASSUME At(v, "proof")
          PROVE  LatestRow(job[v].inst) \in job[v].own..Len(chain[job[v].inst])
      <3> DEFINE i == job[v].inst
                 own == job[v].own
      <3>1. /\ job[v] \in Job /\ CycleOK(bank, lock, chain, rows, seeds, v, job[v])
            /\ CyclesInv /\ RecordOK(chain, rows) /\ job[v] # None /\ job[v].at = "proof"
        BY <2>1, Locals, StepOfStop DEF At
      <3>2. /\ rows[i] # << >> /\ own <= Last(rows[i]) /\ i \in Institution /\ own \in Nat
            /\ chain[i] \in Seq(Nat)
        BY <3>1 DEF CycleOK, Job, RecordOK
      <3> HIDE DEF i, own
      <3>3. LatestRow(i) = Last(rows[i]) /\ LatestRow(i) \in DOMAIN chain[i]
        BY <3>1, <3>2, LatestRowIs
      <3>4. LatestRow(i) \in 1..Len(chain[i]) /\ own <= LatestRow(i)
        BY <3>2, <3>3
      <3>5. LatestRow(i) \in own..Len(chain[i])
        BY <3>2, <3>4
      <3> QED BY <3>5 DEF i, own
    <2>2. ASSUME page[v].status["prove"] = "done"
          PROVE  /\ page[v].proof \in DOMAIN chain[page[v].inst]
                 /\ chain[page[v].inst][page[v].proof] >= Owed[page[v].inst]
      <3>1. ProofOK(chain, page[v]) /\ RecordOK(chain, rows) /\ page[v].inst \in Institution
        BY Locals DEF Page
      <3> QED BY <2>2, <3>1 DEF ProofOK, RecordOK
    <2> QED BY <2>1, <2>2
  <1> QED BY <1>1, DemoInvariant, PTL

\* The total a cycle publishes is the bank's at one moment, however many accounts it
\* reads one by one, unless another visitor seeded the bank in between.
THEOREM TornOnlyIfReseededAlways == DemoSpec => []TornOnlyIfReseeded
  <1>1. DemoInv => TornOnlyIfReseeded
    BY DEF DemoInv, CyclesInv, CycleOK, TornOnlyIfReseeded, At
  <1> QED BY <1>1, DemoInvariant, PTL
=============================================================================
