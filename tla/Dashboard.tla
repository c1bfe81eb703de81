----------------------------- MODULE Dashboard -----------------------------
(***************************************************************************)
(* The console's dashboard (apps/web): the DashboardProvider every section *)
(* shares, the proof cycle an operator runs from the overview, and the     *)
(* dialog that connects a reserve source.                                  *)
(*                                                                         *)
(* The provider outlives a section.  A section that is left is unmounted   *)
(* with its dialog, while what the dialog started goes on.                 *)
(***************************************************************************)
EXTENDS Naturals, Sequences, SequencesExt, Absent

CONSTANTS
  Custodian,
  OwnWallet,     \* what the operator may enter as an on-chain wallet
  MaxCycles,     \* bound: cycles run in one session
  MaxConnects,   \* bound: sources connected in one session
  MaxLeaves      \* bound: sections left and sessions ended

ASSUME DashboardAssumption ==
  /\ None \notin Custodian /\ None \notin OwnWallet /\ Custodian \cap OwnWallet = {}
  /\ MaxCycles \in Nat /\ MaxConnects \in Nat /\ MaxLeaves \in Nat

Section == {"overview", "sources", "activity", "settings"}

\* permissions.ts: MATRIX.
can(role, action) ==
  CASE role = "owner" -> TRUE
    [] role = "operator" -> action \in {"cycle.run", "source.connect", "report.export"}
    [] role = "compliance" -> action \in {"report.export", "disclosure.manage"}
    [] OTHER -> FALSE

\* buildSession: the operator who signed in is the owner.
role == "owner"

VARIABLES
  section,    \* the section that is shown, and how many were left
  cycles,     \* data.cycles, newest first
  runs,       \* the cycles in flight, each as the head it was started from
  running,
  sources,    \* the labels of data.sources
  dialog,     \* ConnectSourceDialog
  connects,   \* connectSource calls in flight
  confirmed   \* history: the sources the operator confirmed

dashVars == <<section, cycles, runs, running, sources, dialog, connects, confirmed>>

DialogStep == {"choose", "custodians", "consent", "wallet"}
Label == Custodian \cup OwnWallet

DashTypeOK ==
  /\ section \in [name: Section, left: 0..MaxLeaves]
  /\ cycles \in Seq([proofId: Nat, reserves: Nat, liabilities: Nat]) /\ cycles # << >>
  /\ runs \in Seq(Range(cycles))
  /\ running \in BOOLEAN
  /\ sources \in Seq(Label) /\ confirmed \in Seq(Label)
  /\ dialog \in [open: BOOLEAN, step: DialogStep, custodian: Custodian \cup {None},
                 wallet: OwnWallet \cup {None}, busy: BOOLEAN]
  /\ connects \in Seq([label: Label, left: Nat, seen: Seq(Label)])

\* initialDashboard: a history is there from the start, with totals in thousands.
Seeded(id, r, l) == [proofId |-> id, reserves |-> r, liabilities |-> l]
initialDashboard_empty == << >>
initialDashboard == <<Seeded(1042, 12400, 11980), Seeded(1041, 12310, 11940),
                      Seeded(1038, 12100, 11890), Seeded(1035, 12050, 10000)>>

FreshDialog == [open |-> FALSE, step |-> "choose", custodian |-> None, wallet |-> None,
                busy |-> FALSE]

DashInit ==
  /\ section = [name |-> "overview", left |-> 0]
  /\ cycles = initialDashboard /\ runs = << >> /\ running = FALSE
  /\ sources = << >> /\ dialog = FreshDialog
  /\ connects = << >> /\ confirmed = << >>
-----------------------------------------------------------------------------
\* The sidebar.  The section that is left is unmounted.
navigate(s) ==
  /\ s # section.name /\ section.left < MaxLeaves
  /\ section' = [name |-> s, left |-> section.left + 1]
  /\ dialog' = FreshDialog
  /\ UNCHANGED <<cycles, runs, running, sources, connects, confirmed>>

\* Signing out unmounts the provider; what was in flight sets the state of nothing.
endSession ==
  /\ section.left < MaxLeaves
  /\ section' = [name |-> "overview", left |-> section.left + 1]
  /\ cycles' = initialDashboard /\ runs' = << >> /\ running' = FALSE
  /\ sources' = << >> /\ dialog' = FreshDialog
  /\ connects' = << >> /\ confirmed' = << >>
-----------------------------------------------------------------------------
(* The proof cycle.                                                        *)

\* StatusHero's button.
RunEnabled_always == section.name = "overview"
RunEnabled == section.name = "overview" /\ can(role, "cycle.run") /\ ~running

runCycle ==
  /\ RunEnabled /\ Len(cycles) + Len(runs) < Len(initialDashboard) + MaxCycles
  /\ running' = TRUE /\ runs' = Append(runs, Head(cycles))
  /\ UNCHANGED <<section, cycles, sources, dialog, connects, confirmed>>

\* runCycleMock: the next id, and a small drift on both totals.
NextRecord(previous) == [proofId |-> previous.proofId + 1, reserves |-> previous.reserves + 30,
                         liabilities |-> previous.liabilities + 18]

RunningAfter_kept == TRUE
RunningAfter == FALSE

CycleReturns ==
  /\ runs # << >>
  /\ cycles' = <<NextRecord(Head(runs))>> \o cycles
  /\ running' = RunningAfter /\ runs' = Tail(runs)
  /\ UNCHANGED <<section, sources, dialog, connects, confirmed>>
-----------------------------------------------------------------------------
(* The dialog.                                                             *)

InDialog(step) == dialog.open /\ dialog.step = step

Dialog(new) ==
  /\ dialog' = new
  /\ UNCHANGED <<section, cycles, runs, running, sources, connects, confirmed>>

openDialog ==
  /\ section.name = "sources" /\ can(role, "source.connect") /\ ~dialog.open
  /\ Dialog([dialog EXCEPT !.open = TRUE])

\* The escape key, the overlay and the close button, also while a connect is awaited.
AfterDismiss_kept == [dialog EXCEPT !.open = FALSE]
AfterDismiss == FreshDialog

dismiss == dialog.open /\ Dialog(AfterDismiss)

choose(step) == InDialog("choose") /\ Dialog([dialog EXCEPT !.step = step])

pickCustodian(c) ==
  /\ InDialog("custodians")
  /\ Dialog([dialog EXCEPT !.custodian = c, !.step = "consent"])

back ==
  \/ InDialog("consent") /\ Dialog([dialog EXCEPT !.step = "custodians"])
  \/ InDialog("custodians") /\ Dialog([dialog EXCEPT !.step = "choose"])
  \/ InDialog("wallet") /\ Dialog([dialog EXCEPT !.step = "choose"])

enterWallet(w) == InDialog("wallet") /\ Dialog([dialog EXCEPT !.wallet = w])

\* finish: busy, and the request of connectSource.
finish(label) ==
  /\ ~dialog.busy /\ Len(confirmed) < MaxConnects
  /\ dialog' = [dialog EXCEPT !.busy = TRUE]
  /\ connects' = Append(connects, [label |-> label, left |-> section.left, seen |-> sources])
  /\ confirmed' = Append(confirmed, label)
  /\ UNCHANGED <<section, cycles, runs, running, sources>>

authorize == InDialog("consent") /\ finish(dialog.custodian)

connectWallet == InDialog("wallet") /\ dialog.wallet # None /\ finish(dialog.wallet)

\* connectSource appends to the state as it is then, not as it was when it began.
Appended_stale(done) == Append(done.seen, done.label)
Appended(done) == Append(sources, done.label)

\* connectSourceMock takes the same time for all, so they return in order.  Then finish
\* closes the dialog of its own section, be it the one that was confirmed or one that was
\* opened since.
ConnectReturns ==
  /\ connects # << >>
  /\ sources' = Appended(Head(connects))
  /\ connects' = Tail(connects)
  /\ dialog' = IF Head(connects).left = section.left THEN FreshDialog ELSE dialog
  /\ UNCHANGED <<section, cycles, runs, running, confirmed>>
-----------------------------------------------------------------------------
DashNext ==
  \/ \E s \in Section : navigate(s)
  \/ endSession \/ runCycle \/ CycleReturns \/ openDialog \/ dismiss
  \/ choose("custodians") \/ choose("wallet")
  \/ \E c \in Custodian : pickCustodian(c)
  \/ back
  \/ \E w \in OwnWallet : enterWallet(w)
  \/ authorize \/ connectWallet \/ ConnectReturns

DashSpec == DashInit /\ [][DashNext]_dashVars

\* Both mocks return after a fixed delay.
Returns == CycleReturns \/ ConnectReturns

DashFairSpec == DashSpec /\ WF_dashVars(Returns)
-----------------------------------------------------------------------------
\* The log stays newest first and each new proof follows the one below it, with its
\* totals continued: no two cycles are ever started from the same head.
CyclesNewestFirst ==
  \A i \in 1..(Len(cycles) - 1) :
    /\ cycles[i].proofId > cycles[i + 1].proofId
    /\ i <= Len(cycles) - Len(initialDashboard) => cycles[i] = NextRecord(cycles[i + 1])

\* No confirmed source is lost or shown twice, even when the dialog was dismissed or its
\* section left while it was connecting and another one was confirmed.
SourcesAreConfirmed == confirmed = sources \o [i \in DOMAIN connects |-> connects[i].label]

\* A closed dialog keeps nothing of the last source, and the consent page always names
\* the custodian the operator chose.
DialogIsConsistent ==
  /\ ~dialog.open => dialog = FreshDialog
  /\ InDialog("consent") => dialog.custodian # None

\* The dashboard's provider under overlapping cycles and dialogs: nothing is lost,
\* doubled or out of order.
DashboardLosesNothing == CyclesNewestFirst /\ SourcesAreConfirmed /\ DialogIsConsistent

\* The buttons that wait for a cycle or a source are freed again.
DashboardIsFreed == (running ~> ~running) /\ (dialog.busy ~> ~dialog.busy)
=============================================================================
