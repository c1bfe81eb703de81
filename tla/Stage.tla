------------------------------- MODULE Stage -------------------------------
(***************************************************************************)
(* The chapter "how a record is made" of the home page.  On a wide screen  *)
(* with motion it is pinned: a timeline of the figure is scrubbed to the   *)
(* scroll, which also sets the step; a step's button scrolls to it.        *)
(* Otherwise the buttons set the step, and the figure shows its parts.     *)
(*                                                                         *)
(* What was made for a pinned chapter outlives its unpinning: the cleanup  *)
(* of a useGSAP with dependencies runs when the page is left, and not when *)
(* a dependency changes.  Its trigger goes on telling the step, and its    *)
(* timeline goes on writing the styles of the parts.  A chapter pinned     *)
(* again has one more trigger, with the extent and progress of the first,  *)
(* and one more timeline, so one of each stands for all.                   *)
(*                                                                         *)
(* Progress is in hundredths, the timeline in hundredths of a second: its  *)
(* five seconds are the whole of the scroll.                               *)
(***************************************************************************)
EXTENDS Integers, FiniteSets, Absent

CONSTANT ScrollAt   \* the scroll positions of the visitor

ASSUME StageAssumption ==
  ScrollAt \subseteq 0 .. 100 /\ 0 \in ScrollAt /\ None \notin 0 .. 100

Steps == 5
StageStep == 1 .. Steps

VARIABLES
  matches,   \* the media query PINNED, and whether its change is queued
  pinned,
  step,
  scroll,    \* where the window is, as progress through the chapter
  trigger,   \* trigger.current: its progress, None before the chapter was first pinned
  scrubbed,  \* the progress the timelines have reached, the furthest of them
  goal,      \* where the window is being scrolled to by a button
  picked     \* history: a button set the step, and no trigger has told one since

stageVars == <<matches, pinned, step, scroll, trigger, scrubbed, goal, picked>>

stepAt_unbounded(progress) == (progress * Steps) \div 100 + 1

stepAt(progress) ==
  LET n == (progress * Steps) \div 100 + 1 IN IF n > Steps THEN Steps ELSE n

stepOffset_edge(n) == (n * 100) \div Steps

stepOffset(n) == ((n - 1) * 100 + 45) \div Steps

Begins_early ==
  [tree_line |-> 105, node |-> 135, tree_caption |-> 175, proof_line |-> 205,
   proof_label |-> 230, bar_label |-> 305, bar |-> 310, bar_mark |-> 360, record |-> 375]

\* When each part starts to show on the timeline (buildStage).
Begins ==
  [tree_line |-> 105, node |-> 135, tree_caption |-> 175, proof_line |-> 205,
   proof_label |-> 230, bar_label |-> 305, bar |-> 310, bar_mark |-> 360, record |-> 405]

Part == DOMAIN Begins

\* The step from which StageFigure shows each when it is not scrubbed.
PartStep ==
  [p \in Part |-> CASE p \in {"tree_line", "node", "tree_caption"} -> 2
                    [] p = "record" -> 5
                    [] OTHER -> 3]

\* The parts that can be seen.  The timelines write the styles of the parts themselves,
\* the steps the class of the groups they are in; the record is a group of its own, where
\* the style wins over the class.  A timeline made anew takes the styles it finds for its
\* ends, so a chapter pinned again may show fewer than these.
Drawn == {p \in Part : scrubbed * Steps > Begins[p]}
AtStep == {p \in Part : step >= PartStep[p]}

Seen ==
  IF trigger = None THEN AtStep
  ELSE IF pinned THEN Drawn ELSE Drawn \cap (AtStep \cup {"record"})

\* The ring's label.
RingLabel == IF step >= 4 THEN "VERIFIED" ELSE IF step >= 3 THEN "VERIFY" ELSE "STELLAR"
-----------------------------------------------------------------------------
ChangeScreen ==
  /\ matches' = [now |-> ~matches.now, queued |-> TRUE]
  /\ UNCHANGED <<pinned, step, scroll, trigger, scrubbed, goal, picked>>

\* onUpdate of a trigger whose progress has changed.
Told(at) ==
  IF trigger \in {None, at} THEN UNCHANGED <<step, trigger, picked>>
  ELSE trigger' = at /\ step' = stepAt(at) /\ picked' = FALSE

\* A new trigger is refreshed, and tells the step if it has made progress; so does an
\* earlier one whose progress changes with the height of the chapter.
TellsOnPin_moved(at) == trigger \notin {None, at}
TellsOnPin(at) == at > 0 \/ trigger \notin {None, at}

PinnedAt(at) ==
  /\ trigger' = at
  /\ step' = IF TellsOnPin(at) THEN stepAt(at) ELSE step
  /\ picked' = (picked /\ ~TellsOnPin(at))

\* sync and the effect that depends on it.  The chapter changes its height, so the
\* window may be anywhere in it.
SyncPinned ==
  /\ matches.queued
  /\ matches' = [matches EXCEPT !.queued = FALSE]
  /\ pinned' = matches.now
  /\ IF matches.now = pinned THEN UNCHANGED <<step, scroll, trigger, goal, picked>>
     ELSE /\ scroll' \in ScrollAt /\ goal' = None
          /\ IF matches.now THEN PinnedAt(scroll') ELSE Told(scroll')
  /\ UNCHANGED scrubbed

ScrolledTo(at) ==
  /\ scroll' = at
  /\ Told(at)
  /\ UNCHANGED <<matches, pinned, scrubbed>>

\* The visitor's own scrolling ends that of a button.
ScrollBy ==
  /\ \E at \in ScrollAt \ {scroll} : ScrolledTo(at)
  /\ goal' = None

\* The window is scrolled to where a button asked for.
Arrive ==
  /\ goal # None
  /\ ScrolledTo(goal)
  /\ goal' = None

\* The timelines catch up with the scroll, pinned or not.
Scrub ==
  /\ trigger # None /\ scrubbed # trigger
  /\ scrubbed' = trigger
  /\ UNCHANGED <<matches, pinned, step, scroll, trigger, goal, picked>>

goTo(n) ==
  /\ IF pinned
     THEN goal' = stepOffset(n) /\ UNCHANGED <<step, picked>>
     ELSE step' = n /\ picked' = TRUE /\ UNCHANGED goal
  /\ UNCHANGED <<matches, pinned, scroll, trigger, scrubbed>>

StageInit ==
  /\ \E now \in BOOLEAN : matches = [now |-> now, queued |-> TRUE]   \* the effect's own sync
  /\ pinned = FALSE /\ step = 1 /\ trigger = None /\ scrubbed = 0
  /\ scroll \in ScrollAt /\ goal = None /\ picked = FALSE

StageNext ==
  \/ ChangeScreen \/ SyncPinned \/ ScrollBy \/ Arrive \/ Scrub
  \/ \E n \in StageStep : goTo(n)

StageSpec == StageInit /\ [][StageNext]_stageVars
-----------------------------------------------------------------------------
\* The types of the chapter's state.
StageTypeOK ==
  /\ matches \in [now: BOOLEAN, queued: BOOLEAN]
  /\ pinned \in BOOLEAN /\ picked \in BOOLEAN
  /\ step \in StageStep /\ scroll \in 0 .. 100 /\ scrubbed \in 0 .. 100
  /\ trigger \in 0 .. 100 \cup {None} /\ goal \in 0 .. 100 \cup {None}
  /\ pinned => trigger # None

\* onUpdate: the step is the one scrolled to, whatever was picked before the chapter was
\* pinned, unless it was pinned with nothing scrolled yet; and once it is unpinned, the
\* trigger that stays still takes the step from the buttons whenever the window moves.
StepFollowsScroll ==
  trigger # None => step = stepAt(scroll) \/ (picked /\ (pinned => scroll = 0))

\* buildStage against StageFigure: once the timelines have caught up, no part is seen in a
\* step before the one that shows it, and the ring says VERIFIED when the record is
\* written.  The one exception is the record in a chapter that was unpinned: it keeps the
\* style it was drawn with although a button picks an earlier step.
NothingBeforeItsStep ==
  trigger = None \/ scrubbed = trigger =>
    LET kept == trigger # None /\ ~pinned /\ picked
    IN /\ \A p \in Seen : step >= PartStep[p] \/ (p = "record" /\ kept)
       /\ "record" \in Seen => RingLabel = "VERIFIED" \/ kept

\* goTo: when a button's scroll arrives in the chapter that is still pinned, the chapter
\* is at a step whose own button would have asked for this very place.
ArrivesAtItsStep ==
  [][goal # None /\ goal' = None /\ scroll' = goal /\ pinned' => stepOffset(step') = goal]_stageVars
=============================================================================
