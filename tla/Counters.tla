------------------------------ MODULE Counters ------------------------------
(***************************************************************************)
(* The figures of the website that count: a number that counts up when it  *)
(* is scrolled to, and the calendar of the record chapter, which fills day *)
(* by day and then sweeps on.  Both write over text the server rendered.   *)
(*                                                                         *)
(* GSAP is external: a revert may or may not reach a tween that a trigger  *)
(* started, and what it kills is interrupted without an update.            *)
(***************************************************************************)
EXTENDS Naturals, FiniteSets, Absent

CONSTANT MaxRuns   \* bound: times the director runs

ASSUME CountersAssumption == MaxRuns \in Nat /\ None \notin {"whole", "partial"}

VARIABLES
  director,  \* is it directing, and how often it has
  count,     \* a [data-count]: what it reads, data-count-text, is its trigger armed
  tweens,    \* the count-ups of it that are running: when started, what they restore
  calendar   \* the [data-calendar]: what its outputs read and its two timelines

countersVars == <<director, count, tweens, calendar>>

Text == {"whole", "partial"}
Place == {"before", "in", "after"}
-----------------------------------------------------------------------------
(* countUp.                                                                *)

CountText_read == count.text

CountText == IF count.saved = None THEN count.text ELSE count.saved

countUp ==
  /\ director.on /\ count.armed
  /\ count' = [count EXCEPT !.armed = FALSE, !.saved = CountText]
  /\ tweens' = tweens \cup {[run |-> director.runs, text |-> CountText]}
  /\ UNCHANGED <<director, calendar>>

\* onUpdate
CountUpdates ==
  /\ tweens # {}
  /\ count' = [count EXCEPT !.text = "partial"]
  /\ UNCHANGED <<director, tweens, calendar>>

\* onComplete
CountCompletes(t) ==
  /\ tweens' = tweens \ {t}
  /\ count' = [count EXCEPT !.text = t.text]
  /\ UNCHANGED <<director, calendar>>
-----------------------------------------------------------------------------
(* animateCalendar on a calendar c.                                        *)

restore(c) == [c EXCEPT !.outputs = "whole"]

play(c) == [c EXCEPT !.sweep = "playing"]
pause(c) == [c EXCEPT !.sweep = "paused", !.endedUnseen = FALSE]

Begin(c) ==
  [c EXCEPT !.outputs = "partial", !.intro = "waiting", !.sweep = "paused", !.endedUnseen = FALSE]

onEnter(c) ==
  CASE c.intro = "waiting" -> [c EXCEPT !.intro = "playing"]
    [] c.intro = "done" -> play(c)
    [] OTHER -> c

onEnterBack_any(c) == play(c)

onEnterBack(c) == IF c.intro = "done" THEN play(c) ELSE c

onLeave_playing(c) == c

onLeave(c) == pause(c)
onLeaveBack(c) == pause(c)

\* What ScrollTrigger calls on the way to a place, through "in" if it is passed.
Moved(c, to) ==
  LET entered == IF c.at = "before" THEN onEnter(c)
                 ELSE IF c.at = "after" THEN onEnterBack(c) ELSE c
      left == CASE to = "after" -> onLeave(entered)
                [] to = "before" -> onLeaveBack(entered)
                [] OTHER -> entered
  IN [left EXCEPT !.at = to]

ScrollPast(to) ==
  /\ to # calendar.at
  /\ calendar' = IF director.on THEN Moved(calendar, to) ELSE [calendar EXCEPT !.at = to]
  /\ UNCHANGED <<director, count, tweens>>

\* The intro completes whether or not the calendar is in view.
IntroCompletes ==
  /\ calendar.intro = "playing"
  /\ calendar' = [play(restore(calendar)) EXCEPT
                    !.intro = "done", !.endedUnseen = calendar.at # "in"]
  /\ UNCHANGED <<director, count, tweens>>
-----------------------------------------------------------------------------
(* The director.                                                           *)

\* ScrollTrigger.refresh calls the triggers that are above the line already.
Refreshed(c) == Moved([c EXCEPT !.at = "before"], c.at)

Direct ==
  /\ ~director.on /\ director.runs < MaxRuns
  /\ director' = [on |-> TRUE, runs |-> director.runs + 1]
  /\ count' = [count EXCEPT !.armed = TRUE]
  /\ calendar' = IF calendar.at = "before" THEN Begin(calendar) ELSE Refreshed(Begin(calendar))
  /\ UNCHANGED tweens

Restored_left(c) == c

Restored(c) == restore(c)

\* mm.revert: tweens are killed, which restores a count; then restores run.
Revert ==
  /\ director.on
  /\ director' = [director EXCEPT !.on = FALSE]
  /\ \E killed \in SUBSET tweens :
       /\ tweens' = tweens \ killed
       /\ \E text \in IF killed = {} THEN {count.text} ELSE {t.text : t \in killed} :
            count' = [count EXCEPT !.armed = FALSE, !.text = text]
  /\ calendar' = [Restored(calendar) EXCEPT !.intro = "none", !.sweep = "paused",
                                            !.endedUnseen = FALSE]

CountersInit ==
  /\ director = [on |-> FALSE, runs |-> 0]
  /\ count = [text |-> "whole", saved |-> None, armed |-> FALSE]
  /\ tweens = {}
  /\ calendar = [outputs |-> "whole", intro |-> "none", sweep |-> "paused", at |-> "before",
                 endedUnseen |-> FALSE]

CountersNext ==
  \/ countUp \/ CountUpdates \/ (\E t \in tweens : CountCompletes(t))
  \/ (\E to \in Place : ScrollPast(to)) \/ IntroCompletes
  \/ Direct \/ Revert

CountersSpec == CountersInit /\ [][CountersNext]_countersVars
-----------------------------------------------------------------------------
\* The types of the figures; the sweep goes over a calendar that has filled.
CountersTypeOK ==
  /\ director \in [on: BOOLEAN, runs: 0 .. MaxRuns]
  /\ count \in [text: Text, saved: Text \cup {None}, armed: BOOLEAN]
  /\ tweens \subseteq [run: 1 .. MaxRuns, text: Text]
  /\ calendar \in [outputs: Text, intro: {"none", "waiting", "playing", "done"},
                   sweep: {"paused", "playing"}, at: Place, endedUnseen: BOOLEAN]
  /\ calendar.sweep = "playing" => calendar.intro = "done"

\* data-count-text and onInterrupt: when no count-up is running, the number reads
\* what the server rendered, however many of them overlapped or were killed.
CountSettles == tweens = {} => count.text = "whole"

\* The calendar's restore: while the calendar neither waits nor fills, its days,
\* proofs and missed days read what the server rendered, reduced motion included.
CalendarReadsWhole == calendar.intro \in {"none", "done"} => calendar.outputs = "whole"

\* onLeave and onLeaveBack: the endless sweep runs out of view only if the calendar
\* was out of view when it had filled, and has not been passed since.
UnseenSweepEndedUnseen ==
  calendar.sweep = "playing" /\ calendar.at # "in" => calendar.endedUnseen
=============================================================================
