------------------------------ MODULE Opening ------------------------------
(***************************************************************************)
(* The opening of the home page: a meter that steps through the last days  *)
(* of the example record.  React renders the day's coverage and GSAP       *)
(* counts the same text from the day before to it.  The loop runs while    *)
(* the meter is seen, the tab is shown and motion is not reduced.          *)
(*                                                                         *)
(* The browser reports each of the three later than it changes.  The       *)
(* period (5.2 s) is longer than the count (1.15 s), so a day is counted   *)
(* before the next.                                                        *)
(***************************************************************************)
EXTENDS Naturals, FiniteSets, Absent

CONSTANTS
  Days,      \* DAYS.length
  Coverage   \* what coveragePercent can give for a day

ASSUME OpeningAssumption ==
  /\ Days \in Nat \ {0} /\ Coverage # {} /\ "partial" \notin Coverage
  /\ None \notin Coverage /\ None \notin [from: Coverage, to: Coverage]

Day == 0 .. Days - 1
Signal == {"seen", "shown", "moving"}   \* isIntersecting, ~document.hidden, ~reduced.matches

VARIABLES
  percent,   \* the coverage of each day
  index,     \* useOpeningLoop's index
  running,   \* and running
  holds,     \* the signals that hold
  queued,    \* the change events the browser has queued
  reports,   \* what the entries say that the observer has not delivered yet
  observed,  \* `visible`
  mixed,     \* history: the entries delivered last said both
  directed,  \* the media context of the value's timeline is active
  text,      \* [data-hero-value]: what it reads
  heroFrom,  \* data-hero-from
  counting   \* the count that runs

openingVars ==
  <<percent, index, running, holds, queued, reports, observed, mixed, directed, text, heroFrom,
    counting>>

\* DAYS[i] ?? the last of DAYS
Shown(i) == percent[IF i \in Day THEN i ELSE Days - 1]

nextDay_past(i) == (i + 1) % (Days + 1)

nextDay(i) == (i + 1) % Days

\* sync, once `visible` is v.
Runs_ignoring(v) == v /\ "moving" \in holds

Runs(v) == v /\ "moving" \in holds /\ "shown" \in holds

\* The timeline of a value: from what it showed last to what it shows now.
Count_back(value) == [from |-> value, to |-> IF heroFrom = None THEN value ELSE heroFrom]

Count(value) == [from |-> IF heroFrom = None THEN value ELSE heroFrom, to |-> value]

Start(value) ==
  IF "moving" \in holds
  THEN /\ directed' = TRUE /\ counting' = Count(value) /\ heroFrom' = value
  ELSE /\ directed' = FALSE /\ counting' = None /\ UNCHANGED heroFrom
-----------------------------------------------------------------------------
\* The observer queues an entry, the other two an event.
Change(s) ==
  /\ holds' = IF s \in holds THEN holds \ {s} ELSE holds \cup {s}
  /\ reports' = IF s = "seen" THEN reports \cup {(s \in holds')} ELSE reports
  /\ queued' = IF s = "seen" THEN queued ELSE queued \cup {s}
  /\ UNCHANGED <<percent, index, running, observed, mixed, directed, text, heroFrom, counting>>

\* entries.some: one callback has all the entries since the last.
SomeSeen_all(r) == FALSE \notin r
SomeSeen(r) == TRUE \in r

Observe ==
  /\ reports # {}
  /\ reports' = {}
  /\ observed' = SomeSeen(reports) /\ mixed' = (reports = BOOLEAN)
  /\ running' = Runs(observed')
  /\ UNCHANGED <<percent, index, holds, queued, directed, text, heroFrom, counting>>

\* The listeners of the other two.  The preference is heard by gsap.matchMedia as well;
\* the text stays as it reads when a count is reverted.  The matchMedia of each earlier day
\* is still there (its cleanup runs when the page is left) and starts a count too, over
\* the same value; they end together, so one count stands for all.
Sync(s) ==
  /\ s \in queued
  /\ queued' = queued \ {s}
  /\ running' = Runs(observed)
  /\ IF s = "moving" /\ directed # ("moving" \in holds)
     THEN Start(Shown(index))
     ELSE UNCHANGED <<directed, heroFrom, counting>>
  /\ UNCHANGED <<percent, index, holds, reports, observed, mixed, text>>

\* setInterval, then React's render and the timeline's new run.
Advance ==
  /\ running /\ Days >= 2 /\ counting = None
  /\ index' = nextDay(index)
  /\ text' = IF Shown(index') = Shown(index) THEN text ELSE Shown(index')
  /\ Start(Shown(index'))
  /\ UNCHANGED <<percent, running, holds, queued, reports, observed, mixed>>

ValueUpdates ==
  /\ counting # None
  /\ text' = "partial"
  /\ UNCHANGED <<percent, index, running, holds, queued, reports, observed, mixed, directed, heroFrom,
                 counting>>

ValueCompletes ==
  /\ counting # None
  /\ text' = counting.to
  /\ counting' = None
  /\ UNCHANGED <<percent, index, running, holds, queued, reports, observed, mixed, directed, heroFrom>>

OpeningInit ==
  /\ percent \in [Day -> Coverage]
  /\ index = Days - 1
  /\ running = FALSE /\ observed = FALSE /\ mixed = FALSE
  /\ holds \in SUBSET Signal
  /\ queued = {} /\ reports = {"seen" \in holds}   \* an observer reports first what it finds
  /\ text = percent[index]
  /\ directed = ("moving" \in holds)
  /\ heroFrom = IF directed THEN percent[index] ELSE None
  /\ counting = IF directed THEN [from |-> percent[index], to |-> percent[index]] ELSE None

OpeningNext ==
  \/ \E s \in Signal : Change(s) \/ Sync(s)
  \/ Observe \/ Advance \/ ValueUpdates \/ ValueCompletes

OpeningSpec == OpeningInit /\ [][OpeningNext]_openingVars
-----------------------------------------------------------------------------
\* The types of the opening's state; what is counted is counted with motion only.
OpeningTypeOK ==
  /\ percent \in [Day -> Coverage] /\ index \in Day
  /\ running \in BOOLEAN /\ observed \in BOOLEAN /\ directed \in BOOLEAN
  /\ holds \subseteq Signal /\ queued \subseteq Signal \ {"seen"}
  /\ reports \subseteq BOOLEAN /\ mixed \in BOOLEAN
  /\ text \in Coverage \cup {"partial"} /\ heroFrom \in Coverage \cup {None}
  /\ counting \in [from: Coverage, to: Coverage] \cup {None}
  /\ counting # None => directed

\* React and GSAP write the same text: once a count is over it reads the coverage of
\* the day shown, unless reduced motion cut the count short and froze it.
ValueShowsTheDay ==
  counting = None => text = Shown(index) \/ (text = "partial" /\ ~directed)

\* The loop of the meter: once the browser has told everything, it runs if the meter is
\* seen, in a tab that is shown, with motion; and it runs unseen only after the observer
\* delivered "seen" and "no longer seen" together (entries.some), and then only until it
\* delivers again.
LoopRunsIfSeen ==
  queued = {} /\ reports = {} =>
    /\ holds = Signal => running
    /\ running => holds = Signal \/ (mixed /\ holds = Signal \ {"seen"})
=============================================================================
