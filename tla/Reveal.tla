------------------------------- MODULE Reveal -------------------------------
(***************************************************************************)
(* The reveals of the website: a script in the head hides what is marked   *)
(* before anything is shown, the motion director hides what it will reveal *)
(* and reveals it as the visitor scrolls, and both stop under reduced      *)
(* motion.  useMotionDirector runs again on every route, and the director  *)
(* of a route outlives it: the cleanup of a useGSAP with dependencies runs *)
(* only when <main> goes, so a preference that is switched off and on runs *)
(* the directors of all routes so far over the document of the last.       *)
(*                                                                         *)
(* GSAP and ScrollTrigger are external: a trigger that was passed fires    *)
(* once; a revert gives back the inline styles that its context found, in  *)
(* the order the contexts were made, and may or may not reach the tweens   *)
(* its callbacks started; gsap.from ends at the style it found.  What was  *)
(* found while another director hid it can stay hidden: it is stuck.       *)
(***************************************************************************)
EXTENDS Naturals, FiniteSets

CONSTANTS
  Nodes,     \* bound: the elements of <main>, in document order
  Mark,      \* bound: the marks
  MaxMarks,  \* bound: how many elements are marked
  MaxMoved   \* bound: how many elements are marked or figures

\* "rows" moves its children, "draw" (for [data-draw], [data-ticks], [data-seal])
\* what is drawn inside; a list of one is as good as any other element.
Marked == {"reveal", "rows", "draw", "intro"}
ASSUME RevealAssumption ==
  Nodes \in Nat \ {0} /\ Mark \subseteq Marked /\ MaxMarks \in Nat /\ MaxMoved \in Nat

Node == 1 .. Nodes
ElementKind == Mark \cup {"figure", "list"}

VARIABLES
  doc,       \* the elements: their parents (0: <main>) and their kinds
  hydrated,  \* React has run the effects, markMotionReady with them
  gate,      \* <html> has the class of the motion gate, and its timer is running
  motion,     \* prefers-reduced-motion, and whether its change is queued
  directing,  \* the media context of this route's director is active
  earlier,   \* whether those of earlier routes are: the values among them
  overlaid,  \* history: more than one director ran over this document, or left it stuck
  fade,      \* the inline style of <main>, which stays from route to route
  refaded,   \* history: the last director to run found <main> faded, or left it stuck
  inline,    \* the inline style of each element
  armed,     \* the triggers that have not fired: what each reveals
  seen       \* how far the visitor has scrolled: the elements above the line

directorVars == <<directing, earlier, overlaid, fade, refaded, inline, armed>>
revealVars ==
  <<doc, hydrated, gate, motion, directing, earlier, overlaid, fade, refaded, inline, armed, seen>>

\* In document order the parent of an element is its predecessor or above it; one
\* outer element holds the others.
Up(d, n) ==
  LET up[m \in 0 .. Nodes] == IF m = 0 THEN {} ELSE {m} \cup up[d.parent[m]]
  IN up[n]

Documents ==
  {d \in [parent: {p \in [Node -> 0 .. Nodes - 1] : \A n \in Node : p[n] < n},
          kind: [Node -> ElementKind]] :
     /\ Cardinality({n \in Node : d.kind[n] \in Marked}) <= MaxMarks
     /\ Cardinality({n \in Node : d.kind[n] # "list"}) <= MaxMoved
     /\ \A n \in Node \ {1} : d.parent[n] \in Up(d, n - 1)}

Above(n) == Up(doc, n)
Below(n) == {m \in Node : n \in Above(m)}
Children(n) == {m \in Node : doc.parent[m] = n}
-----------------------------------------------------------------------------
(* What moves.                                                             *)

isFree_outside(n, claimed) ==
  /\ \A m \in Above(n) : doc.kind[m] \notin Marked
  /\ \A m \in claimed \ {n} : m \notin Above(n)

isFree(n, claimed) ==
  /\ \A m \in Above(n) \cup Below(n) : doc.kind[m] \notin Marked
  /\ \A m \in claimed \ {n} : m \notin Above(n)

\* The candidates that are claimed one after the other, in document order.
Claimed(candidates) ==
  LET claimed[n \in 0 .. Nodes] ==
        IF n = 0 THEN {}
        ELSE claimed[n - 1] \cup {m \in {n} \cap candidates : isFree(m, claimed[n - 1])}
  IN claimed[Nodes]

autoFigures == Claimed({n \in Node : doc.kind[n] = "figure"})

autoLists(figures) ==
  Claimed({n \in Node : /\ doc.kind[n] = "list" /\ Cardinality(Children(n)) >= 2
                        /\ figures \cap Above(n) = {}})

\* The elements with a trigger, and what each hides and reveals.
Triggers ==
  LET figures == autoFigures
      lists == autoLists(figures)
      itself == {n \in Node : doc.kind[n] \in {"reveal", "draw"}} \cup figures
      children == {n \in Node : doc.kind[n] = "rows" /\ Children(n) # {}} \cup lists
  IN [t \in itself \cup children |-> IF t \in itself THEN {t} ELSE Children(t)]

CssHidden(n) ==
  doc.kind[n] \in {"reveal", "intro"} \/ \E p \in Node : p = doc.parent[n] /\ doc.kind[p] = "rows"

Displayed(n) ==
  CASE inline[n] = "none" -> ~(gate.on /\ CssHidden(n))
    [] inline[n] = "shown" -> TRUE
    [] OTHER -> FALSE

Visible(n) == fade = "shown" /\ \A m \in Above(n) : Displayed(m)
-----------------------------------------------------------------------------
(* The directors and the opening's motion on styles s.                     *)

\* opening: the opening's own motion runs too, as it does with this route's director.
Hides(s, triggers, opening) ==
  [n \in Node |->
     IF doc.kind[n] = "intro" THEN IF opening THEN "rising" ELSE s[n]
     ELSE IF s[n] # "rising" /\ \E t \in DOMAIN triggers : n \in triggers[t] THEN "hidden"
     ELSE s[n]]

Unstyled == [n \in Node |-> "none"]

\* The fade of <main>; over: other directors run with this one.
Fades(over) ==
  fade' = "rising" /\ refaded' = (over \/ fade \in {"rising", "stuck"})

\* The director of a route that is opened.
DirectReveals ==
  /\ directing' = ~motion.reduced /\ overlaid' = FALSE
  /\ IF motion.reduced
     THEN armed' = << >> /\ inline' = Unstyled /\ UNCHANGED <<fade, refaded>>
     ELSE armed' = Triggers /\ inline' = Hides(Unstyled, Triggers, TRUE) /\ Fades(FALSE)

\* Motion is allowed: every director that is idle runs.
RunAll ==
  IF directing /\ FALSE \notin earlier THEN UNCHANGED <<inline, armed, overlaid, fade, refaded>>
  ELSE /\ armed' = Triggers /\ inline' = Hides(inline, Triggers, ~directing)
       /\ overlaid' = (overlaid \/ FALSE \in earlier)
       /\ Fades(FALSE \in earlier)

Cleared_kept(survivors, stuck) == inline

\* A revert, which the tweens of some callbacks survive.
Cleared(survivors, stuck) ==
  [n \in Node |-> IF n \in survivors THEN "rising" ELSE IF n \in stuck THEN "stuck" ELSE "none"]

Targets == UNION {Triggers[t] : t \in DOMAIN Triggers}

\* Motion is reduced: every director that runs is reverted.
RevertAll ==
  /\ armed' = << >>
  /\ IF ~directing THEN UNCHANGED <<inline, overlaid>>
     ELSE \E survivors \in SUBSET {n \in Node : inline[n] = "rising"},
             stuck \in IF overlaid THEN {{}, Targets} ELSE {{}} :
            inline' = Cleared(survivors, stuck) /\ overlaid' = (stuck # {})
  /\ IF ~directing /\ TRUE \notin earlier THEN UNCHANGED <<fade, refaded>>
     ELSE \E stuck \in IF refaded THEN BOOLEAN ELSE {FALSE} :
            fade' = (IF stuck THEN "stuck" ELSE "shown") /\ refaded' = stuck

Hydrate ==
  /\ ~hydrated
  /\ hydrated' = TRUE
  /\ DirectReveals
  /\ UNCHANGED <<doc, gate, motion, earlier, seen>>

GateAfter_kept == gate.on

GateAfter == gate.on /\ hydrated

GateTimer ==
  /\ gate.timer
  /\ gate' = [on |-> GateAfter, timer |-> FALSE]
  /\ UNCHANGED <<doc, hydrated, motion, directorVars, seen>>

SwitchPreference ==
  /\ motion' = [reduced |-> ~motion.reduced, queued |-> TRUE]
  /\ UNCHANGED <<doc, hydrated, gate, directorVars, seen>>

\* gsap.matchMedia compares what matches with what each context has set up.
MatchMedia ==
  /\ hydrated /\ motion.queued
  /\ motion' = [motion EXCEPT !.queued = FALSE]
  /\ directing' = ~motion.reduced
  /\ earlier' = IF earlier = {} THEN {} ELSE {~motion.reduced}
  /\ IF motion.reduced THEN RevertAll ELSE RunAll
  /\ UNCHANGED <<doc, hydrated, gate, seen>>

\* onEnter, of a trigger that is above the line.
Enter(t) ==
  /\ t \in DOMAIN armed /\ t <= seen
  /\ armed' = [other \in DOMAIN armed \ {t} |-> armed[other]]
  /\ inline' = [n \in Node |->
                  IF n \in armed[t] /\ inline[n] = "hidden" THEN "rising" ELSE inline[n]]
  /\ UNCHANGED <<doc, hydrated, gate, motion, directing, earlier, overlaid, fade, refaded, seen>>

\* Tweens end; that of a drawing which another director hid ends there.
Rise ==
  /\ fade = "rising" \/ \E n \in Node : inline[n] = "rising"
  /\ fade' = IF fade = "rising" THEN "shown" ELSE fade
  /\ \E stuck \in SUBSET {n \in Node : overlaid /\ doc.kind[n] = "draw"} :
       inline' = [n \in Node |-> IF inline[n] # "rising" THEN inline[n]
                                ELSE IF n \in stuck THEN "stuck" ELSE "shown"]
  /\ UNCHANGED <<doc, hydrated, gate, motion, directing, earlier, overlaid, refaded, armed, seen>>

ScrollTo(s) ==
  /\ s # seen
  /\ seen' = s
  /\ UNCHANGED <<doc, hydrated, gate, motion, directorVars>>

\* Another route: its elements are new, the hook runs again.
OpenRoute ==
  /\ hydrated
  /\ seen' = 0
  /\ earlier' = earlier \cup {directing}
  /\ DirectReveals
  /\ UNCHANGED <<doc, hydrated, gate, motion>>

RevealInit ==
  /\ doc \in Documents
  /\ hydrated = FALSE /\ directing = FALSE /\ earlier = {} /\ overlaid = FALSE
  /\ fade = "shown" /\ refaded = FALSE
  /\ \E reduced \in BOOLEAN :
       /\ motion = [reduced |-> reduced, queued |-> FALSE]
       /\ gate = [on |-> ~reduced, timer |-> ~reduced]
  /\ inline = Unstyled /\ armed = << >> /\ seen = 0

RevealNext ==
  \/ Hydrate \/ GateTimer \/ SwitchPreference \/ MatchMedia
  \/ \E t \in Node : Enter(t)
  \/ Rise
  \/ \E s \in {0, Nodes} : ScrollTo(s)
  \/ OpenRoute

RevealSpec == RevealInit /\ [][RevealNext]_revealVars
-----------------------------------------------------------------------------
\* The types of the director's state; it hides nothing unless it is directing.
RevealTypeOK ==
  /\ hydrated \in BOOLEAN /\ directing \in BOOLEAN
  /\ gate \in [on: BOOLEAN, timer: BOOLEAN]
  /\ motion \in [reduced: BOOLEAN, queued: BOOLEAN]
  /\ earlier \subseteq BOOLEAN /\ overlaid \in BOOLEAN /\ refaded \in BOOLEAN
  /\ fade \in {"rising", "shown", "stuck"}
  /\ inline \in [Node -> {"none", "hidden", "rising", "shown", "stuck"}]
  /\ DOMAIN armed \subseteq Node /\ seen \in 0 .. Nodes
  /\ ~directing => armed = << >> /\ \A n \in Node : inline[n] # "hidden"

\* autoMark's two passes claim exactly the outermost free figures and lists: none
\* that a mark above or below already moves, none inside another one claimed.
AutoMarkIsOutermost ==
  LET figures == autoFigures
      lists == autoLists(figures)
      Free(k) == {n \in Node : doc.kind[n] = k /\ \A m \in Above(n) \cup Below(n) :
                                                    doc.kind[m] \notin Marked}
  IN /\ figures = {n \in Free("figure") : Above(n) \cap Free("figure") = {n}}
     /\ \A n \in lists : n \in Free("list") /\ Above(n) \cap (figures \cup lists) = {n}
     /\ \A n \in Free("list") :
          Cardinality(Children(n)) >= 2 => Above(n) \cap (figures \cup lists) # {}

Settled ==
  /\ ~gate.timer /\ ~motion.queued /\ fade # "rising"
  /\ \A n \in Node : inline[n] # "rising"
  /\ \A t \in DOMAIN armed : t > seen

\* Whatever the order in which the page hydrates, the gate's timer runs out, the
\* preference changes and the visitor scrolls: what is not visible waits for a
\* trigger further down, or is hidden by the gate, which nothing lifts from a page
\* that was loaded with motion and now is without.  One route's director leaves nothing
\* hidden; those of several can, an element only after they ran over one document, <main>
\* only after one ran while another's fade was on.
HiddenOnlyIfWaiting ==
  Settled =>
    \A n \in Node :
      \/ Visible(n)
      \/ \E t \in DOMAIN armed : armed[t] \cap Above(n) # {}
      \/ gate.on /\ hydrated /\ motion.reduced
      \/ overlaid /\ \E m \in Above(n) : inline[m] = "stuck"
      \/ refaded /\ fade = "stuck"
=============================================================================
