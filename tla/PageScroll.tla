----------------------------- MODULE PageScroll -----------------------------
(***************************************************************************)
(* What the layout of the website does to scrolling: the menu that covers  *)
(* a phone's screen locks the page behind it, Lenis scrolls smoothly for   *)
(* visitors who do not ask for reduced motion, and a button leads back to  *)
(* the top.                                                                *)
(*                                                                         *)
(* The browser tells the page late: toggle events are queued and an event  *)
(* that is still queued is replaced by the next, the change of a media     *)
(* query and scroll events come with a later frame.                        *)
(***************************************************************************)
EXTENDS Naturals, FiniteSets, Absent

CONSTANTS
  Menu,      \* the auto popovers of the header
  Mobile,    \* MENU_ID, the one that locks
  Position,  \* window.scrollY
  Height,    \* scrollHeight
  Viewport   \* innerHeight

ASSUME PageAssumption ==
  /\ Mobile \in Menu /\ None \notin {"open", "closed"} /\ None \notin [stopped: BOOLEAN]
  /\ 0 \in Position /\ Position \subseteq Nat
  /\ Height \subseteq Nat /\ Viewport \subseteq Nat \ {0}

VARIABLES
  mounted,   \* the layout is (an error page may replace it)
  open,      \* the popovers shown
  toggles,   \* the new state in a popover's queued toggle event
  locked,    \* usePopoverScrollLock's
  lock,      \* scroll-lock.ts: the count, and the class it sets on <html>
  lenis,     \* the registered scroller
  media,     \* prefers-reduced-motion, and whether its change is queued
  page,      \* the document and the window
  glide,     \* what is moving the page to the top
  moved,     \* a scroll or resize event is queued
  button     \* useBackToTop: frame, the frame asked for, and what is shown

pageVars ==
  <<mounted, open, toggles, locked, lock, lenis, media, page, glide, moved, button>>

menuVars == <<open, toggles, locked>>
scrollVars == <<page, glide, moved, button>>

ScrollRange(height, viewport) == IF height > viewport THEN height - viewport ELSE 0

\* A share as a fraction of the range.
scrollProgress(p) ==
  LET range == ScrollRange(p.height, p.viewport)
  IN IF range = 0 THEN <<0, 1>> ELSE <<IF p.y < range THEN p.y ELSE range, range>>

showBackToTop(p) == 10 * p.y > 8 * p.viewport

Fits(p) == p.y <= ScrollRange(p.height, p.viewport)
Page == {p \in [y: Position, height: Height, viewport: Viewport] : Fits(p)}

update_once(p) == [frame |-> TRUE, asked |-> FALSE, grown |-> FALSE,
                   visible |-> showBackToTop(p), ring |-> scrollProgress(p)]

update(p) == [frame |-> FALSE, asked |-> FALSE, grown |-> FALSE,
              visible |-> showBackToTop(p), ring |-> scrollProgress(p)]
-----------------------------------------------------------------------------
(* scroll-lock.ts on a lock l and a scroller s.                            *)

registerScroller_running(l) == [stopped |-> FALSE]

registerScroller(l) == [stopped |-> l.locks > 0]

Stopped(s, value) == IF s = None THEN None ELSE [stopped |-> value]

lockScroll(l) == [locks |-> l.locks + 1, class |-> TRUE]

unlockScroll(l) ==
  LET left == IF l.locks > 0 THEN l.locks - 1 ELSE 0
  IN [locks |-> left, class |-> l.class /\ left > 0]

\* Stopping or destroying Lenis ends its animation.
GlideWithout == IF glide = "smooth" THEN "no" ELSE glide

Lock ==
  /\ lock' = lockScroll(lock)
  /\ lenis' = Stopped(lenis, TRUE)
  /\ glide' = GlideWithout

Unlock ==
  /\ lock' = unlockScroll(lock)
  /\ lenis' = IF lock'.locks > 0 THEN lenis ELSE Stopped(lenis, FALSE)
  /\ UNCHANGED glide
-----------------------------------------------------------------------------
(* The menus.                                                              *)

Queue(before, after) ==
  [m \in Menu |-> IF (m \in before) = (m \in after) THEN toggles[m]
                  ELSE IF m \in after THEN "open" ELSE "closed"]

Show(menus) ==
  /\ open' = menus
  /\ toggles' = Queue(open, menus)
  /\ UNCHANGED <<mounted, locked, lock, lenis, media, scrollVars>>

\* A menu's button; an auto popover closes the others.
PopoverTarget(m) == mounted /\ Show(IF m \in open THEN {} ELSE {m})

\* Escape, a click beside the menu, its close button or one of its links.
Dismiss == mounted /\ open # {} /\ Show({})

Locks_again(e) == e = "open"

Locks(e) == e = "open" /\ ~locked
Unlocks(e) == e = "closed" /\ locked

onToggle ==
  LET e == toggles[Mobile] IN
  \/ Locks(e) /\ locked' = TRUE /\ Lock
  \/ Unlocks(e) /\ locked' = FALSE /\ Unlock
  \/ ~Locks(e) /\ ~Unlocks(e) /\ UNCHANGED <<locked, lock, lenis, glide>>

Toggle(m) ==
  /\ mounted /\ toggles[m] # None
  /\ toggles' = [toggles EXCEPT ![m] = None]
  /\ IF m = Mobile THEN onToggle ELSE UNCHANGED <<locked, lock, lenis, glide>>
  /\ UNCHANGED <<mounted, open, media, page, moved, button>>
-----------------------------------------------------------------------------
(* useSmoothScroll.                                                        *)

Prefer ==
  /\ media' = [reduced |-> ~media.reduced, queued |-> TRUE]
  /\ UNCHANGED <<mounted, menuVars, lock, lenis, scrollVars>>

sync(reduced, s, l) ==
  IF reduced THEN None ELSE IF s # None THEN s ELSE registerScroller(l)

SyncMotion ==
  /\ mounted /\ media.queued
  /\ media' = [media EXCEPT !.queued = FALSE]
  /\ lenis' = sync(media.reduced, lenis, lock)
  /\ glide' = IF lenis' = None THEN GlideWithout ELSE glide
  /\ UNCHANGED <<mounted, menuVars, lock, page, moved, button>>
-----------------------------------------------------------------------------
(* Scrolling.                                                              *)

Scrollable == IF lenis = None THEN ~lock.class ELSE ~lenis.stopped

Move(p) ==
  /\ page' = p
  /\ moved' = TRUE
  /\ UNCHANGED <<mounted, menuVars, lock, lenis, media, button>>

\* The visitor's wheel or finger.
Scroll ==
  /\ mounted /\ Scrollable
  /\ \E y \in Position \ {page.y} :
       LET p == [page EXCEPT !.y = y] IN Fits(p) /\ Move(p)
  /\ glide' = "no"

\* The browser moves what is left of a native scroll whatever is locked.
Glide ==
  /\ mounted /\ glide # "no"
  /\ \E y \in Position :
       /\ y < page.y
       /\ Move([page EXCEPT !.y = y])
       /\ glide' = IF y = 0 THEN "no" ELSE glide

Resize ==
  /\ \E p \in Page :
       /\ p.viewport # page.viewport /\ p.height = page.height
       /\ p.y = IF Fits([p EXCEPT !.y = page.y]) THEN page.y ELSE 0
       /\ Move(p)
  /\ UNCHANGED glide

\* A route is opened, from the menu's top with the menu still shown.
Navigate ==
  /\ mounted
  /\ \E h \in Height :
       LET p == [page EXCEPT !.y = 0, !.height = h] IN
         /\ p # page
         /\ page' = p /\ moved' = (moved \/ page.y > 0)
         /\ button' = [button EXCEPT !.grown = TRUE]
  /\ glide' = "no"
  /\ UNCHANGED <<mounted, menuVars, lock, lenis, media>>

\* The document grows; the browser tells nobody.
Grow ==
  /\ \E h \in Height :
       /\ h > page.height
       /\ page' = [page EXCEPT !.height = h]
  /\ button' = [button EXCEPT !.grown = TRUE]
  /\ UNCHANGED <<mounted, menuVars, lock, lenis, media, glide, moved>>

scrollToY ==
  CASE lenis = None -> "native"
    [] lenis # None /\ ~lenis.stopped -> "smooth"
    [] OTHER -> glide

toTop ==
  /\ mounted /\ button.visible /\ page.y > 0
  /\ glide' = scrollToY
  /\ UNCHANGED <<mounted, menuVars, lock, lenis, media, page, moved, button>>

schedule ==
  /\ mounted /\ moved
  /\ moved' = FALSE
  /\ button' = IF button.frame THEN button ELSE [button EXCEPT !.frame = TRUE, !.asked = TRUE]
  /\ UNCHANGED <<mounted, menuVars, lock, lenis, media, page, glide>>

Frame ==
  /\ mounted /\ button.asked
  /\ button' = update(page)
  /\ UNCHANGED <<mounted, menuVars, lock, lenis, media, page, glide, moved>>
-----------------------------------------------------------------------------
(* The layout.                                                             *)

Release_none(l) == l

Release(l) == IF locked THEN unlockScroll(l) ELSE l

\* The effects of the layout are cleaned up; its popovers go without an event.
Unmount ==
  /\ mounted
  /\ mounted' = FALSE
  /\ open' = {} /\ toggles' = [m \in Menu |-> None]
  /\ lock' = Release(lock) /\ locked' = FALSE
  /\ lenis' = None /\ glide' = GlideWithout
  /\ button' = [button EXCEPT !.frame = FALSE, !.asked = FALSE]
  /\ media' = [media EXCEPT !.queued = FALSE] /\ moved' = FALSE
  /\ UNCHANGED page

Mount ==
  /\ ~mounted
  /\ mounted' = TRUE
  /\ lenis' = sync(media.reduced, None, lock)
  /\ button' = update(page)
  /\ media' = [media EXCEPT !.queued = FALSE] /\ moved' = FALSE
  /\ UNCHANGED <<open, toggles, locked, lock, page, glide>>

PageInit ==
  /\ \E reduced \in BOOLEAN :
       /\ media = [reduced |-> reduced, queued |-> FALSE]
       /\ lenis = sync(reduced, None, [locks |-> 0])
  /\ mounted = TRUE
  /\ open = {} /\ toggles = [m \in Menu |-> None]
  /\ locked = FALSE /\ lock = [locks |-> 0, class |-> FALSE]
  /\ page \in {p \in Page : p.y = 0}
  /\ glide = "no" /\ moved = FALSE
  /\ button = update(page)

PageNext ==
  \/ \E m \in Menu : PopoverTarget(m) \/ Toggle(m)
  \/ Dismiss \/ Prefer \/ SyncMotion
  \/ Scroll \/ Glide \/ Resize \/ Navigate \/ Grow \/ toTop \/ schedule \/ Frame
  \/ Unmount \/ Mount

PageSpec == PageInit /\ [][PageNext]_pageVars
-----------------------------------------------------------------------------
\* The types of the layout's state.
PageTypeOK ==
  /\ mounted \in BOOLEAN /\ locked \in BOOLEAN /\ moved \in BOOLEAN
  /\ open \subseteq Menu /\ Cardinality(open) <= 1
  /\ toggles \in [Menu -> {None, "open", "closed"}]
  /\ lock \in [locks: 0 .. 1, class: BOOLEAN]
  /\ lenis \in [stopped: BOOLEAN] \cup {None}
  /\ media \in [reduced: BOOLEAN, queued: BOOLEAN]
  /\ page \in Page /\ glide \in {"no", "smooth", "native"}
  /\ button.frame \in BOOLEAN /\ button.visible \in BOOLEAN

\* lockScroll, unlockScroll and registerScroller: once the phone's menu has heard
\* of its last toggle, the page is locked exactly if the menu is open, and no
\* scroller stays stopped.  After the layout is gone the page is free.
LockFollowsMenu ==
  toggles[Mobile] = None =>
    /\ lock.class = (Mobile \in open)
    /\ lenis # None /\ lenis.stopped => lock.class

\* Behind an open menu neither the visitor nor Lenis scrolls the page, a Lenis that
\* was started while the menu was open included (registerScroller); a native scroll
\* that is under way, a new window size and a new route are the only exceptions.
LockedPageStays ==
  [][lock.class /\ lock'.class /\ page'.y # page.y =>
       glide = "native" \/ page'.viewport # page.viewport \/ page'.y = 0]_pageVars

\* useBackToTop's frame flag lets no scroll be lost: once every event and frame has
\* come, the button and its ring show the page as it is, or as it was before it grew.
ButtonFollowsPage ==
  mounted /\ ~moved /\ ~button.asked =>
    /\ button.visible = showBackToTop(page)
    /\ button.ring = scrollProgress(page) \/ button.grown
=============================================================================
